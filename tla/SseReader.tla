----------------------------- MODULE SseReader -----------------------------
(***************************************************************************)
(* The wire format of server-sent events: ReadCloser.Next                  *)
(* (internal/sse/read_closer.go) and Event.Encode and Event.Write          *)
(* (internal/sse/event.go).                                                *)
(*                                                                         *)
(* A line is a field with its value, or its number for a retry; the blank  *)
(* line, a comment and a retry that is no number ("skipped") are fields of *)
(* their own.  Data is the sequence of its lines.  Retry is in half        *)
(* milliseconds, so that the conversion to whole ones can lose some.       *)
(***************************************************************************)
EXTENDS Naturals, Sequences, FiniteSets

CONSTANTS
  Values,    \* values of id, event and data fields
  Texts,     \* values of Event.Data, each the sequence of its lines
  Intervals, \* values of Event.Retry, zero for none
  MaxLines,  \* bound on the lines of a stream somebody else has written
  MaxSent    \* bound on the events written by Write

NoValue == ""
Value   == Values \cup {NoValue}

\* bytes.Split returns at least one line.
ASSUME ReaderConstants ==
  /\ Texts \subseteq Seq(Value) \ {<<>>}
  /\ Intervals \subseteq Nat
  /\ MaxLines \in Nat /\ MaxSent \in Nat

Line(f, v) == [field |-> f, value |-> v, number |-> 0]
RetryOf(n) == [field |-> "retry", value |-> NoValue, number |-> n]
Blank == Line("blank", NoValue)
NoEvent == [id |-> NoValue, name |-> NoValue, data |-> <<>>, retry |-> 0]

Lines ==
  {Blank, Line("skipped", NoValue), RetryOf(1)}
    \cup [field : {"id", "event", "data"}, value : Value, number : {0}]

Events == [id : Value, name : Values, data : Texts, retry : Intervals]

-----------------------------------------------------------------------------
\* Event.Encode; Write sends the same lines one by one.
RetryLine(e) == IF e.retry = 0 THEN <<>> ELSE <<RetryOf(e.retry \div 2)>>

DataLines(e) == [i \in 1..Len(e.data) |-> Line("data", e.data[i])]

Encode(e) ==
  <<Line("id", e.id), Line("event", e.name)>> \o RetryLine(e) \o DataLines(e) \o <<Blank>>

-----------------------------------------------------------------------------
VARIABLES
  sent,       \* history: the events written, and the lines before each
  wire,       \* history: all lines of the stream
  cut,        \* nothing more is written
  lineNo,     \* the number of lines read
  event,      \* the event under construction
  idPresent,
  lastRead,   \* ReadCloser.lastID
  out         \* the events returned

readerVars == <<sent, wire, cut, lineNo, event, idPresent, lastRead, out>>

\* The stream is any short sequence of lines, or what Write will send.
ReaderInit ==
  /\ sent = <<>>
  /\ \/ cut = TRUE /\ wire \in UNION {[1..n -> Lines] : n \in 0..MaxLines}
     \/ cut = FALSE /\ wire = <<>>
  /\ lineNo = 0 /\ event = NoEvent /\ idPresent = FALSE /\ lastRead = NoValue
  /\ out = <<>>

\* Event.Write, which stops at the first line that fails; the connection is
\* then over.
Write(e) ==
  /\ ~cut
  /\ Len(sent) < MaxSent
  /\ sent' = Append(sent, [event |-> e, before |-> Len(wire)])
  /\ \E n \in 0..Len(Encode(e)) :
       /\ wire' = wire \o SubSeq(Encode(e), 1, n)
       /\ cut' = (n < Len(Encode(e)))
  /\ UNCHANGED <<lineNo, event, idPresent, lastRead, out>>

Read == lineNo < Len(wire) /\ lineNo' = lineNo + 1 /\ UNCHANGED <<sent, wire, cut>>
Current == wire[lineNo + 1]

\* Mutation: an event does not take over the last ID.
DispatchDropsID ==
  /\ Read /\ Current.field = "blank" /\ event.data # <<>>
  /\ lastRead' = IF idPresent THEN event.id ELSE lastRead
  /\ out' = Append(out, event)
  /\ event' = NoEvent /\ idPresent' = FALSE

\* The empty line ends an event and the call; the next call starts a new one.
Dispatch ==
  /\ Read /\ Current.field = "blank" /\ event.data # <<>>
  /\ lastRead' = IF idPresent THEN event.id ELSE lastRead
  /\ out' = Append(out, event)
  /\ event' = [NoEvent EXCEPT !.id = lastRead'] /\ idPresent' = FALSE

\* Comments, unknown fields, a retry that is no number, and an empty line with
\* no data before it, which keeps the fields read so far.
Skip ==
  /\ Read
  /\ \/ Current.field = "blank" /\ event.data = <<>>
     \/ Current.field = "skipped"
  /\ UNCHANGED <<event, idPresent, lastRead, out>>

SetField ==
  /\ Read
  /\ \/ /\ Current.field = "id"
        /\ event' = [event EXCEPT !.id = Current.value] /\ idPresent' = TRUE
     \/ /\ Current.field = "event"
        /\ event' = [event EXCEPT !.name = Current.value] /\ UNCHANGED idPresent
     \/ /\ Current.field = "data"
        /\ event' = [event EXCEPT !.data = Append(@, Current.value)] /\ UNCHANGED idPresent
     \/ /\ Current.field = "retry"
        /\ event' = [event EXCEPT !.retry = 2 * Current.number] /\ UNCHANGED idPresent
  /\ UNCHANGED <<lastRead, out>>

ReaderNext == Dispatch \/ Skip \/ SetField \/ \E e \in Events : Write(e)

ReaderSpec == ReaderInit /\ [][ReaderNext]_readerVars

-----------------------------------------------------------------------------
AnyLine  == [field : {"blank", "skipped", "id", "event", "data"}, value : Value, number : {0}]
              \cup [field : {"retry"}, value : {NoValue}, number : Nat]
AnyEvent == [id : Value, name : Value, data : Seq(Value), retry : Nat]

ReaderTypeOK ==
  /\ sent \in Seq([event : Events, before : Nat])
  /\ wire \in Seq(AnyLine)
  /\ cut \in BOOLEAN
  /\ lineNo \in 0..Len(wire)
  /\ event \in AnyEvent
  /\ idPresent \in BOOLEAN /\ lastRead \in Value
  /\ out \in Seq(AnyEvent)

\* Line l is the last of its field among lines j + 1 to i - 1 of w; it is empty
\* if there is none.
Latest(w, j, i, l) ==
  \/ l = Line(l.field, NoValue) /\ \A n \in (j + 1)..(i - 1) : w[n].field # l.field
  \/ \E n \in (j + 1)..(i - 1) :
       w[n] = l /\ \A m \in (n + 1)..(i - 1) : w[m].field # l.field

\* Blank lines that end an event: some data since the blank line before.
EndsEvent(w, i) ==
  /\ w[i].field = "blank"
  /\ \E n \in 1..(i - 1) :
       w[n].field = "data" /\ \A m \in (n + 1)..(i - 1) : w[m].field # "blank"

Ends(w, i) == {n \in 1..i : EndsEvent(w, n)}

Data(w, j, i) == {n \in (j + 1)..i : w[n].field = "data"}

\* The last name of an event after line j and before line i stands before a blank
\* line: one without data, if no event ends between the two.
NameBeforeBlank(w, j, i) ==
  \E n \in (j + 1)..(i - 1) :
    /\ w[n].field = "event" /\ \A m \in (n + 1)..(i - 1) : w[m].field # "event"
    /\ \E m \in (n + 1)..(i - 1) : w[m].field = "blank"

\* The event that ends with line i when the one before it ended with line j: an
\* ID holds for all events after it.  A name before a blank line without data is
\* left out: the specification of server-sent events drops it there.
Says(w, j, i, e) ==
  /\ Latest(w, 0, i, Line("id", e.id))
  /\ NameBeforeBlank(w, j, i) \/ Latest(w, j, i, Line("event", e.name))
  /\ \E n \in 0..e.retry : e.retry = 2 * n /\ Latest(w, j, i, RetryOf(n))
  /\ Len(e.data) = Cardinality(Data(w, j, i - 1))
  /\ \A n \in Data(w, j, i - 1) : e.data[Cardinality(Data(w, j, n))] = w[n].value

\* The lines read so far were read as the last line of each field says, one
\* event for each blank line that ends one.
ReadAsWritten ==
  /\ Len(out) = Cardinality(Ends(wire, lineNo))
  /\ \A i \in Ends(wire, lineNo) :
       \E j \in {0} \cup Ends(wire, i - 1) :
         /\ \A n \in (j + 1)..(i - 1) : ~EndsEvent(wire, n)
         /\ Says(wire, j, i, out[Cardinality(Ends(wire, i))])

\* What Write has sent comes back as it was (retry in whole milliseconds), in
\* order, an event cut off by a failing Write not at all.
WrittenComesBack ==
  /\ Len(out) <= Len(sent)
  /\ \A k \in 1..Len(out) : out[k] = [sent[k].event EXCEPT !.retry = 2 * (@ \div 2)]
  /\ lineNo = Len(wire) /\ ~cut => Len(out) = Len(sent)

\* Every stream of lines is read as its lines say, and Next undoes Write.  (Of the
\* one case in which the reader and the specification differ see NamedAsSpecified.)
ReadsWhatWasWritten == ReadAsWritten /\ (sent # <<>> => WrittenComesBack)

\* "event had no data; skip it per the spec" (read_closer.go:70-72): a blank line
\* without data before it drops the name read so far, as the specification of
\* server-sent events has it, so that an event is named by the lines after the last
\* blank line.
NamedAsSpecified ==
  \A i \in Ends(wire, lineNo) : \E j \in 0..(i - 1) :
    /\ j = 0 \/ wire[j].field = "blank"
    /\ \A n \in (j + 1)..(i - 1) : wire[n].field # "blank"
    /\ Latest(wire, j, i, Line("event", out[Cardinality(Ends(wire, i))].name))

=============================================================================
