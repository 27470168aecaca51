---------------------------- MODULE EventSource ----------------------------
(***************************************************************************)
(* The SSE client internal/sse/event_source.go: one goroutine calls        *)
(* Connect and then Next in a loop, another may call Close at any time.    *)
(*                                                                         *)
(* Events are their numbers.  The server (external) numbers them, resumes  *)
(* after the Last-Event-ID it is given and otherwise starts at some event  *)
(* not sent before.  An event's ID is its number, or absent: Unnamed.      *)
(***************************************************************************)
EXTENDS Naturals

CONSTANTS
  MaxRetries,  \* RetryParams.MaxRetries, 0 for no limit
  Width,       \* 2^16 in the code: connectionRetries is a uint16
  MaxEvents,   \* bound on the events of the server
  MaxConns,    \* bound on the connections opened
  Unnamed,     \* events sent without an id field
  Retries      \* what retry fields ask for: subset of {"absent", "none", "some"}

ASSUME EventSourceConstants ==
  /\ Width \in Nat \ {0} /\ MaxRetries \in 0..(Width - 1)
  /\ MaxEvents \in Nat /\ MaxConns \in Nat
  /\ Unnamed \subseteq 1..MaxEvents
  /\ Retries \subseteq {"absent", "none", "some"}

None == 0
Conns == 1..MaxConns

VARIABLES
  pc,           \* where the reading goroutine is
  caller,       \* establishConnection is called by "Connect" or by "Next"
  closed,       \* the channel closed is closed
  current,      \* currentReadCloser
  held,         \* readCloser of Next, newReadCloser of ensureReadCloser
  conns,        \* [Conns -> {"unused", "open", "eof", "closed"}]
  pos,          \* [Conns -> the next event of the connection]
  lastID,       \* [Conns -> ReadCloser.lastID]
  retries,      \* connectionRetries
  interval,     \* retryInterval: "none" (zero or negative) or "some"
  lastEventID,
  answer,       \* the last answer to a request
  result,       \* what Next returned last: "none", "event" or "error"
  returned,     \* history: the last event Next returned
  late          \* history: requests sent after Close, counted up to two

readVars == <<pc, caller, held, result>>
connVars == <<conns, pos, lastID>>
vars == <<readVars, connVars, closed, current, retries, interval,
          lastEventID, answer, returned, late>>

Init ==
  /\ pc = "new" /\ caller = "Connect" /\ held = None /\ result = "none"
  /\ closed = FALSE /\ current = None
  /\ conns = [c \in Conns |-> "unused"]
  /\ pos = [c \in Conns |-> 1]
  /\ lastID = [c \in Conns |-> 0]
  /\ retries = 0 /\ interval \in {"none", "some"}
  /\ lastEventID = 0 /\ answer = "none" /\ returned = 0 /\ late = 0

SetConn(c, s) == conns' = [conns EXCEPT ![c] = s]

\* Next returns to its caller; a failing Connect leaves no source behind.
ReturnError ==
  /\ pc' = IF caller = "Connect" THEN "failed" ELSE "idle"
  /\ held' = None /\ result' = "error" /\ UNCHANGED caller

-----------------------------------------------------------------------------
\* establishConnection

CountLate == IF closed /\ late < 2 THEN late + 1 ELSE late

StartRequests(who) ==
  /\ pc' = "request" /\ caller' = who /\ held' = None /\ UNCHANGED result
  /\ retries' = 0
  /\ late' = CountLate

\* Mutation: the retries are never counted up to the limit.
shouldRetryAlways(n) == n >= 0

shouldRetry(n) == MaxRetries = 0 \/ n <= MaxRetries

\* waitForRetry: the connection is forgotten, then the timer or closed ends the wait.
ForgetAndWait(l) ==
  /\ current' = None
  /\ pc' = l /\ UNCHANGED <<caller, held, result>>

RequestFails ==
  /\ pc = "request"
  /\ answer' = "error"
  /\ retries' = (retries + 1) % Width
  /\ \/ shouldRetry(retries') /\ ForgetAndWait("waitRequest")
     \/ ~shouldRetry(retries') /\ ReturnError /\ UNCHANGED current
  /\ UNCHANGED <<connVars, closed, interval, lastEventID, returned, late>>

\* 500, 502, 503 and 504 are tried again and not counted.
ServerBusy ==
  /\ pc = "request"
  /\ answer' = "busy"
  /\ ForgetAndWait("waitRequest")
  /\ UNCHANGED <<connVars, closed, retries, interval, lastEventID, returned, late>>

BadResponse ==
  /\ pc = "request"
  /\ answer' = "bad"
  /\ ReturnError
  /\ UNCHANGED <<connVars, closed, current, retries, interval, lastEventID, returned, late>>

\* Mutation: the request names the event after the last one.
FirstEventsSkipOne == {lastEventID + 2}

\* Mutation: the request does not carry the ID of the last event.
FirstEventsWithoutHeader == (returned + 1)..(MaxEvents + 1)

FirstEvents == IF lastEventID # 0 THEN {lastEventID + 1}
               ELSE (returned + 1)..(MaxEvents + 1)

Accepted ==
  /\ pc = "request"
  /\ answer' = "ok"
  /\ \E c \in Conns, first \in FirstEvents :
       /\ \A d \in Conns : (conns[d] = "unused") <=> (d >= c)
       /\ SetConn(c, "open")
       /\ pos' = [pos EXCEPT ![c] = first]
       /\ lastID' = [lastID EXCEPT ![c] = 0]
       /\ \/ /\ caller = "Next"
             /\ pc' = "install" /\ held' = c
             /\ UNCHANGED <<caller, current, result>>
          \/ /\ caller = "Connect"
             /\ pc' = "idle" /\ current' = c
             /\ UNCHANGED <<caller, held, result>>
  /\ UNCHANGED <<closed, retries, interval, lastEventID, returned, late>>

\* Mutation: the wait does not look at closed.
WaitElapsedBlindly ==
  /\ pc \in {"waitRequest", "waitRead"}
  /\ \/ pc = "waitRequest" /\ pc' = "request"
        /\ late' = CountLate
     \/ pc = "waitRead" /\ pc' = "ensure" /\ UNCHANGED late
  /\ UNCHANGED <<caller, held, result, connVars, closed, current, retries, interval,
                 lastEventID, answer, returned>>

\* The timer, which can only win against an earlier Close when it never waits.
WaitElapsed ==
  /\ pc \in {"waitRequest", "waitRead"}
  /\ ~closed \/ interval = "none"
  /\ \/ pc = "waitRequest" /\ pc' = "request"
        /\ late' = CountLate
     \/ pc = "waitRead" /\ pc' = "ensure" /\ UNCHANGED late
  /\ UNCHANGED <<caller, held, result, connVars, closed, current, retries, interval,
                 lastEventID, answer, returned>>

WaitClosed ==
  /\ pc \in {"waitRequest", "waitRead"} /\ closed
  /\ ReturnError
  /\ UNCHANGED <<connVars, closed, current, retries, interval, lastEventID,
                 answer, returned, late>>

-----------------------------------------------------------------------------
\* Connect and Next

Connect ==
  /\ pc = "new"
  /\ StartRequests("Connect")
  /\ UNCHANGED <<connVars, closed, current, interval, lastEventID, answer, returned>>

\* The first select of Next; a closed source returns at once.
NextBegins ==
  /\ pc = "idle" /\ ~closed
  /\ pc' = "ensure" /\ caller' = "Next" /\ result' = "none" /\ UNCHANGED held
  /\ UNCHANGED <<connVars, closed, current, retries, interval, lastEventID,
                 answer, returned, late>>

\* ensureReadCloser, up to the first Unlock.
UseCurrent ==
  /\ pc = "ensure" /\ current # None
  /\ pc' = "read" /\ held' = current /\ UNCHANGED <<caller, result>>
  /\ UNCHANGED <<connVars, closed, current, retries, interval, lastEventID,
                 answer, returned, late>>

NeedConnection ==
  /\ pc = "ensure" /\ current = None
  /\ StartRequests("Next")
  /\ UNCHANGED <<connVars, closed, current, interval, lastEventID, answer, returned>>

\* Mutation: the new connection is installed without looking at closed again.
InstallUnchecked ==
  /\ pc = "install"
  /\ current' = held /\ pc' = "read"
  /\ UNCHANGED <<conns, caller, held, result>>
  /\ UNCHANGED <<pos, lastID, closed, retries, interval, lastEventID, answer, returned, late>>

\* ensureReadCloser after the second Lock.
Install ==
  /\ pc = "install"
  /\ \/ /\ closed
        /\ SetConn(held, "closed")
        /\ ReturnError /\ UNCHANGED current
     \/ /\ ~closed
        /\ current' = held /\ pc' = "read"
        /\ UNCHANGED <<conns, caller, held, result>>
  /\ UNCHANGED <<pos, lastID, closed, retries, interval, lastEventID, answer, returned, late>>

\* ReadCloser.Next: an event without an id has the last one of its connection.
EventID(e, c) == IF e \in Unnamed THEN lastID[c] ELSE e

\* The reader can hold events of a connection that was closed in the meantime.
ReadEvent ==
  /\ pc = "read" /\ conns[held] \in {"open", "closed"}
  /\ pos[held] <= MaxEvents
  /\ LET e == pos[held] IN
       /\ lastEventID' = EventID(e, held)
       /\ lastID' = [lastID EXCEPT ![held] = EventID(e, held)]
       /\ returned' = e
       /\ pos' = [pos EXCEPT ![held] = e + 1]
  /\ \E r \in Retries : interval' = IF r = "absent" THEN interval ELSE r
  /\ pc' = "idle" /\ held' = None /\ result' = "event"
  /\ UNCHANGED <<caller, conns, closed, current, retries, answer, late>>

\* io.EOF: the connection stays where it is and ends every later Next too.
ReadEOF ==
  /\ pc = "read" /\ conns[held] \in {"open", "eof"}
  /\ SetConn(held, "eof")
  /\ pos' = [pos EXCEPT ![held] = MaxEvents + 1]
  /\ ReturnError
  /\ UNCHANGED <<lastID, closed, current, retries, interval, lastEventID,
                 answer, returned, late>>

\* Any other error: readCloser.Close(), outside the lock.
ReadError ==
  /\ pc = "read" /\ conns[held] \in {"open", "closed"}
  /\ SetConn(held, "closed")
  /\ pc' = "dropped" /\ UNCHANGED <<caller, held, result>>
  /\ UNCHANGED <<pos, lastID, closed, current, retries, interval, lastEventID,
                 answer, returned, late>>

WaitToReconnect ==
  /\ pc = "dropped"
  /\ ForgetAndWait("waitRead")
  /\ UNCHANGED <<connVars, closed, retries, interval, lastEventID, answer, returned, late>>

-----------------------------------------------------------------------------
CurrentLive == current # None /\ conns[current] # "closed"
Connected == caller = "Next" \/ pc = "idle"

\* Close of the current connection fails if Next has just closed it; it is then kept.
Close ==
  /\ Connected
  /\ closed' = TRUE
  /\ \/ /\ CurrentLive
        /\ SetConn(current, "closed") /\ current' = None
     \/ /\ ~CurrentLive
        /\ UNCHANGED <<conns, current>>
  /\ UNCHANGED <<readVars, pos, lastID, retries, interval, lastEventID, answer, returned, late>>

Establish == RequestFails \/ ServerBusy \/ BadResponse \/ Accepted
Waiting == WaitElapsed \/ WaitClosed
Reading == ReadEvent \/ ReadEOF \/ ReadError
Local == NeedConnection \/ UseCurrent \/ Install \/ WaitToReconnect \/ Waiting

Next == Connect \/ Establish \/ Local \/ NextBegins \/ Reading \/ Close

\* The goroutine runs, timers fire, and a request has some answer.
Spec == Init /\ [][Next]_vars /\ WF_vars(Local) /\ WF_vars(Establish)

-----------------------------------------------------------------------------
Errors == {"dropped", "waitRead", "waitRequest"}

TypeOK ==
  /\ pc \in {"new", "idle", "failed", "request", "ensure", "install", "read"} \cup Errors
  /\ caller \in {"Connect", "Next"}
  /\ held \in Conns \cup {None} /\ current \in Conns \cup {None}
  /\ closed \in BOOLEAN /\ result \in {"none", "event", "error"}
  /\ conns \in [Conns -> {"unused", "open", "eof", "closed"}]
  /\ pos \in [Conns -> 1..(MaxEvents + 1)]
  /\ lastID \in [Conns -> 0..MaxEvents]
  /\ retries \in 0..(Width - 1)
  /\ interval \in {"none", "some"}
  /\ lastEventID \in 0..MaxEvents /\ returned \in 0..MaxEvents
  /\ answer \in {"none", "error", "busy", "bad", "ok"}
  /\ late \in 0..2

\* A connection that is still open is the current one or the one Next is about
\* to install: Close and Next together never lose an open connection, wherever
\* Close falls between the two critical sections of ensureReadCloser.
NoLeak ==
  /\ \A c \in Conns : conns[c] = "open" => c = current \/ (pc = "install" /\ c = held)
  /\ closed => ~CurrentLive

\* A Next that is running when the source is closed sends at most one more
\* request, unless the retry interval is zero: waitForRetry then chooses
\* between two ready channels.
AtMostOneRequestAfterClose == late > 1 => interval = "none"

\* The loop of establishConnection ends unless the server keeps answering 5xx,
\* which is retried without counting: connection errors are counted to
\* MaxRetries, and then Connect or Next returns.
GivesUp ==
  []<>(pc \notin {"request", "waitRequest"}) \/ []<>(answer = "busy")

\* The source returns the events in order: one after the other on a connection,
\* and from the one after the ID it has kept once it has reconnected, so that
\* none is missing while it has an ID and only events without one come twice;
\* nothing after its end or its Close but the event a running Next had read.
Source == INSTANCE SourceSpec WITH
  last  <- lastEventID,
  phase <- IF closed THEN (IF pc = "idle" THEN "closed" ELSE "closing")
           ELSE IF \E c \in Conns : conns[c] = "eof" THEN "ended" ELSE "open"

InOrderSource == Source!Spec

=============================================================================
