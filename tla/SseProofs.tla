----------------------------- MODULE SseProofs -----------------------------
(***************************************************************************)
(* Proofs about EventSource and the loops around it, for any number of     *)
(* events, connections and retries: type correctness, that no connection   *)
(* is lost however Close and Next interleave, that reconnects resume where *)
(* the ID kept allows (SourceSpec) and are invisible if all events have    *)
(* one, that a closed source makes one more request at most, and that a    *)
(* loop that has ended holds nothing; about the reader, for any lines and  *)
(* any events written: every stream is read as its lines say, and Next     *)
(* undoes Write; and that MCSse runs the one and the other.                *)
(***************************************************************************)
EXTENDS MCSse, SequenceTheorems, FiniteSetTheorems, TLAPS

\* While a connection is sought there is no current one, only Next gets past
\* Connect's own request, and nobody can close a source Connect has not returned.
Seeking ==
  /\ pc \in {"new", "failed", "request", "waitRequest", "waitRead", "install"} => current = None
  /\ pc \in {"ensure", "read", "install", "dropped", "waitRead"} => caller = "Next"
  /\ pc \in {"new", "failed"} => caller = "Connect"
  /\ caller = "Connect" /\ pc # "idle" => ~closed

\* Next reads from the current connection, unless Close has taken it away.
Holding ==
  /\ pc \in {"read", "install", "dropped"} => held # None
  /\ pc \in {"read", "dropped"} => current \in {held, None}
  /\ pc = "read" /\ ~closed => current = held
  /\ pc = "dropped" => conns[held] = "closed"

\* A connection at its end stays the current one until the source is closed.
EndIsFinal ==
  \A c \in Conns : ~closed /\ conns[c] = "eof"
                     => current = c /\ pc \in {"idle", "ensure", "read"}

NoneOpen == \A c \in Conns : conns[c] # "open"

\* When Next has returned an error no connection is open.
ErrorsRelease ==
  /\ pc = "idle" /\ result = "error" => NoneOpen
  /\ caller = "Connect" /\ pc # "failed" => result = "none"

SourceInv == Seeking /\ Holding /\ EndIsFinal /\ ErrorsRelease /\ NoLeak

\* The connection Next reads from or will read from is at an event that may
\* follow the last one returned, and an ID it has seen is the one kept.
InStep ==
  \A c \in Conns :
    c = current \/ (pc \in {"install", "read"} /\ c = held)
    => /\ pos[c] <= MaxEvents => Source!Follows(pos[c])
       /\ lastID[c] \in {lastEventID, 0}

\* The events returned since the one whose ID is kept have none.
Kept ==
  lastEventID # 0 => /\ lastEventID <= returned
                     /\ \A e \in 1..returned : e > lastEventID => e \in Unnamed

\* An event that Next reads comes after every event with an ID among those up
\* to the last one returned: reconnects repeat only events without an ID.
NumberedOnce == [][ReadEvent => \A e \in (1..returned) \ Unnamed : returned' > e]_vars

\* While an ID is kept no event is skipped.
NoneMissed == [][ReadEvent /\ lastEventID # 0 => returned' <= returned + 1]_vars

\* The next event is the one after the last.
OneByOne == [][ReadEvent => returned = 0 \/ returned' = returned + 1]_vars

\* A loop that has ended, or is about to, is not in a call of its source.
LoopInv ==
  /\ at \in {"done", "sendError"} => pc \in {"idle", "failed"}
  /\ at = "sendError" => NoneOpen
  /\ EndedLoopReleases

-----------------------------------------------------------------------------
\* The loops take only steps of the source they use: what holds of the source
\* alone holds under each of them.
LEMMA LoopStep == LoopsNext \/ UNCHANGED allVars => Next \/ UNCHANGED vars
<1> SUFFICES ASSUME LoopsNext \/ UNCHANGED allVars PROVE Next \/ UNCHANGED vars
  OBVIOUS
<1>1. CASE LoopConnect
  BY <1>1 DEF LoopConnect, Next
<1>2. CASE CtxCancel \/ HandleEvent \/ SendParsed \/ HandleError
  BY <1>2 DEF CtxCancel, HandleEvent, SendParsed, HandleError
<1>3. CASE StopOnContext \/ UserCloses \/ SendErrorEvent
  BY <1>3 DEF StopOnContext, UserCloses, SendErrorEvent, Next
<1>4. CASE CallNext
  BY <1>4 DEF CallNext, Next
<1>5. CASE Library
  BY <1>5 DEF Library, Next
<1>6. CASE UNCHANGED allVars
  BY <1>6 DEF allVars
<1> QED
  BY <1>1, <1>2, <1>3, <1>4, <1>5, <1>6 DEF LoopsNext

-----------------------------------------------------------------------------
\* What Next, and a failing Connect, hold when they return an error.
LEMMA ReturnErrorType ==
  ASSUME ReturnError
  PROVE  pc' \in {"idle", "failed"} /\ held' = None /\ result' = "error" /\ caller' = caller
BY DEF ReturnError

\* Every step of the source keeps the types.
LEMMA TypeStep ==
  ASSUME TypeOK, Seeking, Holding, Next \/ UNCHANGED vars
  PROVE  TypeOK'
<1> USE EventSourceConstants DEF TypeOK, Errors, None
<1>1. CASE Connect
  BY <1>1 DEF Connect, StartRequests, CountLate, connVars
<1>2. CASE RequestFails
  <2>1. retries' \in 0 .. (Width - 1)
    BY <1>2 DEF RequestFails
  <2>2. CASE ForgetAndWait("waitRequest")
    BY <1>2, <2>1, <2>2 DEF RequestFails, ForgetAndWait, connVars
  <2>3. CASE ReturnError /\ UNCHANGED current
    BY <1>2, <2>1, <2>3, ReturnErrorType DEF RequestFails, connVars
  <2> QED
    BY <1>2, <2>2, <2>3 DEF RequestFails
<1>3. CASE ServerBusy
  BY <1>3 DEF ServerBusy, ForgetAndWait, connVars
<1>4. CASE BadResponse
  <2>1. ReturnError
    BY <1>4 DEF BadResponse
  <2>2. /\ pc' \in {"idle", "failed"} /\ held' = None /\ result' = "error" /\ caller' = caller
    BY <2>1, ReturnErrorType
  <2> QED
    BY <1>4, <2>2 DEF BadResponse, connVars
<1>5. CASE Accepted
  <2> PICK c \in Conns, first \in FirstEvents :
        /\ SetConn(c, "open")
        /\ pos' = [pos EXCEPT ![c] = first]
        /\ lastID' = [lastID EXCEPT ![c] = 0]
        /\ \/ /\ caller = "Next"
              /\ pc' = "install" /\ held' = c
              /\ UNCHANGED <<caller, current, result>>
           \/ /\ caller = "Connect"
              /\ pc' = "idle" /\ current' = c
              /\ UNCHANGED <<caller, held, result>>
    BY <1>5 DEF Accepted
  <2>1. first \in 1 .. (MaxEvents + 1)
    BY DEF FirstEvents
  <2> QED
    BY <1>5, <2>1 DEF Accepted, SetConn
<1>6. CASE Waiting
  <2>1. CASE WaitElapsed
    BY <2>1 DEF WaitElapsed, CountLate, connVars
  <2>2. CASE WaitClosed
    BY <2>2, ReturnErrorType DEF WaitClosed, connVars
  <2> QED
    BY <1>6, <2>1, <2>2 DEF Waiting
<1>7. CASE NextBegins \/ UseCurrent \/ WaitToReconnect
  BY <1>7 DEF NextBegins, UseCurrent, WaitToReconnect, ForgetAndWait, connVars
<1>8. CASE NeedConnection
  BY <1>8 DEF NeedConnection, StartRequests, CountLate, connVars
<1>9. CASE Install
  <2>1. CASE closed
    BY <1>9, <2>1, ReturnErrorType DEF Install, SetConn
  <2>2. CASE ~closed
    BY <1>9, <2>2 DEF Install
  <2> QED
    BY <2>1, <2>2
<1>10. CASE ReadEvent
  <2>1. held \in Conns
    BY <1>10 DEF ReadEvent, Holding
  <2>2. EventID(pos[held], held) \in 0 .. MaxEvents /\ pos[held] \in 1 .. MaxEvents
    BY <1>10, <2>1 DEF ReadEvent, EventID
  <2>3. interval' \in {"none", "some"}
    BY <1>10 DEF ReadEvent
  <2> QED
    BY <1>10, <2>1, <2>2, <2>3 DEF ReadEvent
<1>11. CASE ReadEOF
  <2>1. pc' \in {"idle", "failed"} /\ held' = None /\ result' = "error" /\ caller' = caller
    BY <1>11, ReturnErrorType DEF ReadEOF
  <2>2. /\ conns' \in [Conns -> {"unused", "open", "eof", "closed"}]
        /\ pos' \in [Conns -> 1 .. (MaxEvents + 1)]
    BY <1>11, MaxEvents + 1 \in 1 .. (MaxEvents + 1) DEF ReadEOF, SetConn
  <2> QED
    BY <1>11, <2>1, <2>2 DEF ReadEOF
<1>12. CASE ReadError
  BY <1>12 DEF ReadError, SetConn
<1>13. CASE Close
  BY <1>13 DEF Close, readVars, SetConn
<1>14. CASE UNCHANGED vars
  BY <1>14 DEF vars, readVars, connVars
<1> QED
  BY <1>1, <1>2, <1>3, <1>4, <1>5, <1>6, <1>7, <1>8, <1>9, <1>10, <1>11, <1>12, <1>13, <1>14
     DEF Next, Establish, Local, Reading

-----------------------------------------------------------------------------
\* An error while a connection is sought.
LEMMA FailedRequest ==
  ASSUME TypeOK, SourceInv, ReturnError, UNCHANGED <<conns, closed, current>>,
         pc \in {"request", "waitRequest", "waitRead"}
  PROVE  SourceInv'
<1> USE DEF TypeOK, Errors, None, SourceInv, Seeking, Holding, EndIsFinal, ErrorsRelease,
            NoneOpen, NoLeak, CurrentLive, Conns
<1>1. /\ current = None /\ NoneOpen /\ held' = None /\ result' = "error" /\ caller' = caller
      /\ caller = "Connect" => pc' = "failed" /\ ~closed
      /\ caller = "Next" => pc' = "idle"
      /\ ~closed => \A c \in Conns : conns[c] # "eof"
  BY DEF ReturnError
<1>2. CASE caller = "Connect"
  BY <1>1, <1>2
<1>3. CASE caller = "Next"
  BY <1>1, <1>3
<1> QED
  BY <1>2, <1>3

\* Every step of the source keeps its invariant: each connection has one place.
LEMMA SourceStep ==
  ASSUME TypeOK, SourceInv, Next \/ UNCHANGED vars
  PROVE  SourceInv'
<1> USE DEF TypeOK, Errors, None, SourceInv, Seeking, Holding, EndIsFinal, ErrorsRelease,
            NoneOpen, NoLeak, CurrentLive, Conns
<1>1. CASE Connect \/ NeedConnection
  <2>1. /\ UNCHANGED <<connVars, closed, current, result>> /\ current = None
        /\ pc' = "request" /\ held' = None /\ pc \in {"new", "ensure"}
        /\ caller' = caller
    BY <1>1 DEF Connect, NeedConnection, StartRequests
  <2> QED
    BY <2>1 DEF connVars
<1>2. CASE RequestFails
  <2>1. CASE ForgetAndWait("waitRequest")
    BY <1>2, <2>1 DEF RequestFails, ForgetAndWait, connVars
  <2>2. CASE ReturnError /\ UNCHANGED current
    BY <1>2, <2>2, FailedRequest DEF RequestFails, connVars
  <2> QED
    BY <1>2, <2>1, <2>2 DEF RequestFails
<1>3. CASE ServerBusy
  BY <1>3 DEF ServerBusy, ForgetAndWait, connVars
<1>4. CASE BadResponse
  BY <1>4, FailedRequest DEF BadResponse, connVars
<1>5. CASE Accepted
  <2> PICK c \in Conns, first \in FirstEvents :
        /\ \A d \in Conns : (conns[d] = "unused") <=> (d >= c)
        /\ SetConn(c, "open")
        /\ \/ /\ caller = "Next"
              /\ pc' = "install" /\ held' = c
              /\ UNCHANGED <<caller, current, result>>
           \/ /\ caller = "Connect"
              /\ pc' = "idle" /\ current' = c
              /\ UNCHANGED <<caller, held, result>>
    BY <1>5 DEF Accepted
  <2>1. /\ pc = "request" /\ current = None /\ closed' = closed
        /\ c # None /\ conns[c] = "unused"
        /\ \A d \in Conns : conns[d] # "open" /\ (~closed => conns[d] # "eof")
        /\ conns' = [conns EXCEPT ![c] = "open"]
    BY <1>5 DEF Accepted, SetConn, Conns
  <2>2. CASE caller = "Next"
    BY <2>1, <2>2
  <2>3. CASE caller = "Connect"
    BY <2>1, <2>3
  <2> QED
    BY <2>2, <2>3
<1>6. CASE WaitElapsed
  BY <1>6 DEF WaitElapsed, connVars
<1>7. CASE WaitClosed
  BY <1>7, FailedRequest DEF WaitClosed, connVars
<1>8. CASE NextBegins \/ UseCurrent
  <2>1. CASE NextBegins
    BY <2>1 DEF NextBegins, connVars
  <2>2. CASE UseCurrent
    BY <2>2 DEF UseCurrent, connVars
  <2> QED
    BY <1>8, <2>1, <2>2
<1>9. CASE WaitToReconnect
  BY <1>9 DEF WaitToReconnect, ForgetAndWait, connVars
<1>10. CASE Install
  <2>1. CASE closed
    <3>1. /\ pc' = "idle" /\ held' = None /\ result' = "error" /\ caller' = "Next"
          /\ caller = "Next" /\ closed' = closed /\ current = None /\ current' = current
          /\ conns' = [conns EXCEPT ![held] = "closed"] /\ held \in Conns
          /\ \A c \in Conns : conns[c] = "open" => c = held
      BY <1>10, <2>1 DEF Install, ReturnError, SetConn
    <3>2. \A c \in Conns : conns'[c] # "open"
      BY <3>1
    <3> QED
      BY <2>1, <3>1, <3>2
  <2>2. CASE ~closed
    <3>1. /\ pc' = "read" /\ held' = held /\ result' = result /\ caller' = caller
          /\ closed' = closed /\ current' = held /\ conns' = conns /\ pc = "install"
      BY <1>10, <2>2 DEF Install
    <3> QED
      BY <2>2, <3>1
  <2> QED
    BY <2>1, <2>2
<1>11. CASE ReadEvent
  BY <1>11 DEF ReadEvent
<1>12. CASE ReadEOF
  BY <1>12 DEF ReadEOF, ReturnError, SetConn
<1>13. CASE ReadError
  BY <1>13 DEF ReadError, SetConn
<1>14. CASE Close
  <2>1. CASE CurrentLive
    BY <1>14, <2>1 DEF Close, Connected, readVars, SetConn
  <2>2. CASE ~CurrentLive
    BY <1>14, <2>2 DEF Close, Connected, readVars
  <2> QED
    BY <2>1, <2>2
<1>15. CASE UNCHANGED vars
  BY <1>15 DEF vars, readVars, connVars
<1> QED
  BY <1>1, <1>2, <1>3, <1>4, <1>5, <1>6, <1>7, <1>8, <1>9, <1>10, <1>11, <1>12, <1>13, <1>14,
     <1>15 DEF Next, Establish, Local, Waiting, Reading

-----------------------------------------------------------------------------
\* Every loop keeps the source's variables within their types.
THEOREM TypeCorrect == LoopsSafety => []TypeOK
<1>1. LoopsInit => TypeOK /\ SourceInv
  <2>1. LoopsInit => TypeOK
    <3>1. /\ 0 \in 0 .. (Width - 1) /\ 1 \in 1 .. (MaxEvents + 1) /\ 0 \in 0 .. MaxEvents
          /\ 0 \in 0 .. 2
      BY EventSourceConstants
    <3> QED
      BY <3>1 DEF LoopsInit, Init, TypeOK, Errors, None
  <2>2. LoopsInit => SourceInv
    BY DEF LoopsInit, Init, None, SourceInv, Seeking, Holding, EndIsFinal, ErrorsRelease,
       NoneOpen, NoLeak, CurrentLive
  <2> QED
    BY <2>1, <2>2
<1>2. TypeOK /\ SourceInv /\ [LoopsNext]_allVars => (TypeOK /\ SourceInv)'
  BY LoopStep, TypeStep, SourceStep DEF SourceInv
<1> QED
  BY <1>1, <1>2, PTL DEF LoopsSafety

\* The inductive invariant of the source, under every loop.
THEOREM SourceInvariant == LoopsSafety => []SourceInv
<1>1. LoopsInit => SourceInv
  BY EventSourceConstants DEF LoopsInit, Init, None, SourceInv, Seeking, Holding,
     EndIsFinal, ErrorsRelease, NoneOpen, NoLeak, CurrentLive
<1>2. TypeOK /\ SourceInv /\ [LoopsNext]_allVars => SourceInv'
  BY LoopStep, SourceStep
<1> QED
  BY <1>1, <1>2, TypeCorrect, PTL DEF LoopsSafety

\* However Close and Next interleave, an open connection is the current one or
\* the one about to be installed, and a closed source has no live connection.
THEOREM NoConnectionLost == LoopsSafety => []NoLeak
<1>1. SourceInv => NoLeak
  BY DEF SourceInv
<1> QED
  BY <1>1, SourceInvariant, PTL

-----------------------------------------------------------------------------
\* Every connection goes on where the last event returned or the ID kept says.
LEMMA InStepStep ==
  ASSUME TypeOK, SourceInv, InStep, Next \/ UNCHANGED vars
  PROVE  InStep'
<1> USE DEF TypeOK, Errors, None, InStep, Source!Follows
<1>1. CASE Connect \/ NeedConnection
  BY <1>1 DEF Connect, NeedConnection, StartRequests, connVars
<1>2. CASE RequestFails
  BY <1>2 DEF RequestFails, ForgetAndWait, ReturnError, connVars, Conns
<1>3. CASE ServerBusy \/ BadResponse \/ WaitClosed
  <2>1. /\ pc' \notin {"install", "read"} /\ current' \in {current, None}
        /\ UNCHANGED <<pos, lastID, lastEventID, returned>>
    BY <1>3 DEF ServerBusy, BadResponse, WaitClosed, ForgetAndWait, ReturnError, connVars
  <2> QED
    BY <2>1 DEF Conns
<1>4. CASE Accepted
  <2> PICK c \in Conns, first \in FirstEvents :
        /\ pos' = [pos EXCEPT ![c] = first]
        /\ lastID' = [lastID EXCEPT ![c] = 0]
        /\ \/ pc' = "install" /\ held' = c /\ UNCHANGED current
           \/ pc' = "idle" /\ current' = c
    BY <1>4 DEF Accepted
  <2>1. IF lastEventID # 0 THEN first = lastEventID + 1 ELSE first > returned
    BY EventSourceConstants DEF FirstEvents
  <2>2. current = None /\ UNCHANGED <<lastEventID, returned>>
    BY <1>4 DEF Accepted, SourceInv, Seeking
  <2> QED
    BY <2>1, <2>2 DEF Conns
<1>5. CASE WaitElapsed
  BY <1>5 DEF WaitElapsed, connVars
<1>6. CASE NextBegins \/ UseCurrent
  BY <1>6 DEF NextBegins, UseCurrent, connVars
<1>7. CASE WaitToReconnect
  BY <1>7 DEF WaitToReconnect, ForgetAndWait, connVars, Conns
<1>8. CASE Install
  BY <1>8 DEF Install, ReturnError
<1>9. CASE ReadEvent
  <2>1. held \in Conns /\ current \in {held, None}
    BY <1>9 DEF ReadEvent, SourceInv, Holding
  <2>2. /\ returned' = pos[held] /\ pos' = [pos EXCEPT ![held] = pos[held] + 1]
        /\ lastID' = [lastID EXCEPT ![held] = lastEventID']
        /\ pc' = "idle" /\ current' = current
    BY <1>9 DEF ReadEvent
  <2>3. pos[held] \in Nat /\ pos[held] # 0
    BY <2>1, EventSourceConstants
  <2> QED
    BY <2>1, <2>2, <2>3 DEF Conns
<1>10. CASE ReadEOF
  <2>1. held \in Conns /\ current \in {held, None}
    BY <1>10 DEF ReadEOF, SourceInv, Holding
  <2>2. /\ pos' = [pos EXCEPT ![held] = MaxEvents + 1] /\ current' = current
        /\ pc' \in {"idle", "failed"} /\ UNCHANGED <<lastID, lastEventID, returned>>
    BY <1>10 DEF ReadEOF, ReturnError
  <2>3. ~(MaxEvents + 1 <= MaxEvents)
    BY EventSourceConstants
  <2> QED
    BY <2>1, <2>2, <2>3 DEF Conns
<1>11. CASE ReadError
  BY <1>11 DEF ReadError
<1>12. CASE Close
  BY <1>12 DEF Close, readVars, Conns
<1>13. CASE UNCHANGED vars
  BY <1>13 DEF vars, readVars, connVars
<1> QED
  BY <1>1, <1>2, <1>3, <1>4, <1>5, <1>6, <1>7, <1>8, <1>9, <1>10, <1>11, <1>12, <1>13
     DEF Next, Establish, Local, Waiting, Reading

\* Reading an event is a Return of the abstract source, its phase apart.
LEMMA ReadFollows ==
  ASSUME TypeOK, SourceInv, InStep, ReadEvent
  PROVE  /\ returned' \in Nat /\ returned' # 0 /\ Source!Follows(returned')
         /\ Source!Keeps(returned', lastEventID')
<1>1. held \in Conns /\ pos[held] \in Nat /\ pos[held] # 0 /\ pos[held] <= MaxEvents /\ pc = "read"
  BY EventSourceConstants DEF ReadEvent, SourceInv, Holding, TypeOK, None
<1>2. Source!Follows(pos[held]) /\ lastID[held] \in {lastEventID, 0}
  BY <1>1 DEF InStep
<1>3. returned' = pos[held] /\ lastEventID' = EventID(pos[held], held)
  BY DEF ReadEvent
<1>4. Source!Keeps(returned', lastEventID')
  BY <1>2, <1>3 DEF EventID, Source!Keeps
<1>5. Source!Follows(returned')
  BY <1>2, <1>3 DEF Source!Follows
<1> QED
  BY <1>1, <1>3, <1>4, <1>5

\* Only reading an event changes what was returned and the ID kept.
LEMMA OnlyReadEventReturns ==
  ASSUME Next \/ UNCHANGED vars, ~ReadEvent
  PROVE  UNCHANGED <<returned, lastEventID>>
BY DEF Next, Connect, Establish, RequestFails, ServerBusy, BadResponse, Accepted, Local,
       NeedConnection, StartRequests, UseCurrent, Install, WaitToReconnect, Waiting, WaitElapsed,
       WaitClosed, NextBegins, Reading, ReadEOF, ReadError, Close, vars

\* Under every loop, and whichever events carry no ID, the source returns the
\* events as SourceSpec says: one after the other on a connection, from the one
\* after the ID kept once it has reconnected, and nothing after its end or its
\* Close but the event a running Next had read.
THEOREM ReconnectsResume == LoopsSafety => InOrderSource
<1> DEFINE phase == IF closed THEN (IF pc = "idle" THEN "closed" ELSE "closing")
                    ELSE IF \E c \in Conns : conns[c] = "eof" THEN "ended" ELSE "open"
<1>1. LoopsInit => InStep /\ Source!Init
  BY DEF LoopsInit, Init, InStep, None, Conns, Source!Init
<1>2. TypeOK /\ SourceInv /\ InStep /\ [LoopsNext]_allVars => InStep'
  BY LoopStep, InStepStep
<1>3. ASSUME TypeOK, SourceInv, InStep, Next \/ UNCHANGED vars
      PROVE  Source!Next \/ UNCHANGED Source!vars
  <2> USE <1>3 DEF TypeOK, Errors, None
  <2>1. ASSUME UNCHANGED <<lastEventID, returned, closed, conns>>,
               closed => (pc = "idle" <=> pc' = "idle")
        PROVE  UNCHANGED Source!vars
    BY <2>1 DEF Source!vars
  <2>2. ASSUME UNCHANGED <<lastEventID, returned, closed>>, ReturnError, pc # "idle",
               closed \/ UNCHANGED conns
        PROVE  Source!Next \/ UNCHANGED Source!vars
    <3>1. CASE closed
      <4>1. caller = "Next"
        BY <2>2, <3>1 DEF SourceInv, Seeking
      <4>2. Source!Fail
        BY <2>2, <3>1, <4>1 DEF ReturnError, Source!Fail
      <4> QED
        BY <4>2 DEF Source!Next
    <3>2. CASE ~closed
      BY <2>1, <2>2, <3>2
    <3> QED
      BY <3>1, <3>2
  <2>3. CASE Connect \/ NeedConnection
    BY <2>1, <2>3 DEF Connect, NeedConnection, StartRequests, connVars
  <2>4. CASE RequestFails
    <3>1. CASE ForgetAndWait("waitRequest")
      BY <2>1, <2>4, <3>1 DEF RequestFails, ForgetAndWait, connVars
    <3>2. CASE ReturnError
      BY <2>2, <2>4, <3>2 DEF RequestFails, connVars
    <3> QED
      BY <2>4, <3>1, <3>2 DEF RequestFails
  <2>5. CASE ServerBusy \/ WaitElapsed \/ WaitToReconnect
    BY <2>1, <2>5 DEF ServerBusy, WaitElapsed, WaitToReconnect, ForgetAndWait, connVars
  <2>6. CASE BadResponse \/ WaitClosed
    BY <2>2, <2>6 DEF BadResponse, WaitClosed, connVars
  <2>7. CASE Accepted
    <3> PICK c \in Conns :
          /\ \A d \in Conns : (conns[d] = "unused") <=> (d >= c)
          /\ SetConn(c, "open")
          /\ pc' = "install" \/ (caller = "Connect" /\ pc' = "idle")
      BY <2>7 DEF Accepted
    <3>0. conns[c] = "unused" /\ conns' = [conns EXCEPT ![c] = "open"]
      BY DEF Conns, SetConn
    <3>1. /\ UNCHANGED <<lastEventID, returned, closed>> /\ pc = "request"
          /\ closed => pc' = "install"
      BY <2>7 DEF Accepted, SourceInv, Seeking
    <3>2. (\E d \in Conns : conns'[d] = "eof") <=> (\E d \in Conns : conns[d] = "eof")
      BY <3>0
    <3> QED
      BY <3>1, <3>2 DEF Source!vars
  <2>8. CASE NextBegins \/ UseCurrent
    BY <2>1, <2>8 DEF NextBegins, UseCurrent, connVars
  <2>9. CASE Install
    <3>1. CASE closed
      BY <2>2, <2>9, <3>1 DEF Install
    <3>2. CASE ~closed
      BY <2>1, <2>9, <3>2 DEF Install
    <3> QED
      BY <3>1, <3>2
  <2>10. CASE ReadEvent
    <3>1. /\ held \in Conns /\ pc = "read" /\ pc' = "idle" /\ UNCHANGED <<conns, closed>>
          /\ conns[held] # "eof" /\ (~closed => current = held)
      BY <2>10 DEF ReadEvent, SourceInv, Holding
    <3>2. ~closed => \A c \in Conns : conns[c] # "eof"
      BY <3>1 DEF SourceInv, EndIsFinal
    <3>3. phase \in {"open", "closing"} /\ phase' = IF phase = "closing" THEN "closed" ELSE phase
      BY <3>1, <3>2
    <3> QED
      BY <2>10, <3>3, ReadFollows DEF Source!Return, Source!Next
  <2>11. CASE ReadEOF
    <3>1. CASE closed
      BY <2>2, <2>11, <3>1 DEF ReadEOF
    <3>2. CASE ~closed
      <4>1. /\ held \in Conns /\ current = held /\ conns' = [conns EXCEPT ![held] = "eof"]
            /\ UNCHANGED <<lastEventID, returned, closed>>
        BY <2>11, <3>2 DEF ReadEOF, SetConn, SourceInv, Holding
      <4>2. phase' = "ended" /\ phase \in {"open", "ended"}
        BY <3>2, <4>1
      <4> QED
        BY <4>1, <4>2 DEF Source!End, Source!Next, Source!vars
    <3> QED
      BY <3>1, <3>2
  <2>12. CASE ReadError
    <3>1. /\ held \in Conns /\ conns[held] # "eof" /\ conns' = [conns EXCEPT ![held] = "closed"]
          /\ UNCHANGED <<lastEventID, returned, closed>> /\ pc = "read" /\ pc' = "dropped"
      BY <2>12 DEF ReadError, SetConn, SourceInv, Holding
    <3>2. (\E d \in Conns : conns'[d] = "eof") <=> (\E d \in Conns : conns[d] = "eof")
      BY <3>1
    <3> QED
      BY <3>1, <3>2 DEF Source!vars
  <2>13. CASE Close
    <3>1. closed' = TRUE /\ UNCHANGED <<lastEventID, returned, pc>>
      BY <2>13 DEF Close, readVars
    <3> QED
      BY <3>1 DEF Source!Close, Source!Next, Source!vars
  <2>14. CASE UNCHANGED vars
    BY <2>1, <2>14 DEF vars, readVars, connVars
  <2> QED
    BY <2>3, <2>4, <2>5, <2>6, <2>7, <2>8, <2>9, <2>10, <2>11, <2>12, <2>13, <2>14
       DEF Next, Establish, Local, Waiting, Reading
<1>4. TypeOK /\ SourceInv /\ InStep /\ [LoopsNext]_allVars => [Source!Next]_Source!vars
  BY <1>3, LoopStep
<1> QED
  BY <1>1, <1>2, <1>4, TypeCorrect, SourceInvariant, PTL DEF LoopsSafety, InOrderSource, Source!Spec

LEMMA KeptStep ==
  ASSUME TypeOK, SourceInv, InStep, Kept, Next \/ UNCHANGED vars
  PROVE  /\ Kept'
         /\ ReadEvent => /\ \A e \in (1..returned) \ Unnamed : returned' > e
                         /\ lastEventID # 0 => returned' <= returned + 1
<1>0. returned \in Nat /\ lastEventID \in Nat
  BY EventSourceConstants DEF TypeOK
<1>1. CASE ReadEvent
  <2> PICK r \in Nat : r = returned' /\ r # 0
    BY <1>1, ReadFollows
  <2> PICK k : k = lastEventID'
    OBVIOUS
  <2>1. /\ \/ returned # 0 /\ r = returned + 1
           \/ lastEventID # 0 /\ r = lastEventID + 1
           \/ lastEventID = 0 /\ r > returned
        /\ IF r \in Unnamed THEN k \in {lastEventID, 0} ELSE k = r
    BY <1>1, ReadFollows DEF Source!Follows, Source!Keeps
  <2>2. k # 0 => k <= r /\ \A e \in 1..r : e > k => e \in Unnamed
    BY <1>0, <2>1 DEF Kept
  <2>3. \A e \in (1..returned) \ Unnamed : r > e
    BY <1>0, <2>1 DEF Kept
  <2>4. lastEventID # 0 => r <= returned + 1
    BY <1>0, <2>1 DEF Kept
  <2> QED
    BY <2>2, <2>3, <2>4 DEF Kept
<1>2. CASE ~ReadEvent
  BY <1>2, OnlyReadEventReturns DEF Kept
<1> QED
  BY <1>1, <1>2

\* Whichever events carry no ID, an event with one is never returned twice nor
\* after a later one, and while the source has kept an ID no event is skipped.
THEOREM NumberedEventsOnce == LoopsSafety => NumberedOnce /\ NoneMissed
<1>1. LoopsInit => InStep /\ Kept
  BY DEF LoopsInit, Init, InStep, Kept, None, Conns
<1>2. TypeOK /\ SourceInv /\ InStep /\ [LoopsNext]_allVars => InStep'
  BY LoopStep, InStepStep
<1>3. TypeOK /\ SourceInv /\ InStep /\ Kept /\ [LoopsNext]_allVars
        => /\ Kept'
           /\ [ReadEvent => \A e \in (1..returned) \ Unnamed : returned' > e]_vars
           /\ [ReadEvent /\ lastEventID # 0 => returned' <= returned + 1]_vars
  BY LoopStep, KeptStep
<1> QED
  BY <1>1, <1>2, <1>3, TypeCorrect, SourceInvariant, PTL DEF LoopsSafety, NumberedOnce, NoneMissed

\* Reconnects are invisible: the events of a server that numbers all of them are
\* returned in order, none missing and none twice.
THEOREM ReconnectsInvisible == ASSUME Unnamed = {} PROVE LoopsSafety => OneByOne
<1>1. LoopsInit => InStep /\ lastEventID = returned
  BY DEF LoopsInit, Init, InStep, None, Conns
<1>2. TypeOK /\ SourceInv /\ InStep /\ [LoopsNext]_allVars => InStep'
  BY LoopStep, InStepStep
<1>3. TypeOK /\ SourceInv /\ InStep /\ lastEventID = returned /\ [LoopsNext]_allVars
        => /\ (lastEventID = returned)'
           /\ [ReadEvent => returned = 0 \/ returned' = returned + 1]_vars
  <2> SUFFICES ASSUME TypeOK, SourceInv, InStep, lastEventID = returned, Next \/ UNCHANGED vars
               PROVE  /\ lastEventID' = returned'
                      /\ ReadEvent => returned = 0 \/ returned' = returned + 1
    BY LoopStep
  <2>1. CASE ReadEvent
    BY <2>1, ReadFollows DEF Source!Follows, Source!Keeps
  <2>2. CASE ~ReadEvent
    BY <2>2, OnlyReadEventReturns
  <2> QED
    BY <2>1, <2>2
<1> QED
  BY <1>1, <1>2, <1>3, TypeCorrect, SourceInvariant, PTL DEF LoopsSafety, OneByOne

-----------------------------------------------------------------------------
\* A loop that ends, by its context, an error or the end of the stream, leaves
\* no connection open; only GetInventoryByUri does.
THEOREM EndedLoopsHoldNothing == LoopsSafety => []EndedLoopReleases
<1>1. LoopsInit => LoopInv
  BY DEF LoopsInit, LoopInv, EndedLoopReleases
<1>2. ASSUME TypeOK, SourceInv, SourceInv', LoopInv, [LoopsNext]_allVars
      PROVE  LoopInv'
  <2> USE <1>2 DEF LoopInv, EndedLoopReleases, NoneOpen
  <2>1. CASE LoopConnect
    <3>1. CASE Connect /\ Stay
      BY <2>1, <3>1 DEF LoopConnect, Stay, loopVars
    <3>2. CASE pc = "idle" /\ Go("select") /\ UNCHANGED vars
      BY <3>2 DEF Go
    <3>3. CASE pc = "failed" /\ UNCHANGED vars /\ (at' = "sendError" \/ at' = "done")
      <4>1. NoneOpen
        BY <3>3 DEF SourceInv, Seeking, NoLeak, TypeOK, None, Conns
      <4> QED
        BY <3>3, <4>1 DEF vars, readVars, connVars
    <3> QED
      BY <2>1, <3>1, <3>2, <3>3 DEF LoopConnect, Go
  <2>2. CASE CtxCancel
    BY <2>2 DEF CtxCancel, vars, readVars, connVars
  <2>3. CASE StopOnContext
    <3>1. pc' = "idle" /\ closed' = TRUE /\ at' = "done"
      BY <2>3 DEF StopOnContext, Close, Go, readVars
    <3>2. NoneOpen'
      BY <3>1 DEF SourceInv, NoLeak, CurrentLive, None, Conns
    <3> QED
      BY <3>1, <3>2
  <2>4. CASE CallNext
    BY <2>4 DEF CallNext, Stay, Go, loopVars
  <2>5. CASE HandleEvent \/ SendParsed
    BY <2>5 DEF HandleEvent, SendParsed, Go, vars, readVars, connVars
  <2>6. CASE HandleError
    <3>1. /\ pc = "idle" /\ NoneOpen
          /\ at' \in {"select", "done", "sendError"}
      BY <2>6 DEF HandleError, Go, SourceInv, ErrorsRelease
    <3> QED
      BY <2>6, <3>1 DEF HandleError, vars, readVars, connVars
  <2>7. CASE SendErrorEvent
    <3>1. at' = "done" /\ UNCHANGED pc /\ NoneOpen /\ pc \in {"idle", "failed"}
      BY <2>7 DEF SendErrorEvent, Go, Close, vars, readVars
    <3>2. \A c \in Conns : conns'[c] \in {conns[c], "closed"}
      BY <2>7 DEF SendErrorEvent, Close, SetConn, vars, connVars, TypeOK
    <3> QED
      BY <3>1, <3>2
  <2>8. CASE UserCloses
    <3>1. UNCHANGED <<pc, loop, at>> /\ \A c \in Conns : conns'[c] \in {conns[c], "closed"}
      BY <2>8 DEF UserCloses, Close, SetConn, Stay, loopVars, readVars, TypeOK
    <3> QED
      BY <3>1
  <2>9. CASE Library
    <3>1. pc \notin {"idle", "failed"} /\ UNCHANGED loopVars
      BY <2>9 DEF Library, Stay, Establish, RequestFails, ServerBusy, BadResponse, Accepted,
         Local, NeedConnection, UseCurrent, Install, WaitToReconnect, Waiting, WaitElapsed,
         WaitClosed, Reading, ReadEvent, ReadEOF, ReadError
    <3> QED
      BY <3>1 DEF loopVars
  <2>10. CASE UNCHANGED allVars
    BY <2>10 DEF allVars, loopVars, vars, readVars, connVars
  <2> QED
    BY <2>1, <2>2, <2>3, <2>4, <2>5, <2>6, <2>7, <2>8, <2>9, <2>10 DEF LoopsNext
<1>3. LoopInv => EndedLoopReleases
  BY DEF LoopInv
<1> QED
  BY <1>1, <1>2, <1>3, TypeCorrect, SourceInvariant, PTL DEF LoopsSafety

-----------------------------------------------------------------------------
\* Once Close has been called a Next that seeks a connection gets no further than
\* ensureReadCloser's second look at closed; it seeks again only without an interval.
LateInv ==
  /\ late > 0 => closed /\ pc \in {"request", "waitRequest", "install", "idle"}
  /\ late > 1 => interval = "none"

\* Every step of the source keeps count of the requests after Close.
LEMMA LateStep ==
  ASSUME TypeOK, SourceInv, LateInv, Next \/ UNCHANGED vars
  PROVE  LateInv'
<1> USE DEF TypeOK, LateInv
<1>1. CASE Connect
  <2>1. ~closed
    BY <1>1 DEF Connect, SourceInv, Seeking
  <2> QED
    BY <1>1, <2>1 DEF Connect, StartRequests, CountLate
<1>2. CASE RequestFails \/ ServerBusy \/ BadResponse \/ Accepted
  <2>1. UNCHANGED <<closed, late, interval>> /\ pc = "request"
    BY <1>2 DEF RequestFails, ServerBusy, BadResponse, Accepted
  <2>2. closed => pc' \in {"waitRequest", "install", "idle"}
    BY <1>2, <2>1 DEF RequestFails, ServerBusy, BadResponse, Accepted, ForgetAndWait, ReturnError,
       SourceInv, Seeking
  <2> QED
    BY <2>1, <2>2
<1>3. CASE WaitElapsed
  <2>1. /\ UNCHANGED <<closed, interval>> /\ (~closed \/ interval = "none")
        /\ \/ pc = "waitRequest" /\ pc' = "request" /\ late' = CountLate
           \/ pc = "waitRead" /\ pc' = "ensure" /\ late' = late
    BY <1>3 DEF WaitElapsed
  <2> QED
    BY <2>1 DEF CountLate
<1>4. CASE WaitClosed \/ Install
  <2>1. UNCHANGED <<closed, late, interval>>
    BY <1>4 DEF WaitClosed, Install
  <2>2. closed => pc' = "idle"
    BY <1>4 DEF WaitClosed, Install, ReturnError, SourceInv, Seeking
  <2> QED
    BY <2>1, <2>2
<1>5. CASE NeedConnection
  BY <1>5 DEF NeedConnection, StartRequests, CountLate
<1>6. CASE NextBegins \/ UseCurrent \/ WaitToReconnect \/ ReadEOF \/ ReadError
  <2>1. late = 0 /\ UNCHANGED late
    BY <1>6 DEF NextBegins, UseCurrent, WaitToReconnect, ReadEOF, ReadError
  <2> QED
    BY <2>1
<1>7. CASE ReadEvent
  <2>1. late = 0 /\ UNCHANGED late
    BY <1>7 DEF ReadEvent
  <2> QED
    BY <2>1
<1>8. CASE Close
  BY <1>8 DEF Close, readVars
<1>9. CASE UNCHANGED vars
  BY <1>9 DEF vars, readVars
<1> QED
  BY <1>1, <1>2, <1>3, <1>4, <1>5, <1>6, <1>7, <1>8, <1>9
     DEF Next, Establish, Local, Waiting, Reading

\* Under every loop, a Next that runs when its source is closed sends at most one
\* request more, unless the retry interval is zero.
THEOREM OneRequestAfterClose == LoopsSafety => []AtMostOneRequestAfterClose
<1>1. LoopsInit => LateInv
  BY DEF LoopsInit, Init, LateInv
<1>2. TypeOK /\ SourceInv /\ LateInv /\ [LoopsNext]_allVars => LateInv'
  BY LoopStep, LateStep
<1>3. LateInv => AtMostOneRequestAfterClose
  BY DEF LateInv, AtMostOneRequestAfterClose
<1> QED
  BY <1>1, <1>2, <1>3, TypeCorrect, SourceInvariant, PTL DEF LoopsSafety

-----------------------------------------------------------------------------
\* The retry line of an encoded event, if it has one, is one line.
Extra(e) == IF e.retry = 0 THEN 0 ELSE 1

\* Two sequences one after the other.
LEMMA Joined ==
  ASSUME NEW s \in Seq(AnyLine), NEW t \in Seq(AnyLine)
  PROVE  /\ s \o t \in Seq(AnyLine)
         /\ Len(s) \in Nat /\ Len(t) \in Nat
         /\ Len(s \o t) = Len(s) + Len(t)
         /\ \A i \in 1 .. Len(s) : i \in 1 .. Len(s \o t) /\ (s \o t)[i] = s[i]
         /\ \A i \in 1 .. Len(t) : (s \o t)[Len(s) + i] = t[i]
<1>1. Len(s) \in Nat /\ Len(t) \in Nat
  BY LenProperties
<1>2. /\ s \o t \in Seq(AnyLine)
      /\ Len(s \o t) = Len(s) + Len(t)
  BY ConcatProperties
<1>3. \A i \in 1 .. Len(s) : i \in 1 .. Len(s \o t) /\ (s \o t)[i] = s[i]
  BY <1>1, <1>2, ConcatProperties
<1>4. \A i \in 1 .. Len(t) : (s \o t)[Len(s) + i] = t[i]
  <2> SUFFICES ASSUME NEW i \in 1 .. Len(t) PROVE (s \o t)[Len(s) + i] = t[i]
    OBVIOUS
  <2>1. Len(s) + i \in 1 .. Len(s) + Len(t) /\ ~(Len(s) + i <= Len(s)) /\ Len(s) + i - Len(s) = i
    BY <1>1
  <2> QED
    BY <2>1, ConcatProperties
<1> QED
  BY <1>1, <1>2, <1>3, <1>4

\* The lines of an event, in their order.
LEMMA EncodeAt ==
  ASSUME NEW e \in Events
  PROVE  /\ Encode(e) \in Seq(AnyLine)
         /\ Len(e.data) \in Nat \ {0} /\ Extra(e) \in {0, 1}
         /\ Len(Encode(e)) = 3 + Extra(e) + Len(e.data)
         /\ Encode(e)[1] = Line("id", e.id)
         /\ Encode(e)[2] = Line("event", e.name)
         /\ e.retry # 0 => Encode(e)[3] = RetryOf(e.retry \div 2)
         /\ \A i \in 1 .. Len(e.data) : Encode(e)[2 + Extra(e) + i] = Line("data", e.data[i])
         /\ Encode(e)[3 + Extra(e) + Len(e.data)] = Blank
<1> DEFINE a == <<Line("id", e.id), Line("event", e.name)>>
           r == RetryLine(e)
           d == DataLines(e)
           b == <<Blank>>
<1>1. /\ e.id \in Value /\ e.name \in Value /\ e.data \in Seq(Value) /\ e.retry \in Nat
      /\ e.data # <<>>
  BY ReaderConstants DEF Events, Value
<1>2. Len(e.data) \in Nat \ {0}
  BY <1>1
<1>3. /\ Line("id", e.id) \in AnyLine /\ Line("event", e.name) \in AnyLine /\ Blank \in AnyLine
      /\ \A n \in Nat : RetryOf(n) \in AnyLine
      /\ \A v \in Value : Line("data", v) \in AnyLine
  BY <1>1 DEF Line, Blank, RetryOf, AnyLine, Value
<1>4. a \in Seq(AnyLine) /\ Len(a) = 2 /\ a[1] = Line("id", e.id) /\ a[2] = Line("event", e.name)
  BY <1>3
<1>5. /\ r \in Seq(AnyLine) /\ Len(r) = Extra(e)
      /\ e.retry # 0 => r[1] = RetryOf(e.retry \div 2)
  <2>1. e.retry \div 2 \in Nat
    BY <1>1
  <2>2. RetryOf(e.retry \div 2) \in AnyLine
    BY <1>3, <2>1
  <2> QED
    BY <2>2 DEF RetryLine, Extra
<1>6. /\ d \in Seq(AnyLine) /\ Len(d) = Len(e.data)
      /\ \A i \in 1 .. Len(d) : d[i] = Line("data", e.data[i])
  <2>1. \A i \in 1 .. Len(e.data) : Line("data", e.data[i]) \in AnyLine
    BY <1>1, <1>3
  <2> QED
    BY <1>2, <2>1 DEF DataLines
<1>7. b \in Seq(AnyLine) /\ Len(b) = 1 /\ b[1] = Blank
  BY <1>3
<1>8. Encode(e) = ((a \o r) \o d) \o b
  BY DEF Encode
<1>9. Extra(e) \in {0, 1}
  BY DEF Extra
<1> HIDE DEF a, r, d, b
<1>10. /\ a \o r \in Seq(AnyLine) /\ Len(a \o r) = 2 + Extra(e)
       /\ (a \o r)[1] = a[1] /\ (a \o r)[2] = a[2]
       /\ e.retry # 0 => (a \o r)[3] = r[1]
  <2>1. /\ a \o r \in Seq(AnyLine) /\ Len(a \o r) = 2 + Extra(e)
        /\ \A i \in 1 .. 2 : (a \o r)[i] = a[i]
        /\ \A i \in 1 .. Extra(e) : (a \o r)[2 + i] = r[i]
    <3>1. Len(a) = 2 /\ Len(r) = Extra(e) /\ Len(a) \in Nat /\ Len(r) \in Nat
      BY <1>4, <1>5, <1>9
    <3>2. /\ a \o r \in Seq(AnyLine) /\ Len(a \o r) = Len(a) + Len(r)
          /\ \A i \in 1 .. Len(a) : (a \o r)[i] = a[i]
          /\ \A i \in 1 .. Len(r) : (a \o r)[Len(a) + i] = r[i]
      BY ONLY <1>4, <1>5, Joined
    <3> QED
      BY ONLY <3>1, <3>2
  <2>2. e.retry # 0 => 1 \in 1 .. Extra(e) /\ 2 + 1 = 3
    BY DEF Extra
  <2>3. e.retry # 0 => (a \o r)[2 + 1] = r[1]
    BY <2>1, <2>2
  <2>4. 1 \in 1 .. 2 /\ 2 \in 1 .. 2
    OBVIOUS
  <2> QED
    BY <2>1, <2>2, <2>3, <2>4
<1> DEFINE ar == a \o r
           x  == 2 + Extra(e)
<1>11. x \in Nat /\ x >= 2 /\ (e.retry # 0 => x = 3)
  BY <1>9 DEF Extra
<1>12. /\ ar \o d \in Seq(AnyLine) /\ Len(ar \o d) = x + Len(e.data)
       /\ \A i \in 1 .. x : (ar \o d)[i] = ar[i]
       /\ \A i \in 1 .. Len(e.data) : (ar \o d)[x + i] = d[i]
  <2> HIDE DEF ar, x
  <2>1. ar \in Seq(AnyLine) /\ Len(ar) = x
    BY <1>10 DEF ar, x
  <2>2. /\ ar \o d \in Seq(AnyLine) /\ Len(ar \o d) = Len(ar) + Len(d)
        /\ \A i \in 1 .. Len(ar) : (ar \o d)[i] = ar[i]
        /\ \A i \in 1 .. Len(d) : (ar \o d)[Len(ar) + i] = d[i]
    BY ONLY <1>6, <2>1, Joined
  <2> QED
    BY ONLY <1>6, <2>1, <2>2
<1> DEFINE ard == ar \o d
           y   == x + Len(e.data)
<1> HIDE DEF x, ar
<1>13. y \in Nat /\ \A i \in 1 .. x : i \in 1 .. y
  BY <1>2, <1>11
<1>14. \A i \in 1 .. Len(e.data) : x + i \in 1 .. y
  BY <1>2, <1>11
<1>15. /\ ard \o b \in Seq(AnyLine) /\ Len(ard \o b) = y + 1
       /\ \A i \in 1 .. y : (ard \o b)[i] = ard[i]
       /\ (ard \o b)[y + 1] = b[1]
  <2>1. ard \in Seq(AnyLine) /\ Len(ard) = y
    BY <1>12
  <2> HIDE DEF ard, y
  <2>2. /\ ard \o b \in Seq(AnyLine) /\ Len(ard \o b) = y + 1
        /\ \A i \in 1 .. y : (ard \o b)[i] = ard[i]
        /\ \A i \in 1 .. 1 : (ard \o b)[y + i] = b[i]
    <3>1. /\ ard \o b \in Seq(AnyLine) /\ Len(ard \o b) = Len(ard) + Len(b)
          /\ \A i \in 1 .. Len(ard) : (ard \o b)[i] = ard[i]
          /\ \A i \in 1 .. Len(b) : (ard \o b)[Len(ard) + i] = b[i]
      BY ONLY <1>7, <2>1, Joined
    <3> QED
      BY ONLY <1>7, <2>1, <3>1
  <2>3. 1 \in 1 .. 1
    OBVIOUS
  <2> QED
    BY ONLY <2>2, <2>3
<1>16. Encode(e) = ard \o b
  BY <1>8 DEF ar
<1> HIDE DEF ard, y
<1>17. \A i \in 1 .. x : Encode(e)[i] = ar[i]
  BY <1>12, <1>13, <1>15, <1>16 DEF ard
<1>18. \A i \in 1 .. Len(e.data) : Encode(e)[x + i] = d[i]
  BY <1>12, <1>14, <1>15, <1>16 DEF ard
<1>19. Encode(e)[1] = a[1] /\ Encode(e)[2] = a[2] /\ (e.retry # 0 => Encode(e)[3] = r[1])
  <2>1. 1 \in 1 .. x /\ 2 \in 1 .. x /\ (e.retry # 0 => 3 \in 1 .. x)
    BY <1>11
  <2>2. Encode(e)[1] = ar[1] /\ Encode(e)[2] = ar[2] /\ (e.retry # 0 => Encode(e)[3] = ar[3])
    BY ONLY <1>17, <2>1
  <2> QED
    BY ONLY <1>10, <2>2 DEF ar
<1>20. y + 1 = 3 + Extra(e) + Len(e.data)
  BY <1>2, <1>9 DEF y, x
<1>21. Encode(e) \in Seq(AnyLine) /\ Len(Encode(e)) = y + 1 /\ Encode(e)[y + 1] = Blank
  BY <1>7, <1>15, <1>16
<1>22. \A i \in 1 .. Len(e.data) : Encode(e)[2 + Extra(e) + i] = Line("data", e.data[i])
  BY <1>6, <1>18 DEF x
<1> QED
  BY <1>2, <1>4, <1>5, <1>9, <1>19, <1>20, <1>21, <1>22

\* What Write has put on the wire.
LEMMA Written ==
  ASSUME NEW w \in Seq(AnyLine), NEW s \in Seq(AnyLine), NEW n \in 0 .. Len(s)
  PROVE  /\ w \o SubSeq(s, 1, n) \in Seq(AnyLine)
         /\ Len(w) \in Nat /\ Len(w \o SubSeq(s, 1, n)) = Len(w) + n
         /\ \A i \in 1 .. Len(w) : (w \o SubSeq(s, 1, n))[i] = w[i]
         /\ \A i \in 1 .. n : (w \o SubSeq(s, 1, n))[Len(w) + i] = s[i]
<1>1. /\ SubSeq(s, 1, n) \in Seq(AnyLine) /\ Len(SubSeq(s, 1, n)) = n
      /\ \A i \in 1 .. n : SubSeq(s, 1, n)[i] = s[i]
  BY SubSeqProperties
<1> QED
  BY <1>1, Joined

-----------------------------------------------------------------------------
\* A line that is there to be read is one.
LEMMA LineToRead ==
  ASSUME ReaderTypeOK, Read
  PROVE  /\ lineNo \in Nat /\ lineNo + 1 \in 1 .. Len(wire) /\ lineNo' = lineNo + 1
         /\ Current \in AnyLine /\ wire \in Seq(AnyLine) /\ Len(wire) \in Nat
         /\ UNCHANGED <<sent, wire, cut>>
<1>1. wire \in Seq(AnyLine) /\ Len(wire) \in Nat
  BY DEF ReaderTypeOK
<1>2. lineNo \in Nat /\ lineNo + 1 \in 1 .. Len(wire)
  BY <1>1 DEF ReaderTypeOK, Read
<1> QED
  BY <1>1, <1>2 DEF Read, Current

\* Every variable of the reader keeps to its type.
THEOREM ReaderTypeCorrect == ReaderSpec => []ReaderTypeOK
<1>1. ReaderInit => ReaderTypeOK
  <2> SUFFICES ASSUME ReaderInit PROVE ReaderTypeOK
    OBVIOUS
  <2>1. Lines \subseteq AnyLine
    BY DEF Lines, AnyLine, Line, Blank, RetryOf, Value
  <2>2. wire \in Seq(AnyLine)
    <3>1. CASE wire = <<>>
      BY <3>1
    <3>2. CASE wire \in UNION {[1..n -> Lines] : n \in 0..MaxLines}
      <4>1. PICK n \in 0..MaxLines : wire \in [1..n -> Lines]
        BY <3>2
      <4>2. n \in Nat /\ wire \in [1..n -> AnyLine]
        BY <2>1, <4>1, ReaderConstants
      <4> QED
        BY <4>2
    <3> QED
      BY <3>1, <3>2 DEF ReaderInit
  <2>3. event \in AnyEvent
    BY DEF ReaderInit, NoEvent, AnyEvent, Value
  <2>4. lineNo \in 0 .. Len(wire)
    BY <2>2 DEF ReaderInit
  <2>5. lastRead \in Value /\ idPresent \in BOOLEAN /\ cut \in BOOLEAN
    BY DEF ReaderInit, Value
  <2>6. out \in Seq(AnyEvent) /\ sent \in Seq([event : Events, before : Nat])
    BY DEF ReaderInit
  <2> QED
    BY <2>2, <2>3, <2>4, <2>5, <2>6 DEF ReaderTypeOK
<1>2. ReaderTypeOK /\ [ReaderNext]_readerVars => ReaderTypeOK'
  <2> SUFFICES ASSUME ReaderTypeOK, [ReaderNext]_readerVars PROVE ReaderTypeOK'
    OBVIOUS
  <2>1. ASSUME Read, event' \in AnyEvent, idPresent' \in BOOLEAN, lastRead' \in Value,
               out' \in Seq(AnyEvent)
        PROVE  ReaderTypeOK'
    <3>1. lineNo' \in 0 .. Len(wire)
      BY <2>1, LineToRead
    <3> QED
      BY <2>1, <3>1, LineToRead DEF ReaderTypeOK
  <2>2. /\ event.id \in Value /\ event.data \in Seq(Value)
        /\ event \in AnyEvent /\ idPresent \in BOOLEAN /\ lastRead \in Value
        /\ out \in Seq(AnyEvent)
    BY DEF ReaderTypeOK, AnyEvent
  <2>3. CASE Dispatch
    <3>1. lastRead' \in Value /\ out' \in Seq(AnyEvent)
      BY <2>2, <2>3 DEF Dispatch
    <3>2. event' \in AnyEvent
      <4>1. event' = [NoEvent EXCEPT !.id = lastRead']
        BY <2>3 DEF Dispatch
      <4>2. event' = [id |-> lastRead', name |-> NoValue, data |-> <<>>, retry |-> 0]
        BY <4>1 DEF NoEvent
      <4>3. NoValue \in Value /\ <<>> \in Seq(Value)
        BY DEF Value
      <4> QED
        BY <3>1, <4>2, <4>3 DEF AnyEvent
    <3> QED
      BY <2>1, <2>3, <3>1, <3>2 DEF Dispatch
  <2>4. CASE Skip
    BY <2>1, <2>2, <2>4 DEF Skip
  <2>5. CASE SetField
    <3>1. Current.value \in Value /\ Current.number \in Nat
      <4>1. Current \in AnyLine
        BY <2>5, LineToRead DEF SetField
      <4>2. \A l \in AnyLine : l.value \in Value /\ l.number \in Nat
        BY DEF AnyLine, Value
      <4> QED
        BY <4>1, <4>2
    <3>2. Append(event.data, Current.value) \in Seq(Value) /\ 2 * Current.number \in Nat
      BY <2>2, <3>1
    <3>3. event' \in AnyEvent
      BY <2>2, <2>5, <3>1, <3>2 DEF SetField, AnyEvent
    <3>4. idPresent' \in BOOLEAN
      BY <2>2, <2>5 DEF SetField
    <3> QED
      BY <2>1, <2>2, <2>5, <3>3, <3>4 DEF SetField
  <2>6. ASSUME NEW e \in Events, Write(e) PROVE ReaderTypeOK'
    <3>1. PICK n \in 0 .. Len(Encode(e)) :
            wire' = wire \o SubSeq(Encode(e), 1, n) /\ cut' = (n < Len(Encode(e)))
      BY <2>6 DEF Write
    <3>2. wire \in Seq(AnyLine) /\ Encode(e) \in Seq(AnyLine)
      BY EncodeAt DEF ReaderTypeOK
    <3>3. wire' \in Seq(AnyLine) /\ Len(wire') = Len(wire) + n /\ Len(wire) \in Nat
      BY <3>1, <3>2, Written
    <3>4. lineNo' \in 0 .. Len(wire')
      <4>1. lineNo' \in 0 .. Len(wire) /\ n \in Nat
        BY <2>6 DEF Write, ReaderTypeOK
      <4> QED
        BY <3>3, <4>1
    <3>5. sent' \in Seq([event : Events, before : Nat])
      <4>1. sent \in Seq([event : Events, before : Nat])
        BY DEF ReaderTypeOK
      <4>2. [event |-> e, before |-> Len(wire)] \in [event : Events, before : Nat]
        BY <3>3
      <4>3. sent' = Append(sent, [event |-> e, before |-> Len(wire)])
        BY <2>6 DEF Write
      <4> QED
        BY <4>1, <4>2, <4>3, AppendProperties
    <3>6. cut' \in BOOLEAN
      BY <3>1
    <3> QED
      BY <2>2, <2>6, <3>3, <3>4, <3>5, <3>6 DEF Write, ReaderTypeOK
  <2>7. CASE UNCHANGED readerVars
    BY <2>7 DEF readerVars, ReaderTypeOK
  <2> QED
    BY <2>3, <2>4, <2>5, <2>6, <2>7 DEF ReaderNext
<1> QED
  BY <1>1, <1>2, PTL DEF ReaderSpec

-----------------------------------------------------------------------------
\* Next undoes Write.  The number of lines up to the end of the k-th event.
After(k) == IF k = 0 THEN 0 ELSE sent[k].before + Len(Encode(sent[k].event))

\* The stream is the encoded events one after the other; the last may be cut off.
Layout ==
  /\ \A k \in 1 .. Len(sent) :
       /\ sent[k].before = After(k - 1)
       /\ After(k) <= After(Len(sent))
       /\ \A i \in 1 .. Len(Encode(sent[k].event)) :
            sent[k].before + i <= Len(wire) =>
              wire[sent[k].before + i] = Encode(sent[k].event)[i]
  /\ Len(wire) <= After(Len(sent))
  /\ ~cut => Len(wire) = After(Len(sent))

\* What the reader makes of an event, ...
Back(e) == [e EXCEPT !.retry = 2 * (@ \div 2)]

\* ... and has made of it after d of its lines.
Parsed(e, d) ==
  /\ d >= 1 => event.id = e.id
  /\ event.name = IF d >= 2 THEN e.name ELSE NoValue
  /\ event.retry = IF d >= 3 /\ e.retry # 0 THEN 2 * (e.retry \div 2) ELSE 0
  /\ Len(event.data) = IF d > 2 + Extra(e) THEN d - 2 - Extra(e) ELSE 0
  /\ \A i \in 1 .. Len(event.data) : event.data[i] = e.data[i]

Fresh == event.name = NoValue /\ event.retry = 0 /\ Len(event.data) = 0

\* The reader is d lines into the event after those it has returned.
Progress ==
  /\ Len(out) <= Len(sent)
  /\ \A k \in 1 .. Len(out) : out[k] = Back(sent[k].event)
  /\ \E d \in Nat :
       /\ lineNo = After(Len(out)) + d
       /\ d = 0 => Fresh
       /\ d > 0 => /\ Len(out) < Len(sent)
                   /\ d < Len(Encode(sent[Len(out) + 1].event))
                   /\ Parsed(sent[Len(out) + 1].event, d)

WriterInv == sent # <<>> \/ ~cut => Layout /\ Progress

-----------------------------------------------------------------------------
\* One more line of an event that is not the last, ...
LEMMA OneMoreLine ==
  ASSUME ReaderTypeOK, NEW e \in Events, NEW d \in Nat, d + 1 < Len(Encode(e)), Parsed(e, d),
         Dispatch \/ Skip \/ SetField, Current = Encode(e)[d + 1]
  PROVE  Parsed(e, d + 1)' /\ UNCHANGED out
<1>1. /\ Len(e.data) \in Nat \ {0} /\ Extra(e) \in {0, 1}
      /\ d + 1 < 3 + Extra(e) + Len(e.data)
  BY EncodeAt
<1>2. event \in AnyEvent
  BY DEF ReaderTypeOK
<1>3. \A i \in 1 .. Len(event.data) : event.data[i] = e.data[i]
  BY DEF Parsed
<1>4. CASE d = 0
  <2>1. Current = Line("id", e.id)
    BY <1>4, EncodeAt
  <2>2. Current.field = "id" /\ Current.value = e.id
    BY <2>1 DEF Line
  <2>3. event' = [event EXCEPT !.id = e.id] /\ UNCHANGED out
    BY <2>2 DEF Dispatch, Skip, SetField
  <2>4. /\ event'.id = e.id /\ event'.name = event.name /\ event'.retry = event.retry
        /\ event'.data = event.data
    BY <1>2, <2>3 DEF AnyEvent
  <2> QED
    BY <1>1, <1>4, <2>3, <2>4 DEF Parsed
<1>5. CASE d = 1
  <2>1. Current = Line("event", e.name)
    BY <1>5, EncodeAt
  <2>2. Current.field = "event" /\ Current.value = e.name
    BY <2>1 DEF Line
  <2>3. event' = [event EXCEPT !.name = e.name] /\ UNCHANGED out
    BY <2>2 DEF Dispatch, Skip, SetField
  <2>4. /\ event'.id = event.id /\ event'.name = e.name /\ event'.retry = event.retry
        /\ event'.data = event.data
    BY <1>2, <2>3 DEF AnyEvent
  <2> QED
    BY <1>1, <1>5, <2>3, <2>4 DEF Parsed
<1>6. CASE d = 2 /\ e.retry # 0
  <2>1. Current = RetryOf(e.retry \div 2)
    BY <1>6, EncodeAt
  <2>2. Current.field = "retry" /\ Current.number = e.retry \div 2
    BY <2>1 DEF RetryOf
  <2>3. event' = [event EXCEPT !.retry = 2 * (e.retry \div 2)] /\ UNCHANGED out
    BY <2>2 DEF Dispatch, Skip, SetField
  <2>4. /\ event'.id = event.id /\ event'.name = event.name
        /\ event'.retry = 2 * (e.retry \div 2) /\ event'.data = event.data
    BY <1>2, <2>3 DEF AnyEvent
  <2>5. Extra(e) = 1
    BY <1>6 DEF Extra
  <2> QED
    BY <1>6, <2>3, <2>4, <2>5 DEF Parsed
<1>7. CASE d >= 2 + Extra(e)
  <2>1. PICK i \in 1 .. Len(e.data) : d + 1 = 2 + Extra(e) + i
    <3>1. d - 1 - Extra(e) \in 1 .. Len(e.data) /\ d + 1 = 2 + Extra(e) + (d - 1 - Extra(e))
      BY <1>1, <1>7
    <3> QED
      BY <3>1
  <2>2. Current = Line("data", e.data[i])
    BY <2>1, EncodeAt
  <2>3. Current.field = "data" /\ Current.value = e.data[i]
    BY <2>2 DEF Line
  <2>4. event' = [event EXCEPT !.data = Append(event.data, e.data[i])] /\ UNCHANGED out
    BY <2>3 DEF Dispatch, Skip, SetField
  <2>5. /\ event'.id = event.id /\ event'.name = event.name /\ event'.retry = event.retry
        /\ event'.data = Append(event.data, e.data[i])
    BY <1>2, <2>4 DEF AnyEvent
  <2>6. event.data \in Seq(Value) /\ e.data[i] \in Value
    BY <1>2, ReaderConstants DEF AnyEvent, Events
  <2>7. Len(event.data) = i - 1
    BY <1>1, <1>7, <2>1 DEF Parsed
  <2>8. /\ Len(event'.data) = i
        /\ \A n \in 1 .. i : event'.data[n] = e.data[n]
    <3>1. /\ Len(Append(event.data, e.data[i])) = i
          /\ \A n \in 1 .. (i - 1) : Append(event.data, e.data[i])[n] = event.data[n]
          /\ Append(event.data, e.data[i])[i] = e.data[i]
      BY <2>6, <2>7
    <3>2. \A n \in 1 .. i : n = i \/ n \in 1 .. (i - 1)
      OBVIOUS
    <3> QED
      BY <1>3, <2>5, <2>7, <3>1, <3>2
  <2>9. d + 1 > 2 + Extra(e) /\ (d + 1) - 2 - Extra(e) = i /\ d + 1 >= 3
    BY <1>1, <1>7, <2>1
  <2>10. e.retry # 0 => d >= 3
    BY <1>7 DEF Extra
  <2>11. event'.retry = IF d + 1 >= 3 /\ e.retry # 0 THEN 2 * (e.retry \div 2) ELSE 0
    BY <2>5, <2>9, <2>10 DEF Parsed
  <2>12. event'.id = e.id /\ event'.name = e.name
    BY <1>1, <1>7, <2>5 DEF Parsed
  <2> QED
    BY <2>4, <2>8, <2>9, <2>11, <2>12 DEF Parsed
<1>8. d = 0 \/ d = 1 \/ (d = 2 /\ e.retry # 0) \/ d >= 2 + Extra(e)
  BY <1>1 DEF Extra
<1> QED
  BY <1>4, <1>5, <1>6, <1>7, <1>8

\* ... and the last one.
LEMMA LastLine ==
  ASSUME ReaderTypeOK, NEW e \in Events, NEW d \in Nat, d + 1 = Len(Encode(e)), Parsed(e, d),
         Dispatch \/ Skip \/ SetField, Current = Encode(e)[d + 1]
  PROVE  Fresh' /\ out' = Append(out, Back(e))
<1>1. /\ Len(e.data) \in Nat \ {0} /\ Extra(e) \in {0, 1}
      /\ d = 2 + Extra(e) + Len(e.data)
      /\ Current = Blank
  <2>1. /\ Len(e.data) \in Nat \ {0} /\ Extra(e) \in {0, 1}
        /\ Len(Encode(e)) = 3 + Extra(e) + Len(e.data)
        /\ Encode(e)[3 + Extra(e) + Len(e.data)] = Blank
    BY EncodeAt
  <2>2. d + 1 = 3 + Extra(e) + Len(e.data)
    BY <2>1
  <2> QED
    BY <2>1, <2>2
<1>2. event \in AnyEvent
  BY DEF ReaderTypeOK
<1>3. Current.field = "blank"
  BY <1>1 DEF Blank, Line
<1>4. Len(event.data) = Len(e.data)
  BY <1>1 DEF Parsed
<1>5. Dispatch
  <2>1. event.data # <<>>
    BY <1>1, <1>4
  <2> QED
    BY <1>3, <2>1 DEF Skip, SetField
<1>6. Fresh'
  <2>1. event' = [NoEvent EXCEPT !.id = lastRead']
    BY <1>5 DEF Dispatch
  <2>2. event'.name = NoValue /\ event'.retry = 0 /\ event'.data = <<>>
    BY <2>1 DEF NoEvent
  <2> QED
    BY <2>2 DEF Fresh
<1>7. event = Back(e)
  <2>1. event.id = e.id /\ event.name = e.name
    BY <1>1 DEF Parsed
  <2>2. event.retry = 2 * (e.retry \div 2)
    <3>1. e.retry = 0 => 2 * (e.retry \div 2) = 0
      OBVIOUS
    <3>2. d >= 3
      BY <1>1
    <3> QED
      BY <3>1, <3>2 DEF Parsed
  <2>3. event.data = e.data
    <3>1. event.data \in Seq(Value) /\ e.data \in Seq(Value)
      BY <1>2, ReaderConstants DEF AnyEvent, Events
    <3>2. \A i \in 1 .. Len(e.data) : event.data[i] = e.data[i]
      BY <1>4 DEF Parsed
    <3> QED
      BY <1>4, <3>1, <3>2, SeqEqual
  <2>4. Back(e) = [id |-> e.id, name |-> e.name, data |-> e.data, retry |-> 2 * (e.retry \div 2)]
    BY DEF Back, Events
  <2>5. event = [id |-> event.id, name |-> event.name, data |-> event.data, retry |-> event.retry]
    BY <1>2 DEF AnyEvent
  <2> QED
    BY <2>1, <2>2, <2>3, <2>4, <2>5
<1> QED
  BY <1>5, <1>6, <1>7 DEF Dispatch

-----------------------------------------------------------------------------
\* The lengths and events the invariant is about.
LEMMA WrittenTypes ==
  ASSUME ReaderTypeOK
  PROVE  /\ Len(wire) \in Nat /\ Len(out) \in Nat /\ Len(sent) \in Nat /\ lineNo \in Nat
         /\ \A k \in 1 .. Len(sent) :
              /\ sent[k].event \in Events /\ sent[k].before \in Nat
              /\ Len(Encode(sent[k].event)) \in Nat \ {0}
              /\ After(k) \in Nat
         /\ \A k \in 0 .. Len(sent) : After(k) \in Nat
<1>1. Len(wire) \in Nat /\ Len(out) \in Nat /\ Len(sent) \in Nat /\ lineNo \in Nat
  BY DEF ReaderTypeOK
<1>2. \A k \in 1 .. Len(sent) : sent[k] \in [event : Events, before : Nat]
  <2>1. PICK S : S = [event : Events, before : Nat]
    OBVIOUS
  <2>2. sent \in Seq(S)
    BY <2>1 DEF ReaderTypeOK
  <2>3. \A k \in 1 .. Len(sent) : sent[k] \in S
    BY <2>2
  <2> QED
    BY <2>1, <2>3
<1>3. \A k \in 1 .. Len(sent) : sent[k].event \in Events /\ sent[k].before \in Nat
  BY <1>2
<1>4. \A e \in Events : Len(Encode(e)) \in Nat \ {0}
  BY EncodeAt
<1>5. \A k \in 1 .. Len(sent) : Len(Encode(sent[k].event)) \in Nat \ {0} /\ After(k) \in Nat
  BY <1>3, <1>4 DEF After
<1>6. \A k \in 0 .. Len(sent) : After(k) \in Nat
  <2>1. After(0) = 0
    BY DEF After
  <2>2. \A k \in 0 .. Len(sent) : k = 0 \/ k \in 1 .. Len(sent)
    BY <1>1
  <2> QED
    BY <1>5, <2>1, <2>2
<1> QED
  BY <1>1, <1>3, <1>5, <1>6

\* The reader stays within the events, line by line.
LEMMA ReadingUndoes ==
  ASSUME ReaderTypeOK, Layout, Progress, Dispatch \/ Skip \/ SetField
  PROVE  Layout' /\ Progress'
<1>1. Read
  BY DEF Dispatch, Skip, SetField
<1>2. /\ lineNo' = lineNo + 1 /\ lineNo + 1 <= Len(wire) /\ UNCHANGED <<sent, wire, cut>>
      /\ lineNo \in Nat /\ Len(wire) \in Nat
  BY <1>1, LineToRead
<1>3. \A k : After(k)' = After(k)
  BY <1>2 DEF After
<1>4. Layout'
  BY <1>2, <1>3 DEF Layout
<1>5. PICK d \in Nat :
        /\ lineNo = After(Len(out)) + d
        /\ d = 0 => Fresh
        /\ d > 0 => /\ Len(out) < Len(sent)
                    /\ d < Len(Encode(sent[Len(out) + 1].event))
                    /\ Parsed(sent[Len(out) + 1].event, d)
  BY DEF Progress
<1>6. Len(out) \in Nat /\ Len(sent) \in Nat /\ Len(out) <= Len(sent)
  BY WrittenTypes DEF Progress
<1>7. Len(out) < Len(sent)
  <2> SUFFICES ASSUME Len(out) = Len(sent) PROVE FALSE
    BY <1>6
  <2>1. d = 0
    BY <1>5, <1>6
  <2>2. lineNo = After(Len(sent)) /\ After(Len(sent)) \in Nat
    BY <1>5, <1>6, <2>1, WrittenTypes
  <2>3. Len(wire) <= After(Len(sent))
    BY DEF Layout
  <2> QED
    BY <1>2, <2>2, <2>3
<1>8. PICK k \in 1 .. Len(sent) : k = Len(out) + 1
  BY <1>6, <1>7
<1>9. PICK e \in Events : e = sent[k].event
  BY WrittenTypes
<1>10. PICK b \in Nat : b = After(Len(out)) /\ b = sent[k].before
  <2>1. k - 1 = Len(out)
    BY <1>6, <1>8
  <2> QED
    BY <2>1, WrittenTypes DEF Layout
<1>11. Len(Encode(e)) \in Nat \ {0}
  BY EncodeAt
<1>12. d < Len(Encode(e)) /\ Parsed(e, d)
  <2>1. CASE d > 0
    BY <1>5, <1>8, <1>9, <2>1
  <2>2. CASE d = 0
    <3>1. Fresh /\ Extra(e) \in {0, 1}
      BY <1>5, <2>2, EncodeAt
    <3> QED
      BY <1>11, <2>2, <3>1 DEF Fresh, Parsed
  <2> QED
    BY <2>1, <2>2
<1>13. Current = Encode(e)[d + 1]
  <2>1. d + 1 \in 1 .. Len(Encode(e)) /\ b + (d + 1) <= Len(wire) /\ lineNo + 1 = b + (d + 1)
    <3>1. PICK m \in Nat \ {0}, N \in Nat : m = Len(Encode(e)) /\ N = Len(wire)
      BY <1>2, <1>11
    <3>2. /\ d < m /\ lineNo \in Nat /\ lineNo + 1 \in 1 .. N
          /\ lineNo = b + d
      BY <1>2, <1>5, <1>10, <1>12, <3>1
    <3>3. d + 1 \in 1 .. m /\ b + (d + 1) <= N /\ lineNo + 1 = b + (d + 1)
      BY ONLY <3>2, d \in Nat, b \in Nat, m \in Nat, N \in Nat
    <3> QED
      BY <3>1, <3>3
  <2>2. wire[b + (d + 1)] = Encode(e)[d + 1]
    BY <1>9, <1>10, <2>1 DEF Layout
  <2> QED
    BY <2>1, <2>2 DEF Current
<1>14. CASE d + 1 < Len(Encode(e))
  <2>1. Parsed(e, d + 1)' /\ UNCHANGED out
    BY <1>12, <1>13, <1>14, OneMoreLine
  <2>2. lineNo' = After(Len(out)) + (d + 1) /\ d + 1 \in Nat /\ d + 1 > 0
    BY <1>2, <1>5, <1>10
  <2>3. sent'[Len(out') + 1].event = e
    BY <1>2, <1>8, <1>9, <2>1
  <2>4. /\ lineNo' = After(Len(out))' + (d + 1)
        /\ Len(out') < Len(sent')
        /\ d + 1 < Len(Encode(sent'[Len(out') + 1].event))
        /\ Parsed(sent[Len(out) + 1].event, d + 1)'
    <3>1. After(Len(out))' = After(Len(out))
      BY <1>2, <2>1 DEF After
    <3>2. Parsed(sent[Len(out) + 1].event, d + 1)'
      BY <2>1, <2>3 DEF Parsed
    <3> QED
      BY <1>2, <1>7, <1>14, <2>1, <2>2, <2>3, <3>1, <3>2
  <2>5. Len(out') <= Len(sent') /\ \A n \in 1 .. Len(out') : out'[n] = Back(sent'[n].event)
    BY <1>2, <1>6, <2>1 DEF Progress
  <2>6. Progress'
    BY <2>2, <2>4, <2>5 DEF Progress
  <2> QED
    BY <1>4, <2>6
<1>15. CASE d + 1 = Len(Encode(e))
  <2>1. Fresh' /\ out' = Append(out, Back(e))
    BY <1>12, <1>13, <1>15, LastLine
  <2>2. /\ Len(out') = k
        /\ \A n \in 1 .. Len(out) : out'[n] = out[n]
        /\ out'[k] = Back(e)
    <3>1. PICK B : B = Back(e)
      OBVIOUS
    <3>2. out \in Seq(AnyEvent) /\ out' = Append(out, B)
      BY <2>1, <3>1 DEF ReaderTypeOK
    <3>3. /\ Len(out') = Len(out) + 1
          /\ \A n \in 1 .. Len(out) : out'[n] = out[n]
          /\ out'[Len(out) + 1] = B
      BY <3>2
    <3> QED
      BY <1>8, <3>1, <3>3
  <2>3. \A n \in 1 .. Len(out') : out'[n] = Back(sent'[n].event)
    <3>1. \A n \in 1 .. k : n = k \/ n \in 1 .. Len(out)
      BY <1>6, <1>8
    <3> QED
      BY <1>2, <1>9, <2>2, <3>1 DEF Progress
  <2>4. After(k) = b + Len(Encode(e))
    BY <1>9, <1>10 DEF After
  <2>5. lineNo' = After(Len(out))' + 0
    <3>1. lineNo' = b + (d + 1)
      BY <1>2, <1>5, <1>10
    <3>2. After(Len(out))' = After(k)
      BY <1>2, <2>2 DEF After
    <3> QED
      BY <1>10, <1>11, <1>15, <2>4, <3>1, <3>2
  <2>6. Len(out') <= Len(sent')
    BY <1>2, <1>8, <2>2
  <2>7. Progress'
    BY <2>1, <2>3, <2>5, <2>6 DEF Progress
  <2> QED
    BY <1>4, <2>7
<1> QED
  BY <1>11, <1>12, <1>14, <1>15

\* Write adds an event, or a part of one, at the end.
LEMMA WritingAppends ==
  ASSUME ReaderTypeOK, Layout, Progress, NEW e \in Events, Write(e)
  PROVE  Layout' /\ Progress'
<1>1. PICK n \in 0 .. Len(Encode(e)) :
        wire' = wire \o SubSeq(Encode(e), 1, n) /\ cut' = (n < Len(Encode(e)))
  BY DEF Write
<1>2. wire \in Seq(AnyLine) /\ Encode(e) \in Seq(AnyLine) /\ Len(Encode(e)) \in Nat \ {0}
  <2>1. /\ Encode(e) \in Seq(AnyLine) /\ Extra(e) \in {0, 1} /\ Len(e.data) \in Nat
        /\ Len(Encode(e)) = 3 + Extra(e) + Len(e.data)
    BY EncodeAt
  <2>2. Len(Encode(e)) \in Nat \ {0}
    BY <2>1
  <2> QED
    BY <2>1, <2>2 DEF ReaderTypeOK
<1>3. /\ Len(wire) \in Nat /\ Len(wire') = Len(wire) + n
      /\ \A i \in 1 .. Len(wire) : wire'[i] = wire[i]
      /\ \A i \in 1 .. n : wire'[Len(wire) + i] = Encode(e)[i]
  BY <1>1, <1>2, Written
<1>4. PICK K \in Nat : K = Len(sent)
  BY WrittenTypes
<1>5. /\ Len(sent') = K + 1
      /\ \A k \in 1 .. K : sent'[k] = sent[k]
      /\ sent'[K + 1].event = e /\ sent'[K + 1].before = Len(wire)
  <2>1. PICK x \in [event : Events, before : Nat] : x = [event |-> e, before |-> Len(wire)]
    BY <1>3
  <2>2. sent \in Seq([event : Events, before : Nat]) /\ sent' = Append(sent, x)
    BY <2>1 DEF Write, ReaderTypeOK
  <2>3. /\ Len(sent') = Len(sent) + 1
        /\ \A k \in 1 .. Len(sent) : sent'[k] = sent[k]
        /\ sent'[Len(sent) + 1] = x
    BY <2>2
  <2> QED
    BY <1>4, <2>1, <2>3
<1>6. ~cut /\ Len(wire) = After(K) /\ UNCHANGED <<lineNo, event, out>>
  BY <1>4 DEF Write, Layout
<1>7. \A k \in 0 .. K : After(k)' = After(k)
  BY <1>5 DEF After
<1>8. After(K + 1)' = Len(wire) + Len(Encode(e))
  BY <1>4, <1>5 DEF After
<1>9. \A k \in 1 .. K : /\ k \in 0 .. K /\ k - 1 \in 0 .. K
                        /\ After(k) \in Nat /\ After(k) <= Len(wire)
  <2>1. \A k \in 1 .. K : k \in 0 .. K /\ k - 1 \in 0 .. K
    OBVIOUS
  <2>2. \A k \in 1 .. K : After(k) \in Nat /\ After(k) <= Len(wire)
    BY <1>4, <1>6, WrittenTypes DEF Layout
  <2> QED
    BY <2>1, <2>2
<1>10. Layout'
  <2>1. ASSUME NEW k \in 1 .. Len(sent')
        PROVE  /\ sent'[k].before = After(k - 1)'
               /\ After(k)' <= After(K + 1)'
               /\ \A i \in 1 .. Len(Encode(sent'[k].event)) :
                    sent'[k].before + i <= Len(wire') =>
                      wire'[sent'[k].before + i] = Encode(sent'[k].event)[i]
    <3>1. CASE k \in 1 .. K
      <4>1. sent'[k] = sent[k] /\ After(k)' = After(k) /\ After(k - 1)' = After(k - 1)
        BY <1>5, <1>7, <1>9, <3>1
      <4>2. sent[k].before = After(k - 1)
        BY <1>4, <3>1 DEF Layout
      <4>3. After(k) <= Len(wire) + Len(Encode(e))
        BY <1>2, <1>3, <1>9, <3>1
      <4>4. ASSUME NEW i \in 1 .. Len(Encode(sent[k].event))
            PROVE  wire'[sent[k].before + i] = Encode(sent[k].event)[i]
        <5>1. sent[k].before \in Nat /\ Len(Encode(sent[k].event)) \in Nat
          BY <1>4, <3>1, WrittenTypes
        <5>2. After(k) = sent[k].before + Len(Encode(sent[k].event))
          BY <3>1 DEF After
        <5>3. sent[k].before + i \in 1 .. Len(wire)
          <6>1. PICK m \in Nat, c \in Nat :
                  m = Len(Encode(sent[k].event)) /\ c = sent[k].before
            BY <5>1
          <6>2. c + m <= Len(wire)
            BY <1>9, <3>1, <5>2, <6>1
          <6>3. i \in 1 .. m
            BY <6>1
          <6>4. c + i \in 1 .. Len(wire)
            BY ONLY <1>3, <6>2, <6>3, c \in Nat, m \in Nat
          <6> QED
            BY <6>1, <6>4
        <5>4. wire[sent[k].before + i] = Encode(sent[k].event)[i]
          BY <1>4, <3>1, <5>3 DEF Layout
        <5> QED
          BY <1>3, <5>3, <5>4
      <4> QED
        BY <1>8, <4>1, <4>2, <4>3, <4>4
    <3>2. CASE k = K + 1
      <4>1. After(k - 1)' = Len(wire)
        BY <1>6, <1>7, <3>2
      <4>2. After(k)' <= After(K + 1)'
        BY <1>2, <1>3, <1>8, <3>2
      <4>3. ASSUME NEW i \in 1 .. Len(Encode(e)), Len(wire) + i <= Len(wire')
            PROVE  wire'[Len(wire) + i] = Encode(e)[i]
        <5>1. i \in 1 .. n
          BY <1>2, <1>3, <4>3
        <5> QED
          BY <1>3, <5>1
      <4> QED
        BY <1>5, <3>2, <4>1, <4>2, <4>3
    <3> QED
      BY <1>4, <1>5, <3>1, <3>2
  <2>2. Len(wire') <= After(K + 1)' /\ (~cut' => Len(wire') = After(K + 1)')
    <3>1. PICK m \in Nat : m = Len(Encode(e))
      BY <1>2
    <3>2. n \in Nat /\ n <= m
      BY <3>1
    <3>3. ~cut' => ~(n < m)
      BY <1>1, <3>1
    <3>4. Len(wire') <= Len(wire) + m /\ (~(n < m) => Len(wire') = Len(wire) + m)
      BY <1>3, <3>2
    <3> QED
      BY <1>8, <3>1, <3>3, <3>4
  <2>3. After(Len(sent))' = After(K + 1)'
    BY <1>5 DEF After
  <2> QED
    BY <2>1, <2>2, <2>3 DEF Layout
<1>11. Progress'
  <2>1. PICK d \in Nat :
          /\ lineNo = After(Len(out)) + d
          /\ d = 0 => Fresh
          /\ d > 0 => /\ Len(out) < Len(sent)
                      /\ d < Len(Encode(sent[Len(out) + 1].event))
                      /\ Parsed(sent[Len(out) + 1].event, d)
    BY DEF Progress
  <2>2. Len(out) \in 0 .. K
    BY <1>4, WrittenTypes DEF Progress
  <2>3. After(Len(out))' = After(Len(out))
    <3>1. PICK m \in 0 .. K : m = Len(out)
      BY <2>2
    <3>2. After(m)' = After(m)
      BY <1>7
    <3> QED
      BY <1>6, <3>1, <3>2 DEF After
  <2>4. d = 0 => Fresh'
    BY <1>6, <2>1 DEF Fresh
  <2>5. d > 0 => /\ Len(out') < Len(sent')
                 /\ d < Len(Encode(sent'[Len(out') + 1].event))
                 /\ Parsed(sent[Len(out) + 1].event, d)'
    <3> SUFFICES ASSUME d > 0
                 PROVE  /\ Len(out') < Len(sent')
                        /\ d < Len(Encode(sent'[Len(out') + 1].event))
                        /\ Parsed(sent[Len(out) + 1].event, d)'
      OBVIOUS
    <3>1. Len(out) + 1 \in 1 .. K
      BY <1>4, <2>1, <2>2
    <3>2. sent'[Len(out') + 1] = sent[Len(out) + 1]
      BY <1>5, <1>6, <3>1
    <3>3. Len(out') < Len(sent')
      BY <1>5, <1>6, <2>2
    <3>4. Parsed(sent[Len(out) + 1].event, d)'
      BY <1>6, <2>1, <3>2 DEF Parsed
    <3> QED
      BY <2>1, <3>2, <3>3, <3>4
  <2>6. Len(out') <= Len(sent') /\ \A k \in 1 .. Len(out') : out'[k] = Back(sent'[k].event)
    <3>1. \A k \in 1 .. Len(out) : k \in 1 .. K
      BY <2>2
    <3> QED
      BY <1>5, <1>6, <2>2, <3>1 DEF Progress
  <2> QED
    BY <1>6, <2>1, <2>3, <2>4, <2>5, <2>6 DEF Progress
<1> QED
  BY <1>10, <1>11

\* The stream Write sends and the reader's place in it.
THEOREM WriterInvariant == ReaderSpec => []WriterInv
<1>1. ReaderInit => WriterInv
  <2> SUFFICES ASSUME ReaderInit, ~cut PROVE Layout /\ Progress
    BY DEF ReaderInit, WriterInv
  <2>1. /\ sent = <<>> /\ wire = <<>> /\ out = <<>> /\ lineNo = 0 /\ event = NoEvent
    BY DEF ReaderInit
  <2>2. After(0) = 0
    BY DEF After
  <2>3. Fresh
    BY <2>1 DEF Fresh, NoEvent
  <2>4. Layout
    BY <2>1, <2>2 DEF Layout
  <2>5. lineNo = After(Len(out)) + 0
    BY <2>1, <2>2
  <2> QED
    BY <2>1, <2>3, <2>4, <2>5 DEF Progress
<1>2. ReaderTypeOK /\ WriterInv /\ [ReaderNext]_readerVars => WriterInv'
  <2> SUFFICES ASSUME ReaderTypeOK, WriterInv, [ReaderNext]_readerVars PROVE WriterInv'
    OBVIOUS
  <2>1. CASE Dispatch \/ Skip \/ SetField
    <3>1. UNCHANGED <<sent, cut>>
      BY <2>1 DEF Dispatch, Skip, SetField, Read
    <3> QED
      BY <2>1, <3>1, ReadingUndoes DEF WriterInv
  <2>2. ASSUME NEW e \in Events, Write(e) PROVE WriterInv'
    <3>1. ~cut
      BY <2>2 DEF Write
    <3> QED
      BY <2>2, <3>1, WritingAppends DEF WriterInv
  <2>3. CASE UNCHANGED readerVars
    <3>1. \A k : After(k)' = After(k)
      BY <2>3 DEF readerVars, After
    <3>2. UNCHANGED <<sent, wire, cut, lineNo, event, out>>
      BY <2>3 DEF readerVars
    <3>3. Layout => Layout'
      BY <3>1, <3>2 DEF Layout
    <3>4. Progress => Progress'
      BY <3>1, <3>2 DEF Progress, Fresh, Parsed, After
    <3> QED
      BY <3>2, <3>3, <3>4 DEF WriterInv
  <2> QED
    BY <2>1, <2>2, <2>3 DEF ReaderNext
<1> QED
  BY <1>1, <1>2, ReaderTypeCorrect, PTL DEF ReaderSpec

\* What Write has sent comes back.
LEMMA ComesBack ==
  ASSUME ReaderTypeOK, WriterInv, sent # <<>>
  PROVE  WrittenComesBack
<1>1. Layout /\ Progress
  BY DEF WriterInv
<1>2. Len(out) \in Nat /\ Len(sent) \in Nat /\ Len(out) <= Len(sent)
  BY <1>1, WrittenTypes DEF Progress
<1>3. \A k \in 1 .. Len(out) : out[k] = [sent[k].event EXCEPT !.retry = 2 * (@ \div 2)]
  BY <1>1 DEF Progress, Back
<1>4. ASSUME lineNo = Len(wire), ~cut, Len(out) < Len(sent) PROVE FALSE
  <2>1. PICK k \in 1 .. Len(sent) : k = Len(out) + 1
    BY <1>2, <1>4
  <2>2. /\ After(k) = sent[k].before + Len(Encode(sent[k].event))
        /\ k - 1 = Len(out)
    BY <1>2, <2>1 DEF After
  <2>3. sent[k].before = After(Len(out)) /\ After(k) <= Len(wire)
    BY <1>1, <1>4, <2>2 DEF Layout
  <2>4. /\ sent[k].before \in Nat /\ Len(Encode(sent[k].event)) \in Nat \ {0}
        /\ Len(wire) \in Nat
    BY WrittenTypes
  <2>5. PICK d \in Nat :
          /\ lineNo = After(Len(out)) + d
          /\ d > 0 => d < Len(Encode(sent[Len(out) + 1].event))
    BY <1>1 DEF Progress
  <2>6. d < Len(Encode(sent[k].event))
    BY <2>1, <2>4, <2>5
  <2> QED
    BY <1>4, <2>2, <2>3, <2>4, <2>5, <2>6
<1> QED
  BY <1>2, <1>3, <1>4 DEF WrittenComesBack

-----------------------------------------------------------------------------
\* Says with the name the reader keeps over blank lines without data, ...
Keeps(w, j, i, e) ==
  /\ Latest(w, 0, i, Line("id", e.id))
  /\ Latest(w, j, i, Line("event", e.name))
  /\ \E n \in 0..e.retry : e.retry = 2 * n /\ Latest(w, j, i, RetryOf(n))
  /\ Len(e.data) = Cardinality(Data(w, j, i - 1))
  /\ \A n \in Data(w, j, i - 1) : e.data[Cardinality(Data(w, j, n))] = w[n].value

\* ... and ReadAsWritten with it.
ReadAsKept ==
  /\ Len(out) = Cardinality(Ends(wire, lineNo))
  /\ \A i \in Ends(wire, lineNo) :
       \E j \in {0} \cup Ends(wire, i - 1) :
         /\ \A n \in (j + 1)..(i - 1) : ~EndsEvent(wire, n)
         /\ Keeps(wire, j, i, out[Cardinality(Ends(wire, i))])

\* The reader and the reference.  Between the last line that ended an event and
\* the line to be read are the lines of the event under construction; after its
\* data there is no blank line.
Constructing(w, j, i, e) ==
  /\ \A n \in (j + 1) .. i : ~EndsEvent(w, n)
  /\ \A n \in Data(w, j, i) : \A m \in (n + 1) .. i : w[m].field # "blank"
  /\ Keeps(w, j, i + 1, e)

ReferenceInv ==
  /\ ~idPresent => event.id = lastRead
  /\ \E j \in {0} \cup Ends(wire, lineNo) : Constructing(wire, j, lineNo, event)
  /\ ReadAsKept

-----------------------------------------------------------------------------
\* A line of another field leaves the last of a field what it was, ...
LEMMA LatestKept ==
  ASSUME NEW w, NEW q \in Nat \ {0}, NEW j \in 0 .. q, NEW l, Latest(w, j, q, l),
         w[q].field # l.field
  PROVE  Latest(w, j, q + 1, l)
<1>1. (q + 1) - 1 = q
  OBVIOUS
<1>2. \A n : \A m \in (n + 1) .. q : n \in Nat => m = q \/ m \in (n + 1) .. (q - 1)
  OBVIOUS
<1>3. CASE l = Line(l.field, NoValue) /\ \A n \in (j + 1) .. (q - 1) : w[n].field # l.field
  <2>1. \A n \in (j + 1) .. q : w[n].field # l.field
    BY <1>2, <1>3
  <2> QED
    BY <1>1, <1>3, <2>1 DEF Latest
<1>4. CASE \E n \in (j + 1) .. (q - 1) :
             w[n] = l /\ \A m \in (n + 1) .. (q - 1) : w[m].field # l.field
  <2>1. PICK n \in (j + 1) .. (q - 1) :
          w[n] = l /\ \A m \in (n + 1) .. (q - 1) : w[m].field # l.field
    BY <1>4
  <2>2. n \in (j + 1) .. q /\ n \in Nat
    OBVIOUS
  <2>3. \A m \in (n + 1) .. q : w[m].field # l.field
    BY <1>2, <2>1, <2>2
  <2> QED
    BY <1>1, <2>1, <2>2, <2>3 DEF Latest
<1> QED
  BY <1>3, <1>4 DEF Latest

\* ... a line of the field is the last, ...
LEMMA LatestTaken ==
  ASSUME NEW w, NEW q \in Nat \ {0}, NEW j \in 0 .. (q - 1), NEW l, w[q] = l
  PROVE  Latest(w, j, q + 1, l)
<1>1. (q + 1) - 1 = q /\ q \in (j + 1) .. q /\ \A m \in (q + 1) .. q : FALSE
  OBVIOUS
<1> QED
  BY <1>1 DEF Latest

\* ... and among no lines there is none.
LEMMA LatestNone ==
  ASSUME NEW w, NEW q \in Nat, NEW f
  PROVE  Latest(w, q, q + 1, Line(f, NoValue))
<1>1. Line(f, NoValue).field = f
  BY DEF Line
<1>2. \A n \in (q + 1) .. ((q + 1) - 1) : FALSE
  OBVIOUS
<1> QED
  BY <1>1, <1>2 DEF Latest

\* Counting the data lines.
LEMMA DataCount ==
  ASSUME NEW w, NEW q \in Nat \ {0}, NEW j \in 0 .. (q - 1)
  PROVE  /\ IsFiniteSet(Data(w, j, q - 1)) /\ Cardinality(Data(w, j, q - 1)) \in Nat
         /\ w[q].field # "data" => Data(w, j, q) = Data(w, j, q - 1)
         /\ w[q].field = "data" =>
              /\ Data(w, j, q) = Data(w, j, q - 1) \cup {q}
              /\ Cardinality(Data(w, j, q)) = Cardinality(Data(w, j, q - 1)) + 1
         /\ \A n \in Data(w, j, q - 1) :
              Cardinality(Data(w, j, n)) \in 1 .. Cardinality(Data(w, j, q - 1))
<1>1. \A i \in Nat : IsFiniteSet(Data(w, j, i)) /\ Cardinality(Data(w, j, i)) \in Nat
  <2> SUFFICES ASSUME NEW i \in Nat
               PROVE  IsFiniteSet(Data(w, j, i)) /\ Cardinality(Data(w, j, i)) \in Nat
    OBVIOUS
  <2>1. IsFiniteSet((j + 1) .. i)
    BY FS_Interval
  <2>2. Data(w, j, i) \in SUBSET ((j + 1) .. i)
    BY DEF Data
  <2>3. IsFiniteSet(Data(w, j, i))
    BY <2>1, <2>2, FS_Subset
  <2> QED
    BY <2>3, FS_CardinalityType
<1>2. q - 1 \in Nat /\ q \in Nat
  OBVIOUS
<1>3. \A n \in (j + 1) .. q : n = q \/ n \in (j + 1) .. (q - 1)
  OBVIOUS
<1>4. /\ \A n \in (j + 1) .. (q - 1) : n \in (j + 1) .. q
      /\ q \in (j + 1) .. q /\ q \notin (j + 1) .. (q - 1)
  OBVIOUS
<1>5. w[q].field # "data" => Data(w, j, q) = Data(w, j, q - 1)
  BY <1>3, <1>4 DEF Data
<1>6. w[q].field = "data" => Data(w, j, q) = Data(w, j, q - 1) \cup {q}
  BY <1>3, <1>4 DEF Data
<1>7. q \notin Data(w, j, q - 1)
  BY <1>4 DEF Data
<1>8. w[q].field = "data" =>
        Cardinality(Data(w, j, q)) = Cardinality(Data(w, j, q - 1)) + 1
  BY <1>1, <1>2, <1>6, <1>7, FS_AddElement
<1>9. ASSUME NEW n \in Data(w, j, q - 1)
      PROVE  Cardinality(Data(w, j, n)) \in 1 .. Cardinality(Data(w, j, q - 1))
  <2>1. n \in (j + 1) .. (q - 1) /\ n \in Nat /\ w[n].field = "data"
    BY DEF Data
  <2>2. /\ \A m \in (j + 1) .. n : m \in (j + 1) .. (q - 1)
        /\ n \in (j + 1) .. n
    BY <2>1
  <2>3. Data(w, j, n) \in SUBSET Data(w, j, q - 1) /\ n \in Data(w, j, n)
    BY <2>1, <2>2 DEF Data
  <2>4. Cardinality(Data(w, j, n)) <= Cardinality(Data(w, j, q - 1))
    BY <1>1, <1>2, <2>3, FS_Subset
  <2>5. Cardinality(Data(w, j, n)) # 0
    BY <1>1, <2>1, <2>3, FS_EmptySet
  <2> QED
    BY <1>1, <1>2, <2>1, <2>4, <2>5
<1> QED
  BY <1>1, <1>2, <1>5, <1>6, <1>8, <1>9

\* Counting the lines that end an event.
LEMMA EndsCount ==
  ASSUME NEW w, NEW q \in Nat \ {0}
  PROVE  /\ IsFiniteSet(Ends(w, q - 1)) /\ Cardinality(Ends(w, q - 1)) \in Nat
         /\ ~EndsEvent(w, q) => Ends(w, q) = Ends(w, q - 1)
         /\ EndsEvent(w, q) =>
              /\ Ends(w, q) = Ends(w, q - 1) \cup {q}
              /\ Cardinality(Ends(w, q)) = Cardinality(Ends(w, q - 1)) + 1
         /\ \A i \in Ends(w, q - 1) :
              Cardinality(Ends(w, i)) \in 1 .. Cardinality(Ends(w, q - 1))
<1>1. \A i \in Nat : IsFiniteSet(Ends(w, i)) /\ Cardinality(Ends(w, i)) \in Nat
  <2> SUFFICES ASSUME NEW i \in Nat
               PROVE  IsFiniteSet(Ends(w, i)) /\ Cardinality(Ends(w, i)) \in Nat
    OBVIOUS
  <2>1. IsFiniteSet(1 .. i)
    BY FS_Interval
  <2>2. Ends(w, i) \in SUBSET (1 .. i)
    BY DEF Ends
  <2>3. IsFiniteSet(Ends(w, i))
    BY <2>1, <2>2, FS_Subset
  <2> QED
    BY <2>3, FS_CardinalityType
<1>2. q - 1 \in Nat /\ q \in Nat
  OBVIOUS
<1>3. /\ \A n \in 1 .. q : n = q \/ n \in 1 .. (q - 1)
      /\ \A n \in 1 .. (q - 1) : n \in 1 .. q
      /\ q \in 1 .. q /\ q \notin 1 .. (q - 1)
  OBVIOUS
<1>4. ~EndsEvent(w, q) => Ends(w, q) = Ends(w, q - 1)
  BY <1>3 DEF Ends
<1>5. EndsEvent(w, q) => Ends(w, q) = Ends(w, q - 1) \cup {q}
  BY <1>3 DEF Ends
<1>6. q \notin Ends(w, q - 1)
  BY <1>3 DEF Ends
<1>7. EndsEvent(w, q) => Cardinality(Ends(w, q)) = Cardinality(Ends(w, q - 1)) + 1
  BY <1>1, <1>2, <1>5, <1>6, FS_AddElement
<1>8. ASSUME NEW i \in Ends(w, q - 1)
      PROVE  Cardinality(Ends(w, i)) \in 1 .. Cardinality(Ends(w, q - 1))
  <2>1. i \in 1 .. (q - 1) /\ i \in Nat /\ EndsEvent(w, i)
    BY DEF Ends
  <2>2. /\ \A m \in 1 .. i : m \in 1 .. (q - 1)
        /\ i \in 1 .. i
    BY <2>1
  <2>3. Ends(w, i) \in SUBSET Ends(w, q - 1) /\ i \in Ends(w, i)
    BY <2>1, <2>2 DEF Ends
  <2>4. Cardinality(Ends(w, i)) <= Cardinality(Ends(w, q - 1))
    BY <1>1, <1>2, <2>3, FS_Subset
  <2>5. Cardinality(Ends(w, i)) # 0
    BY <1>1, <2>1, <2>3, FS_EmptySet
  <2> QED
    BY <1>1, <1>2, <2>1, <2>4, <2>5
<1> QED
  BY <1>1, <1>2, <1>4, <1>5, <1>7, <1>8

-----------------------------------------------------------------------------
\* What the lines say of an event when one that is not data has been added: the
\* field it sets, if it sets one, and the others as before.
LEMMA KeepsField ==
  ASSUME NEW w, NEW q \in Nat \ {0}, NEW j \in 0 .. (q - 1), NEW e, NEW f,
         Keeps(w, j, q, e), e.retry \in Nat, f.retry \in Nat, f.data = e.data,
         w[q].field # "data",
         \/ w[q] = Line("id", f.id)
         \/ w[q].field # "id" /\ f.id = e.id,
         \/ w[q] = Line("event", f.name)
         \/ w[q].field # "event" /\ f.name = e.name,
         \/ \E n \in Nat : w[q] = RetryOf(n) /\ f.retry = 2 * n
         \/ w[q].field # "retry" /\ f.retry = e.retry
  PROVE  Keeps(w, j, q + 1, f)
<1>1. \A v, x : Line(v, x).field = v
  BY DEF Line
<1>2. \A n : RetryOf(n).field = "retry"
  BY DEF RetryOf
<1>3. j \in 0 .. q /\ 0 \in 0 .. q /\ 0 \in 0 .. (q - 1) /\ (q + 1) - 1 = q
  OBVIOUS
<1>4. Latest(w, 0, q + 1, Line("id", f.id))
  <2>1. CASE w[q] = Line("id", f.id)
    BY <1>3, <2>1, LatestTaken
  <2>2. CASE w[q].field # "id" /\ f.id = e.id
    <3>1. Latest(w, 0, q, Line("id", f.id)) /\ Line("id", f.id).field = "id"
      BY <1>1, <2>2 DEF Keeps
    <3> QED
      BY <1>3, <2>2, <3>1, LatestKept
  <2> QED
    BY <2>1, <2>2
<1>5. Latest(w, j, q + 1, Line("event", f.name))
  <2>1. CASE w[q] = Line("event", f.name)
    BY <2>1, LatestTaken
  <2>2. CASE w[q].field # "event" /\ f.name = e.name
    <3>1. Latest(w, j, q, Line("event", f.name)) /\ Line("event", f.name).field = "event"
      BY <1>1, <2>2 DEF Keeps
    <3> QED
      BY <1>3, <2>2, <3>1, LatestKept
  <2> QED
    BY <2>1, <2>2
<1>6. \E n \in 0 .. f.retry : f.retry = 2 * n /\ Latest(w, j, q + 1, RetryOf(n))
  <2>1. CASE \E n \in Nat : w[q] = RetryOf(n) /\ f.retry = 2 * n
    <3>1. PICK n \in Nat : w[q] = RetryOf(n) /\ f.retry = 2 * n
      BY <2>1
    <3>2. n \in 0 .. f.retry
      BY <3>1
    <3>3. Latest(w, j, q + 1, RetryOf(n))
      BY <3>1, LatestTaken
    <3> QED
      BY <3>1, <3>2, <3>3
  <2>2. CASE w[q].field # "retry" /\ f.retry = e.retry
    <3>1. PICK n \in 0 .. e.retry : e.retry = 2 * n /\ Latest(w, j, q, RetryOf(n))
      BY DEF Keeps
    <3>2. Latest(w, j, q + 1, RetryOf(n))
      BY <1>2, <1>3, <2>2, <3>1, LatestKept
    <3> QED
      BY <2>2, <3>1, <3>2
  <2> QED
    BY <2>1, <2>2
<1>7. Data(w, j, q) = Data(w, j, q - 1)
  BY DataCount
<1>8. /\ Len(f.data) = Cardinality(Data(w, j, q))
      /\ \A n \in Data(w, j, q) : f.data[Cardinality(Data(w, j, n))] = w[n].value
  BY <1>7 DEF Keeps
<1> QED
  BY <1>3, <1>4, <1>5, <1>6, <1>8 DEF Keeps

\* The same for a data line.
LEMMA KeepsData ==
  ASSUME NEW w, NEW q \in Nat \ {0}, NEW j \in 0 .. (q - 1), NEW e, NEW f,
         Keeps(w, j, q, e), e.retry \in Nat, f.retry = e.retry, f.id = e.id, f.name = e.name,
         w[q].field = "data", e.data \in Seq(Value), w[q].value \in Value,
         f.data = Append(e.data, w[q].value)
  PROVE  Keeps(w, j, q + 1, f)
<1>1. \A v, x : Line(v, x).field = v
  BY DEF Line
<1>2. \A n : RetryOf(n).field = "retry"
  BY DEF RetryOf
<1>3. j \in 0 .. q /\ 0 \in 0 .. q /\ (q + 1) - 1 = q
  OBVIOUS
<1>4. Latest(w, 0, q + 1, Line("id", f.id))
  <2>1. Latest(w, 0, q, Line("id", f.id)) /\ Line("id", f.id).field = "id"
    BY <1>1 DEF Keeps
  <2> QED
    BY <1>3, <2>1, LatestKept
<1>5. Latest(w, j, q + 1, Line("event", f.name))
  <2>1. Latest(w, j, q, Line("event", f.name)) /\ Line("event", f.name).field = "event"
    BY <1>1 DEF Keeps
  <2> QED
    BY <1>3, <2>1, LatestKept
<1>6. \E n \in 0 .. f.retry : f.retry = 2 * n /\ Latest(w, j, q + 1, RetryOf(n))
  <2>1. PICK n \in 0 .. e.retry : e.retry = 2 * n /\ Latest(w, j, q, RetryOf(n))
    BY DEF Keeps
  <2>2. Latest(w, j, q + 1, RetryOf(n))
    BY <1>2, <1>3, <2>1, LatestKept
  <2> QED
    BY <2>1, <2>2
<1>7. PICK N \in Nat : N = Len(e.data)
  OBVIOUS
<1>8. /\ N = Cardinality(Data(w, j, q - 1))
      /\ \A n \in Data(w, j, q - 1) : e.data[Cardinality(Data(w, j, n))] = w[n].value
  BY <1>7 DEF Keeps
<1>9. /\ Data(w, j, q) = Data(w, j, q - 1) \cup {q}
      /\ Cardinality(Data(w, j, q)) = N + 1
      /\ \A n \in Data(w, j, q - 1) : Cardinality(Data(w, j, n)) \in 1 .. N
  BY <1>8, DataCount
<1>10. /\ Len(f.data) = N + 1
       /\ \A i \in 1 .. N : f.data[i] = e.data[i]
       /\ f.data[N + 1] = w[q].value
  BY <1>7
<1>11. \A n \in Data(w, j, q) : f.data[Cardinality(Data(w, j, n))] = w[n].value
  BY <1>8, <1>9, <1>10
<1> QED
  BY <1>3, <1>4, <1>5, <1>6, <1>9, <1>10, <1>11 DEF Keeps

\* After a line that ends an event the next one starts with its ID.
LEMMA KeepsFresh ==
  ASSUME NEW w, NEW q \in Nat \ {0}, NEW j \in 0 .. (q - 1), NEW e,
         Keeps(w, j, q, e), w[q].field = "blank"
  PROVE  Keeps(w, q, q + 1, [NoEvent EXCEPT !.id = e.id])
<1> DEFINE f == [NoEvent EXCEPT !.id = e.id]
<1>1. f.id = e.id /\ f.name = NoValue /\ f.retry = 0 /\ f.data = <<>>
  BY DEF NoEvent
<1> HIDE DEF f
<1>2. Latest(w, 0, q + 1, Line("id", f.id))
  <2>1. Latest(w, 0, q, Line("id", f.id)) /\ Line("id", f.id).field = "id"
    BY <1>1 DEF Keeps, Line
  <2>2. 0 \in 0 .. q
    OBVIOUS
  <2> QED
    BY <2>1, <2>2, LatestKept
<1>3. Latest(w, q, q + 1, Line("event", f.name))
  BY <1>1, LatestNone
<1>4. \E n \in 0 .. f.retry : f.retry = 2 * n /\ Latest(w, q, q + 1, RetryOf(n))
  <2>1. RetryOf(0) = Line("retry", NoValue)
    BY DEF RetryOf, Line
  <2>2. Latest(w, q, q + 1, RetryOf(0))
    BY <2>1, LatestNone
  <2>3. 0 \in 0 .. f.retry /\ f.retry = 2 * 0
    BY <1>1
  <2> QED
    BY <2>2, <2>3
<1>5. Data(w, q, (q + 1) - 1) = {}
  BY DEF Data
<1>6. Len(f.data) = Cardinality(Data(w, q, (q + 1) - 1))
  BY <1>1, <1>5, FS_EmptySet
<1>7. Keeps(w, q, q + 1, f)
  BY <1>2, <1>3, <1>4, <1>5, <1>6 DEF Keeps
<1> QED
  BY <1>7 DEF f

-----------------------------------------------------------------------------
\* A line that ends no event.
LEMMA OtherLine ==
  ASSUME NEW w, NEW q \in Nat \ {0}, NEW j \in {0} \cup Ends(w, q - 1), NEW e, NEW f,
         Constructing(w, j, q - 1, e), Keeps(w, j, q + 1, f),
         w[q].field # "blank" \/ Data(w, j, q - 1) = {}
  PROVE  /\ ~EndsEvent(w, q)
         /\ j \in {0} \cup Ends(w, q)
         /\ Constructing(w, j, q, f)
<1>1. j \in 0 .. (q - 1) /\ j \in Nat
  BY DEF Ends
<1>2. ~EndsEvent(w, q)
  <2> SUFFICES ASSUME EndsEvent(w, q) PROVE FALSE
    OBVIOUS
  <2>1. PICK n \in 1 .. (q - 1) :
          w[n].field = "data" /\ \A m \in (n + 1) .. (q - 1) : w[m].field # "blank"
    BY DEF EndsEvent
  <2>2. w[q].field = "blank" /\ Data(w, j, q - 1) = {}
    BY DEF EndsEvent
  <2>3. n \notin (j + 1) .. (q - 1)
    BY <2>1, <2>2 DEF Data
  <2>4. n <= j /\ j # 0
    BY <1>1, <2>3
  <2>5. EndsEvent(w, j)
    BY <2>4 DEF Ends
  <2>6. w[j].field = "blank"
    BY <2>5 DEF EndsEvent
  <2>7. n # j
    BY <2>1, <2>6
  <2>8. j \in (n + 1) .. (q - 1)
    BY <1>1, <2>4, <2>7
  <2> QED
    BY <2>1, <2>6, <2>8
<1>3. j \in {0} \cup Ends(w, q)
  BY <1>2, EndsCount
<1>4. \A n \in (j + 1) .. q : n = q \/ n \in (j + 1) .. (q - 1)
  BY <1>1
<1>5. \A n \in (j + 1) .. q : ~EndsEvent(w, n)
  BY <1>2, <1>4 DEF Constructing
<1>6. \A n \in Data(w, j, q) : \A m \in (n + 1) .. q : w[m].field # "blank"
  <2> SUFFICES ASSUME NEW n \in Data(w, j, q), NEW m \in (n + 1) .. q, w[m].field = "blank"
               PROVE  FALSE
    OBVIOUS
  <2>1. n \in (j + 1) .. q /\ w[n].field = "data" /\ n \in Nat
    BY <1>1 DEF Data
  <2>2. n \in (j + 1) .. (q - 1)
    BY <1>1, <2>1
  <2>3. n \in Data(w, j, q - 1)
    BY <2>1, <2>2 DEF Data
  <2>4. m # q
    BY <2>3
  <2>5. m \in (n + 1) .. (q - 1)
    BY <2>1, <2>4
  <2> QED
    BY <2>3, <2>5 DEF Constructing
<1> QED
  BY <1>2, <1>3, <1>5, <1>6 DEF Constructing

\* A blank line after data.
LEMMA EndingLine ==
  ASSUME NEW w, NEW q \in Nat \ {0}, NEW j \in {0} \cup Ends(w, q - 1), NEW e,
         Constructing(w, j, q - 1, e), w[q].field = "blank", Data(w, j, q - 1) # {}
  PROVE  /\ EndsEvent(w, q)
         /\ q \in Ends(w, q)
         /\ Constructing(w, q, q, [NoEvent EXCEPT !.id = e.id])
<1>1. j \in 0 .. (q - 1) /\ j \in Nat
  BY DEF Ends
<1>2. PICK n \in Data(w, j, q - 1) : TRUE
  OBVIOUS
<1>3. n \in (j + 1) .. (q - 1) /\ w[n].field = "data"
  BY DEF Data
<1>4. n \in 1 .. (q - 1)
  BY <1>1, <1>3
<1>5. \A m \in (n + 1) .. (q - 1) : w[m].field # "blank"
  BY DEF Constructing
<1>6. EndsEvent(w, q)
  BY <1>3, <1>4, <1>5 DEF EndsEvent
<1>7. q \in Ends(w, q)
  BY <1>6 DEF Ends
<1>8. Keeps(w, j, q, e)
  <2>1. (q - 1) + 1 = q
    OBVIOUS
  <2> QED
    BY <2>1 DEF Constructing
<1>9. Keeps(w, q, q + 1, [NoEvent EXCEPT !.id = e.id])
  BY <1>1, <1>8, KeepsFresh
<1>10. \A m \in (q + 1) .. q : FALSE
  OBVIOUS
<1> QED
  BY <1>6, <1>7, <1>9, <1>10 DEF Constructing, Data

-----------------------------------------------------------------------------
\* ReadAsKept of given lines and events.
AsSaid(w, p, o) ==
  /\ Len(o) = Cardinality(Ends(w, p))
  /\ \A i \in Ends(w, p) :
       \E j \in {0} \cup Ends(w, i - 1) :
         /\ \A n \in (j + 1) .. (i - 1) : ~EndsEvent(w, n)
         /\ Keeps(w, j, i, o[Cardinality(Ends(w, i))])

\* Lines written later change nothing of what the lines before them say.
LEMMA SameLines ==
  ASSUME NEW w, NEW v, NEW p \in Nat, \A i \in 1 .. p : v[i] = w[i]
  PROVE  /\ \A i \in 1 .. p : EndsEvent(v, i) <=> EndsEvent(w, i)
         /\ \A i \in 0 .. p : Ends(v, i) = Ends(w, i)
         /\ \A j, i \in 0 .. p : Data(v, j, i) = Data(w, j, i)
         /\ \A j \in 0 .. p, i \in 1 .. (p + 1) : \A e : Keeps(w, j, i, e) => Keeps(v, j, i, e)
<1>1. \A i \in 1 .. p : EndsEvent(v, i) <=> EndsEvent(w, i)
  <2> SUFFICES ASSUME NEW i \in 1 .. p PROVE EndsEvent(v, i) <=> EndsEvent(w, i)
    OBVIOUS
  <2>1. \A n \in 1 .. (i - 1) : n \in 1 .. p /\ \A m \in (n + 1) .. (i - 1) : m \in 1 .. p
    OBVIOUS
  <2>2. v[i] = w[i] /\ \A n \in 1 .. (i - 1) :
                         v[n] = w[n] /\ \A m \in (n + 1) .. (i - 1) : v[m] = w[m]
    BY <2>1
  <2> QED
    BY <2>2 DEF EndsEvent
<1>2. \A i \in 0 .. p : Ends(v, i) = Ends(w, i)
  <2>1. \A i \in 0 .. p : \A n \in 1 .. i : n \in 1 .. p
    OBVIOUS
  <2> QED
    BY <1>1, <2>1 DEF Ends
<1>3. \A j, i \in 0 .. p : Data(v, j, i) = Data(w, j, i)
  <2>1. \A j, i \in 0 .. p : \A n \in (j + 1) .. i : n \in 1 .. p
    OBVIOUS
  <2> QED
    BY <2>1 DEF Data
<1>4. \A j \in 0 .. p, i \in 1 .. (p + 1) : \A l : Latest(w, j, i, l) => Latest(v, j, i, l)
  <2> SUFFICES ASSUME NEW j \in 0 .. p, NEW i \in 1 .. (p + 1), NEW l, Latest(w, j, i, l)
               PROVE  Latest(v, j, i, l)
    OBVIOUS
  <2>1. \A n \in (j + 1) .. (i - 1) :
          n \in 1 .. p /\ \A m \in (n + 1) .. (i - 1) : m \in 1 .. p
    OBVIOUS
  <2>2. \A n \in (j + 1) .. (i - 1) :
          v[n] = w[n] /\ \A m \in (n + 1) .. (i - 1) : v[m] = w[m]
    BY <2>1
  <2> QED
    BY <2>2 DEF Latest
<1>5. ASSUME NEW j \in 0 .. p, NEW i \in 1 .. (p + 1), NEW e, Keeps(w, j, i, e)
      PROVE  Keeps(v, j, i, e)
  <2>1. 0 \in 0 .. p /\ i - 1 \in 0 .. p
    OBVIOUS
  <2>2. Data(v, j, i - 1) = Data(w, j, i - 1)
    BY <1>3, <2>1
  <2>3. \A n \in Data(w, j, i - 1) : n \in 1 .. p /\ n \in 0 .. p
    BY DEF Data
  <2>4. \A n \in Data(w, j, i - 1) : Data(v, j, n) = Data(w, j, n) /\ v[n] = w[n]
    BY <1>3, <2>3
  <2>5. /\ Latest(v, 0, i, Line("id", e.id))
        /\ Latest(v, j, i, Line("event", e.name))
        /\ \E n \in 0 .. e.retry : e.retry = 2 * n /\ Latest(v, j, i, RetryOf(n))
    BY <1>4, <1>5, <2>1 DEF Keeps
  <2>6. /\ Len(e.data) = Cardinality(Data(w, j, i - 1))
        /\ \A n \in Data(w, j, i - 1) : e.data[Cardinality(Data(w, j, n))] = w[n].value
    BY <1>5 DEF Keeps
  <2>7. /\ Len(e.data) = Cardinality(Data(v, j, i - 1))
        /\ \A n \in Data(v, j, i - 1) : e.data[Cardinality(Data(v, j, n))] = v[n].value
    BY <2>2, <2>4, <2>6
  <2> QED
    BY <2>5, <2>7 DEF Keeps
<1> QED
  BY <1>1, <1>2, <1>3, <1>5

LEMMA SaidSame ==
  ASSUME NEW w, NEW v, NEW p \in Nat, \A i \in 1 .. p : v[i] = w[i]
  PROVE  /\ \A o : AsSaid(w, p, o) => AsSaid(v, p, o)
         /\ \A e : \A j \in {0} \cup Ends(w, p) :
              Constructing(w, j, p, e) => j \in {0} \cup Ends(v, p) /\ Constructing(v, j, p, e)
<1>1. \A j \in {0} \cup Ends(w, p) : j \in 0 .. p
  BY DEF Ends
<1>2. /\ \A i \in 1 .. p : EndsEvent(v, i) <=> EndsEvent(w, i)
      /\ \A i \in 0 .. p : Ends(v, i) = Ends(w, i)
      /\ \A j, i \in 0 .. p : Data(v, j, i) = Data(w, j, i)
      /\ \A j \in 0 .. p, i \in 1 .. (p + 1) : \A e : Keeps(w, j, i, e) => Keeps(v, j, i, e)
  BY SameLines
<1>3. p \in 0 .. p /\ p + 1 \in 1 .. (p + 1)
  OBVIOUS
<1>4. ASSUME NEW o, AsSaid(w, p, o) PROVE AsSaid(v, p, o)
  <2>1. Ends(v, p) = Ends(w, p)
    BY <1>2, <1>3
  <2>2. ASSUME NEW i \in Ends(w, p)
        PROVE  \E j \in {0} \cup Ends(v, i - 1) :
                 /\ \A n \in (j + 1) .. (i - 1) : ~EndsEvent(v, n)
                 /\ Keeps(v, j, i, o[Cardinality(Ends(v, i))])
    <3>1. i \in 1 .. p /\ i - 1 \in 0 .. p /\ i \in 0 .. p /\ i \in 1 .. (p + 1)
      BY DEF Ends
    <3>2. PICK j \in {0} \cup Ends(w, i - 1) :
            /\ \A n \in (j + 1) .. (i - 1) : ~EndsEvent(w, n)
            /\ Keeps(w, j, i, o[Cardinality(Ends(w, i))])
      BY <1>4 DEF AsSaid
    <3>3. j \in 0 .. p /\ \A n \in (j + 1) .. (i - 1) : n \in 1 .. p
      BY <3>1 DEF Ends
    <3>4. Ends(v, i) = Ends(w, i) /\ Ends(v, i - 1) = Ends(w, i - 1)
      BY <1>2, <3>1
    <3>5. Keeps(v, j, i, o[Cardinality(Ends(v, i))])
      BY <1>2, <3>1, <3>2, <3>3, <3>4
    <3> QED
      BY <1>2, <3>2, <3>3, <3>4, <3>5
  <2>3. Len(o) = Cardinality(Ends(v, p))
    BY <1>4, <2>1 DEF AsSaid
  <2> QED
    BY <2>1, <2>2, <2>3 DEF AsSaid
<1>5. ASSUME NEW e, NEW j \in {0} \cup Ends(w, p), Constructing(w, j, p, e)
      PROVE  j \in {0} \cup Ends(v, p) /\ Constructing(v, j, p, e)
  <2>1. j \in 0 .. p
    BY <1>1
  <2>2. \A n \in (j + 1) .. p : n \in 1 .. p /\ \A m \in (n + 1) .. p : m \in 1 .. p
    BY <2>1
  <2>3. \A n \in (j + 1) .. p : ~EndsEvent(v, n)
    BY <1>2, <1>5, <2>2 DEF Constructing
  <2>4. Data(v, j, p) = Data(w, j, p) /\ \A n \in Data(w, j, p) : n \in (j + 1) .. p
    BY <1>2, <1>3, <2>1 DEF Data
  <2>5. \A n \in Data(v, j, p) : \A m \in (n + 1) .. p : v[m].field # "blank"
    BY <1>5, <2>2, <2>4 DEF Constructing
  <2>6. Keeps(v, j, p + 1, e)
    BY <1>2, <1>3, <1>5, <2>1 DEF Constructing
  <2> QED
    BY <1>2, <1>3, <2>3, <2>5, <2>6 DEF Constructing
<1> QED
  BY <1>4, <1>5

\* The events returned so far, after a line that ends no event and after one
\* that does.
LEMMA NoEventMore ==
  ASSUME NEW w, NEW q \in Nat \ {0}, NEW o, AsSaid(w, q - 1, o), ~EndsEvent(w, q)
  PROVE  AsSaid(w, q, o)
<1>1. Ends(w, q) = Ends(w, q - 1)
  BY EndsCount
<1> QED
  BY <1>1 DEF AsSaid

LEMMA OneEventMore ==
  ASSUME NEW w, NEW q \in Nat \ {0}, NEW o \in Seq(AnyEvent), NEW e \in AnyEvent,
         AsSaid(w, q - 1, o), EndsEvent(w, q),
         NEW j \in {0} \cup Ends(w, q - 1), Constructing(w, j, q - 1, e)
  PROVE  AsSaid(w, q, Append(o, e))
<1>1. PICK N \in Nat : N = Len(o) /\ N = Cardinality(Ends(w, q - 1))
  BY DEF AsSaid
<1>2. PICK x : x = Append(o, e)
  OBVIOUS
<1>3. Len(x) = N + 1 /\ x[N + 1] = e /\ \A i \in 1 .. N : x[i] = o[i]
  <2>1. Len(x) = Len(o) + 1 /\ x[Len(o) + 1] = e /\ \A i \in 1 .. Len(o) : x[i] = o[i]
    BY ONLY <1>2, o \in Seq(AnyEvent), e \in AnyEvent
  <2> QED
    BY <1>1, <2>1
<1>4. /\ Ends(w, q) = Ends(w, q - 1) \cup {q}
      /\ Cardinality(Ends(w, q)) = N + 1
      /\ \A i \in Ends(w, q - 1) : Cardinality(Ends(w, i)) \in 1 .. N
  BY <1>1, EndsCount
<1>5. Keeps(w, j, q, e) /\ \A n \in (j + 1) .. (q - 1) : ~EndsEvent(w, n)
  <2>1. (q - 1) + 1 = q
    OBVIOUS
  <2> QED
    BY <2>1 DEF Constructing
<1>6. \E k \in {0} \cup Ends(w, q - 1) :
        /\ \A n \in (k + 1) .. (q - 1) : ~EndsEvent(w, n)
        /\ Keeps(w, k, q, x[Cardinality(Ends(w, q))])
  BY <1>3, <1>4, <1>5
<1>7. ASSUME NEW i \in Ends(w, q - 1)
      PROVE  \E k \in {0} \cup Ends(w, i - 1) :
               /\ \A n \in (k + 1) .. (i - 1) : ~EndsEvent(w, n)
               /\ Keeps(w, k, i, x[Cardinality(Ends(w, i))])
  <2>1. x[Cardinality(Ends(w, i))] = o[Cardinality(Ends(w, i))]
    BY <1>3, <1>4
  <2> QED
    BY <2>1 DEF AsSaid
<1>8. Len(x) = Cardinality(Ends(w, q))
  BY <1>3, <1>4
<1>9. AsSaid(w, q, x)
  BY <1>4, <1>6, <1>7, <1>8 DEF AsSaid
<1> QED
  BY <1>2, <1>9

-----------------------------------------------------------------------------
\* One line read: what Skip and SetField make of the event is what the lines say.
LEMMA FieldRead ==
  ASSUME ReaderTypeOK, Skip \/ SetField, NEW w, w = wire, NEW q \in Nat \ {0}, q = lineNo + 1,
         NEW j \in 0 .. (q - 1), Keeps(w, j, q, event)
  PROVE  Keeps(w, j, q + 1, event')
<1>1. w[q] = Current /\ Current \in AnyLine
  BY LineToRead DEF Current, Skip, SetField
<1>2. event \in AnyEvent
  BY DEF ReaderTypeOK
<1>3. event.retry \in Nat /\ event.data \in Seq(Value)
  BY <1>2 DEF AnyEvent
<1>4. CASE Skip
  <2>1. w[q].field \in {"blank", "skipped"} /\ event' = event
    BY <1>1, <1>4 DEF Skip
  <2> QED
    BY <1>3, <2>1, KeepsField
<1>5. CASE SetField
  <2>1. CASE w[q].field = "id"
    <3>1. event' = [event EXCEPT !.id = w[q].value]
      BY <1>1, <1>5, <2>1 DEF SetField
    <3>2. /\ event'.id = w[q].value /\ event'.name = event.name /\ event'.retry = event.retry
          /\ event'.data = event.data
      BY <1>2, <3>1 DEF AnyEvent
    <3>3. w[q] = Line("id", w[q].value)
      BY <1>1, <2>1 DEF AnyLine, Line
    <3> QED
      BY <1>3, <2>1, <3>2, <3>3, KeepsField
  <2>2. CASE w[q].field = "event"
    <3>1. event' = [event EXCEPT !.name = w[q].value]
      BY <1>1, <1>5, <2>2 DEF SetField
    <3>2. /\ event'.id = event.id /\ event'.name = w[q].value /\ event'.retry = event.retry
          /\ event'.data = event.data
      BY <1>2, <3>1 DEF AnyEvent
    <3>3. w[q] = Line("event", w[q].value)
      BY <1>1, <2>2 DEF AnyLine, Line
    <3> QED
      BY <1>3, <2>2, <3>2, <3>3, KeepsField
  <2>3. CASE w[q].field = "data"
    <3>1. event' = [event EXCEPT !.data = Append(@, w[q].value)]
      BY <1>1, <1>5, <2>3 DEF SetField
    <3>2. /\ event'.id = event.id /\ event'.name = event.name /\ event'.retry = event.retry
          /\ event'.data = Append(event.data, w[q].value)
      BY <1>2, <3>1 DEF AnyEvent
    <3>3. w[q].value \in Value
      BY <1>1, <2>3 DEF AnyLine
    <3> QED
      BY <1>3, <2>3, <3>2, <3>3, KeepsData
  <2>4. CASE w[q].field = "retry"
    <3>1. event' = [event EXCEPT !.retry = 2 * w[q].number]
      BY <1>1, <1>5, <2>4 DEF SetField
    <3>2. /\ event'.id = event.id /\ event'.name = event.name
          /\ event'.retry = 2 * w[q].number /\ event'.data = event.data
      BY <1>2, <3>1 DEF AnyEvent
    <3>3. w[q] = RetryOf(w[q].number) /\ w[q].number \in Nat
      BY <1>1, <2>4 DEF AnyLine, RetryOf
    <3>4. event'.retry \in Nat
      BY <3>2, <3>3
    <3> QED
      BY <1>3, <2>4, <3>2, <3>3, <3>4, KeepsField
  <2> QED
    BY <1>1, <1>5, <2>1, <2>2, <2>3, <2>4 DEF SetField
<1> QED
  BY <1>4, <1>5

\* Reading a line keeps the reader and the reference together.
LEMMA ReadingAgrees ==
  ASSUME ReaderTypeOK, ReferenceInv, Dispatch \/ Skip \/ SetField
  PROVE  ReferenceInv'
<1>1. /\ lineNo \in Nat /\ lineNo' = lineNo + 1 /\ Current \in AnyLine /\ wire' = wire
  BY LineToRead DEF Dispatch, Skip, SetField
<1>2. PICK w : w = wire
  OBVIOUS
<1>3. PICK q \in Nat \ {0} : q = lineNo + 1 /\ lineNo = q - 1
  BY <1>1
<1>4. AsSaid(w, q - 1, out)
  BY <1>2, <1>3 DEF ReferenceInv, ReadAsKept, AsSaid
<1>5. PICK j \in {0} \cup Ends(w, q - 1) : Constructing(w, j, q - 1, event)
  BY <1>2, <1>3 DEF ReferenceInv
<1>6. j \in 0 .. (q - 1) /\ j \in Nat
  BY DEF Ends
<1>7. Keeps(w, j, q, event)
  <2>1. (q - 1) + 1 = q
    OBVIOUS
  <2> QED
    BY <1>5, <2>1 DEF Constructing
<1>8. event \in AnyEvent /\ event.data \in Seq(Value) /\ out \in Seq(AnyEvent)
  BY DEF ReaderTypeOK, AnyEvent
<1>9. event.data = <<>> <=> Data(w, j, q - 1) = {}
  <2>1. IsFiniteSet(Data(w, j, q - 1)) /\ Len(event.data) = Cardinality(Data(w, j, q - 1))
    BY <1>6, <1>7, DataCount DEF Keeps
  <2>2. event.data = <<>> <=> Len(event.data) = 0
    BY <1>8
  <2> QED
    BY <2>1, <2>2, FS_EmptySet
<1>10. w[q] = Current
  BY <1>2, <1>3 DEF Current
<1>11. ASSUME AsSaid(w, q, out'), NEW k \in {0} \cup Ends(w, q), Constructing(w, k, q, event'),
              ~idPresent' => event'.id = lastRead'
       PROVE  ReferenceInv'
  <2>1. lineNo' = q /\ wire' = w
    BY <1>1, <1>2, <1>3
  <2>2. ReadAsKept'
    BY <1>11, <2>1 DEF ReadAsKept, AsSaid
  <2> QED
    BY <1>11, <2>1, <2>2 DEF ReferenceInv
<1>12. CASE Dispatch
  <2>1. /\ w[q].field = "blank" /\ Data(w, j, q - 1) # {}
        /\ out' = Append(out, event) /\ event' = [NoEvent EXCEPT !.id = lastRead']
    BY <1>9, <1>10, <1>12 DEF Dispatch
  <2>2. lastRead' = event.id
    BY <1>12 DEF Dispatch, ReferenceInv
  <2>3. event' = [NoEvent EXCEPT !.id = event.id] /\ event'.id = lastRead'
    BY <2>1, <2>2 DEF NoEvent
  <2>4. /\ EndsEvent(w, q) /\ q \in Ends(w, q)
        /\ Constructing(w, q, q, event')
    <3>1. /\ EndsEvent(w, q) /\ q \in Ends(w, q)
          /\ Constructing(w, q, q, [NoEvent EXCEPT !.id = event.id])
      BY ONLY <1>5, <2>1, EndingLine, q \in Nat \ {0}, j \in {0} \cup Ends(w, q - 1)
    <3> QED
      BY <2>3, <3>1
  <2>5. AsSaid(w, q, out')
    BY <1>4, <1>5, <1>8, <2>1, <2>4, OneEventMore
  <2> QED
    BY <1>11, <2>3, <2>4, <2>5
<1>13. CASE Skip \/ SetField
  <2>1. w[q].field # "blank" \/ Data(w, j, q - 1) = {}
    BY <1>9, <1>10, <1>13 DEF Skip, SetField
  <2>2. Keeps(w, j, q + 1, event')
    BY <1>2, <1>3, <1>6, <1>7, <1>13, FieldRead
  <2>3. ~EndsEvent(w, q) /\ j \in {0} \cup Ends(w, q) /\ Constructing(w, j, q, event')
    BY <1>5, <2>1, <2>2, OtherLine
  <2>4. out' = out
    BY <1>13 DEF Skip, SetField
  <2>5. AsSaid(w, q, out')
    BY <1>4, <2>3, <2>4, NoEventMore
  <2>6. ~idPresent' => event'.id = lastRead'
    <3>1. CASE Skip
      BY <3>1 DEF Skip, ReferenceInv
    <3>2. CASE SetField
      <4>1. idPresent' = TRUE \/ (idPresent' = idPresent /\ event'.id = event.id)
        BY <1>8, <3>2 DEF SetField, AnyEvent
      <4>2. lastRead' = lastRead
        BY <3>2 DEF SetField
      <4> QED
        BY <4>1, <4>2 DEF ReferenceInv
    <3> QED
      BY <1>13, <3>1, <3>2
  <2> QED
    BY <1>11, <2>3, <2>5, <2>6
<1> QED
  BY <1>12, <1>13

\* The events returned and the event under construction are what the lines read
\* so far say, whoever has written them.
THEOREM ReferenceInvariant == ReaderSpec => []ReferenceInv
<1>1. ReaderInit => ReferenceInv
  <2> SUFFICES ASSUME ReaderInit PROVE ReferenceInv
    OBVIOUS
  <2>1. lineNo = 0 /\ event = NoEvent /\ lastRead = NoValue /\ out = <<>>
    BY DEF ReaderInit
  <2>2. PICK w : w = wire
    OBVIOUS
  <2>3. Ends(w, 0) = {} /\ Data(w, 0, 0) = {} /\ (0 + 1) - 1 = 0
    BY DEF Ends, Data
  <2>4. /\ event.id = NoValue /\ event.name = NoValue /\ event.retry = 0
        /\ event.data = <<>>
    BY <2>1 DEF NoEvent
  <2>5. Keeps(w, 0, 0 + 1, event)
    <3>1. /\ Latest(w, 0, 0 + 1, Line("id", event.id))
          /\ Latest(w, 0, 0 + 1, Line("event", event.name))
      <4>1. /\ Latest(w, 0, 0 + 1, Line("id", NoValue))
            /\ Latest(w, 0, 0 + 1, Line("event", NoValue))
        BY LatestNone
      <4> QED
        BY <2>4, <4>1
    <3>2. \E n \in 0 .. event.retry : event.retry = 2 * n /\ Latest(w, 0, 0 + 1, RetryOf(n))
      <4>1. RetryOf(0) = Line("retry", NoValue)
        BY DEF RetryOf, Line
      <4>2. Latest(w, 0, 0 + 1, RetryOf(0))
        BY <4>1, LatestNone
      <4>3. 0 \in 0 .. event.retry /\ event.retry = 2 * 0
        BY <2>4
      <4> QED
        BY <4>2, <4>3
    <3>3. Len(event.data) = Cardinality(Data(w, 0, (0 + 1) - 1))
      BY <2>3, <2>4, FS_EmptySet
    <3> QED
      BY <2>3, <3>1, <3>2, <3>3 DEF Keeps
  <2>6. Constructing(w, 0, 0, event)
    BY <2>3, <2>5 DEF Constructing
  <2>7. Len(out) = Cardinality(Ends(w, 0))
    BY <2>1, <2>3, FS_EmptySet
  <2>8. ReadAsKept
    BY <2>1, <2>2, <2>3, <2>7 DEF ReadAsKept
  <2> QED
    BY <2>1, <2>2, <2>4, <2>6, <2>8 DEF ReferenceInv
<1>2. ReaderTypeOK /\ ReferenceInv /\ [ReaderNext]_readerVars => ReferenceInv'
  <2> SUFFICES ASSUME ReaderTypeOK, ReferenceInv, [ReaderNext]_readerVars PROVE ReferenceInv'
    OBVIOUS
  <2>1. CASE Dispatch \/ Skip \/ SetField
    BY <2>1, ReadingAgrees
  <2>2. ASSUME NEW e \in Events, Write(e) PROVE ReferenceInv'
    <3>1. PICK n \in 0 .. Len(Encode(e)) : wire' = wire \o SubSeq(Encode(e), 1, n)
      BY <2>2 DEF Write
    <3>2. wire \in Seq(AnyLine) /\ Encode(e) \in Seq(AnyLine)
      BY EncodeAt DEF ReaderTypeOK
    <3>3. Len(wire) \in Nat /\ \A i \in 1 .. Len(wire) : wire'[i] = wire[i]
      BY <3>1, <3>2, Written
    <3>4. PICK p \in 0 .. Len(wire) : p = lineNo
      BY DEF ReaderTypeOK
    <3>5. p \in Nat /\ \A i \in 1 .. p : wire'[i] = wire[i]
      BY <3>3, <3>4
    <3>6. PICK w : w = wire
      OBVIOUS
    <3>7. PICK v : v = wire'
      OBVIOUS
    <3>8. \A i \in 1 .. p : v[i] = w[i]
      BY <3>5, <3>6, <3>7
    <3>9. AsSaid(w, p, out)
      BY <3>4, <3>6 DEF ReferenceInv, ReadAsKept, AsSaid
    <3>10. PICK j \in {0} \cup Ends(w, p) : Constructing(w, j, p, event)
      BY <3>4, <3>6 DEF ReferenceInv
    <3>11. AsSaid(v, p, out) /\ j \in {0} \cup Ends(v, p) /\ Constructing(v, j, p, event)
      BY <3>5, <3>8, <3>9, <3>10, SaidSame
    <3>12. lineNo' = p /\ UNCHANGED <<event, idPresent, lastRead, out>>
      BY <2>2, <3>4 DEF Write
    <3>13. ReadAsKept'
      BY <3>7, <3>11, <3>12 DEF ReadAsKept, AsSaid
    <3>14. ~idPresent' => event'.id = lastRead'
      BY <3>12 DEF ReferenceInv
    <3> QED
      BY <3>7, <3>11, <3>12, <3>13, <3>14 DEF ReferenceInv
  <2>3. CASE UNCHANGED readerVars
    BY <2>3 DEF readerVars, ReferenceInv, ReadAsKept
  <2> QED
    BY <2>1, <2>2, <2>3 DEF ReaderNext
<1> QED
  BY <1>1, <1>2, ReaderTypeCorrect, PTL DEF ReaderSpec

\* Every stream is read as its lines say, and Next undoes Write, for any values,
\* any number of events and however writing, reading and a cut interleave.
THEOREM ReadsBack == ReaderSpec => []ReadsWhatWasWritten
<1>1. ReaderTypeOK /\ WriterInv /\ ReferenceInv => ReadsWhatWasWritten
  <2>1. \A w, j, i, e : Keeps(w, j, i, e) => Says(w, j, i, e)
    BY DEF Keeps, Says
  <2>2. ReadAsKept => ReadAsWritten
    BY <2>1 DEF ReadAsKept, ReadAsWritten
  <2> QED
    BY <2>2, ComesBack DEF ReferenceInv, ReadsWhatWasWritten
<1> QED
  BY <1>1, ReaderTypeCorrect, WriterInvariant, ReferenceInvariant, PTL


-----------------------------------------------------------------------------
LEMMA OneHalfSteps ==
  MCNext \/ UNCHANGED <<allVars, readerVars, half>>
    => (LoopsNext \/ UNCHANGED allVars) /\ (ReaderNext \/ UNCHANGED readerVars)
BY DEF MCNext

LEMMA HalvesBegin == MCInit => LoopsInit /\ ReaderInit
<1> SUFFICES ASSUME MCInit PROVE LoopsInit /\ ReaderInit
  OBVIOUS
<1>1. CASE half = "source"
  <2>1. LoopsInit /\ cut = TRUE /\ wire = <<>> /\ sent = <<>> /\ lineNo = 0
        /\ event = NoEvent /\ idPresent = FALSE /\ lastRead = NoValue /\ out = <<>>
    BY <1>1 DEF MCInit
  <2>2. <<>> \in UNION {[1..n -> Lines] : n \in 0..MaxLines}
    <3>1. 0 \in 0..MaxLines /\ <<>> \in [1..0 -> Lines]
      BY ReaderConstants
    <3> QED
      BY <3>1
  <2> QED
    BY <2>1, <2>2 DEF ReaderInit
<1>2. CASE half = "reader"
  BY <1>2, MCConstants DEF MCInit, LoopsInit
<1> QED
  BY <1>1, <1>2 DEF MCInit

\* The run of both halves is a run of each: what is proved of the loops and of
\* the reader holds in it.
THEOREM EachHalfBehaves == MCSpec => LoopsSafety /\ ReaderSpec
<1>1. [MCNext]_<<allVars, readerVars, half>> => [LoopsNext]_allVars /\ [ReaderNext]_readerVars
  BY OneHalfSteps
<1> QED
  BY <1>1, HalvesBegin, PTL DEF MCSpec, LoopsSafety, ReaderSpec

\* The types of the loops, whatever the source below them does.
LEMMA LoopsTypeStep ==
  ASSUME LoopsTypeOK, SourceInv, LoopsNext \/ UNCHANGED allVars
  PROVE  LoopsTypeOK'
<1>1. TypeOK'
  BY LoopStep, TypeStep DEF LoopsTypeOK, SourceInv
<1>2. /\ loop' \in AllLoops /\ cancelled' \in BOOLEAN
      /\ at' \in {"connect", "select", "next", "send", "sendError", "done"}
  BY DEF LoopsTypeOK, LoopsNext, LoopConnect, CtxCancel, StopOnContext, CallNext, HandleEvent,
         SendParsed, HandleError, SendErrorEvent, UserCloses, Library, Stay, Go, allVars, loopVars
<1> QED
  BY <1>1, <1>2 DEF LoopsTypeOK

\* Every variable of the source, its loops and the reader has its type.
THEOREM SseTypeCorrect == MCSpec => []MCTypeOK
<1>1. LoopsSafety => []LoopsTypeOK
  <2>1. LoopsInit => loop \in AllLoops /\ cancelled \in BOOLEAN /\ at = "connect"
    BY LoopsConstants DEF LoopsInit
  <2>2. TypeOK /\ LoopsInit => LoopsTypeOK
    BY <2>1 DEF LoopsTypeOK
  <2>3. LoopsTypeOK /\ SourceInv /\ [LoopsNext]_allVars => LoopsTypeOK'
    BY LoopsTypeStep
  <2> QED
    BY <2>2, <2>3, TypeCorrect, SourceInvariant, PTL DEF LoopsSafety
<1>2. LoopsTypeOK /\ ReaderTypeOK => MCTypeOK
  BY DEF MCTypeOK
<1> QED
  BY <1>1, <1>2, EachHalfBehaves, ReaderTypeCorrect, PTL

=============================================================================
