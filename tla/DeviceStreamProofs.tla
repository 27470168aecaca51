------------------------- MODULE DeviceStreamProofs -------------------------
(***************************************************************************)
(* Proofs about DeviceStream, for any number of goroutine slots, any       *)
(* channel capacity and any number of reports.                             *)
(*                                                                         *)
(* The inductive invariant passes one token from the listener about to     *)
(* launch, to the live stream, to the error event at the end of the        *)
(* channel, and back.  With it the order of the reports is an invariant of *)
(* the channel and of the one hand that fills it.                          *)
(***************************************************************************)
EXTENDS DeviceStream, TLAPS

-----------------------------------------------------------------------------
\* A listener is started once, by the monitor's two last steps.
NotStartedYet ==
  /\ monitor \in {"new", "systemId", "root", "telemetry"} => listener["metrics"] = "off"
  /\ monitor # "done" => listener["alerts"] = "off"
  /\ monitor = "new" => ~cancelled

\* What each stream carries is what its phase says.
HandInv ==
  \A k \in Kinds : \A c \in Conns :
    /\ stream[k][c] \in {"fail", "failRead"} => hand[k][c].type \in ErrTypes
    /\ stream[k][c] = "send" => hand[k][c].type \notin ErrTypes

\* The token of listener k.
TokenAt(k) ==
  /\ \A c, d \in Live(k) : c = d
  /\ listener[k] = "off" \/ Relaunching(k) => chan[k] = <<>> /\ Live(k) = {}
  /\ \A i \in 1 .. Len(chan[k]) :
       chan[k][i].type \in ErrTypes => i = Len(chan[k]) /\ Live(k) = {}
  /\ listener[k] # "off" /\ ~cancelled => Relaunching(k) \/ HasErr(k) \/ Live(k) # {}

StreamInv ==
  /\ NotStartedYet
  /\ HandInv
  /\ \A k \in Kinds : TokenAt(k)

-----------------------------------------------------------------------------
\* Every variable stays in its type: in particular a channel never holds more
\* than its capacity, whichever goroutine sends.
THEOREM TypeCorrect == Spec => []TypeOK
<1>1. Init => TypeOK
  <2>1. 0 \in 0 .. MaxReports /\ Plain("other") \in Event
    BY StreamConstants DEF Plain, Event, ErrTypes
  <2>2. <<>> \in Seq(Event) /\ Len(<<>>) <= ChanCap
    BY StreamConstants
  <2>3. ASSUME Init
        PROVE  /\ chan \in [Kinds -> Seq(Event)]
               /\ \A k \in Kinds : Len(chan[k]) <= ChanCap
    BY <2>2, <2>3 DEF Init
  <2>4. ASSUME Init
        PROVE  /\ stream \in [Kinds -> [Conns -> Phases]]
               /\ hand \in [Kinds -> [Conns -> Event]]
               /\ listener \in [Kinds -> ListenerStates]
    BY <2>1, <2>4 DEF Init, Phases, ListenerStates
  <2>5. ASSUME Init
        PROVE  /\ current \in [Kinds -> 0 .. MaxReports]
               /\ produced \in [Kinds -> 0 .. MaxReports]
               /\ forwarded \in [Kinds -> 0 .. MaxReports]
               /\ cached \in [Kinds -> 0 .. MaxReports]
               /\ cut \in [Kinds -> 0 .. MaxReports]
    BY <2>1, <2>5 DEF Init
  <2> QED
    BY <2>3, <2>4, <2>5 DEF Init, TypeOK, DeviceStates
<1>2. TypeOK /\ [Next]_vars => TypeOK'
  <2> SUFFICES ASSUME TypeOK, [Next]_vars
               PROVE  TypeOK'
    OBVIOUS
  <2> USE StreamConstants DEF TypeOK
  <2>1. CASE Monitor
    <3>1. CASE ValidateAndAddDevice \/ GetSystemId \/ GetServiceRoot
      BY <3>1 DEF ValidateAndAddDevice, GetSystemId, GetServiceRoot, DeviceStates,
         streamVars, listenVars
    <3>2. CASE StartMonitoring
      BY <3>2 DEF StartMonitoring, getTelemetry, StartListener, Kinds, ListenerStates,
         DeviceStates, streamVars
    <3>3. CASE getAlerts
      BY <3>3 DEF getAlerts, StartListener, Kinds, ListenerStates, DeviceStates, streamVars
    <3> QED
      BY <2>1, <3>1, <3>2, <3>3 DEF Monitor
  <2>2. CASE CtxCancel
    BY <2>2 DEF CtxCancel, devVars, listenVars, streamVars
  <2>3. ASSUME NEW k \in Kinds, Listener(k)
        PROVE  TypeOK'
    <3>1. CASE Launch(k)
      BY <3>1 DEF Launch, devVars, ListenerStates, Phases
    <3>2. CASE Receive(k)
      <4>1. Head(chan[k]) \in Event /\ Tail(chan[k]) \in Seq(Event)
            /\ Len(Tail(chan[k])) <= ChanCap
        BY <3>2 DEF Receive
      <4>2. AfterReceive[Head(chan[k]).type] \in ListenerStates
            /\ Head(chan[k]).n \in 0 .. MaxReports
        BY <4>1 DEF Event, ErrTypes, AfterReceive, ListenerStates
      <4> QED
        BY <3>2, <4>1, <4>2 DEF Receive, devVars, streamVars
    <3>3. CASE SendGroup(k)
      BY <3>3 DEF SendGroup, devVars, streamVars, ListenerStates
    <3>4. CASE AddDataGroup(k)
      BY <3>4 DEF AddDataGroup, devVars, streamVars, ListenerStates
    <3> QED
      BY <2>3, <3>1, <3>2, <3>3, <3>4 DEF Listener
  <2>4. ASSUME NEW k \in Kinds, NEW c \in Conns, Local(k, c)
        PROVE  TypeOK'
    <3> USE DEF devVars, listenVars, Goto, Phases
    <3>1. CASE StopOnCancel(k, c)
      BY <3>1 DEF StopOnCancel
    <3>2. CASE EnterNext(k, c)
      BY <3>2 DEF EnterNext
    <3>3. ASSUME Send(k, c), Restore(k, c)
          PROVE  /\ chan' \in [Kinds -> Seq(Event)]
                 /\ \A q \in Kinds : Len(chan'[q]) <= ChanCap
                 /\ hand' \in [Kinds -> [Conns -> Event]]
      <4>1. Append(chan[k], hand[k][c]) \in Seq(Event)
            /\ Len(Append(chan[k], hand[k][c])) = Len(chan[k]) + 1
        OBVIOUS
      <4>2. Plain("other") \in Event
        BY DEF Plain, Event, ErrTypes
      <4> QED
        BY <3>3, <4>1, <4>2 DEF Send, Restore, Hold
    <3>4. CASE SendEvent(k, c)
      BY <3>4, <3>3 DEF SendEvent
    <3>5. CASE SendSetupError(k, c)
      BY <3>5, <3>3 DEF SendSetupError
    <3>6. CASE SendReadError(k, c)
      BY <3>6, <3>3 DEF SendReadError
    <3>7. CASE Close(k, c)
      BY <3>7 DEF Close
    <3> QED
      BY <2>4, <3>1, <3>2, <3>4, <3>5, <3>6, <3>7 DEF Local
  <2>5. ASSUME NEW k \in Kinds, NEW c \in Conns, Remote(k, c)
        PROVE  TypeOK'
    <3> USE DEF devVars, listenVars
    <3>0. /\ \A t \in {"other"} \cup ErrTypes : Plain(t) \in Event
          /\ \A i \in 0 .. MaxReports : Report(i) \in Event
      BY DEF Plain, Report, Event, ErrTypes
    <3>a. ASSUME NEW p \in Phases, Goto(k, c, p)
          PROVE  stream' \in [Kinds -> [Conns -> Phases]]
      BY <3>a DEF Goto
    <3>b. ASSUME NEW e \in Event, Hold(k, c, e)
          PROVE  hand' \in [Kinds -> [Conns -> Event]]
      BY <3>b DEF Hold
    <3> USE DEF Phases
    <3>1. CASE ReadServiceRoot(k, c)
      BY <3>0, <3>1, <3>a, <3>b DEF ReadServiceRoot, ErrTypes
    <3>2. CASE Connected(k, c)
      BY <3>2, <3>a DEF Connected
    <3>3. CASE ConnectFails(k, c)
      BY <3>0, <3>3, <3>a, <3>b DEF ConnectFails, ErrTypes
    <3>4. CASE ReadEvent(k, c)
      <4>1. CASE UNCHANGED produced
        BY <3>0, <3>4, <3>a, <3>b, <4>1 DEF ReadEvent
      <4>2. CASE produced' # produced
        <5>1. produced[k] + 1 \in 0 .. MaxReports
              /\ produced' = [produced EXCEPT ![k] = @ + 1]
              /\ Hold(k, c, Report(produced[k] + 1))
              /\ Goto(k, c, "send")
          BY <3>4, <4>2 DEF ReadEvent
        <5> QED
          BY <3>0, <3>4, <3>a, <3>b, <5>1 DEF ReadEvent
      <4> QED
        BY <4>1, <4>2
    <3>5. CASE ReadError(k, c)
      <4>1. PICK t \in ErrTypes : Hold(k, c, Plain(t))
        BY <3>5 DEF ReadError
      <4> QED
        BY <3>0, <3>5, <3>a, <3>b, <4>1 DEF ReadError
    <3> QED
      BY <2>5, <3>1, <3>2, <3>3, <3>4, <3>5 DEF Remote
  <2>6. CASE UNCHANGED vars
    BY <2>6 DEF vars, devVars, listenVars, streamVars
  <2> QED
    BY <2>1, <2>2, <2>3, <2>4, <2>5, <2>6 DEF Next
<1> QED
  BY <1>1, <1>2, PTL DEF Spec

-----------------------------------------------------------------------------
\* The token of a listener is where it was if neither the listener, nor its
\* channel, nor its streams changed, deletion apart.
LEMMA TokenFrame ==
  ASSUME NEW q \in Kinds, TokenAt(q),
         listener'[q] = listener[q], chan'[q] = chan[q], stream'[q] = stream[q],
         cancelled => cancelled'
  PROVE  TokenAt(q)'
<1>1. Live(q)' = Live(q) /\ Relaunching(q)' = Relaunching(q) /\ HasErr(q)' = HasErr(q)
  BY DEF Live, Relaunching, HasErr
<1> QED
  BY <1>1, Zenon DEF TokenAt

\* A goroutine that changes phase but sends nothing leaves the token where it
\* is, unless it dies, which only a deleted device's stream does without an
\* error event.
LEMMA TokenPhase ==
  ASSUME TypeOK, NEW k \in Kinds, NEW c \in Conns, NEW p \in Phases, Goto(k, c, p),
         \A q \in Kinds : TokenAt(q),
         UNCHANGED <<cancelled, listener, chan>>,
         p \in LivePhases => stream[k][c] \in LivePhases,
         p \notin LivePhases => stream[k][c] \notin LivePhases \/ cancelled
  PROVE  \A q \in Kinds : TokenAt(q)'
<1>1. \A q \in Kinds \ {k} : stream'[q] = stream[q]
  BY DEF Goto, TypeOK
<1>2. Live(k)' \subseteq Live(k) /\ (~cancelled => Live(k)' = Live(k))
  BY DEF Goto, TypeOK, Live
<1>3. Relaunching(k)' = Relaunching(k) /\ HasErr(k)' = HasErr(k)
  BY DEF Relaunching, HasErr
<1>4. TokenAt(k)'
  BY <1>2, <1>3 DEF TokenAt
<1> QED
  BY <1>1, <1>4, TokenFrame

\* A live stream that sends an event and stays live, or sends an error and
\* dies, keeps the token or passes it to the channel.
LEMMA TokenSend ==
  ASSUME TypeOK, NEW k \in Kinds, NEW c \in Conns, NEW p \in Phases, Goto(k, c, p),
         \A q \in Kinds : TokenAt(q),
         Send(k, c), UNCHANGED <<cancelled, listener>>,
         stream[k][c] \in LivePhases,
         p \in LivePhases <=> hand[k][c].type \notin ErrTypes
  PROVE  \A q \in Kinds : TokenAt(q)'
<1> DEFINE e == hand[k][c]
           n == Len(chan[k]) + 1
<1>1. \A q \in Kinds \ {k} : stream'[q] = stream[q] /\ chan'[q] = chan[q]
  BY DEF Goto, Send, TypeOK
<1>2. Live(k)' = IF p \in LivePhases THEN Live(k) ELSE Live(k) \ {c}
  BY DEF Goto, TypeOK, Live
<1>3. c \in Live(k)
  BY DEF Live
<1>4. Live(k) = {c} /\ listener[k] # "off" /\ ~Relaunching(k)
  BY <1>3 DEF TokenAt
<1>5. \A i \in 1 .. Len(chan[k]) : chan[k][i].type \notin ErrTypes
  BY <1>3 DEF TokenAt
<1>6. /\ Len(chan'[k]) = n
      /\ chan'[k][n] = e
      /\ \A i \in 1 .. Len(chan[k]) : chan'[k][i] = chan[k][i]
      /\ n \in Nat /\ Len(chan[k]) \in Nat
  BY DEF Send, TypeOK
<1>7. Relaunching(k)' = Relaunching(k)
  BY DEF Relaunching
<1>8. CASE e.type \in ErrTypes
  <2>1. Live(k)' = {}
    BY <1>2, <1>4, <1>8
  <2>2. HasErr(k)'
    BY <1>6, <1>8 DEF HasErr
  <2>3. \A i \in 1 .. Len(chan'[k]) : chan'[k][i].type \in ErrTypes => i = Len(chan'[k])
    BY <1>5, <1>6
  <2>4. TokenAt(k)'
    BY <1>4, <1>7, <2>1, <2>2, <2>3 DEF TokenAt
  <2> QED
    BY <1>1, <2>4, TokenFrame
<1>9. CASE e.type \notin ErrTypes
  <2>1. Live(k)' = {c}
    BY <1>2, <1>4, <1>9
  <2>2. \A i \in 1 .. Len(chan'[k]) : chan'[k][i].type \notin ErrTypes
    BY <1>5, <1>6, <1>9
  <2>3. TokenAt(k)'
    BY <1>4, <1>7, <2>1, <2>2 DEF TokenAt
  <2> QED
    BY <1>1, <2>3, TokenFrame
<1> QED
  BY <1>8, <1>9

-----------------------------------------------------------------------------
\* The monitor starts a listener only once.
LEMMA NotStartedYetStep ==
  ASSUME TypeOK, NotStartedYet, [Next]_vars
  PROVE  NotStartedYet'
<1> USE DEF TypeOK, NotStartedYet, Kinds
<1>1. CASE Monitor
  BY <1>1 DEF Monitor, ValidateAndAddDevice, GetSystemId, GetServiceRoot, StartMonitoring,
     getTelemetry, getAlerts, StartListener, listenVars
<1>2. CASE CtxCancel
  BY <1>2 DEF CtxCancel, devVars, listenVars
<1>3. ASSUME NEW k \in Kinds, Listener(k)
      PROVE  NotStartedYet'
  BY <1>3 DEF Listener, Launch, Receive, SendGroup, AddDataGroup, devVars
<1>4. ASSUME NEW k \in Kinds, NEW c \in Conns, Local(k, c) \/ Remote(k, c)
      PROVE  NotStartedYet'
  BY <1>4 DEF Local, StopOnCancel, EnterNext, SendEvent, SendSetupError, SendReadError,
     Close, Remote, ReadServiceRoot, Connected, ConnectFails, ReadEvent, ReadError,
     devVars, listenVars
<1>5. CASE UNCHANGED vars
  BY <1>5 DEF vars, devVars, listenVars
<1> QED
  BY <1>1, <1>2, <1>3, <1>4, <1>5 DEF Next

\* A goroutine that is about to send an error holds one, and one that is about
\* to send an event does not.
LEMMA HandInvStep ==
  ASSUME TypeOK, HandInv, [Next]_vars
  PROVE  HandInv'
<1> USE DEF TypeOK, HandInv
<1>1. CASE Monitor \/ CtxCancel
  BY <1>1 DEF Monitor, ValidateAndAddDevice, GetSystemId, GetServiceRoot, StartMonitoring,
     getAlerts, CtxCancel, streamVars
<1>2. ASSUME NEW k \in Kinds, Listener(k)
      PROVE  HandInv'
  <2>1. CASE Launch(k)
    BY <2>1 DEF Launch
  <2> QED
    BY <1>2, <2>1 DEF Listener, Receive, SendGroup, AddDataGroup, streamVars
<1>3. ASSUME NEW k \in Kinds, NEW c \in Conns, NEW p \in Phases, Goto(k, c, p),
             NEW e \in Event, Hold(k, c, e) \/ (UNCHANGED hand /\ e = hand[k][c]),
             p \in {"fail", "failRead"} => e.type \in ErrTypes,
             p = "send" => e.type \notin ErrTypes
      PROVE  HandInv'
  BY <1>3 DEF Goto, Hold
<1>4. /\ \A t \in {"other"} \cup ErrTypes : Plain(t) \in Event /\ Plain(t).type = t
      /\ \A i \in 0 .. MaxReports : Report(i) \in Event /\ Report(i).type \notin ErrTypes
  <2>1. 0 \in 0 .. MaxReports
    BY StreamConstants
  <2> QED
    BY <2>1 DEF Plain, Report, Event, ErrTypes
<1>5. ASSUME NEW k \in Kinds, NEW c \in Conns, Local(k, c)
      PROVE  HandInv'
  <2>1. hand[k][c] \in Event
    OBVIOUS
  <2> USE DEF Phases
  <2>2. CASE StopOnCancel(k, c) \/ EnterNext(k, c) \/ Close(k, c)
    BY <1>3, <2>1, <2>2 DEF StopOnCancel, EnterNext, Close
  <2>3. CASE SendEvent(k, c) \/ SendSetupError(k, c) \/ SendReadError(k, c)
    BY <1>3, <1>4, <2>3 DEF SendEvent, SendSetupError, SendReadError, Restore, ErrTypes
  <2> QED
    BY <1>5, <2>2, <2>3 DEF Local
<1>6. ASSUME NEW k \in Kinds, NEW c \in Conns, Remote(k, c)
      PROVE  HandInv'
  <2>1. hand[k][c] \in Event
    OBVIOUS
  <2> USE DEF Phases
  <2>2. CASE ReadServiceRoot(k, c) \/ Connected(k, c) \/ ConnectFails(k, c)
    BY <1>3, <1>4, <2>1, <2>2 DEF ReadServiceRoot, Connected, ConnectFails, ErrTypes
  <2>3. CASE ReadEvent(k, c)
    <3>1. CASE Goto(k, c, "check") /\ UNCHANGED hand
      BY <1>3, <2>1, <3>1
    <3>2. CASE Hold(k, c, Plain("other")) /\ Goto(k, c, "send")
      <4>1. Plain("other") \in Event /\ Plain("other").type \notin ErrTypes
        BY <1>4 DEF ErrTypes
      <4> QED
        BY <1>3, <3>2, <4>1
    <3>3. CASE /\ produced[k] < MaxReports
               /\ Hold(k, c, Report(produced[k] + 1))
               /\ Goto(k, c, "send")
      <4>1. produced[k] + 1 \in 0 .. MaxReports
        BY <3>3, StreamConstants
      <4>2. /\ Report(produced[k] + 1) \in Event
            /\ Report(produced[k] + 1).type \notin ErrTypes
        BY <1>4, <4>1
      <4> QED
        BY <1>3, <3>3, <4>2
    <3> QED
      BY <2>3, <3>1, <3>2, <3>3 DEF ReadEvent
  <2>4. CASE ReadError(k, c)
    <3>1. PICK t \in ErrTypes : Hold(k, c, Plain(t))
      BY <2>4 DEF ReadError
    <3>2. Plain(t) \in Event /\ Plain(t).type \in ErrTypes
      BY <1>4
    <3>3. Goto(k, c, "failRead")
      BY <2>4 DEF ReadError
    <3> QED
      BY <1>3, <3>1, <3>2, <3>3
  <2> QED
    BY <1>6, <2>2, <2>3, <2>4 DEF Remote
<1>7. CASE UNCHANGED vars
  BY <1>7 DEF vars, streamVars
<1> QED
  BY <1>1, <1>2, <1>5, <1>6, <1>7 DEF Next

\* The listener passes the token to the stream it launches, and takes it from
\* the error event it receives.
LEMMA TokenListener ==
  ASSUME TypeOK, NEW k \in Kinds, Listener(k), \A q \in Kinds : TokenAt(q)
  PROVE  \A q \in Kinds : TokenAt(q)'
<1> USE DEF TypeOK
<1>1. CASE Launch(k)
  <2>1. PICK c \in Conns : stream' = [stream EXCEPT ![k][c] = "root"]
    BY <1>1 DEF Launch
  <2>2. Live(k) = {} /\ chan[k] = <<>>
    BY <1>1 DEF Launch, TokenAt, Relaunching
  <2>3. Live(k)' = {c}
    BY <2>1, <2>2 DEF Live, LivePhases, Phases
  <2>4. listener'[k] = "waiting" /\ ~Relaunching(k)' /\ chan' = chan
    BY <1>1 DEF Launch, Relaunching
  <2>5. TokenAt(k)'
    BY <2>2, <2>3, <2>4 DEF TokenAt
  <2>6. \A q \in Kinds \ {k} : stream'[q] = stream[q] /\ listener'[q] = listener[q]
    BY <1>1, <2>1 DEF Launch
  <2> QED
    BY <1>1, <2>5, <2>6, TokenFrame DEF Launch
<1>2. CASE Receive(k)
  <2> DEFINE e == Head(chan[k])
  <2>1. /\ e = chan[k][1] /\ Len(chan[k]) \in Nat \ {0}
        /\ Len(chan'[k]) = Len(chan[k]) - 1
        /\ \A i \in 1 .. Len(chan'[k]) : chan'[k][i] = chan[k][i + 1]
    BY <1>2 DEF Receive
  <2> HIDE DEF e
  <2>a. e \in Event /\ 1 \in 1 .. Len(chan[k])
    BY <1>2, <2>1 DEF Receive, e
  <2>b. /\ e.type \in ErrTypes => 1 = Len(chan[k]) /\ Live(k) = {}
        /\ \A i \in 1 .. Len(chan[k]) :
             chan[k][i].type \in ErrTypes => i = Len(chan[k]) /\ Live(k) = {}
    BY <2>1, <2>a DEF TokenAt
  <2>2. e.type \in {"report", "other"} \cup ErrTypes
    BY <2>a DEF Event
  <2>3. /\ Live(k)' = Live(k) /\ listener[k] = "waiting" /\ cancelled' = cancelled
        /\ listener'[k] = AfterReceive[e.type]
    BY <1>2 DEF Receive, Live, streamVars, e
  <2>4. CASE e.type \in ErrTypes
    <3>1. Len(chan[k]) = 1 /\ Live(k) = {}
      BY <2>b, <2>4
    <3>2. chan'[k] = <<>>
      BY <1>2, <2>1, <3>1 DEF Receive
    <3>3. Relaunching(k)'
      BY <2>3, <2>4 DEF Relaunching, AfterReceive, ErrTypes
    <3>4. TokenAt(k)'
      BY <2>3, <3>1, <3>2, <3>3 DEF TokenAt
    <3> QED
      BY <1>2, <3>4, TokenFrame DEF Receive, streamVars
  <2>5. CASE e.type \notin ErrTypes
    <3>1. ~Relaunching(k)' /\ listener'[k] # "off" /\ ~Relaunching(k)
      BY <2>2, <2>3, <2>5 DEF Relaunching, AfterReceive
    <3>2. \A i \in 1 .. Len(chan'[k]) :
            chan'[k][i].type \in ErrTypes => i = Len(chan'[k]) /\ Live(k) = {}
      <4>1. SUFFICES ASSUME NEW i \in 1 .. Len(chan'[k]), chan'[k][i].type \in ErrTypes
                     PROVE  i = Len(chan'[k]) /\ Live(k) = {}
        OBVIOUS
      <4>2. i + 1 \in 1 .. Len(chan[k]) /\ chan[k][i + 1].type \in ErrTypes
        BY <2>1, <4>1
      <4>3. i + 1 = Len(chan[k]) /\ Live(k) = {}
        BY <2>b, <4>2
      <4>4. i \in Nat /\ Len(chan'[k]) = Len(chan[k]) - 1
        BY <2>1
      <4> HIDE DEF TypeOK
      <4> QED
        BY <4>3, <4>4
    <3>3. HasErr(k) => HasErr(k)'
      <4>1. SUFFICES ASSUME NEW i \in 1 .. Len(chan[k]), chan[k][i].type \in ErrTypes
                     PROVE  HasErr(k)'
        BY DEF HasErr
      <4>2. i # 1 /\ i - 1 \in 1 .. Len(chan'[k]) /\ chan'[k][i - 1] = chan[k][i]
        <5>1. i # 1
          BY <2>1, <2>5, <4>1
        <5>2. i - 1 \in 1 .. Len(chan'[k]) /\ (i - 1) + 1 = i
          BY <2>1, <4>1, <5>1
        <5> QED
          BY <2>1, <5>1, <5>2
      <4> QED
        BY <4>1, <4>2 DEF HasErr
    <3>4. TokenAt(k)'
      BY <2>3, <3>1, <3>2, <3>3 DEF TokenAt
    <3> QED
      BY <1>2, <3>4, TokenFrame DEF Receive, streamVars
  <2> QED
    BY <2>4, <2>5
<1>3. CASE SendGroup(k) \/ AddDataGroup(k)
  <2>1. /\ Live(k)' = Live(k) /\ HasErr(k)' = HasErr(k) /\ chan' = chan
        /\ cancelled' = cancelled
        /\ ~Relaunching(k) /\ ~Relaunching(k)' /\ listener[k] # "off" /\ listener'[k] # "off"
    BY <1>3 DEF SendGroup, AddDataGroup, Live, HasErr, Relaunching, streamVars
  <2>2. TokenAt(k)'
    BY <2>1 DEF TokenAt
  <2> QED
    BY <1>3, <2>2, TokenFrame DEF SendGroup, AddDataGroup, streamVars
<1> QED
  BY <1>1, <1>2, <1>3 DEF Listener

\* Starting a listener gives it the token.
LEMMA TokenStart ==
  ASSUME TypeOK, NotStartedYet, Monitor \/ CtxCancel, \A q \in Kinds : TokenAt(q)
  PROVE  \A q \in Kinds : TokenAt(q)'
<1>1. chan' = chan /\ stream' = stream /\ (cancelled => cancelled')
  BY DEF TypeOK, Monitor, ValidateAndAddDevice, GetSystemId, GetServiceRoot, StartMonitoring,
     getAlerts, CtxCancel, streamVars
<1>2. ASSUME NEW k \in Kinds, listener[k] = "off", StartListener(k)
      PROVE  \A q \in Kinds : TokenAt(q)'
  <2>1. listener'[k] = "restarting" /\ \A q \in Kinds \ {k} : listener'[q] = listener[q]
    BY <1>2 DEF StartListener, TypeOK
  <2>2. chan[k] = <<>> /\ Live(k) = {}
    BY <1>2 DEF TokenAt
  <2>3. TokenAt(k)'
    BY <1>1, <2>1, <2>2 DEF TokenAt, Relaunching, Live
  <2> QED
    BY <1>1, <2>1, <2>3, TokenFrame
<1>3. CASE UNCHANGED listener
  BY <1>1, <1>3, TokenFrame
<1>4. \/ UNCHANGED listener
      \/ \E k \in Kinds : listener[k] = "off" /\ StartListener(k)
  BY DEF NotStartedYet, Monitor, ValidateAndAddDevice, GetSystemId, GetServiceRoot,
     StartMonitoring, getTelemetry, getAlerts, CtxCancel, listenVars, Kinds
<1> QED
  BY <1>2, <1>3, <1>4

\* A step of a stream that only changes its phase, or sends, moves the token as
\* the two lemmas above say.
LEMMA TokenStream ==
  ASSUME TypeOK, HandInv, NEW k \in Kinds, NEW c \in Conns, Local(k, c) \/ Remote(k, c),
         \A q \in Kinds : TokenAt(q)
  PROVE  \A q \in Kinds : TokenAt(q)'
<1> USE DEF LivePhases, Phases
<1>1. CASE StopOnCancel(k, c) \/ EnterNext(k, c) \/ Close(k, c)
  BY <1>1, TokenPhase DEF StopOnCancel, EnterNext, Close, listenVars
<1>2. CASE SendEvent(k, c)
  BY <1>2, TokenSend DEF SendEvent, listenVars, HandInv
<1>3. CASE SendSetupError(k, c) \/ SendReadError(k, c)
  BY <1>3, TokenSend DEF SendSetupError, SendReadError, listenVars, HandInv
<1>4. CASE Remote(k, c)
  BY <1>4, TokenPhase DEF Remote, ReadServiceRoot, Connected, ConnectFails, ReadEvent,
     ReadError, listenVars
<1> QED
  BY <1>1, <1>2, <1>3, <1>4 DEF Local

\* The token invariant is inductive, so it holds in every reachable state.
THEOREM StreamInvariant == Spec => []StreamInv
<1>1. Init => StreamInv
  <2> SUFFICES ASSUME Init
               PROVE  StreamInv
    OBVIOUS
  <2>1. NotStartedYet /\ HandInv
    BY DEF Init, NotStartedYet, HandInv, Kinds
  <2>2. ASSUME NEW k \in Kinds
        PROVE  TokenAt(k)
    <3>1. Live(k) = {} /\ chan[k] = <<>> /\ listener[k] = "off"
      BY DEF Init, Live, LivePhases, Phases
    <3> QED
      BY <3>1 DEF TokenAt
  <2> QED
    BY <2>1, <2>2 DEF StreamInv
<1>2. TypeOK /\ StreamInv /\ [Next]_vars => StreamInv'
  <2> SUFFICES ASSUME TypeOK, StreamInv, [Next]_vars
               PROVE  StreamInv'
    OBVIOUS
  <2>1. NotStartedYet /\ HandInv /\ \A k \in Kinds : TokenAt(k)
    BY DEF StreamInv
  <2>2. NotStartedYet' /\ HandInv'
    BY <2>1, NotStartedYetStep, HandInvStep
  <2>3. \A k \in Kinds : TokenAt(k)'
    <3>1. CASE Monitor \/ CtxCancel
      BY <2>1, <3>1, TokenStart
    <3>2. ASSUME NEW k \in Kinds, Listener(k)
          PROVE  \A q \in Kinds : TokenAt(q)'
      BY <2>1, <3>2, TokenListener
    <3>3. ASSUME NEW k \in Kinds, NEW c \in Conns, Local(k, c) \/ Remote(k, c)
          PROVE  \A q \in Kinds : TokenAt(q)'
      BY <2>1, <3>3, TokenStream
    <3>4. CASE UNCHANGED vars
      BY <2>1, <3>4, TokenFrame DEF vars, listenVars, streamVars
    <3> QED
      BY <3>1, <3>2, <3>3, <3>4 DEF Next
  <2> QED
    BY <2>2, <2>3 DEF StreamInv
<1> QED
  BY <1>1, <1>2, TypeCorrect, PTL DEF Spec

\* A listener never has two streams that can still send an event.
THEOREM OneStream == Spec => []AtMostOneStream
<1>1. StreamInv => AtMostOneStream
  BY DEF StreamInv, TokenAt, AtMostOneStream
<1> QED
  BY <1>1, StreamInvariant, PTL

\* A listener of a configured device always has a stream or will launch one.
THEOREM ListenerNeverSilent == Spec => []NeverSilent
<1>1. StreamInv => NeverSilent
  BY DEF StreamInv, TokenAt, NeverSilent
<1> QED
  BY <1>1, StreamInvariant, PTL

\* The back-off before a reconnect holds up no report.
THEOREM BackOffDelaysNothing == Spec => []SleepDelaysNothing
<1>1. StreamInv => SleepDelaysNothing
  BY DEF StreamInv, TokenAt, SleepDelaysNothing
<1> QED
  BY <1>1, StreamInvariant, PTL

-----------------------------------------------------------------------------
\* After the deletion the one report still to be read belongs to a stream that
\* was blocked in Next; when it has been read no stream is in Next any more.
DeleteInv ==
  cancelled =>
    \A k \in Kinds :
      /\ produced[k] <= cut[k] + 1
      /\ produced[k] > cut[k] => \A c \in Conns : stream[k][c] # "next"

\* A deleted device's listener reads at most one more report.
THEOREM ReadAfterDelete == Spec => []AtMostOneReadAfterDelete
<1>1. Init => DeleteInv
  BY DEF Init, DeleteInv
<1>2. TypeOK /\ StreamInv /\ DeleteInv /\ [Next]_vars => DeleteInv'
  <2> SUFFICES ASSUME TypeOK, StreamInv, DeleteInv, [Next]_vars
               PROVE  DeleteInv'
    OBVIOUS
  <2> USE DEF TypeOK
  <2>1. CASE Monitor
    BY <2>1 DEF DeleteInv, Monitor, ValidateAndAddDevice, GetSystemId, GetServiceRoot,
       StartMonitoring, getAlerts, streamVars
  <2>2. CASE CtxCancel
    BY <2>2 DEF DeleteInv, CtxCancel, streamVars
  <2>3. ASSUME NEW k \in Kinds, Listener(k)
        PROVE  DeleteInv'
    <3>1. CASE Launch(k)
      BY <3>1 DEF DeleteInv, Launch
    <3> QED
      BY <2>3, <3>1 DEF DeleteInv, Listener, Receive, SendGroup, AddDataGroup, streamVars
  <2>4. ASSUME NEW k \in Kinds, NEW c \in Conns, NEW p \in Phases, Goto(k, c, p),
               UNCHANGED <<produced, cut, cancelled>>,
               p = "next" => ~cancelled
        PROVE  DeleteInv'
    BY <2>4 DEF DeleteInv, Goto
  <2>5. ASSUME NEW k \in Kinds, NEW c \in Conns, Local(k, c)
        PROVE  DeleteInv'
    BY <2>4, <2>5 DEF Local, StopOnCancel, EnterNext, SendEvent, SendSetupError,
       SendReadError, Close, Phases
  <2>6. ASSUME NEW k \in Kinds, NEW c \in Conns, Remote(k, c)
        PROVE  DeleteInv'
    <3> USE DEF Phases
    <3>1. CASE UNCHANGED produced
      BY <2>4, <2>6, <3>1 DEF Remote, ReadServiceRoot, Connected, ConnectFails, ReadEvent,
         ReadError
    <3>2. CASE produced' # produced
      <4>1. /\ stream[k][c] = "next"
            /\ produced' = [produced EXCEPT ![k] = @ + 1]
            /\ Goto(k, c, "send")
            /\ UNCHANGED <<cut, cancelled>>
        BY <2>6, <3>2 DEF Remote, ReadServiceRoot, Connected, ConnectFails, ReadEvent,
           ReadError
      <4>2. \A d \in Conns : stream[k][d] = "next" => d = c
        <5> HIDE DEF TypeOK
        <5>1. \A d, e \in Live(k) : d = e
          BY DEF StreamInv, TokenAt
        <5>2. \A d \in Conns : stream[k][d] = "next" => d \in Live(k)
          BY DEF Live, LivePhases
        <5> QED
          BY <4>1, <5>1, <5>2
      <4>3. \A d \in Conns : stream'[k][d] # "next"
        BY <4>1, <4>2 DEF Goto
      <4>4. /\ produced'[k] = produced[k] + 1
            /\ \A q \in Kinds \ {k} : produced'[q] = produced[q] /\ stream'[q] = stream[q]
        BY <4>1 DEF Goto
      <4>5. ASSUME cancelled, NEW q \in Kinds
            PROVE  /\ produced'[q] <= cut'[q] + 1
                   /\ produced'[q] > cut'[q] => \A d \in Conns : stream'[q][d] # "next"
        <5>1. CASE q = k
          <6>1. ~(produced[k] > cut[k]) /\ produced[k] \in Nat /\ cut[k] \in Nat
            BY <4>1, <4>5 DEF DeleteInv
          <6>2. cut'[k] = cut[k]
            BY <4>1
          <6> QED
            BY <4>3, <4>4, <5>1, <6>1, <6>2
        <5>2. CASE q # k
          BY <4>1, <4>4, <4>5, <5>2 DEF DeleteInv
        <5> QED
          BY <5>1, <5>2
      <4> QED
        BY <4>1, <4>5 DEF DeleteInv
    <3> QED
      BY <3>1, <3>2
  <2>7. CASE UNCHANGED vars
    BY <2>7 DEF DeleteInv, vars, streamVars
  <2> QED
    BY <2>1, <2>2, <2>3, <2>5, <2>6, <2>7 DEF Next
<1>3. DeleteInv => AtMostOneReadAfterDelete
  BY DEF DeleteInv, AtMostOneReadAfterDelete
<1> QED
  BY <1>1, <1>2, <1>3, TypeCorrect, StreamInvariant, PTL DEF Spec

-----------------------------------------------------------------------------
\* An event that carries a report.
IsReport(e) == e.type = "report"

\* A channel carries the reports after the lo-th up to the hi-th, in order.
Carries(s, lo, hi) ==
  /\ \A i \in 1 .. Len(s) : IsReport(s[i]) => lo < s[i].n /\ s[i].n <= hi
  /\ \A i, j \in 1 .. Len(s) :
       i < j /\ IsReport(s[i]) /\ IsReport(s[j]) => s[i].n < s[j].n
  /\ \A m \in lo + 1 .. hi : \E i \in 1 .. Len(s) : IsReport(s[i]) /\ s[i].n = m

\* The last report the listener has taken off its channel.
Received(k) == IF listener[k] = "forwarding" THEN current[k] ELSE forwarded[k]

\* The last report put on the channel: a stream about to send holds the next.
Holding(k) == \E c \in Conns : stream[k][c] = "send" /\ IsReport(hand[k][c])
Sent(k)    == IF Holding(k) THEN produced[k] - 1 ELSE produced[k]

\* Between what the listener has received and what the streams have read are
\* the channel and one hand.
OrderAt(k) ==
  /\ listener[k] = "forwarding" => current[k] = forwarded[k] + 1
  /\ \A c \in Conns : stream[k][c] = "send" /\ IsReport(hand[k][c])
                      => hand[k][c].n = produced[k]
  /\ Received(k) <= Sent(k)
  /\ Carries(chan[k], Received(k), Sent(k))

OrderInv == \A k \in Kinds : OrderAt(k)

-----------------------------------------------------------------------------
\* What is behind the first event of a channel.
LEMMA BehindHead ==
  ASSUME NEW s \in Seq(Event), s # <<>>
  PROVE  /\ Head(s) = s[1] /\ Head(s) \in Event /\ 1 \in 1 .. Len(s)
         /\ \A i \in 1 .. Len(Tail(s)) : i + 1 \in 1 .. Len(s) /\ Tail(s)[i] = s[i + 1]
         /\ \A i \in 1 .. Len(s) : i # 1 =>
              i - 1 \in 1 .. Len(Tail(s)) /\ Tail(s)[i - 1] = s[i]
<1>1. Len(s) \in Nat \ {0} /\ Len(Tail(s)) = Len(s) - 1
  OBVIOUS
<1>2. Head(s) = s[1] /\ Head(s) \in Event /\ 1 \in 1 .. Len(s)
  BY <1>1
<1>3. \A i \in 1 .. Len(Tail(s)) : i + 1 \in 1 .. Len(s) /\ Tail(s)[i] = s[i + 1]
  BY <1>1
<1>4. \A i \in 1 .. Len(s) : i # 1 => i - 1 \in 1 .. Len(Tail(s))
  BY <1>1
<1>5. \A i \in 1 .. Len(s) : i # 1 => Tail(s)[i - 1] = s[i]
  <2> SUFFICES ASSUME NEW i \in 1 .. Len(s), i # 1 PROVE Tail(s)[i - 1] = s[i]
    OBVIOUS
  <2>1. i - 1 \in 1 .. Len(Tail(s)) /\ (i - 1) + 1 = i
    BY <1>4
  <2> QED
    BY <1>3, <2>1
<1> QED
  BY <1>2, <1>3, <1>4, <1>5

\* The events of a channel to which one has been added.
LEMMA BehindLast ==
  ASSUME NEW s \in Seq(Event), NEW e \in Event
  PROVE  /\ Len(Append(s, e)) = Len(s) + 1 /\ Len(s) \in Nat
         /\ Append(s, e)[Len(s) + 1] = e
         /\ \A i \in 1 .. Len(s) : i \in 1 .. Len(Append(s, e)) /\ Append(s, e)[i] = s[i]
         /\ \A i \in 1 .. Len(Append(s, e)) : i = Len(s) + 1 \/ i \in 1 .. Len(s)
  OBVIOUS

\* The number of an event is a number.
LEMMA Numbers ==
  ASSUME NEW s \in Seq(Event)
  PROVE  \A i \in 1 .. Len(s) : s[i] \in Event /\ s[i].n \in Nat
<1>1. \A i \in 1 .. Len(s) : s[i] \in Event
  OBVIOUS
<1>2. \A e \in Event : e.n \in Nat
  BY StreamConstants DEF Event
<1> QED
  BY <1>1, <1>2

\* A report taken off the channel is the next one.
LEMMA TakeReport ==
  ASSUME NEW s \in Seq(Event), s # <<>>, NEW lo \in Nat, NEW hi \in Nat,
         Carries(s, lo, hi), IsReport(Head(s))
  PROVE  /\ Head(s).n = lo + 1 /\ lo + 1 <= hi
         /\ Carries(Tail(s), lo + 1, hi)
<1>1. \A i \in 1 .. Len(s) : s[i].n \in Nat
  BY Numbers
<1>2. IsReport(s[1]) /\ 1 \in 1 .. Len(s) /\ Head(s) = s[1]
  BY BehindHead
<1>3. lo < s[1].n /\ s[1].n <= hi /\ s[1].n \in Nat
  BY <1>1, <1>2 DEF Carries
<1>4. PICK a \in 1 .. Len(s) : IsReport(s[a]) /\ s[a].n = lo + 1
  <2>1. lo + 1 \in lo + 1 .. hi
    BY <1>3
  <2> QED
    BY <2>1 DEF Carries
<1>5. a = 1 \/ s[1].n < s[a].n
  <2>1. a = 1 \/ 1 < a
    OBVIOUS
  <2> QED
    BY <1>2, <1>4, <2>1 DEF Carries
<1>6. s[1].n = lo + 1
  BY <1>3, <1>4, <1>5
<1>7. \A i \in 1 .. Len(Tail(s)) :
        IsReport(Tail(s)[i]) => lo + 1 < Tail(s)[i].n /\ Tail(s)[i].n <= hi
  <2> SUFFICES ASSUME NEW i \in 1 .. Len(Tail(s)), IsReport(Tail(s)[i])
               PROVE  lo + 1 < Tail(s)[i].n /\ Tail(s)[i].n <= hi
    OBVIOUS
  <2>1. i + 1 \in 1 .. Len(s) /\ Tail(s)[i] = s[i + 1] /\ 1 < i + 1
    BY BehindHead
  <2>2. s[1].n < s[i + 1].n /\ s[i + 1].n <= hi
    BY <1>2, <2>1 DEF Carries
  <2> QED
    BY <1>6, <2>1, <2>2
<1>8. \A i, j \in 1 .. Len(Tail(s)) :
        i < j /\ IsReport(Tail(s)[i]) /\ IsReport(Tail(s)[j]) => Tail(s)[i].n < Tail(s)[j].n
  <2> SUFFICES ASSUME NEW i \in 1 .. Len(Tail(s)), NEW j \in 1 .. Len(Tail(s)),
                      i < j, IsReport(Tail(s)[i]), IsReport(Tail(s)[j])
               PROVE  Tail(s)[i].n < Tail(s)[j].n
    OBVIOUS
  <2>1. /\ i + 1 \in 1 .. Len(s) /\ j + 1 \in 1 .. Len(s) /\ i + 1 < j + 1
        /\ Tail(s)[i] = s[i + 1] /\ Tail(s)[j] = s[j + 1]
    BY BehindHead
  <2> QED
    BY <2>1 DEF Carries
<1>9. ASSUME NEW m \in lo + 1 + 1 .. hi
      PROVE  \E i \in 1 .. Len(Tail(s)) : IsReport(Tail(s)[i]) /\ Tail(s)[i].n = m
  <2>1. m \in lo + 1 .. hi /\ m # lo + 1
    OBVIOUS
  <2>2. PICK i \in 1 .. Len(s) : IsReport(s[i]) /\ s[i].n = m
    BY <2>1 DEF Carries
  <2>3. i # 1
    BY <1>6, <2>1, <2>2
  <2>4. i - 1 \in 1 .. Len(Tail(s)) /\ Tail(s)[i - 1] = s[i]
    BY <2>3, BehindHead
  <2> QED
    BY <2>2, <2>4
<1> QED
  BY <1>2, <1>3, <1>6, <1>7, <1>8, <1>9 DEF Carries

\* An event that is no report may be taken off the channel.
LEMMA TakeOther ==
  ASSUME NEW s \in Seq(Event), s # <<>>, NEW lo \in Nat, NEW hi \in Nat,
         Carries(s, lo, hi), ~IsReport(Head(s))
  PROVE  Carries(Tail(s), lo, hi)
<1>1. \A i \in 1 .. Len(Tail(s)) :
        IsReport(Tail(s)[i]) => lo < Tail(s)[i].n /\ Tail(s)[i].n <= hi
  BY BehindHead DEF Carries
<1>2. \A i, j \in 1 .. Len(Tail(s)) :
        i < j /\ IsReport(Tail(s)[i]) /\ IsReport(Tail(s)[j]) => Tail(s)[i].n < Tail(s)[j].n
  <2> SUFFICES ASSUME NEW i \in 1 .. Len(Tail(s)), NEW j \in 1 .. Len(Tail(s)),
                      i < j, IsReport(Tail(s)[i]), IsReport(Tail(s)[j])
               PROVE  Tail(s)[i].n < Tail(s)[j].n
    OBVIOUS
  <2>1. /\ i + 1 \in 1 .. Len(s) /\ j + 1 \in 1 .. Len(s) /\ i + 1 < j + 1
        /\ Tail(s)[i] = s[i + 1] /\ Tail(s)[j] = s[j + 1]
    BY BehindHead
  <2> QED
    BY <2>1 DEF Carries
<1>3. ASSUME NEW m \in lo + 1 .. hi
      PROVE  \E i \in 1 .. Len(Tail(s)) : IsReport(Tail(s)[i]) /\ Tail(s)[i].n = m
  <2>1. PICK i \in 1 .. Len(s) : IsReport(s[i]) /\ s[i].n = m
    BY DEF Carries
  <2>2. i # 1
    BY <2>1, BehindHead
  <2>3. i - 1 \in 1 .. Len(Tail(s)) /\ Tail(s)[i - 1] = s[i]
    BY <2>2, BehindHead
  <2> QED
    BY <2>1, <2>3
<1> QED
  BY <1>1, <1>2, <1>3 DEF Carries

\* The next report may be put on the channel.
LEMMA PutReport ==
  ASSUME NEW s \in Seq(Event), NEW lo \in Nat, NEW hi \in Nat, lo <= hi,
         Carries(s, lo, hi), NEW e \in Event, IsReport(e), e.n = hi + 1
  PROVE  Carries(Append(s, e), lo, hi + 1)
<1> DEFINE t == Append(s, e)
           z == Len(s) + 1
<1>1. /\ Len(t) = z /\ Len(s) \in Nat /\ t[z] = e /\ z \in 1 .. Len(t)
      /\ \A i \in 1 .. Len(s) : i \in 1 .. Len(t) /\ t[i] = s[i]
      /\ \A i \in 1 .. Len(t) : i = z \/ i \in 1 .. Len(s)
  BY BehindLast
<1>2. \A i \in 1 .. Len(s) : s[i].n \in Nat
  BY Numbers
<1> HIDE DEF t
<1>3. \A i \in 1 .. Len(t) : IsReport(t[i]) => lo < t[i].n /\ t[i].n <= hi + 1
  BY <1>1, <1>2 DEF Carries
<1>4. \A i, j \in 1 .. Len(t) :
        i < j /\ IsReport(t[i]) /\ IsReport(t[j]) => t[i].n < t[j].n
  <2> SUFFICES ASSUME NEW i \in 1 .. Len(t), NEW j \in 1 .. Len(t),
                      i < j, IsReport(t[i]), IsReport(t[j])
               PROVE  t[i].n < t[j].n
    OBVIOUS
  <2>1. i \in 1 .. Len(s) /\ t[i] = s[i]
    BY <1>1
  <2>2. s[i].n <= hi /\ s[i].n \in Nat
    BY <1>2, <2>1 DEF Carries
  <2>3. CASE j = z
    BY <1>1, <2>1, <2>2, <2>3
  <2>4. CASE j \in 1 .. Len(s)
    BY <1>1, <2>1, <2>4 DEF Carries
  <2> QED
    BY <1>1, <2>3, <2>4
<1>5. ASSUME NEW m \in lo + 1 .. hi + 1
      PROVE  \E i \in 1 .. Len(t) : IsReport(t[i]) /\ t[i].n = m
  <2>1. m = hi + 1 \/ m \in lo + 1 .. hi
    OBVIOUS
  <2>2. CASE m = hi + 1
    BY <1>1, <2>2
  <2>3. CASE m \in lo + 1 .. hi
    <3>1. PICK i \in 1 .. Len(s) : IsReport(s[i]) /\ s[i].n = m
      BY <2>3 DEF Carries
    <3> QED
      BY <1>1, <3>1
  <2> QED
    BY <2>1, <2>2, <2>3
<1> QED
  BY <1>3, <1>4, <1>5 DEF Carries, t

\* So may an event that is no report.
LEMMA PutOther ==
  ASSUME NEW s \in Seq(Event), NEW lo \in Nat, NEW hi \in Nat,
         Carries(s, lo, hi), NEW e \in Event, ~IsReport(e)
  PROVE  Carries(Append(s, e), lo, hi)
<1> DEFINE t == Append(s, e)
           z == Len(s) + 1
<1>1. /\ Len(t) = z /\ Len(s) \in Nat /\ t[z] = e
      /\ \A i \in 1 .. Len(s) : i \in 1 .. Len(t) /\ t[i] = s[i]
      /\ \A i \in 1 .. Len(t) : i = z \/ i \in 1 .. Len(s)
  BY BehindLast
<1> HIDE DEF t
<1>2. \A i \in 1 .. Len(t) : IsReport(t[i]) => i \in 1 .. Len(s) /\ t[i] = s[i]
  BY <1>1
<1>3. \A i \in 1 .. Len(t) : IsReport(t[i]) => lo < t[i].n /\ t[i].n <= hi
  BY <1>2 DEF Carries
<1>4. \A i, j \in 1 .. Len(t) :
        i < j /\ IsReport(t[i]) /\ IsReport(t[j]) => t[i].n < t[j].n
  BY <1>2 DEF Carries
<1>5. \A m \in lo + 1 .. hi : \E i \in 1 .. Len(t) : IsReport(t[i]) /\ t[i].n = m
  BY <1>1 DEF Carries
<1> QED
  BY <1>3, <1>4, <1>5 DEF Carries, t

-----------------------------------------------------------------------------
\* The bounds of what a channel carries are numbers.
LEMMA Bounds ==
  ASSUME TypeOK, OrderInv, NEW k \in Kinds
  PROVE  Received(k) \in Nat /\ Sent(k) \in Nat
<1>1. /\ current[k] \in Nat /\ forwarded[k] \in Nat /\ produced[k] \in Nat
  BY StreamConstants DEF TypeOK
<1>2. Received(k) \in Nat
  BY <1>1 DEF Received
<1>3. Received(k) <= Sent(k)
  BY DEF OrderInv, OrderAt
<1> QED
  BY <1>1, <1>2, <1>3 DEF Sent

\* Nothing that the order of a listener is about has changed.
LEMMA OrderFrame ==
  ASSUME NEW k \in Kinds, OrderAt(k),
         chan'[k] = chan[k], Received(k)' = Received(k), Sent(k)' = Sent(k),
         listener'[k] = "forwarding" => current'[k] = forwarded'[k] + 1,
         \A c \in Conns : stream'[k][c] = "send" /\ IsReport(hand'[k][c])
                          => hand'[k][c].n = produced'[k]
  PROVE  OrderAt(k)'
BY DEF OrderAt

\* The order of a listener whose streams have not moved.
LEMMA OrderStill ==
  ASSUME OrderInv, NEW k \in Kinds,
         chan'[k] = chan[k], stream'[k] = stream[k], hand'[k] = hand[k],
         produced'[k] = produced[k], Received(k)' = Received(k),
         listener'[k] = "forwarding" => current'[k] = forwarded'[k] + 1
  PROVE  OrderAt(k)'
<1>1. OrderAt(k)
  BY DEF OrderInv
<1>2. Holding(k)' <=> Holding(k)
  BY DEF Holding
<1>3. Sent(k)' = Sent(k)
  BY <1>2 DEF Sent
<1>4. \A c \in Conns : stream'[k][c] = "send" /\ IsReport(hand'[k][c])
                       => hand'[k][c].n = produced'[k]
  BY <1>1 DEF OrderAt
<1> QED
  BY <1>1, <1>3, <1>4, OrderFrame

\* A goroutine that held nothing to send and takes nothing.
LEMMA OrderPhase ==
  ASSUME TypeOK, OrderInv, NEW k \in Kinds, NEW c \in Conns, NEW p \in Phases, Goto(k, c, p),
         p # "send", stream[k][c] # "send",
         (\E e \in Event : Hold(k, c, e)) \/ UNCHANGED hand,
         UNCHANGED <<chan, produced, current, forwarded>>,
         \A q \in Kinds : listener'[q] = "forwarding" <=> listener[q] = "forwarding"
  PROVE  OrderInv'
<1> SUFFICES ASSUME NEW q \in Kinds PROVE OrderAt(q)'
  BY DEF OrderInv
<1>1. OrderAt(q)
  BY DEF OrderInv
<1>2. /\ \A d \in Conns : ~(q = k /\ d = c) => stream'[q][d] = stream[q][d]
      /\ stream'[k][c] = p
  BY DEF Goto, TypeOK
<1>3. \A d \in Conns : ~(q = k /\ d = c) => hand'[q][d] = hand[q][d]
  BY DEF Hold, TypeOK
<1>4. \A d \in Conns : /\ stream'[q][d] = "send" <=> stream[q][d] = "send"
                       /\ stream[q][d] = "send" => hand'[q][d] = hand[q][d]
  BY <1>2, <1>3
<1>5. Holding(q)' <=> Holding(q)
  BY <1>4 DEF Holding
<1>6. Sent(q)' = Sent(q)
  BY <1>5 DEF Sent
<1>7. Received(q)' = Received(q)
  BY DEF Received
<1>8. \A d \in Conns : stream'[q][d] = "send" /\ IsReport(hand'[q][d])
                       => hand'[q][d].n = produced'[q]
  BY <1>1, <1>4 DEF OrderAt
<1>9. listener'[q] = "forwarding" => current'[q] = forwarded'[q] + 1
  BY <1>1 DEF OrderAt
<1> QED
  BY <1>1, <1>6, <1>7, <1>8, <1>9, OrderFrame

\* The listener takes an event: if it is a report, the one after the last.
LEMMA OrderReceive ==
  ASSUME TypeOK, OrderInv, NEW k \in Kinds, Receive(k)
  PROVE  OrderInv'
<1> SUFFICES ASSUME NEW q \in Kinds PROVE OrderAt(q)'
  BY DEF OrderInv
<1>1. /\ listener[k] = "waiting" /\ chan[k] # <<>>
      /\ chan' = [chan EXCEPT ![k] = Tail(chan[k])]
      /\ listener' = [listener EXCEPT ![k] = AfterReceive[Head(chan[k]).type]]
      /\ current' = [current EXCEPT ![k] = Head(chan[k]).n]
      /\ UNCHANGED <<forwarded, stream, hand, produced>>
  BY DEF Receive, streamVars
<1>2. OrderAt(q)
  BY DEF OrderInv
<1>3. CASE q # k
  <2>1. chan'[q] = chan[q] /\ listener'[q] = listener[q] /\ current'[q] = current[q]
    BY <1>1, <1>3 DEF TypeOK
  <2>2. Received(q)' = Received(q)
    BY <1>1, <2>1 DEF Received
  <2>3. listener'[q] = "forwarding" => current'[q] = forwarded'[q] + 1
    BY <1>1, <1>2, <2>1 DEF OrderAt
  <2> QED
    BY <1>1, <2>1, <2>2, <2>3, OrderStill
<1>4. CASE q = k
  <2>1. chan[k] \in Seq(Event) /\ Head(chan[k]) \in Event
    BY <1>1, BehindHead DEF TypeOK
  <2>2. /\ chan'[k] = Tail(chan[k]) /\ listener'[k] = AfterReceive[Head(chan[k]).type]
        /\ current'[k] = Head(chan[k]).n
    BY <1>1 DEF TypeOK
  <2>3. Received(k) = forwarded[k]
    BY <1>1 DEF Received
  <2>4. Sent(k)' = Sent(k)
    <3>1. Holding(k)' <=> Holding(k)
      BY <1>1 DEF Holding
    <3> QED
      BY <1>1, <3>1 DEF Sent
  <2>5. Received(k) \in Nat /\ Sent(k) \in Nat /\ Received(k) <= Sent(k)
        /\ Carries(chan[k], Received(k), Sent(k))
    BY <1>2, <1>4, Bounds DEF OrderAt
  <2>6. \A c \in Conns : stream'[k][c] = "send" /\ IsReport(hand'[k][c])
                         => hand'[k][c].n = produced'[k]
    BY <1>1, <1>2, <1>4 DEF OrderAt
  <2>7. CASE IsReport(Head(chan[k]))
    <3>1. /\ Head(chan[k]).n = Received(k) + 1 /\ Received(k) + 1 <= Sent(k)
          /\ Carries(Tail(chan[k]), Received(k) + 1, Sent(k))
      BY <1>1, <2>1, <2>5, <2>7, TakeReport
    <3>2. listener'[k] = "forwarding"
      BY <2>2, <2>7 DEF AfterReceive, IsReport
    <3>3. Received(k)' = Received(k) + 1
      BY <2>2, <3>1, <3>2 DEF Received
    <3>4. current'[k] = forwarded'[k] + 1
      BY <1>1, <2>2, <2>3, <3>1
    <3> QED
      BY <1>4, <2>2, <2>4, <2>6, <3>1, <3>3, <3>4 DEF OrderAt
  <2>8. CASE ~IsReport(Head(chan[k]))
    <3>1. Carries(Tail(chan[k]), Received(k), Sent(k))
      BY <1>1, <2>1, <2>5, <2>8, TakeOther
    <3>2. listener'[k] # "forwarding"
      <4>1. Head(chan[k]).type \in {"other", "connErr", "err"}
        BY <2>1, <2>8 DEF Event, ErrTypes, IsReport
      <4> QED
        BY <2>2, <4>1 DEF AfterReceive
    <3>3. Received(k)' = Received(k)
      BY <1>1, <2>3, <3>2 DEF Received
    <3> QED
      BY <1>4, <2>2, <2>4, <2>5, <2>6, <3>1, <3>2, <3>3 DEF OrderAt
  <2> QED
    BY <2>7, <2>8
<1> QED
  BY <1>3, <1>4

\* The steps of a listener.
LEMMA OrderListener ==
  ASSUME TypeOK, OrderInv, NEW k \in Kinds, Listener(k)
  PROVE  OrderInv'
<1>1. CASE Launch(k)
  <2>1. PICK c \in Conns : stream[k][c] = "none" /\ Goto(k, c, "root")
    BY <1>1 DEF Launch, Goto
  <2>2. \A q \in Kinds : listener'[q] = "forwarding" <=> listener[q] = "forwarding"
    BY <1>1 DEF Launch, TypeOK
  <2>3. UNCHANGED <<chan, produced, current, forwarded, hand>>
    BY <1>1 DEF Launch
  <2>4. "root" \in Phases
    BY DEF Phases
  <2> QED
    BY <2>1, <2>2, <2>3, <2>4, OrderPhase
<1>2. CASE Receive(k)
  BY <1>2, OrderReceive
<1>3. CASE SendGroup(k) \/ AddDataGroup(k)
  <2> SUFFICES ASSUME NEW q \in Kinds PROVE OrderAt(q)'
    BY DEF OrderInv
  <2>1. OrderAt(q)
    BY DEF OrderInv
  <2>2. UNCHANGED <<chan, stream, hand, produced>>
    BY <1>3 DEF SendGroup, AddDataGroup, streamVars
  <2>3. Received(q)' = Received(q)
    BY <1>3 DEF SendGroup, AddDataGroup, Received, TypeOK
  <2>4. listener'[q] = "forwarding" => current'[q] = forwarded'[q] + 1
    BY <1>3, <2>1 DEF SendGroup, AddDataGroup, OrderAt, TypeOK
  <2> QED
    BY <2>2, <2>3, <2>4, OrderStill
<1> QED
  BY <1>1, <1>2, <1>3 DEF Listener

\* A stream sends what it holds: the last report read, or no report.
LEMMA OrderSend ==
  ASSUME TypeOK, StreamInv, OrderInv, NEW k \in Kinds, NEW c \in Conns, NEW p \in Phases,
         Goto(k, c, p), p # "send", Send(k, c), Restore(k, c),
         stream[k][c] \in {"send", "fail", "failRead"},
         UNCHANGED <<produced, listenVars>>
  PROVE  OrderInv'
<1> SUFFICES ASSUME NEW q \in Kinds PROVE OrderAt(q)'
  BY DEF OrderInv
<1>1. OrderAt(q)
  BY DEF OrderInv
<1>2. UNCHANGED <<listener, current, forwarded>> /\ Received(q)' = Received(q)
  BY DEF Received, listenVars
<1>3. CASE q # k
  <2>1. chan'[q] = chan[q] /\ stream'[q] = stream[q] /\ hand'[q] = hand[q]
    BY <1>3 DEF Send, Goto, Restore, Hold, TypeOK
  <2>2. listener'[q] = "forwarding" => current'[q] = forwarded'[q] + 1
    BY <1>1, <1>2 DEF OrderAt
  <2> QED
    BY <1>2, <2>1, <2>2, OrderStill
<1>4. CASE q = k
  <2>1. /\ chan'[k] = Append(chan[k], hand[k][c])
        /\ chan[k] \in Seq(Event) /\ hand[k][c] \in Event
    BY DEF Send, TypeOK
  <2>2. /\ \A d \in Conns : d # c => stream'[k][d] = stream[k][d]
        /\ stream'[k][c] = p
    BY DEF Goto, TypeOK
  <2>3. \A d \in Conns : stream[k][d] = "send" => d = c
    <3>1. \A x, y \in Live(k) : x = y
      BY DEF StreamInv, TokenAt
    <3>2. c \in Live(k) /\ \A d \in Conns : stream[k][d] = "send" => d \in Live(k)
      BY DEF Live, LivePhases, Phases
    <3> QED
      BY <3>1, <3>2
  <2>4. \A d \in Conns : stream'[k][d] # "send"
    BY <2>2, <2>3
  <2>5. Sent(k)' = produced[k]
    BY <2>4 DEF Sent, Holding
  <2>6. Received(k) \in Nat /\ Sent(k) \in Nat /\ Received(k) <= Sent(k)
        /\ Carries(chan[k], Received(k), Sent(k)) /\ produced[k] \in Nat
    BY <1>1, <1>4, StreamConstants, Bounds DEF OrderAt, TypeOK
  <2>7. listener'[k] = "forwarding" => current'[k] = forwarded'[k] + 1
    BY <1>1, <1>2, <1>4 DEF OrderAt
  <2>8. CASE IsReport(hand[k][c])
    <3>1. stream[k][c] = "send"
      BY <2>8 DEF StreamInv, HandInv, IsReport, ErrTypes
    <3>2. hand[k][c].n = produced[k] /\ Sent(k) = produced[k] - 1
      BY <1>1, <1>4, <2>8, <3>1 DEF OrderAt, Sent, Holding
    <3>3. hand[k][c].n = Sent(k) + 1 /\ Sent(k)' = Sent(k) + 1
      BY <2>5, <2>6, <3>2
    <3>4. Carries(chan'[k], Received(k), Sent(k) + 1)
      BY <2>1, <2>6, <2>8, <3>3, PutReport
    <3>5. Received(k) <= Sent(k) + 1
      BY <2>6
    <3> QED
      BY <1>2, <1>4, <2>4, <2>7, <3>3, <3>4, <3>5 DEF OrderAt
  <2>9. CASE ~IsReport(hand[k][c])
    <3>1. ~Holding(k)
      BY <2>3, <2>9 DEF Holding
    <3>2. Sent(k)' = Sent(k)
      BY <2>5, <3>1 DEF Sent
    <3>3. Carries(chan'[k], Received(k), Sent(k))
      BY <2>1, <2>6, <2>9, PutOther
    <3> QED
      BY <1>2, <1>4, <2>4, <2>6, <2>7, <3>2, <3>3 DEF OrderAt
  <2> QED
    BY <2>8, <2>9
<1> QED
  BY <1>3, <1>4

\* A stream reads an event; a report it reads is the next one.
LEMMA OrderRead ==
  ASSUME TypeOK, StreamInv, OrderInv, NEW k \in Kinds, NEW c \in Conns, ReadEvent(k, c)
  PROVE  OrderInv'
<1>1. stream[k][c] = "next" /\ UNCHANGED <<chan, listener, current, forwarded>>
  BY DEF ReadEvent, listenVars
<1>2. CASE Goto(k, c, "check") /\ UNCHANGED <<hand, produced>>
  BY <1>1, <1>2, OrderPhase DEF Phases
<1>3. ASSUME NEW e \in Event, Hold(k, c, e), Goto(k, c, "send"),
             \/ /\ e = Report(produced[k] + 1)
                /\ produced' = [produced EXCEPT ![k] = produced[k] + 1]
             \/ e = Plain("other") /\ UNCHANGED produced
      PROVE  OrderInv'
  <2> SUFFICES ASSUME NEW q \in Kinds PROVE OrderAt(q)'
    BY DEF OrderInv
  <2>1. OrderAt(q)
    BY DEF OrderInv
  <2>2. Received(q)' = Received(q)
    BY <1>1 DEF Received
  <2>3. listener'[q] = "forwarding" => current'[q] = forwarded'[q] + 1
    BY <1>1, <2>1 DEF OrderAt
  <2>4. CASE q # k
    <3>1. stream'[q] = stream[q] /\ hand'[q] = hand[q] /\ produced'[q] = produced[q]
      BY <1>3, <2>4 DEF Goto, Hold, TypeOK
    <3> QED
      BY <1>1, <2>2, <2>3, <3>1, OrderStill
  <2>5. CASE q = k
    <3>1. /\ \A d \in Conns : d # c => stream'[k][d] = stream[k][d]
          /\ stream'[k][c] = "send" /\ hand'[k][c] = e
      BY <1>3 DEF Goto, Hold, TypeOK
    <3>2. \A d \in Conns : stream[k][d] # "send"
      <4>1. \A x, y \in Live(k) : x = y
        BY DEF StreamInv, TokenAt
      <4>2. c \in Live(k) /\ \A d \in Conns : stream[k][d] = "send" => d \in Live(k)
        BY <1>1 DEF Live, LivePhases, Phases
      <4> QED
        BY <1>1, <4>1, <4>2
    <3>3. \A d \in Conns : stream'[k][d] = "send" => d = c
      BY <3>1, <3>2
    <3>4. Sent(k) = produced[k] /\ produced[k] \in Nat
      BY <3>2, StreamConstants DEF Sent, Holding, TypeOK
    <3>5. Holding(k)' <=> IsReport(e)
      BY <3>1, <3>3 DEF Holding
    <3>6. Sent(k)' = produced[k] /\ (IsReport(e) => e.n = produced'[k])
      <4>1. CASE e = Report(produced[k] + 1) /\ produced' = [produced EXCEPT ![k] = produced[k] + 1]
        <5>1. produced'[k] = produced[k] + 1
          BY <4>1 DEF TypeOK
        <5>2. IsReport(e) /\ e.n = produced[k] + 1
          BY <4>1 DEF IsReport, Report
        <5> QED
          BY <3>4, <3>5, <5>1, <5>2 DEF Sent
      <4>2. CASE e = Plain("other") /\ UNCHANGED produced
        <5>1. ~IsReport(e)
          BY <4>2 DEF IsReport, Plain
        <5> QED
          BY <3>5, <4>2, <5>1 DEF Sent
      <4> QED
        BY <1>3, <4>1, <4>2
    <3>7. Sent(k)' = Sent(k)
      BY <3>4, <3>6
    <3>8. \A d \in Conns : stream'[k][d] = "send" /\ IsReport(hand'[k][d])
                           => hand'[k][d].n = produced'[k]
      BY <3>1, <3>3, <3>6
    <3> QED
      BY <1>1, <2>1, <2>2, <2>3, <2>5, <3>7, <3>8, OrderFrame
  <2> QED
    BY <2>4, <2>5
<1>4. CASE /\ produced[k] < MaxReports
           /\ produced' = [produced EXCEPT ![k] = @ + 1]
           /\ Hold(k, c, Report(produced[k] + 1))
           /\ Goto(k, c, "send")
  <2>1. Report(produced[k] + 1) \in Event
    BY <1>4, StreamConstants DEF TypeOK, Report, Event
  <2> QED
    BY <1>3, <1>4, <2>1
<1>5. CASE Hold(k, c, Plain("other")) /\ Goto(k, c, "send") /\ UNCHANGED produced
  <2>1. Plain("other") \in Event
    BY StreamConstants DEF Plain, Event
  <2> QED
    BY <1>3, <1>5, <2>1
<1> QED
  BY <1>2, <1>4, <1>5 DEF ReadEvent

\* The steps of a stream.
LEMMA OrderStream ==
  ASSUME TypeOK, StreamInv, OrderInv, NEW k \in Kinds, NEW c \in Conns,
         Local(k, c) \/ Remote(k, c)
  PROVE  OrderInv'
<1> USE DEF Phases
<1>1. CASE SendEvent(k, c)
  BY <1>1, OrderSend DEF SendEvent
<1>2. CASE SendSetupError(k, c)
  BY <1>2, OrderSend DEF SendSetupError
<1>3. CASE SendReadError(k, c)
  BY <1>3, OrderSend DEF SendReadError
<1>4. CASE ReadEvent(k, c)
  BY <1>4, OrderRead
<1>5. CASE StopOnCancel(k, c) \/ EnterNext(k, c) \/ Close(k, c) \/ Connected(k, c)
  <2>1. PICK p \in Phases \ {"send"} : Goto(k, c, p)
    BY <1>5 DEF StopOnCancel, EnterNext, Close, Connected
  <2>2. stream[k][c] # "send" /\ UNCHANGED <<hand, chan, produced, current, forwarded, listener>>
    BY <1>5 DEF StopOnCancel, EnterNext, Close, Connected, listenVars
  <2> QED
    BY <2>1, <2>2, OrderPhase
<1>6. CASE ReadServiceRoot(k, c) \/ ConnectFails(k, c) \/ ReadError(k, c)
  <2>1. \A t \in ErrTypes : Plain(t) \in Event
    BY StreamConstants DEF Plain, Event
  <2>2. PICK p \in Phases \ {"send"} : Goto(k, c, p)
    BY <1>6 DEF ReadServiceRoot, ConnectFails, ReadError
  <2>3. (\E e \in Event : Hold(k, c, e)) \/ UNCHANGED hand
    BY <1>6, <2>1 DEF ReadServiceRoot, ConnectFails, ReadError, ErrTypes
  <2>4. stream[k][c] # "send" /\ UNCHANGED <<chan, produced, current, forwarded, listener>>
    BY <1>6 DEF ReadServiceRoot, ConnectFails, ReadError, listenVars
  <2> QED
    BY <2>2, <2>3, <2>4, OrderPhase
<1> QED
  BY <1>1, <1>2, <1>3, <1>4, <1>5, <1>6 DEF Local, Remote

\* The channel and the streams' hands hold exactly the reports between the last
\* forwarded and the last read, in order.
THEOREM OrderInvariant == Spec => []OrderInv
<1>1. Init => OrderInv
  <2> SUFFICES ASSUME Init, NEW k \in Kinds PROVE OrderAt(k)
    BY DEF OrderInv
  <2>1. /\ listener[k] = "off" /\ forwarded[k] = 0 /\ produced[k] = 0 /\ chan[k] = <<>>
        /\ \A c \in Conns : stream[k][c] = "none"
    BY DEF Init
  <2>2. Received(k) = 0 /\ Sent(k) = 0
    BY <2>1 DEF Received, Sent, Holding
  <2>3. Carries(<<>>, 0, 0)
    BY DEF Carries
  <2> QED
    BY <2>1, <2>2, <2>3 DEF OrderAt
<1>2. TypeOK /\ StreamInv /\ OrderInv /\ [Next]_vars => OrderInv'
  <2> SUFFICES ASSUME TypeOK, StreamInv, OrderInv, [Next]_vars PROVE OrderInv'
    OBVIOUS
  <2>1. CASE Monitor \/ CtxCancel \/ UNCHANGED vars
    <3>1. UNCHANGED <<chan, stream, hand, produced, current, forwarded>>
      BY <2>1 DEF Monitor, ValidateAndAddDevice, GetSystemId, GetServiceRoot, StartMonitoring,
         getAlerts, CtxCancel, vars, listenVars, streamVars
    <3>2. \A q \in Kinds : listener'[q] = "forwarding" <=> listener[q] = "forwarding"
      <4>1. CASE StartMonitoring \/ getAlerts
        <5>1. UNCHANGED listener \/ \E k \in Kinds : StartListener(k) /\ listener[k] = "off"
          BY <4>1 DEF StartMonitoring, getTelemetry, getAlerts, Kinds, StreamInv, NotStartedYet
        <5> QED
          BY <5>1 DEF StartListener, TypeOK
      <4>2. CASE ~(StartMonitoring \/ getAlerts)
        BY <2>1, <4>2 DEF Monitor, ValidateAndAddDevice, GetSystemId, GetServiceRoot,
           CtxCancel, vars, listenVars
      <4> QED
        BY <4>1, <4>2
    <3>3. ASSUME NEW q \in Kinds PROVE OrderAt(q)'
      <4>1. OrderAt(q)
        BY DEF OrderInv
      <4>2. Received(q)' = Received(q)
        BY <3>1, <3>2 DEF Received
      <4>3. listener'[q] = "forwarding" => current'[q] = forwarded'[q] + 1
        BY <3>1, <3>2, <4>1 DEF OrderAt
      <4> QED
        BY <3>1, <4>2, <4>3, OrderStill
    <3> QED
      BY <3>3 DEF OrderInv
  <2> QED
    BY <2>1, OrderListener, OrderStream DEF Next
<1> QED
  BY <1>1, <1>2, TypeCorrect, StreamInvariant, PTL DEF Spec

\* Reports reach SendGroup in the order they were read, each once and none
\* skipped.
THEOREM ForwardedInOrder == Spec => InOrderNoGap
<1>1. TypeOK /\ OrderInv /\ [Next]_vars =>
        [\A k \in Kinds : forwarded'[k] \in {forwarded[k], forwarded[k] + 1}]_vars
  <2> SUFFICES ASSUME TypeOK, OrderInv, [Next]_vars, NEW q \in Kinds
               PROVE  forwarded'[q] \in {forwarded[q], forwarded[q] + 1}
    OBVIOUS
  <2>1. ASSUME NEW k \in Kinds, SendGroup(k)
        PROVE  forwarded'[q] \in {forwarded[q], forwarded[q] + 1}
    <3>1. current[k] = forwarded[k] + 1
      BY <2>1 DEF SendGroup, OrderInv, OrderAt
    <3> QED
      BY <2>1, <3>1 DEF SendGroup, TypeOK
  <2>2. CASE ~\E k \in Kinds : SendGroup(k)
    <3>1. CASE Monitor \/ CtxCancel \/ UNCHANGED vars
      BY <3>1 DEF Monitor, ValidateAndAddDevice, GetSystemId, GetServiceRoot, StartMonitoring,
         getAlerts, CtxCancel, vars, listenVars
    <3>2. ASSUME NEW k \in Kinds, Listener(k) PROVE UNCHANGED forwarded
      BY <2>2, <3>2 DEF Listener, Launch, Receive, AddDataGroup
    <3>3. ASSUME NEW k \in Kinds, NEW c \in Conns, Local(k, c) PROVE UNCHANGED forwarded
      BY <3>3 DEF Local, StopOnCancel, EnterNext, SendEvent, SendSetupError, SendReadError,
         Close, listenVars
    <3>4. ASSUME NEW k \in Kinds, NEW c \in Conns, Remote(k, c) PROVE UNCHANGED forwarded
      BY <3>4 DEF Remote, ReadServiceRoot, Connected, ConnectFails, ReadEvent, ReadError,
         listenVars
    <3> QED
      BY <3>1, <3>2, <3>3, <3>4 DEF Next
  <2> QED
    BY <2>1, <2>2
<1> QED
  BY <1>1, TypeCorrect, OrderInvariant, PTL DEF Spec, InOrderNoGap

=============================================================================
