---------------------------- MODULE DeviceStream ----------------------------
(***************************************************************************)
(* One RedfishDevice of redfishread: RedfishMonitorStart, the metric and   *)
(* the alert listener goroutines, the channel each listener reads, and the *)
(* SSE goroutines that fill it (pkg/redfishread/redfishdevice.go,          *)
(* pkg/redfishread/redfishread.go, internal/redfish/redfish.go).           *)
(*                                                                         *)
(* A listener never starts a second stream on its own account: it launches *)
(* one when it starts and one for each error event it receives.  Whether   *)
(* that keeps exactly one stream alive depends on every exit path of       *)
(* ListenForMetricReports, ListenForAlerts and StartSSE sending one error  *)
(* event, or none when the device was deleted.                             *)
(***************************************************************************)
EXTENDS Naturals, Sequences

CONSTANTS
  Conns,          \* goroutines that may run ListenFor... at once (a bound)
  ChanCap,        \* capacity of the Events and Metrics channels (10 in the code)
  MaxReports,     \* reports the device emits per listener (a bound)
  IncludeAlerts   \* INCLUDE_ALERTS = "true" in the environment

ASSUME StreamConstants ==
  /\ Conns # {}
  /\ ChanCap \in Nat \ {0}
  /\ MaxReports \in Nat
  /\ IncludeAlerts \in BOOLEAN

Kinds == {"metrics", "alerts"}

ErrTypes == {"connErr", "err"}    \* connErr: the text holds "connection error"

\* A RedfishEvent.  n numbers the reports a listener's device emits; "other"
\* is an event the listener logs and drops (unknown type, no MetricValues).
Event == [type : {"report", "other"} \cup ErrTypes, n : 0 .. MaxReports]

Report(i) == [type |-> "report", n |-> i]
Plain(t)  == [type |-> t, n |-> 0]

Phases == {"none", "root", "connect", "check", "next", "send",
           "fail", "failRead", "closing"}

\* Phases from which a stream can still put an event on the channel.
LivePhases == Phases \ {"none", "closing"}

ListenerStates ==
  {"off", "restarting", "waiting", "sleeping", "forwarding", "caching"}

DeviceStates == {"none", "Starting", "Connection Failed", "Running",
                 "Running Only Alerts", "Monitoring"}

VARIABLES
  monitor,    \* where RedfishMonitorStart is
  devState,   \* RedfishDevice.State
  reported,   \* the state last sent by UpdateServiceState
  cancelled,  \* Ctx is done: DELETEPRODUCER called CtxCancel
  listener,   \* [Kinds -> ListenerStates]
  current,    \* [Kinds -> report the listener is handling, 0 for none]
  chan,       \* [Kinds -> Seq(Event)], the buffered channel
  stream,     \* [Kinds -> [Conns -> Phases]]
  hand,       \* [Kinds -> [Conns -> event about to be sent]]
  produced,   \* [Kinds -> reports a stream has read from the device]
  forwarded,  \* [Kinds -> last report given to SendGroup]
  cached,     \* [Kinds -> last report given to AddDataGroup]
  cut         \* history: produced when the device was deleted

devVars    == <<monitor, devState, reported>>
listenVars == <<listener, current, forwarded, cached>>
streamVars == <<stream, hand, produced>>
vars == <<devVars, cancelled, listenVars, chan, streamVars, cut>>

-----------------------------------------------------------------------------
Init ==
  /\ monitor = "new"
  /\ devState = "none"
  /\ reported = "none"
  /\ cancelled = FALSE
  /\ listener = [k \in Kinds |-> "off"]
  /\ current = [k \in Kinds |-> 0]
  /\ chan = [k \in Kinds |-> <<>>]
  /\ stream = [k \in Kinds |-> [c \in Conns |-> "none"]]
  /\ hand = [k \in Kinds |-> [c \in Conns |-> Plain("other")]]
  /\ produced = [k \in Kinds |-> 0]
  /\ forwarded = [k \in Kinds |-> 0]
  /\ cached = [k \in Kinds |-> 0]
  /\ cut = [k \in Kinds |-> 0]

(***************************************************************************)
(* The device object and its monitor goroutine.                            *)
(***************************************************************************)

\* The Redfish client is created, or its login fails and the device is kept
\* without a monitor.
ValidateAndAddDevice ==
  /\ monitor = "new"
  /\ \/ monitor' = "systemId" /\ devState' = "Starting"
     \/ monitor' = "done"     /\ devState' = "Connection Failed"
  /\ UNCHANGED <<reported, cancelled, listenVars, chan, streamVars, cut>>

GetSystemId ==
  /\ monitor = "systemId"
  /\ \/ monitor' = "root" /\ UNCHANGED reported
     \/ monitor' = "done" /\ reported' = "Connection Failed"
  /\ UNCHANGED <<devState, cancelled, listenVars, chan, streamVars, cut>>

GetServiceRoot ==
  /\ monitor = "root"
  /\ monitor' \in {"telemetry", "done"}
  /\ UNCHANGED <<devState, reported, cancelled, listenVars, chan, streamVars, cut>>

StartListener(k) == listener' = [listener EXCEPT ![k] = "restarting"]

getTelemetry ==
  /\ devState' = "Running"
  /\ StartListener("metrics")

\* The TelemetryService branch of RedfishMonitorStart.
StartMonitoring ==
  /\ monitor = "telemetry"
  /\ monitor' = "alerts"
  /\ \/ reported' = "Running" /\ getTelemetry
     \/ /\ reported' = "Monitoring"
        /\ devState' = "Running Only Alerts"
        /\ UNCHANGED listener
  /\ UNCHANGED <<cancelled, current, forwarded, cached, chan, streamVars, cut>>

getAlerts ==
  /\ monitor = "alerts"
  /\ monitor' = "done"
  /\ IF IncludeAlerts
       THEN devState' = "Running" /\ StartListener("alerts")
       ELSE UNCHANGED <<devState, listener>>
  /\ UNCHANGED <<reported, cancelled, current, forwarded, cached, chan, streamVars, cut>>

\* DELETEPRODUCER cancels the context; the history variable notes how many
\* reports had been read.
CtxCancel ==
  /\ monitor # "new"
  /\ ~cancelled
  /\ cancelled' = TRUE
  /\ cut' = produced
  /\ UNCHANGED <<devVars, listenVars, chan, streamVars>>


(***************************************************************************)
(* The listener goroutines: StartMetricListener and StartAlertListener.    *)
(***************************************************************************)

\* go ListenFor...: first by StartMetricListener and StartAlertListener, then
\* by RestartMetricListener and RestartAlertListener for each error event,
\* after five minutes when it is a connection error.
Launch(k) ==
  /\ listener[k] \in {"restarting", "sleeping"}
  /\ listener' = [listener EXCEPT ![k] = "waiting"]
  /\ \E c \in Conns :
       /\ stream[k][c] = "none"
       /\ stream' = [stream EXCEPT ![k][c] = "root"]
  /\ UNCHANGED <<devVars, cancelled, current, forwarded, cached, chan, hand, produced, cut>>

\* What the listener does with an event of each type.
AfterReceive == [report |-> "forwarding", other |-> "waiting",
                 connErr |-> "sleeping", err |-> "restarting"]

\* Mutation: an idle timeout is logged and the listener keeps waiting.
ReceiveNoRestart(k) ==
  /\ listener[k] = "waiting"
  /\ chan[k] # <<>>
  /\ chan' = [chan EXCEPT ![k] = Tail(@)]
  /\ listener' = [listener EXCEPT ![k] =
       [AfterReceive EXCEPT !.err = "waiting"][Head(chan[k]).type]]
  /\ current' = [current EXCEPT ![k] = Head(chan[k]).n]
  /\ UNCHANGED <<devVars, cancelled, forwarded, cached, streamVars, cut>>

Receive(k) ==
  /\ listener[k] = "waiting"
  /\ chan[k] # <<>>
  /\ chan' = [chan EXCEPT ![k] = Tail(@)]
  /\ listener' = [listener EXCEPT ![k] = AfterReceive[Head(chan[k]).type]]
  /\ current' = [current EXCEPT ![k] = Head(chan[k]).n]
  /\ UNCHANGED <<devVars, cancelled, forwarded, cached, streamVars, cut>>

\* The last two statements of parseReport and parseRedfishEvents.
SendGroup(k) ==
  /\ listener[k] = "forwarding"
  /\ forwarded' = [forwarded EXCEPT ![k] = current[k]]
  /\ listener' = [listener EXCEPT ![k] = "caching"]
  /\ UNCHANGED <<devVars, cancelled, current, cached, chan, streamVars, cut>>

\* Mutation: the listener returns after a report instead of continuing.
AddDataGroupReturns(k) ==
  /\ listener[k] = "caching"
  /\ cached' = [cached EXCEPT ![k] = current[k]]
  /\ current' = [current EXCEPT ![k] = 0]
  /\ listener' = [listener EXCEPT ![k] = "off"]
  /\ UNCHANGED <<devVars, cancelled, forwarded, chan, streamVars, cut>>

AddDataGroup(k) ==
  /\ listener[k] = "caching"
  /\ cached' = [cached EXCEPT ![k] = current[k]]
  /\ current' = [current EXCEPT ![k] = 0]
  /\ listener' = [listener EXCEPT ![k] = "waiting"]
  /\ UNCHANGED <<devVars, cancelled, forwarded, chan, streamVars, cut>>

(***************************************************************************)
(* One SSE goroutine: ListenForMetricReports or ListenForAlerts and        *)
(* StartSSE.                                                               *)
(***************************************************************************)

Goto(k, c, phase) == stream' = [stream EXCEPT ![k][c] = phase]
Hold(k, c, e)     == hand' = [hand EXCEPT ![k][c] = e]
Restore(k, c)     == Hold(k, c, Plain("other"))

\* The service root names a ServerSentEventUri, or the goroutine gives up
\* with the error of the request.
ReadServiceRoot(k, c) ==
  /\ stream[k][c] = "root"
  /\ \/ Goto(k, c, "connect") /\ UNCHANGED hand
     \/ Goto(k, c, "fail") /\ Hold(k, c, Plain("err"))
  /\ UNCHANGED <<devVars, cancelled, listenVars, chan, produced, cut>>

\* sseConfig.Connect.
Connected(k, c) ==
  /\ stream[k][c] = "connect"
  /\ Goto(k, c, "check")
  /\ UNCHANGED <<devVars, cancelled, listenVars, chan, hand, produced, cut>>

\* Mutation: StartSSE logs a failed Connect and returns nil.
ConnectFailsSilently(k, c) ==
  /\ stream[k][c] = "connect"
  /\ Goto(k, c, "none")
  /\ UNCHANGED <<devVars, cancelled, listenVars, chan, hand, produced, cut>>

ConnectFails(k, c) ==
  /\ stream[k][c] = "connect"
  /\ Goto(k, c, "fail")
  /\ Hold(k, c, Plain("connErr"))
  /\ UNCHANGED <<devVars, cancelled, listenVars, chan, produced, cut>>

\* The select at the head of StartSSE's loop takes Ctx.Done whenever it is
\* ready; otherwise the goroutine blocks in Next.
StopOnCancel(k, c) ==
  /\ stream[k][c] = "check"
  /\ cancelled
  /\ Goto(k, c, "closing")
  /\ UNCHANGED <<devVars, cancelled, listenVars, chan, hand, produced, cut>>

\* Mutation: the context is not looked at between events.
EnterNextAnyway(k, c) ==
  /\ stream[k][c] = "check"
  /\ Goto(k, c, "next")
  /\ UNCHANGED <<devVars, cancelled, listenVars, chan, hand, produced, cut>>

EnterNext(k, c) ==
  /\ stream[k][c] = "check"
  /\ ~cancelled
  /\ Goto(k, c, "next")
  /\ UNCHANGED <<devVars, cancelled, listenVars, chan, hand, produced, cut>>

\* Next returns an event: a report, one the listener will drop, or one whose
\* data is not JSON, which the loop itself skips.
ReadEvent(k, c) ==
  /\ stream[k][c] = "next"
  /\ \/ /\ produced[k] < MaxReports
        /\ produced' = [produced EXCEPT ![k] = @ + 1]
        /\ Hold(k, c, Report(produced[k] + 1))
        /\ Goto(k, c, "send")
     \/ /\ Hold(k, c, Plain("other"))
        /\ Goto(k, c, "send")
        /\ UNCHANGED produced
     \/ /\ Goto(k, c, "check")
        /\ UNCHANGED <<hand, produced>>
  /\ UNCHANGED <<devVars, cancelled, listenVars, chan, cut>>

\* Next returns an error: the end of the stream, as a connection error or an
\* idle timeout, or whatever made the internal reconnect give up.
ReadError(k, c) ==
  /\ stream[k][c] = "next"
  /\ Goto(k, c, "failRead")
  /\ \E t \in ErrTypes : Hold(k, c, Plain(t))
  /\ UNCHANGED <<devVars, cancelled, listenVars, chan, produced, cut>>

\* Mutation: a full channel is not waited for, the event is dropped.
SendOrDrop(k, c) ==
  chan' = [chan EXCEPT ![k] =
             IF Len(@) < ChanCap THEN Append(@, hand[k][c]) ELSE @]

\* Mutation: an unbounded channel.
SendUnbounded(k, c) == chan' = [chan EXCEPT ![k] = Append(@, hand[k][c])]

\* event <- redfishEvent, which blocks while the channel is full.
Send(k, c) ==
  /\ Len(chan[k]) < ChanCap
  /\ chan' = [chan EXCEPT ![k] = Append(@, hand[k][c])]

SendEvent(k, c) ==
  /\ stream[k][c] = "send"
  /\ Send(k, c)
  /\ Goto(k, c, "check")
  /\ Restore(k, c)
  /\ UNCHANGED <<devVars, cancelled, listenVars, produced, cut>>

\* The error event of ListenFor... itself: the goroutine ends after it.
SendSetupError(k, c) ==
  /\ stream[k][c] = "fail"
  /\ Send(k, c)
  /\ Goto(k, c, "none")
  /\ Restore(k, c)
  /\ UNCHANGED <<devVars, cancelled, listenVars, produced, cut>>

\* Mutation: StartSSE returns the error it has sent, so ListenFor... sends it
\* once more.
SendReadErrorTwice(k, c) ==
  /\ stream[k][c] = "failRead"
  /\ Send(k, c)
  /\ Goto(k, c, "fail")
  /\ UNCHANGED <<devVars, cancelled, listenVars, hand, produced, cut>>

\* The error event of StartSSE, which closes the source and returns nil.
SendReadError(k, c) ==
  /\ stream[k][c] = "failRead"
  /\ Send(k, c)
  /\ Goto(k, c, "closing")
  /\ Restore(k, c)
  /\ UNCHANGED <<devVars, cancelled, listenVars, produced, cut>>

Close(k, c) ==
  /\ stream[k][c] = "closing"
  /\ Goto(k, c, "none")
  /\ UNCHANGED <<devVars, cancelled, listenVars, chan, hand, produced, cut>>

-----------------------------------------------------------------------------
Monitor == ValidateAndAddDevice \/ GetSystemId \/ GetServiceRoot
             \/ StartMonitoring \/ getAlerts

Listener(k) == Launch(k) \/ Receive(k) \/ SendGroup(k) \/ AddDataGroup(k)

\* The steps a goroutine takes without waiting for the device.
Local(k, c) == StopOnCancel(k, c) \/ EnterNext(k, c) \/ SendEvent(k, c)
                 \/ SendSetupError(k, c) \/ SendReadError(k, c) \/ Close(k, c)

\* The steps that end a wait for the device.
Remote(k, c) == ReadServiceRoot(k, c) \/ Connected(k, c) \/ ConnectFails(k, c)
                  \/ ReadEvent(k, c) \/ ReadError(k, c)

Next ==
  \/ Monitor
  \/ CtxCancel
  \/ \E k \in Kinds : Listener(k)
  \/ \E k \in Kinds, c \in Conns : Local(k, c) \/ Remote(k, c)

Spec == Init /\ [][Next]_vars

(***************************************************************************)
(* The Go scheduler runs every goroutine that can proceed.  Nothing is     *)
(* assumed of the device: the HTTP client has no timeout, so a request may *)
(* hang, and an open event stream may stay silent for ever.                *)
(***************************************************************************)
Fairness ==
  \A k \in Kinds :
    /\ WF_vars(Listener(k))
    /\ \A c \in Conns : WF_vars(Local(k, c))

FairSpec == Spec /\ Fairness

\* A device that stays reachable: its requests end, a stream that keeps trying
\* gets through, and every open stream sends something or is closed.
FindsEventService(k, c) ==
  ReadServiceRoot(k, c) /\ stream'[k][c] = "connect"

DeviceReachable ==
  \A k \in Kinds, c \in Conns :
    /\ WF_vars(Remote(k, c))
    /\ SF_vars(FindsEventService(k, c))
    /\ SF_vars(Connected(k, c))

-----------------------------------------------------------------------------
Live(k)   == {c \in Conns : stream[k][c] \in LivePhases}
HasErr(k) == \E i \in 1 .. Len(chan[k]) : chan[k][i].type \in ErrTypes
Relaunching(k) == listener[k] \in {"restarting", "sleeping"}

TypeOK ==
  /\ monitor \in {"new", "systemId", "root", "telemetry", "alerts", "done"}
  /\ devState \in DeviceStates
  /\ reported \in DeviceStates
  /\ cancelled \in BOOLEAN
  /\ listener \in [Kinds -> ListenerStates]
  /\ current \in [Kinds -> 0 .. MaxReports]
  /\ chan \in [Kinds -> Seq(Event)]
  /\ \A k \in Kinds : Len(chan[k]) <= ChanCap
  /\ stream \in [Kinds -> [Conns -> Phases]]
  /\ hand \in [Kinds -> [Conns -> Event]]
  /\ produced \in [Kinds -> 0 .. MaxReports]
  /\ forwarded \in [Kinds -> 0 .. MaxReports]
  /\ cached \in [Kinds -> 0 .. MaxReports]
  /\ cut \in [Kinds -> 0 .. MaxReports]

\* A listener has at most one stream that can still send: no event of the
\* device is read twice, and two streams never race for the channel.  Rests on
\* every exit path of StartSSE and ListenFor... sending at most one error.
AtMostOneStream ==
  \A k \in Kinds : \A c, d \in Live(k) : c = d

\* A listener that was started never goes silent while the device is
\* configured: it has a live stream, an error that will make it launch one, or
\* it is about to.  Rests on no exit path ending without an error event.
NeverSilent ==
  \A k \in Kinds :
    listener[k] # "off" /\ ~cancelled =>
      Relaunching(k) \/ HasErr(k) \/ Live(k) # {}

\* The listener backs off or relaunches only when nothing is left to forward:
\* the five-minute sleep delays no report.
SleepDelaysNothing ==
  \A k \in Kinds : Relaunching(k) => chan[k] = <<>> /\ Live(k) = {}

\* After the device is deleted its listeners read at most one more report
\* each: the one a stream was already waiting for inside Next.
AtMostOneReadAfterDelete ==
  cancelled => \A k \in Kinds : produced[k] <= cut[k] + 1

\* Reports are handed to SendGroup in the order the device sent them, each
\* once and none skipped, across errors, restarts and deletion.
InOrderNoGap ==
  [][\A k \in Kinds : forwarded'[k] \in {forwarded[k], forwarded[k] + 1}]_vars

\* Every report a stream has read is forwarded, also when the stream breaks or
\* the device is deleted behind it.
EveryReadReportForwarded ==
  \A k \in Kinds : \A i \in 1 .. MaxReports :
    produced[k] >= i ~> forwarded[k] >= i

\* Every broken stream of a configured device is followed by a new attempt.
EveryErrorRetried ==
  \A k \in Kinds : HasErr(k) ~> \E c \in Conns : stream[k][c] = "root"

\* The streams of a deleted device stop for good if the device stays reachable.
DeletedDeviceStops ==
  DeviceReachable => \A k \in Kinds : cancelled ~> [](Live(k) = {})

=============================================================================
