----------------------------- MODULE ConfigBus -----------------------------
(***************************************************************************)
(* Settings of the pumps: the ConfigService each pump runs                 *)
(* (internal/config/config.go), and the HTTP handlers of configui          *)
(* (cmd/configui/configui.go), which share one ConfigClient.               *)
(*                                                                         *)
(* The client's two fields say which pump a command goes to and where its  *)
(* response is read; every handler overwrites them.  A response carries    *)
(* neither a correlation ID nor the property it is about.  A value is      *)
(* named by the handler that sets it and the setting it is meant for.      *)
(***************************************************************************)
EXTENDS Naturals, Sequences

CONSTANTS
  Handlers,    \* HTTP requests, each served by a goroutine of its own
  Props,       \* the settings looked at, a subset of the code's
  Unset,       \* the value of a setting no handler has set: its default, or the environment's
  MaxCrashes,  \* bound on the restarts of pumps
  MaxBusErrors \* bound on the sends and subscriptions that fail

KafkaProps == {"kafkaBroker", "kafkaTopic", "kafkaAlertTopic", "kafkaPartition",
               "kafkaSkipVerify", "kafkaCACert", "kafkaClientCert", "kafkaClientKey"}
OtelProps == {"otelCollector", "otelSkipVerify", "otelCACert", "otelClientCert",
              "otelClientKey"}
SplunkProps == {"splunkURL", "splunkKey", "splunkIndex"}

ASSUME ConfigBusConstants ==
  /\ Props \subseteq KafkaProps \cup OtelProps \cup SplunkProps
  /\ Unset \notin [by : Handlers, prop : Props]
  /\ MaxCrashes \in Nat /\ MaxBusErrors \in Nat

Pumps == {"kafkapump", "otelpump", "splunkpump"}

\* configItems of the three pumps.
Entries(p) == Props \cap (CASE p = "kafkapump" -> KafkaProps
                            [] p = "otelpump" -> OtelProps
                            [] p = "splunkpump" -> SplunkProps)

Kinds == {"getKafkaBrokerConfig", "getSplunkHttpConfig", "kafkaConfig", "otelConfig",
          "configHEC", "reset"}

PumpOf(k) == CASE k \in {"getKafkaBrokerConfig", "kafkaConfig", "reset"} -> "kafkapump"
               [] k = "otelConfig" -> "otelpump"
               [] k \in {"getSplunkHttpConfig", "configHEC"} -> "splunkpump"

\* An operation on a setting, left out if it is not one of those in use.
Op(op, q, used) == IF q \in used \cap Props THEN <<[op |-> op, prop |-> q]>> ELSE <<>>

\* The operations of a handler in its order: on the settings used of each pump.
\* No handler gets or sets kafkaPartition.
KafkaOps(op, used) ==
  Op(op, "kafkaBroker", used) \o Op(op, "kafkaTopic", used) \o Op(op, "kafkaAlertTopic", used)
    \o Op(op, "kafkaSkipVerify", used) \o Op(op, "kafkaCACert", used)
    \o Op(op, "kafkaClientCert", used) \o Op(op, "kafkaClientKey", used)

OtelOps(op, used) ==
  Op(op, "otelCollector", used) \o Op(op, "otelSkipVerify", used) \o Op(op, "otelCACert", used)
    \o Op(op, "otelClientCert", used) \o Op(op, "otelClientKey", used)

SplunkOps(op) ==
  Op(op, "splunkURL", Props) \o Op(op, "splunkKey", Props) \o Op(op, "splunkIndex", Props)

\* What each handler does: a set of possible sequences of operations.  The key is
\* not asked for.
getKafkaBrokerConfig ==
  {Op("get", "kafkaBroker", Props) \o Op("get", "kafkaTopic", Props)
     \o Op("get", "kafkaAlertTopic", Props) \o Op("get", "kafkaCACert", Props)
     \o Op("get", "kafkaSkipVerify", Props) \o Op("get", "kafkaClientCert", Props)}

getSplunkHttpConfig == {SplunkOps("get")}

\* The fields of the form that are not empty, and always the alert topic.  A form
\* that does not bind is used all the same, as far as it was filled in.
kafkaConfig ==
  {KafkaOps("set", form \cup {"kafkaAlertTopic"}) : form \in SUBSET Entries("kafkapump")}

otelConfig == {OtelOps("set", form) : form \in SUBSET Entries("otelpump")}

\* The HEC settings sent to dbdiscauth at the end are not looked at.
configHEC == {SplunkOps("set")}

\* A user of the client's other two calls, which no handler of configui makes.
resetAll == {KafkaOps("reset", Props) \o Op("getprops", "kafkaBroker", Props)}

Plans(k) ==
  CASE k = "getKafkaBrokerConfig" -> getKafkaBrokerConfig
    [] k = "getSplunkHttpConfig"  -> getSplunkHttpConfig
    [] k = "kafkaConfig"          -> kafkaConfig
    [] k = "otelConfig"           -> otelConfig
    [] k = "configHEC"            -> configHEC
    [] k = "reset"                -> resetAll

VARIABLES
  commandQueue,   \* ConfigClient.CommandQueue, as the pump that reads it
  responseQueue,  \* ConfigClient.ResponseQueue, likewise
  pc,             \* [Handlers -> where the handler is]
  kind,           \* [Handlers -> the request]
  plan,           \* [Handlers -> the operations it has not done yet]
  replyTo,        \* [Handlers -> the response queue put in the command]
  readFrom,       \* [Handlers -> the response queue subscribed by ReadOneMessage]
  page,           \* [Handlers -> [Props -> what a get handler shows]]
  commands,       \* [Pumps -> queue of commands]
  responses,      \* [Pumps -> queue of responses]
  store,          \* [Pumps -> [Props -> value in its configStrings]]
  crashes,        \* counter of the bound
  busErrors,      \* likewise
  overlap,        \* history: two handlers have been active at once
  unread,         \* history: a call has failed whose response may still come
  foreign         \* history: handlers that took a response to another command

fields == <<commandQueue, responseQueue>>
handlerVars == <<pc, kind, plan, replyTo, readFrom, page>>
queues == <<commands, responses>>
bounds == <<crashes, busErrors>>
history == <<overlap, unread, foreign>>
vars == <<fields, handlerVars, queues, store, bounds, history>>

Init ==
  /\ commandQueue = "splunkpump" /\ responseQueue = "splunkpump"
  /\ pc = [h \in Handlers |-> "new"]
  /\ kind = [h \in Handlers |-> "reset"]
  /\ plan = [h \in Handlers |-> <<>>]
  /\ replyTo = [h \in Handlers |-> "splunkpump"]
  /\ readFrom = [h \in Handlers |-> "splunkpump"]
  /\ page = [h \in Handlers |-> [p \in Props |-> Unset]]
  /\ commands = [p \in Pumps |-> <<>>] /\ responses = [p \in Pumps |-> <<>>]
  /\ store = [p \in Pumps |-> [q \in Props |-> Unset]]
  /\ crashes = 0 /\ busErrors = 0 /\ overlap = FALSE /\ unread = FALSE /\ foreign = {}

Goto(h, l) == pc' = [pc EXCEPT ![h] = l]
Ended == {"new", "done", "panicked"}
Active(h) == pc[h] \notin Ended

\* A send or a subscription the bus refuses.
BusError == busErrors < MaxBusErrors /\ busErrors' = busErrors + 1

-----------------------------------------------------------------------------
\* configui

Begin(h, k) ==
  /\ pc[h] = "new"
  /\ \E ops \in Plans(k) : plan' = [plan EXCEPT ![h] = ops]
  /\ kind' = [kind EXCEPT ![h] = k]
  /\ overlap' = (overlap \/ \E g \in Handlers : Active(g))
  /\ Goto(h, "setCommandQueue")
  /\ UNCHANGED <<fields, replyTo, readFrom, page, queues, store, bounds, unread, foreign>>

\* configHEC does nothing with a form that does not bind.
RejectForm(h) ==
  /\ pc[h] = "new"
  /\ Goto(h, "done")
  /\ UNCHANGED <<fields, kind, plan, replyTo, readFrom, page, queues, store, bounds, history>>

SetCommandQueue(h) ==
  /\ pc[h] = "setCommandQueue"
  /\ commandQueue' = PumpOf(kind[h])
  /\ Goto(h, "setResponseQueue")
  /\ UNCHANGED <<responseQueue, kind, plan, replyTo, readFrom, page, queues, store,
                 bounds, history>>

SetResponseQueue(h) ==
  /\ pc[h] = "setResponseQueue"
  /\ responseQueue' = PumpOf(kind[h])
  /\ Goto(h, "build")
  /\ UNCHANGED <<commandQueue, kind, plan, replyTo, readFrom, page, queues, store,
                 bounds, history>>

\* Mutation: a handler goes on after its last operation.
BuildCommandAlways(h) ==
  /\ pc[h] = "build"
  /\ replyTo' = [replyTo EXCEPT ![h] = responseQueue]
  /\ Goto(h, "send")
  /\ UNCHANGED <<fields, kind, plan, readFrom, page, queues, store, bounds, history>>

\* Get, Set, Reset and GetProperties: the command takes the response queue, ...
BuildCommand(h) ==
  /\ pc[h] = "build" /\ plan[h] # <<>>
  /\ replyTo' = [replyTo EXCEPT ![h] = responseQueue]
  /\ Goto(h, "send")
  /\ UNCHANGED <<fields, kind, plan, readFrom, page, queues, store, bounds, history>>

CommandOf(h) ==
  LET o == Head(plan[h]) IN
  [op |-> o.op, prop |-> o.prop, by |-> h, replyTo |-> replyTo[h],
   value |-> IF o.op = "set" THEN [by |-> h, prop |-> o.prop] ELSE Unset]

Sent(c) == commands' = [commands EXCEPT ![commandQueue] = Append(@, c)]

\* ... SendCommand the command queue, ...
SendCommand(h) ==
  /\ pc[h] = "send"
  /\ Sent(CommandOf(h))
  /\ Goto(h, "subscribe")
  /\ UNCHANGED <<fields, kind, plan, replyTo, readFrom, page, responses, store,
                 bounds, history>>

\* After a call the handler goes on with the next, whatever came of it; but
\* getSplunkHttpConfig uses the response of a failed Get: nil.
AfterCall(h, failed) ==
  /\ plan' = [plan EXCEPT ![h] = Tail(@)]
  /\ Goto(h, IF failed /\ kind[h] = "getSplunkHttpConfig" THEN "panicked" ELSE "build")

\* A send that fails ends the call; the command may have left all the same.
SendFails(h) ==
  /\ pc[h] = "send" /\ BusError
  /\ \/ Sent(CommandOf(h)) /\ unread' = TRUE
     \/ UNCHANGED <<commands, unread>>
  /\ AfterCall(h, TRUE)
  /\ UNCHANGED <<fields, kind, replyTo, readFrom, page, responses, store, crashes, overlap,
                 foreign>>

\* Mutation: the response to a set is not waited for.
SubscribeUnlessSet(h) ==
  /\ pc[h] = "subscribe"
  /\ readFrom' = [readFrom EXCEPT ![h] = responseQueue]
  /\ LET set == Head(plan[h]).op = "set" IN
       /\ Goto(h, IF set THEN "build" ELSE "wait")
       /\ plan' = IF set THEN [plan EXCEPT ![h] = Tail(@)] ELSE plan
  /\ UNCHANGED <<fields, kind, replyTo, page, queues, store, bounds, history>>

\* ... and ReadOneMessage the response queue again.
Subscribe(h) ==
  /\ pc[h] = "subscribe"
  /\ readFrom' = [readFrom EXCEPT ![h] = responseQueue]
  /\ Goto(h, "wait")
  /\ UNCHANGED <<fields, kind, plan, replyTo, page, queues, store, bounds, history>>

\* Without a subscription ReadOneMessage has the empty message, which does not
\* unmarshal: the call fails with its command sent.
SubscribeFails(h) ==
  /\ pc[h] = "subscribe" /\ BusError
  /\ unread' = TRUE
  /\ AfterCall(h, TRUE)
  /\ UNCHANGED <<fields, kind, replyTo, readFrom, page, queues, store, crashes, overlap,
                 foreign>>

\* A list of properties is no Response, a Response no list, and the error of a
\* Response does not unmarshal: each is an error of the call.
Usable(r, o) == r.error = FALSE /\ (r.op = "getprops" <=> o.op = "getprops")

\* The first message ends the wait; what the broker has already pushed to the
\* subscription behind it is lost when the subscription is closed.
ReadOneMessage(h) ==
  /\ pc[h] = "wait"
  /\ responses[readFrom[h]] # <<>>
  /\ LET q == readFrom[h]  r == Head(responses[q])  o == Head(plan[h]) IN
       /\ \E n \in 2..(Len(responses[q]) + 1) :
            responses' = [responses EXCEPT ![q] = SubSeq(@, n, Len(@))]
       /\ foreign' = IF r.by = h /\ r.op = o.op /\ r.prop = o.prop
                     THEN foreign ELSE foreign \cup {h}
       /\ page' = IF Usable(r, o) /\ o.op = "get"
                  THEN [page EXCEPT ![h][o.prop] = r.value] ELSE page
       /\ AfterCall(h, ~Usable(r, o))
  /\ UNCHANGED <<fields, kind, replyTo, readFrom, commands, store, bounds, overlap, unread>>

Respond(h) ==
  /\ pc[h] = "build" /\ plan[h] = <<>>
  /\ Goto(h, "done")
  /\ UNCHANGED <<fields, kind, plan, replyTo, readFrom, page, queues, store, bounds, history>>

-----------------------------------------------------------------------------
\* The pumps

\* Mutation: the property is not looked up in the pump's own entries.
KnownAnywhere(p, c) == c.op = "getprops" \/ c.prop \in Props

\* Entries has no such property: an error.
Known(p, c) == c.op = "getprops" \/ c.prop \in Entries(p)

Applied(p, c) ==
  IF ~Known(p, c) \/ c.op \in {"get", "getprops"} THEN store[p]
  ELSE [store[p] EXCEPT ![c.prop] = c.value]

\* by and prop of a response are history: the code sends neither.
ResponseTo(p, c) == [op |-> c.op, prop |-> c.prop, by |-> c.by, error |-> ~Known(p, c),
                     value |-> store'[p][c.prop]]

\* The next command of a pump, done.
Done(p) ==
  /\ commands[p] # <<>>
  /\ store' = [store EXCEPT ![p] = Applied(p, Head(commands[p]))]
  /\ commands' = [commands EXCEPT ![p] = Tail(@)]

\* Mutation: only a get has a response.
ServeKnown(p) ==
  /\ Done(p)
  /\ LET c == Head(commands[p]) IN
       responses' = IF c.op # "get" THEN responses
                    ELSE [responses EXCEPT ![c.replyTo] = Append(@, ResponseTo(p, c))]
  /\ UNCHANGED <<fields, handlerVars, bounds, history>>

\* Run: one command after the other, each with its response.
Serve(p) ==
  /\ Done(p)
  /\ LET c == Head(commands[p]) IN
       responses' = [responses EXCEPT ![c.replyTo] = Append(@, ResponseTo(p, c))]
  /\ UNCHANGED <<fields, handlerVars, bounds, history>>

\* A response that cannot be sent: the command is done, and logged.
ServeFails(p) ==
  /\ Done(p) /\ BusError
  /\ UNCHANGED <<fields, handlerVars, responses, crashes, history>>

\* A restarted pump has its settings from the environment again, and the
\* commands it had prefetched are lost.
CrashPump(p) ==
  /\ crashes < MaxCrashes /\ crashes' = crashes + 1
  /\ \E n \in 1..(Len(commands[p]) + 1) :
       commands' = [commands EXCEPT ![p] = SubSeq(@, n, Len(@))]
  /\ store' = [store EXCEPT ![p] = [q \in Props |-> Unset]]
  /\ UNCHANGED <<fields, handlerVars, responses, busErrors, history>>

Handle(h) ==
  \/ SetCommandQueue(h) \/ SetResponseQueue(h) \/ BuildCommand(h) \/ SendCommand(h)
  \/ Subscribe(h) \/ ReadOneMessage(h) \/ Respond(h)

Next ==
  \/ \E h \in Handlers : \/ Handle(h) \/ SendFails(h) \/ SubscribeFails(h)
                         \/ RejectForm(h) \/ \E k \in Kinds : Begin(h, k)
  \/ \E p \in Pumps : Serve(p) \/ ServeFails(p) \/ CrashPump(p)

\* Goroutines that can proceed do; nobody need send a request.
Spec ==
  /\ Init /\ [][Next]_vars
  /\ \A h \in Handlers : WF_vars(Handle(h))
  /\ \A p \in Pumps : WF_vars(Serve(p))

-----------------------------------------------------------------------------
Values == [by : Handlers, prop : Props] \cup {Unset}
Operations == [op : {"get", "set", "reset", "getprops"}, prop : Props]
Commands == [op : {"get", "set", "reset", "getprops"}, prop : Props, by : Handlers,
             replyTo : Pumps, value : Values]
Responses == [op : {"get", "set", "reset", "getprops"}, prop : Props, by : Handlers,
              error : BOOLEAN, value : Values]

TypeOK ==
  /\ commandQueue \in Pumps /\ responseQueue \in Pumps
  /\ pc \in [Handlers -> Ended \cup {"setCommandQueue", "setResponseQueue", "build",
                                     "send", "subscribe", "wait"}]
  /\ kind \in [Handlers -> Kinds]
  /\ plan \in [Handlers -> Seq(Operations)]
  /\ \A h \in Handlers : pc[h] \in {"send", "subscribe", "wait"} => plan[h] # <<>>
  /\ replyTo \in [Handlers -> Pumps] /\ readFrom \in [Handlers -> Pumps]
  /\ page \in [Handlers -> [Props -> Values]]
  /\ commands \in [Pumps -> Seq(Commands)]
  /\ responses \in [Pumps -> Seq(Responses)]
  /\ store \in [Pumps -> [Props -> Values]]
  /\ crashes \in 0..MaxCrashes /\ busErrors \in 0..MaxBusErrors
  /\ overlap \in BOOLEAN /\ unread \in BOOLEAN /\ foreign \subseteq Handlers

\* As long as handlers have come one at a time, and no call has failed with its
\* response still to come, each has read the responses to its own commands: without
\* correlation IDs that needs every command to have been answered, and every answer
\* read, before the next handler begins.
OwnAnswersWhenAlone == overlap \/ unread \/ foreign = {}

\* However handlers overlap, whichever queue a command ends up in and whatever the
\* bus refuses, a pump's setting only ever holds the value some handler of that pump
\* put in for that very setting: a command that reaches the wrong pump is refused
\* there.
OnlyIntendedValues ==
  \A p \in Pumps, q \in Props :
    LET v == store[p][q] IN
    v # Unset => /\ v.prop = q /\ q \in Entries(p)
                 /\ kind[v.by] \in {"kafkaConfig", "otelConfig", "configHEC"}
                 /\ PumpOf(kind[v.by]) = p

\* A handler that is alone ends, if no pump restarts and the bus refuses nothing:
\* each operation is answered.
LoneHandlerEnds ==
  \A h \in Handlers : Active(h) ~> (~Active(h) \/ overlap \/ crashes > 0 \/ busErrors > 0)

=============================================================================
