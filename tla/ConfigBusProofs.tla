-------------------------- MODULE ConfigBusProofs --------------------------
(***************************************************************************)
(* Proofs about the configuration bus, for any handlers, settings in use   *)
(* and restarts: type correctness, that a setting only ever holds what a   *)
(* handler meant for it, and that handlers that come one at a time read    *)
(* the responses to their own commands.                                    *)
(***************************************************************************)
EXTENDS ConfigBus, SequenceTheorems, TLAPS

SetKinds == {"kafkaConfig", "otelConfig", "configHEC"}

\* An operation a handler of kind k may have in its plan: it sets only settings of
\* its own pump.
Allowed(o, k) == o.op = "set" => k \in SetKinds /\ o.prop \in Entries(PumpOf(k))

\* Handlers that have begun, whose kind does not change any more, have only such
\* operations planned and sent, and what a pump holds comes from one of them.
PlansAllowed == \A h \in Handlers : \A i \in 1..Len(plan[h]) : Allowed(plan[h][i], kind[h])

Begun(h) == pc[h] # "new"

CommandAllowed(c) ==
  /\ Begun(c.by) /\ Allowed(c, kind[c.by])
  /\ c.value = IF c.op = "set" THEN [by |-> c.by, prop |-> c.prop] ELSE Unset

CommandsAllowed ==
  \A p \in Pumps : \A i \in 1..Len(commands[p]) : CommandAllowed(commands[p][i])

\* The value was put in for this setting of this pump.
MeantFor(p, q, v) ==
  /\ v.prop = q /\ q \in Entries(p)
  /\ Begun(v.by) /\ kind[v.by] \in SetKinds /\ PumpOf(kind[v.by]) = p

StoresIntended ==
  \A p \in Pumps, q \in Props : store[p][q] # Unset => MeantFor(p, q, store[p][q])

IntentInv == PlansAllowed /\ CommandsAllowed /\ StoresIntended

-----------------------------------------------------------------------------
\* The pumps have no setting in common.
LEMMA EntriesDisjoint ==
  ASSUME NEW p \in Pumps, NEW q \in Pumps, NEW s \in Entries(p), s \in Entries(q)
  PROVE  p = q
BY DEF Pumps, Entries, KafkaProps, OtelProps, SplunkProps

\* Concatenated plans are plans.
LEMMA ConcatPlans ==
  ASSUME NEW S, NEW s \in Seq(S), NEW t \in Seq(S)
  PROVE  s \o t \in Seq(S)
OBVIOUS

\* Every plan of a handler consists of operations its kind allows.
LEMMA PlanAllowed ==
  ASSUME NEW k \in Kinds, NEW ops \in Plans(k)
  PROVE  ops \in Seq({o \in Operations : Allowed(o, k)})
<1> DEFINE S == {o \in Operations : Allowed(o, k)}
<1> SUFFICES ops \in Seq(S)
  OBVIOUS
<1>1. ASSUME NEW op \in {"get", "set", "reset", "getprops"}, NEW s, NEW used,
             op = "set" => k \in SetKinds /\ (s \in Props => s \in Entries(PumpOf(k)))
      PROVE  Op(op, s, used) \in Seq(S)
  <2>1. CASE s \in used \cap Props
    <3>1. [op |-> op, prop |-> s] \in S
      BY <1>1, <2>1 DEF Operations, Allowed
    <3> QED
      BY <2>1, <3>1 DEF Op
  <2>2. CASE s \notin used \cap Props
    BY <2>2 DEF Op
  <2> QED
    BY <2>1, <2>2
<1>2. /\ k = "kafkaConfig" => \A s \in KafkaProps \cap Props : s \in Entries(PumpOf(k))
      /\ k = "otelConfig" => \A s \in OtelProps \cap Props : s \in Entries(PumpOf(k))
      /\ k = "configHEC" => \A s \in SplunkProps \cap Props : s \in Entries(PumpOf(k))
  BY DEF PumpOf, Entries
<1>3. ASSUME NEW op \in {"get", "set", "reset"}, NEW used, op = "set" => k = "kafkaConfig"
      PROVE  KafkaOps(op, used) \in Seq(S)
  <2>1. \A s \in KafkaProps : Op(op, s, used) \in Seq(S)
    BY <1>1, <1>2, <1>3 DEF SetKinds
  <2> HIDE DEF S
  <2> QED
    BY <2>1, ConcatPlans DEF KafkaOps, KafkaProps
<1>4. ASSUME NEW used, k = "otelConfig"
      PROVE  OtelOps("set", used) \in Seq(S)
  <2>1. \A s \in OtelProps : Op("set", s, used) \in Seq(S)
    BY <1>1, <1>2, <1>4 DEF SetKinds
  <2> HIDE DEF S
  <2> QED
    BY <2>1, ConcatPlans DEF OtelOps, OtelProps
<1>5. ASSUME NEW op \in {"get", "set"}, op = "set" => k = "configHEC"
      PROVE  SplunkOps(op) \in Seq(S)
  <2>1. \A s \in SplunkProps : Op(op, s, Props) \in Seq(S)
    BY <1>1, <1>2, <1>5 DEF SetKinds
  <2> HIDE DEF S
  <2> QED
    BY <2>1, ConcatPlans DEF SplunkOps, SplunkProps
<1>6. \A op \in {"get", "getprops"} : \A s : Op(op, s, Props) \in Seq(S)
  BY <1>1
<1> HIDE DEF S
<1>7. CASE k = "getKafkaBrokerConfig"
  BY <1>6, <1>7, ConcatPlans DEF Plans, getKafkaBrokerConfig
<1>8. CASE k \in {"getSplunkHttpConfig", "configHEC"}
  BY <1>5, <1>8 DEF Plans, getSplunkHttpConfig, configHEC
<1>9. CASE k = "kafkaConfig"
  BY <1>3, <1>9 DEF Plans, kafkaConfig
<1>10. CASE k = "otelConfig"
  BY <1>4, <1>10 DEF Plans, otelConfig
<1>11. CASE k = "reset"
  <2>1. KafkaOps("reset", Props) \in Seq(S)
    BY <1>3
  <2> QED
    BY <1>6, <1>11, <2>1, ConcatPlans DEF Plans, resetAll
<1> QED
  BY <1>7, <1>8, <1>9, <1>10, <1>11 DEF Kinds

\* What is left of a queue when a prefix is gone is part of it.
LEMMA DroppedPrefix ==
  ASSUME NEW S, NEW s \in Seq(S), NEW n \in 1..(Len(s) + 1)
  PROVE  /\ SubSeq(s, n, Len(s)) \in Seq(S)
         /\ Len(SubSeq(s, n, Len(s))) = Len(s) - n + 1
         /\ \A i \in 1..(Len(s) - n + 1) : SubSeq(s, n, Len(s))[i] = s[n + i - 1]
<1>1. n \in Int /\ Len(s) \in Int /\ \A i \in n..Len(s) : s[i] \in S
  OBVIOUS
<1>2. /\ SubSeq(s, n, Len(s)) \in Seq(S)
      /\ Len(SubSeq(s, n, Len(s))) = IF n <= Len(s) THEN Len(s) - n + 1 ELSE 0
      /\ \A i \in 1..(Len(s) - n + 1) : SubSeq(s, n, Len(s))[i] = s[n + i - 1]
  BY <1>1, SubSeqProperties
<1> QED
  BY <1>1, <1>2

-----------------------------------------------------------------------------
\* What is sent is a command, and the queues stay queues of commands.
LEMMA SentTypes ==
  ASSUME TypeOK, NEW h \in Handlers, pc[h] \in {"send", "subscribe"}
  PROVE  /\ plan[h] # <<>> /\ CommandOf(h) \in Commands
         /\ Sent(CommandOf(h)) \/ UNCHANGED commands => commands' \in [Pumps -> Seq(Commands)]
<1>1. plan[h] # <<>> /\ plan[h] \in Seq(Operations)
  BY DEF TypeOK
<1>2. Head(plan[h]) \in Operations
  BY <1>1
<1>3. [by |-> h, prop |-> Head(plan[h]).prop] \in Values /\ Unset \in Values
  BY <1>2 DEF Operations, Values
<1>4. CommandOf(h) \in Commands
  BY <1>2, <1>3 DEF Commands, Operations, CommandOf, TypeOK
<1>5. ASSUME Sent(CommandOf(h)) PROVE commands' \in [Pumps -> Seq(Commands)]
  BY <1>4, <1>5 DEF Sent, TypeOK
<1> QED
  BY <1>1, <1>4, <1>5 DEF TypeOK

\* A command done leaves settings and queues of their types, and its response is one.
LEMMA DoneTypes ==
  ASSUME TypeOK, NEW p \in Pumps, Done(p)
  PROVE  /\ Head(commands[p]) \in Commands /\ ResponseTo(p, Head(commands[p])) \in Responses
         /\ store' \in [Pumps -> [Props -> Values]] /\ commands' \in [Pumps -> Seq(Commands)]
<1> DEFINE c == Head(commands[p])
<1>1. commands[p] # <<>> /\ commands[p] \in Seq(Commands)
  BY DEF Done, TypeOK
<1>2. c \in Commands /\ Tail(commands[p]) \in Seq(Commands)
  BY <1>1
<1>3. c.prop \in Props /\ c.value \in Values
  BY <1>2 DEF Commands
<1>4. Applied(p, c) \in [Props -> Values]
  BY <1>3 DEF Applied, TypeOK
<1>5. store' \in [Pumps -> [Props -> Values]] /\ commands' \in [Pumps -> Seq(Commands)]
  BY <1>2, <1>4 DEF Done, TypeOK
<1>6. ResponseTo(p, c) \in Responses
  <2>1. store'[p][c.prop] \in Values
    BY <1>3, <1>5
  <2>2. (~Known(p, c)) \in BOOLEAN
    OBVIOUS
  <2> QED
    BY <1>2, <2>1, <2>2 DEF Responses, Commands, ResponseTo
<1> QED
  BY <1>2, <1>5, <1>6

\* Every step keeps the types.
LEMMA TypeStep ==
  ASSUME TypeOK, [Next]_vars
  PROVE  TypeOK'
<1> USE DEF TypeOK, Goto, Ended
<1>1. ASSUME NEW h \in Handlers, NEW k \in Kinds, Begin(h, k)
      PROVE  TypeOK'
  <2>1. PICK ops \in Plans(k) : plan' = [plan EXCEPT ![h] = ops]
    BY <1>1 DEF Begin
  <2>2. ops \in Seq(Operations)
    <3>1. ops \in Seq({o \in Operations : Allowed(o, k)})
      BY <1>1, PlanAllowed
    <3> QED
      BY <3>1, SeqMonotonic, {o \in Operations : Allowed(o, k)} \subseteq Operations
  <2>3. plan' \in [Handlers -> Seq(Operations)]
    BY <2>1, <2>2
  <2>4. overlap' \in BOOLEAN
    BY <1>1 DEF Begin
  <2>5. UNCHANGED <<fields, replyTo, readFrom, page, queues, store, bounds, unread, foreign>>
    BY <1>1 DEF Begin
  <2>6. /\ kind' = [kind EXCEPT ![h] = k] /\ pc' = [pc EXCEPT ![h] = "setCommandQueue"]
        /\ \A g \in Handlers : g # h => plan'[g] = plan[g]
    BY <1>1, <2>1 DEF Begin
  <2> QED
    BY <1>1, <2>3, <2>4, <2>5, <2>6 DEF fields, queues, bounds
<1>2. ASSUME NEW h \in Handlers, SetCommandQueue(h) \/ SetResponseQueue(h)
      PROVE  TypeOK'
  <2>1. PumpOf(kind[h]) \in Pumps
    BY <1>2 DEF PumpOf, Kinds, Pumps
  <2>2. UNCHANGED <<kind, plan, replyTo, readFrom, page, queues, store, bounds, history>>
    BY <1>2 DEF SetCommandQueue, SetResponseQueue
  <2>3. /\ commandQueue' \in {commandQueue, PumpOf(kind[h])}
        /\ responseQueue' \in {responseQueue, PumpOf(kind[h])}
        /\ pc' \in {[pc EXCEPT ![h] = "setResponseQueue"], [pc EXCEPT ![h] = "build"]}
    BY <1>2 DEF SetCommandQueue, SetResponseQueue
  <2> QED
    BY <2>1, <2>2, <2>3 DEF queues, bounds, history
<1>3. ASSUME NEW h \in Handlers, BuildCommand(h) \/ Subscribe(h) \/ Respond(h)
      PROVE  TypeOK'
  <2>1. UNCHANGED <<fields, kind, plan, page, queues, store, bounds, history>>
    BY <1>3 DEF BuildCommand, Subscribe, Respond
  <2>2. /\ replyTo' \in {replyTo, [replyTo EXCEPT ![h] = responseQueue]}
        /\ readFrom' \in {readFrom, [readFrom EXCEPT ![h] = responseQueue]}
    BY <1>3 DEF BuildCommand, Subscribe, Respond
  <2>3. \E l \in {"send", "wait", "done"} :
          /\ pc' = [pc EXCEPT ![h] = l]
          /\ l \in {"send", "wait"} => plan[h] # <<>>
    BY <1>3 DEF BuildCommand, Subscribe, Respond
  <2>4. replyTo' \in [Handlers -> Pumps] /\ readFrom' \in [Handlers -> Pumps]
    <3>1. /\ responseQueue \in Pumps
          /\ replyTo \in [Handlers -> Pumps] /\ readFrom \in [Handlers -> Pumps]
      OBVIOUS
    <3> QED
      BY ONLY <2>2, <3>1
  <2> QED
    BY <2>1, <2>3, <2>4 DEF fields, queues, bounds, history
<1>4. ASSUME NEW h \in Handlers, SendCommand(h)
      PROVE  TypeOK'
  <2>1. commands' \in [Pumps -> Seq(Commands)] /\ plan[h] # <<>>
    BY <1>4, SentTypes DEF SendCommand
  <2>2. /\ UNCHANGED <<fields, kind, plan, replyTo, readFrom, page, responses, store,
                       bounds, history>>
        /\ pc' = [pc EXCEPT ![h] = "subscribe"]
    BY <1>4 DEF SendCommand
  <2> QED
    BY <2>1, <2>2 DEF fields, bounds, history
<1>5. ASSUME NEW h \in Handlers, ReadOneMessage(h)
      PROVE  TypeOK'
  <2> DEFINE q == readFrom[h]
             r == Head(responses[q])
             o == Head(plan[h])
  <2>1. /\ plan[h] # <<>> /\ plan[h] \in Seq(Operations)
        /\ responses[q] # <<>> /\ responses[q] \in Seq(Responses) /\ q \in Pumps
    BY <1>5 DEF ReadOneMessage
  <2>2. o \in Operations /\ r \in Responses /\ Tail(plan[h]) \in Seq(Operations)
    BY <2>1
  <2>3. PICK n \in 2..(Len(responses[q]) + 1) :
          responses' = [responses EXCEPT ![q] = SubSeq(@, n, Len(@))]
    BY <1>5 DEF ReadOneMessage
  <2>4. responses' \in [Pumps -> Seq(Responses)]
    <3>1. SubSeq(responses[q], n, Len(responses[q])) \in Seq(Responses)
      BY <2>1, DroppedPrefix
    <3> QED
      BY <2>1, <2>3, <3>1
  <2>5. /\ plan' = [plan EXCEPT ![h] = Tail(@)]
        /\ page' = page \/ page' = [page EXCEPT ![h][o.prop] = r.value]
        /\ foreign' = foreign \/ foreign' = foreign \cup {h}
        /\ \E l \in {"panicked", "build"} : pc' = [pc EXCEPT ![h] = l]
        /\ UNCHANGED <<fields, kind, replyTo, readFrom, commands, store, bounds, overlap, unread>>
    BY <1>5 DEF ReadOneMessage, AfterCall
  <2>6. page' \in [Handlers -> [Props -> Values]]
    <3>1. o.prop \in Props /\ r.value \in Values
      BY <2>2 DEF Operations, Responses
    <3> HIDE DEF o, r
    <3>2. [page[h] EXCEPT ![o.prop] = r.value] \in [Props -> Values]
      BY <1>5, <3>1
    <3>3. CASE page' = [page EXCEPT ![h][o.prop] = r.value]
      BY <1>5, <3>2, <3>3
    <3> QED
      BY <2>5, <3>3
  <2>7. plan' \in [Handlers -> Seq(Operations)]
    BY <2>2, <2>5
  <2>8. foreign' \subseteq Handlers
    BY <1>5, <2>5
  <2> HIDE DEF o, r, q
  <2>9. \A g \in Handlers : pc'[g] \in {"send", "subscribe", "wait"} => plan'[g] # <<>>
    BY <2>5
  <2> QED
    BY <2>4, <2>5, <2>6, <2>7, <2>8, <2>9 DEF fields, bounds
<1>6. ASSUME NEW p \in Pumps, Serve(p)
      PROVE  TypeOK'
  <2> DEFINE c == Head(commands[p])
             r == ResponseTo(p, c)
  <2>1. /\ c \in Commands /\ r \in Responses
        /\ store' \in [Pumps -> [Props -> Values]] /\ commands' \in [Pumps -> Seq(Commands)]
    BY <1>6, DoneTypes DEF Serve
  <2>2. /\ responses' = [responses EXCEPT ![c.replyTo] = Append(@, r)]
        /\ UNCHANGED <<fields, handlerVars, bounds, history>>
    BY <1>6 DEF Serve
  <2>3. c.replyTo \in Pumps
    BY <2>1 DEF Commands
  <2> HIDE DEF r, c
  <2>4. responses' \in [Pumps -> Seq(Responses)]
    BY <2>1, <2>2, <2>3
  <2> QED
    BY <2>1, <2>2, <2>4 DEF fields, handlerVars, bounds, history
<1>7. ASSUME NEW p \in Pumps, CrashPump(p)
      PROVE  TypeOK'
  <2>1. PICK n \in 1..(Len(commands[p]) + 1) :
          commands' = [commands EXCEPT ![p] = SubSeq(@, n, Len(@))]
    BY <1>7 DEF CrashPump
  <2>2. SubSeq(commands[p], n, Len(commands[p])) \in Seq(Commands)
    BY <1>7, DroppedPrefix
  <2>3. commands' \in [Pumps -> Seq(Commands)]
    BY <1>7, <2>1, <2>2
  <2>4. crashes' \in 0..MaxCrashes
    BY <1>7, ConfigBusConstants DEF CrashPump
  <2>5. store' \in [Pumps -> [Props -> Values]]
    BY <1>7 DEF CrashPump, Values
  <2>6. UNCHANGED <<fields, handlerVars, responses, busErrors, history>>
    BY <1>7 DEF CrashPump
  <2> QED
    BY <2>3, <2>4, <2>5, <2>6 DEF fields, handlerVars, history
<1>8. ASSUME NEW h \in Handlers, SendFails(h) \/ SubscribeFails(h)
      PROVE  TypeOK'
  <2>1. commands' \in [Pumps -> Seq(Commands)] /\ plan[h] # <<>>
    BY <1>8, SentTypes DEF SendFails, SubscribeFails, queues
  <2>2. plan' \in [Handlers -> Seq(Operations)] /\ \A g \in Handlers : g # h => plan'[g] = plan[g]
    <3>1. Tail(plan[h]) \in Seq(Operations) /\ plan' = [plan EXCEPT ![h] = Tail(@)]
      <4>1. plan[h] \in Seq(Operations)
        BY <1>8
      <4>2. Tail(plan[h]) \in Seq(Operations)
        BY ONLY <2>1, <4>1
      <4>3. plan' = [plan EXCEPT ![h] = Tail(@)]
        BY <1>8 DEF SendFails, SubscribeFails, AfterCall
      <4> QED
        BY ONLY <4>2, <4>3
    <3> QED
      BY <3>1
  <2>3. \E l \in {"panicked", "build"} : pc' = [pc EXCEPT ![h] = l]
    BY <1>8 DEF SendFails, SubscribeFails, AfterCall
  <2>4. busErrors' \in 0..MaxBusErrors /\ unread' \in BOOLEAN
    <3>1. busErrors' \in 0..MaxBusErrors
      <4>1. busErrors \in 0..MaxBusErrors /\ MaxBusErrors \in Nat
        BY ConfigBusConstants
      <4>2. busErrors < MaxBusErrors /\ busErrors' = busErrors + 1
        BY <1>8 DEF SendFails, SubscribeFails, BusError
      <4> QED
        BY ONLY <4>1, <4>2
    <3>2. unread' = TRUE \/ unread' = unread
      BY <1>8 DEF SendFails, SubscribeFails
    <3> QED
      BY <3>1, <3>2
  <2>5. UNCHANGED <<fields, kind, replyTo, readFrom, page, responses, store, crashes, overlap, foreign>>
    BY <1>8 DEF SendFails, SubscribeFails, queues
  <2> QED
    BY <2>1, <2>2, <2>3, <2>4, <2>5 DEF fields
<1>9. ASSUME NEW h \in Handlers, RejectForm(h)
      PROVE  TypeOK'
  <2>1. /\ pc' = [pc EXCEPT ![h] = "done"]
        /\ UNCHANGED <<fields, kind, plan, replyTo, readFrom, page, queues, store, bounds, history>>
    BY <1>9 DEF RejectForm
  <2> QED
    BY <2>1 DEF fields, queues, bounds, history
<1>10. ASSUME NEW p \in Pumps, ServeFails(p)
       PROVE  TypeOK'
  <2>1. store' \in [Pumps -> [Props -> Values]] /\ commands' \in [Pumps -> Seq(Commands)]
    BY <1>10, DoneTypes DEF ServeFails
  <2>2. busErrors' \in 0..MaxBusErrors
    BY <1>10, ConfigBusConstants DEF ServeFails, BusError
  <2>3. UNCHANGED <<fields, handlerVars, responses, crashes, history>>
    BY <1>10 DEF ServeFails
  <2> QED
    BY <2>1, <2>2, <2>3 DEF fields, handlerVars, history
<1>11. CASE UNCHANGED vars
  BY <1>11 DEF vars, fields, handlerVars, queues, bounds, history
<1> QED
  BY <1>1, <1>2, <1>3, <1>4, <1>5, <1>6, <1>7, <1>8, <1>9, <1>10, <1>11 DEF Next, Handle

\* Every variable keeps its type, and a handler that has a response to wait for has
\* the operation it is for still in its plan.
THEOREM TypeCorrect == Spec => []TypeOK
<1>1. Init => TypeOK
  <2>1. 0 \in 0..MaxCrashes /\ 0 \in 0..MaxBusErrors
    BY ConfigBusConstants
  <2>2. Init => /\ commands \in [Pumps -> Seq(Commands)] /\ responses \in [Pumps -> Seq(Responses)]
                /\ plan \in [Handlers -> Seq(Operations)]
    BY DEF Init
  <2>3. Init => /\ page \in [Handlers -> [Props -> Values]] /\ store \in [Pumps -> [Props -> Values]]
    BY DEF Init, Values
  <2>4. Init => /\ commandQueue \in Pumps /\ responseQueue \in Pumps /\ kind \in [Handlers -> Kinds]
                /\ replyTo \in [Handlers -> Pumps] /\ readFrom \in [Handlers -> Pumps]
    BY DEF Init, Pumps, Kinds
  <2> QED
    BY <2>1, <2>2, <2>3, <2>4 DEF Init, TypeOK, Ended
<1> QED
  BY <1>1, TypeStep, PTL DEF Spec

-----------------------------------------------------------------------------
\* Taking a plan's head leaves only operations it had before.
LEMMA TailPart ==
  ASSUME NEW S, NEW s \in Seq(S), s # <<>>
  PROVE  /\ Tail(s) \in Seq(S) /\ Len(Tail(s)) = Len(s) - 1 /\ Head(s) = s[1] /\ 1 \in 1..Len(s)
         /\ \A i \in 1..(Len(s) - 1) : Tail(s)[i] = s[i + 1] /\ i + 1 \in 1..Len(s)
<1>1. Len(s) \in Nat /\ Len(s) > 0
  OBVIOUS
<1> QED
  BY <1>1

\* A command in a queue is some handler's.
LEMMA CommandInQueue ==
  ASSUME TypeOK, NEW p \in Pumps, NEW i \in 1..Len(commands[p])
  PROVE  commands[p][i] \in Commands /\ commands[p][i].by \in Handlers
<1>1. commands[p][i] \in Commands
  BY DEF TypeOK
<1> QED
  BY <1>1 DEF Commands

\* Handlers that have begun stay so, with their kind.
BegunKept == \A h \in Handlers : Begun(h) => Begun(h)' /\ kind'[h] = kind[h]

\* A step of a handler that has begun, or of none, is such a step.
LEMMA KeepBegun ==
  ASSUME TypeOK, kind' = kind,
         pc' = pc \/ \E h \in Handlers : \E l : l # "new" /\ pc' = [pc EXCEPT ![h] = l]
  PROVE  BegunKept
<1>1. \A h \in Handlers : pc'[h] = "new" => pc[h] = "new"
  BY DEF TypeOK
<1> QED
  BY <1>1 DEF BegunKept, Begun

\* Then a command stays allowed, and a value meant for its setting.
LEMMA KeepAllowed ==
  ASSUME BegunKept, NEW c, c.by \in Handlers, CommandAllowed(c)
  PROVE  CommandAllowed(c)'
BY DEF BegunKept, CommandAllowed, Allowed

LEMMA KeepMeant ==
  ASSUME BegunKept, NEW p, NEW q, NEW v, v.by \in Handlers, MeantFor(p, q, v)
  PROVE  MeantFor(p, q, v)'
BY DEF BegunKept, MeantFor

\* If every command was in its queue before, what is sent stays allowed.
LEMMA FewerCommands ==
  ASSUME TypeOK, IntentInv, BegunKept,
         \A q \in Pumps : \A i \in 1..Len(commands'[q]) :
           \E j \in 1..Len(commands[q]) : commands'[q][i] = commands[q][j]
  PROVE  CommandsAllowed'
<1> SUFFICES ASSUME NEW q \in Pumps, NEW i \in 1..Len(commands'[q])
             PROVE  CommandAllowed(commands[q][i])'
  BY DEF CommandsAllowed
<1>1. PICK j \in 1..Len(commands[q]) : commands'[q][i] = commands[q][j]
  OBVIOUS
<1>2. PICK d : d = commands[q][j]
  OBVIOUS
<1>3. CommandAllowed(d) /\ d.by \in Handlers
  BY <1>2, CommandInQueue DEF IntentInv, CommandsAllowed
<1>4. CommandAllowed(d)'
  BY <1>3, KeepAllowed
<1> QED
  BY <1>1, <1>2, <1>4 DEF CommandAllowed

\* A setting that is what it was, or set to a value meant for it, keeps the stores.
LEMMA MeantStores ==
  ASSUME TypeOK, IntentInv, BegunKept,
         \A p \in Pumps, q \in Props :
           \/ store'[p][q] \in {Unset, store[p][q]}
           \/ store'[p][q].by \in Handlers /\ MeantFor(p, q, store'[p][q])
  PROVE  StoresIntended'
<1> SUFFICES ASSUME NEW p \in Pumps, NEW q \in Props, store'[p][q] # Unset
             PROVE  MeantFor(p, q, store[p][q])'
  BY DEF StoresIntended
<1>1. PICK v : v = store'[p][q]
  OBVIOUS
<1>2. v.by \in Handlers /\ MeantFor(p, q, v)
  <2>1. CASE v = store[p][q]
    <3>1. store[p][q] \in [by : Handlers, prop : Props]
      BY <1>1, <2>1 DEF TypeOK, Values
    <3> QED
      BY <1>1, <2>1, <3>1 DEF IntentInv, StoresIntended
  <2> QED
    BY <1>1, <2>1
<1>3. MeantFor(p, q, v)'
  BY <1>2, KeepMeant
<1> QED
  BY <1>1, <1>3 DEF MeantFor

\* Steps that leave kinds and begun handlers alone keep what is planned, ...
LEMMA IntentFrame ==
  ASSUME TypeOK, IntentInv, BegunKept
  PROVE  /\ plan' = plan /\ kind' = kind => PlansAllowed'
         /\ commands' = commands => CommandsAllowed'
         /\ store' = store => StoresIntended'
<1>1. plan' = plan /\ kind' = kind => PlansAllowed'
  BY DEF IntentInv, PlansAllowed, Allowed
<1>2. commands' = commands => CommandsAllowed'
  BY FewerCommands
<1>3. store' = store => StoresIntended'
  BY MeantStores
<1> QED
  BY <1>1, <1>2, <1>3

\* ... a command sent is one its handler's plan allows, ...
LEMMA SentAllowed ==
  ASSUME TypeOK, IntentInv, BegunKept, NEW h \in Handlers, pc[h] = "send", Sent(CommandOf(h))
  PROVE  CommandsAllowed'
<1>1. PICK c : c = CommandOf(h)
  OBVIOUS
<1>2. CommandAllowed(c) /\ c.by \in Handlers
  <2>1. plan[h] # <<>> /\ plan[h] \in Seq(Operations)
    BY SentTypes DEF TypeOK
  <2>2. Allowed(Head(plan[h]), kind[h])
    BY <2>1, TailPart DEF IntentInv, PlansAllowed
  <2> QED
    BY <1>1, <2>2 DEF Allowed, CommandAllowed, CommandOf, Begun
<1>3. commands' = [commands EXCEPT ![commandQueue] = Append(@, c)]
  BY <1>1 DEF Sent
<1> SUFFICES ASSUME NEW p \in Pumps, NEW i \in 1..Len(commands'[p])
             PROVE  CommandAllowed(commands[p][i])'
  BY DEF CommandsAllowed
<1>4. PICK d : d = commands'[p][i]
  OBVIOUS
<1>5. d = c \/ (i \in 1..Len(commands[p]) /\ d = commands[p][i])
  BY <1>3, <1>4 DEF TypeOK
<1>6. CommandAllowed(d) /\ d.by \in Handlers
  BY <1>2, <1>5, CommandInQueue DEF IntentInv, CommandsAllowed
<1>7. CommandAllowed(d)'
  BY <1>6, KeepAllowed
<1> QED
  BY <1>4, <1>7 DEF CommandAllowed

\* ... the rest of a plan is still allowed, ...
LEMMA RestAllowed ==
  ASSUME TypeOK, IntentInv, kind' = kind, NEW h \in Handlers, plan[h] # <<>>,
         plan' = [plan EXCEPT ![h] = Tail(@)]
  PROVE  PlansAllowed'
<1> SUFFICES ASSUME NEW g \in Handlers, NEW i \in 1..Len(plan'[g])
             PROVE  Allowed(plan'[g][i], kind[g])
  BY DEF PlansAllowed, Allowed
<1>1. CASE g = h
  <2>1. plan[h] \in Seq(Operations) /\ plan'[g] = Tail(plan[h])
    BY <1>1 DEF TypeOK
  <2>2. plan'[g][i] = plan[h][i + 1] /\ i + 1 \in 1..Len(plan[h])
    BY <2>1, TailPart
  <2> QED
    BY <1>1, <2>2 DEF IntentInv, PlansAllowed
<1>2. CASE g # h
  <2>1. plan'[g] = plan[g]
    BY <1>2 DEF TypeOK
  <2> QED
    BY <2>1 DEF IntentInv, PlansAllowed
<1> QED
  BY <1>1, <1>2

\* ... and a command done sets what its handler meant.
LEMMA DoneIntended ==
  ASSUME TypeOK, IntentInv, UNCHANGED <<pc, kind, plan>>, NEW p \in Pumps, Done(p)
  PROVE  IntentInv'
<1>1. PICK c : c = Head(commands[p])
  OBVIOUS
<1>2. /\ commands[p] # <<>> /\ commands' = [commands EXCEPT ![p] = Tail(@)]
      /\ store' = [store EXCEPT ![p] = Applied(p, c)]
  BY <1>1 DEF Done
<1>3. BegunKept
  BY KeepBegun
<1>4. commands[p] \in Seq(Commands) /\ c \in Commands /\ c = commands[p][1] /\ 1 \in 1..Len(commands[p])
  BY <1>1, <1>2, TailPart DEF TypeOK
<1>5. CommandsAllowed'
  <2> SUFFICES ASSUME NEW q \in Pumps, NEW i \in 1..Len(commands'[q])
               PROVE  \E j \in 1..Len(commands[q]) : commands'[q][i] = commands[q][j]
    BY <1>3, FewerCommands
  <2>1. CASE q = p
    <3>1. commands'[q] = Tail(commands[q])
      BY <1>2, <2>1 DEF TypeOK
    <3> QED
      BY <1>2, <1>4, <2>1, <3>1, TailPart
  <2>2. CASE q # p
    BY <1>2, <2>2 DEF TypeOK
  <2> QED
    BY <2>1, <2>2
<1>6. StoresIntended'
  <2> SUFFICES ASSUME NEW q \in Pumps, NEW s \in Props,
                      store'[q][s] # Unset, store'[q][s] # store[q][s]
               PROVE  store'[q][s].by \in Handlers /\ MeantFor(q, s, store'[q][s])
    BY <1>3, MeantStores
  <2>1. q = p /\ store'[q][s] = Applied(p, c)[s]
    BY <1>2 DEF TypeOK
  <2>2. Known(p, c) /\ c.op \notin {"get", "getprops"} /\ Applied(p, c) = [store[p] EXCEPT ![c.prop] = c.value]
    BY <2>1 DEF Applied
  <2>3. c.prop \in Entries(p) /\ s = c.prop /\ store'[q][s] = c.value
    BY <2>1, <2>2 DEF Known, TypeOK
  <2>4. CommandAllowed(c) /\ c.by \in Handlers
    BY <1>4, CommandInQueue DEF IntentInv, CommandsAllowed
  <2>5. c.op = "set" /\ c.value = [by |-> c.by, prop |-> c.prop]
    BY <1>4, <2>2, <2>3, <2>4 DEF CommandAllowed, Commands
  <2>6. Begun(c.by) /\ kind[c.by] \in SetKinds /\ c.prop \in Entries(PumpOf(kind[c.by]))
    BY <2>4, <2>5 DEF CommandAllowed, Allowed
  <2>7. PumpOf(kind[c.by]) \in Pumps
    BY <2>6 DEF PumpOf, SetKinds, Pumps
  <2>8. PumpOf(kind[c.by]) = p
    BY <2>3, <2>6, <2>7, EntriesDisjoint
  <2> QED
    BY <2>1, <2>3, <2>4, <2>5, <2>6, <2>8 DEF MeantFor
<1>7. PlansAllowed'
  BY <1>3, IntentFrame
<1> QED
  BY <1>5, <1>6, <1>7 DEF IntentInv

\* Every step keeps values with the handlers that meant them.
LEMMA IntentStep ==
  ASSUME TypeOK, IntentInv, [Next]_vars
  PROVE  IntentInv'
<1>1. ASSUME NEW h \in Handlers, NEW k \in Kinds, Begin(h, k)
      PROVE  IntentInv'
  <2>1. PICK ops \in Plans(k) : plan' = [plan EXCEPT ![h] = ops]
    BY <1>1 DEF Begin
  <2>2. ops \in Seq({o \in Operations : Allowed(o, k)})
    BY <1>1, PlanAllowed
  <2>3. /\ pc[h] = "new" /\ pc' = [pc EXCEPT ![h] = "setCommandQueue"]
        /\ kind' = [kind EXCEPT ![h] = k] /\ UNCHANGED <<commands, store>>
    BY <1>1 DEF Begin, Goto, queues
  <2>4. BegunKept
    BY <2>3 DEF BegunKept, Begun, TypeOK
  <2>5. PlansAllowed'
    <3> SUFFICES ASSUME NEW g \in Handlers, NEW i \in 1..Len(plan'[g])
                 PROVE  Allowed(plan'[g][i], kind'[g])
      BY DEF PlansAllowed, Allowed
    <3>1. CASE g = h
      <4>1. plan'[g] = ops /\ kind'[g] = k
        BY <2>1, <2>3, <3>1 DEF TypeOK
      <4> QED
        BY <2>2, <4>1
    <3>2. CASE g # h
      <4>1. plan'[g] = plan[g] /\ kind'[g] = kind[g]
        BY <2>1, <2>3, <3>2 DEF TypeOK
      <4> QED
        BY <4>1 DEF IntentInv, PlansAllowed
    <3> QED
      BY <3>1, <3>2
  <2> QED
    BY <2>3, <2>4, <2>5, IntentFrame DEF IntentInv
<1>2. ASSUME NEW h \in Handlers, \/ SetCommandQueue(h) \/ SetResponseQueue(h) \/ BuildCommand(h)
                                 \/ Subscribe(h) \/ Respond(h) \/ RejectForm(h)
      PROVE  IntentInv'
  <2>1. UNCHANGED <<kind, plan, commands, store>>
    BY <1>2 DEF SetCommandQueue, SetResponseQueue, BuildCommand, Subscribe, Respond, RejectForm,
       queues
  <2>2. \E l : l # "new" /\ pc' = [pc EXCEPT ![h] = l]
    BY <1>2 DEF SetCommandQueue, SetResponseQueue, BuildCommand, Subscribe, Respond, RejectForm,
       Goto
  <2>3. BegunKept
    BY <2>1, <2>2, KeepBegun
  <2> QED
    BY <2>1, <2>3, IntentFrame DEF IntentInv
<1>3. ASSUME NEW h \in Handlers, SendCommand(h)
      PROVE  IntentInv'
  <2>1. /\ UNCHANGED <<kind, plan, store>> /\ pc[h] = "send" /\ pc' = [pc EXCEPT ![h] = "subscribe"]
        /\ Sent(CommandOf(h))
    BY <1>3 DEF SendCommand, Goto
  <2>2. BegunKept
    BY <2>1, KeepBegun
  <2> QED
    BY <2>1, <2>2, IntentFrame, SentAllowed DEF IntentInv
<1>4. ASSUME NEW h \in Handlers, ReadOneMessage(h) \/ SendFails(h) \/ SubscribeFails(h)
      PROVE  IntentInv'
  <2>1. /\ UNCHANGED <<kind, store>> /\ plan' = [plan EXCEPT ![h] = Tail(@)]
        /\ \E l : l # "new" /\ pc' = [pc EXCEPT ![h] = l]
        /\ pc[h] \in {"send", "subscribe", "wait"}
        /\ commands' = commands \/ (pc[h] = "send" /\ Sent(CommandOf(h)))
    BY <1>4 DEF ReadOneMessage, SendFails, SubscribeFails, AfterCall, Goto, queues
  <2>2. BegunKept
    BY <2>1, KeepBegun
  <2>3. PlansAllowed'
    BY <2>1, RestAllowed DEF TypeOK
  <2>4. CommandsAllowed'
    BY <2>1, <2>2, IntentFrame, SentAllowed
  <2> QED
    BY <2>1, <2>2, <2>3, <2>4, IntentFrame DEF IntentInv
<1>5. ASSUME NEW p \in Pumps, Serve(p) \/ ServeFails(p)
      PROVE  IntentInv'
  <2>1. Done(p) /\ UNCHANGED <<pc, kind, plan>>
    BY <1>5 DEF Serve, ServeFails, handlerVars
  <2> QED
    BY <2>1, DoneIntended
<1>6. ASSUME NEW p \in Pumps, CrashPump(p)
      PROVE  IntentInv'
  <2>1. PICK n \in 1..(Len(commands[p]) + 1) :
          commands' = [commands EXCEPT ![p] = SubSeq(@, n, Len(@))]
    BY <1>6 DEF CrashPump
  <2>2. /\ UNCHANGED <<kind, plan, pc>>
        /\ store' = [store EXCEPT ![p] = [q \in Props |-> Unset]]
    BY <1>6 DEF CrashPump, handlerVars
  <2>3. BegunKept
    BY <2>2, KeepBegun
  <2>4. CommandsAllowed'
    <3> SUFFICES ASSUME NEW q \in Pumps, NEW i \in 1..Len(commands'[q])
                 PROVE  \E j \in 1..Len(commands[q]) : commands'[q][i] = commands[q][j]
      BY <2>3, FewerCommands
    <3>1. CASE q = p
      <4>1. commands'[q] = SubSeq(commands[p], n, Len(commands[p])) /\ commands[p] \in Seq(Commands)
        BY <2>1, <3>1 DEF TypeOK
      <4>2. /\ Len(commands'[q]) = Len(commands[p]) - n + 1
            /\ \A j \in 1..(Len(commands[p]) - n + 1) : commands'[q][j] = commands[p][n + j - 1]
        BY <4>1, DroppedPrefix
      <4>3. n + i - 1 \in 1..Len(commands[p]) /\ commands'[q][i] = commands[p][n + i - 1]
        BY <4>1, <4>2
      <4> QED
        BY <3>1, <4>3
    <3>2. CASE q # p
      BY <2>1, <3>2 DEF TypeOK
    <3> QED
      BY <3>1, <3>2
  <2>5. StoresIntended'
    <3>1. \A q \in Pumps, s \in Props : store'[q][s] \in {Unset, store[q][s]}
      BY <1>6, <2>2 DEF TypeOK
    <3> QED
      BY <2>3, <3>1, MeantStores
  <2>6. PlansAllowed'
    BY <2>2, <2>3, IntentFrame
  <2> QED
    BY <2>4, <2>5, <2>6 DEF IntentInv
<1>7. CASE UNCHANGED vars
  <2>1. UNCHANGED <<kind, plan, pc, commands, store>>
    BY <1>7 DEF vars, handlerVars, queues
  <2>2. BegunKept
    BY <2>1, KeepBegun
  <2> QED
    BY <2>1, <2>2, IntentFrame DEF IntentInv
<1> QED
  BY <1>1, <1>2, <1>3, <1>4, <1>5, <1>6, <1>7 DEF Next, Handle

\* However handlers overlap, whichever queue a command ends up in, whatever the bus
\* refuses and whenever a pump restarts, a setting only ever holds a value some handler
\* of that pump put in for that very setting: the pump's own list of settings is what
\* keeps the others out.
THEOREM SettingsAsIntended == Spec => []OnlyIntendedValues
<1>1. Init => IntentInv
  BY DEF Init, IntentInv, PlansAllowed, CommandsAllowed, StoresIntended
<1>2. IntentInv => OnlyIntendedValues
  BY DEF IntentInv, StoresIntended, MeantFor, OnlyIntendedValues, SetKinds
<1> QED
  BY <1>1, <1>2, IntentStep, TypeCorrect, PTL DEF Spec

-----------------------------------------------------------------------------
\* The message is about the operation its handler is waiting for.
Awaited(m) ==
  /\ pc[m.by] \in {"subscribe", "wait"}
  /\ m.op = Head(plan[m.by]).op /\ m.prop = Head(plan[m.by]).prop

\* While handlers come one at a time one message at most is under way, a command or
\* its response, and it is about the operation the active handler is waiting for.
OneAtATime ==
  /\ \A g, h \in Handlers : Active(g) /\ Active(h) => g = h
  /\ \A p \in Pumps : /\ Len(commands[p]) <= 1 /\ (commands[p] # <<>> => Awaited(commands[p][1]))
                      /\ Len(responses[p]) <= 1 /\ (responses[p] # <<>> => Awaited(responses[p][1]))
  /\ \A p, q \in Pumps :
       /\ commands[p] # <<>> => responses[q] = <<>> /\ (q # p => commands[q] = <<>>)
       /\ responses[p] # <<>> /\ q # p => responses[q] = <<>>

AloneInv == overlap \/ unread \/ (foreign = {} /\ OneAtATime)

\* A queue of at most one message: the message is its head, and of what is left of
\* it when a prefix is gone there is all or nothing.
LEMMA ShortQueue ==
  ASSUME NEW S, NEW s \in Seq(S), Len(s) <= 1
  PROVE  /\ s # <<>> => Len(s) = 1 /\ Head(s) = s[1] /\ Tail(s) = <<>>
         /\ \A n \in 1..(Len(s) + 1) : SubSeq(s, n, Len(s)) \in {s, <<>>}
         /\ \A n \in 2..(Len(s) + 1) : SubSeq(s, n, Len(s)) = <<>>
<1>1. ASSUME s # <<>>
      PROVE  Len(s) = 1 /\ Head(s) = s[1] /\ Tail(s) = <<>>
  <2>1. Len(s) \in Nat /\ Len(s) # 0
    BY <1>1, EmptySeq
  <2>2. Len(s) = 1
    <3>1. \A n \in Nat : n <= 1 /\ n # 0 => n = 1
      OBVIOUS
    <3> QED
      BY <2>1, <3>1, Zenon
  <2>3. Head(s) = s[1]
    BY <1>1, <2>2
  <2>4. Tail(s) \in Seq(S) /\ Len(Tail(s)) = 0
    BY <1>1, <2>2, HeadTailProperties
  <2>5. Tail(s) = <<>>
    BY <2>4, EmptySeq
  <2> QED
    BY <2>2, <2>3, <2>5
<1>2. \A n \in 2..(Len(s) + 1) : SubSeq(s, n, Len(s)) = <<>>
  <2> TAKE n \in 2..(Len(s) + 1)
  <2>1. n \in Int /\ Len(s) \in Int /\ Len(s) < n
    OBVIOUS
  <2> QED
    BY <2>1, SubSeqEmpty
<1>3. SubSeq(s, 1, Len(s)) = s
  BY SubSeqFull
<1>4. \A n \in 1..(Len(s) + 1) : n = 1 \/ n \in 2..(Len(s) + 1)
  OBVIOUS
<1> QED
  BY <1>1, <1>2, <1>3, <1>4

\* A queue that holds one message or none.
LEMMA OneOrNone ==
  ASSUME NEW m, NEW s, s \in {<<m>>, <<>>}
  PROVE  Len(s) <= 1 /\ (s # <<>> => s[1] = m)
OBVIOUS

\* A response in a queue is to some handler's command.
LEMMA ResponseInQueue ==
  ASSUME TypeOK, NEW p \in Pumps, responses[p] # <<>>
  PROVE  responses[p][1] \in Responses /\ responses[p][1].by \in Handlers
<1>1. responses[p][1] \in Responses
  BY DEF TypeOK
<1> QED
  BY <1>1 DEF Responses

\* A handler that is active and not waiting for a response has all queues empty, and
\* so have handlers none of which is active.
LEMMA QueuesEmpty ==
  ASSUME TypeOK, OneAtATime,
         \/ \E h \in Handlers : Active(h) /\ pc[h] \notin {"subscribe", "wait"}
         \/ \A h \in Handlers : ~Active(h)
  PROVE  \A p \in Pumps : commands[p] = <<>> /\ responses[p] = <<>>
<1> SUFFICES ASSUME NEW p \in Pumps PROVE commands[p] = <<>> /\ responses[p] = <<>>
  OBVIOUS
<1>1. \A g \in Handlers : pc[g] \notin {"subscribe", "wait"}
  BY DEF OneAtATime, Active, Ended
<1>2. ASSUME commands[p] # <<>> PROVE FALSE
  <2>1. 1 \in 1..Len(commands[p])
    BY <1>2 DEF TypeOK
  <2>2. commands[p][1].by \in Handlers
    BY <2>1, CommandInQueue
  <2> QED
    BY <1>1, <1>2, <2>2 DEF OneAtATime, Awaited
<1>3. ASSUME responses[p] # <<>> PROVE FALSE
  <2>1. responses[p][1].by \in Handlers
    BY <1>3, ResponseInQueue
  <2> QED
    BY <1>1, <1>3, <2>1 DEF OneAtATime, Awaited
<1> QED
  BY <1>2, <1>3

\* With all queues empty only the handlers matter.
LEMMA EmptyOneAtATime ==
  ASSUME \A p \in Pumps : commands'[p] = <<>> /\ responses'[p] = <<>>,
         \A g, h \in Handlers : Active(g)' /\ Active(h)' => g = h
  PROVE  OneAtATime'
BY DEF OneAtATime

\* A message under way keeps being awaited while the handlers that subscribe or wait
\* go on doing so.
LEMMA StillAwaited ==
  ASSUME TypeOK, OneAtATime, UNCHANGED <<plan, commands, responses>>,
         \A g \in Handlers : /\ Active(g)' => Active(g)
                             /\ pc[g] \in {"subscribe", "wait"} => pc'[g] \in {"subscribe", "wait"}
  PROVE  OneAtATime'
<1>1. ASSUME NEW p \in Pumps, commands[p] # <<>> PROVE Awaited(commands[p][1])'
  <2>1. 1 \in 1..Len(commands[p])
    BY <1>1 DEF TypeOK
  <2>2. commands[p][1].by \in Handlers
    BY <2>1, CommandInQueue
  <2> QED
    BY <1>1, <2>2 DEF OneAtATime, Awaited
<1>2. ASSUME NEW p \in Pumps, responses[p] # <<>> PROVE Awaited(responses[p][1])'
  <2>1. responses[p][1].by \in Handlers
    BY <1>2, ResponseInQueue
  <2> QED
    BY <1>2, <2>1 DEF OneAtATime, Awaited
<1> QED
  BY <1>1, <1>2 DEF OneAtATime

\* A step that neither begins a handler beside an active one nor gives up on a
\* response still to come keeps them apart.
LEMMA OneStep ==
  ASSUME TypeOK, foreign = {}, OneAtATime, [Next]_vars, ~unread',
         \A h \in Handlers, k \in Kinds : Begin(h, k) => \A g \in Handlers : ~Active(g)
  PROVE  foreign' = {} /\ OneAtATime'
<1>1. ASSUME NEW h \in Handlers, NEW k \in Kinds, Begin(h, k)
      PROVE  foreign' = {} /\ OneAtATime'
  <2>1. /\ \A g \in Handlers : ~Active(g)
        /\ pc' = [pc EXCEPT ![h] = "setCommandQueue"] /\ UNCHANGED <<commands, responses, foreign>>
    BY <1>1 DEF Begin, Goto, queues
  <2>2. \A g \in Handlers : Active(g)' => g = h
    BY <2>1 DEF Active, Ended, TypeOK
  <2> QED
    BY <2>1, <2>2, QueuesEmpty, EmptyOneAtATime
<1>2. ASSUME NEW h \in Handlers, \/ SetCommandQueue(h) \/ SetResponseQueue(h) \/ BuildCommand(h)
                                 \/ Respond(h) \/ SendFails(h)
      PROVE  foreign' = {} /\ OneAtATime'
  <2>1. /\ Active(h) /\ pc[h] \notin {"subscribe", "wait"}
        /\ UNCHANGED <<commands, responses, foreign>> /\ \E l : pc' = [pc EXCEPT ![h] = l]
    BY <1>2 DEF SetCommandQueue, SetResponseQueue, BuildCommand, Respond, SendFails, AfterCall,
       Active, Ended, Goto, queues, history
  <2>2. \A g \in Handlers : Active(g)' => g = h \/ Active(g)
    BY <2>1 DEF Active, Ended, TypeOK
  <2>3. \A f, g \in Handlers : Active(f)' /\ Active(g)' => f = g
    BY <1>2, <2>1, <2>2 DEF OneAtATime
  <2> QED
    BY <2>1, <2>3, QueuesEmpty, EmptyOneAtATime
<1>3. ASSUME NEW h \in Handlers, SendCommand(h)
      PROVE  foreign' = {} /\ OneAtATime'
  <2> PICK c : c = CommandOf(h)
    OBVIOUS
  <2>1. /\ pc[h] = "send" /\ pc' = [pc EXCEPT ![h] = "subscribe"]
        /\ commands' = [commands EXCEPT ![commandQueue] = Append(@, c)]
        /\ UNCHANGED <<plan, responses, foreign>>
    BY <1>3 DEF SendCommand, Sent, Goto, history
  <2>2. \A p \in Pumps : commands[p] = <<>> /\ responses[p] = <<>>
    BY <2>1, QueuesEmpty DEF Active, Ended
  <2>3. Awaited(c)'
    BY <1>3, <2>1 DEF Awaited, CommandOf, TypeOK
  <2>4. /\ commands'[commandQueue] = <<c>> /\ commandQueue \in Pumps
        /\ \A p \in Pumps : p # commandQueue => commands'[p] = <<>>
    <3>1. /\ commands'[commandQueue] = Append(commands[commandQueue], c) /\ commandQueue \in Pumps
          /\ \A p \in Pumps : p # commandQueue => commands'[p] = commands[p]
      BY <2>1 DEF TypeOK
    <3> QED
      BY <2>2, <3>1, Append(<<>>, c) = <<c>>
  <2>5. \A f, g \in Handlers : Active(f)' /\ Active(g)' => f = g
    BY <1>3, <2>1 DEF OneAtATime, Active, Ended, TypeOK
  <2>6. \A p \in Pumps : /\ Len(commands'[p]) <= 1 /\ (commands'[p] # <<>> => commands'[p][1] = c)
                         /\ responses'[p] = <<>>
    BY <2>1, <2>2, <2>4
  <2>7. \A p \in Pumps : commands'[p] # <<>> => Awaited(commands[p][1])'
    BY <2>3, <2>6 DEF Awaited
  <2> QED
    BY <2>1, <2>4, <2>5, <2>6, <2>7 DEF OneAtATime
<1>4. ASSUME NEW h \in Handlers, Subscribe(h)
      PROVE  foreign' = {} /\ OneAtATime'
  <2>1. /\ pc[h] = "subscribe" /\ pc' = [pc EXCEPT ![h] = "wait"]
        /\ UNCHANGED <<plan, commands, responses, foreign>>
    BY <1>4 DEF Subscribe, Goto, queues, history
  <2>2. \A g \in Handlers : /\ Active(g)' => Active(g)
                            /\ pc[g] \in {"subscribe", "wait"} => pc'[g] \in {"subscribe", "wait"}
    BY <2>1 DEF Active, Ended, TypeOK
  <2> QED
    BY <2>1, <2>2, StillAwaited
<1>5. ASSUME NEW h \in Handlers, ReadOneMessage(h)
      PROVE  foreign' = {} /\ OneAtATime'
  <2> DEFINE q == readFrom[h]
             r == Head(responses[q])
             o == Head(plan[h])
  <2>1. /\ pc[h] = "wait" /\ responses[q] # <<>> /\ q \in Pumps /\ responses[q] \in Seq(Responses)
        /\ foreign' = IF r.by = h /\ r.op = o.op /\ r.prop = o.prop THEN foreign ELSE foreign \cup {h}
        /\ \E l : pc' = [pc EXCEPT ![h] = l]
        /\ UNCHANGED commands
    BY <1>5 DEF ReadOneMessage, AfterCall, Goto, TypeOK
  <2>2. PICK n \in 2..(Len(responses[q]) + 1) :
          responses' = [responses EXCEPT ![q] = SubSeq(@, n, Len(@))]
    BY <1>5 DEF ReadOneMessage
  <2>3. r = responses[q][1] /\ r.by \in Handlers /\ Awaited(r)
    BY <2>1, ResponseInQueue DEF OneAtATime
  <2>4. r.by = h
    BY <1>5, <2>1, <2>3 DEF OneAtATime, Awaited, Active, Ended
  <2>5. foreign' = {}
    BY <2>1, <2>3, <2>4 DEF Awaited
  <2>6. \A p \in Pumps : commands'[p] = <<>> /\ responses'[p] = <<>>
    <3>1. Len(responses[q]) <= 1
      BY <2>1 DEF OneAtATime
    <3>2. SubSeq(responses[q], n, Len(responses[q])) = <<>>
      BY <2>1, <2>2, <3>1, ShortQueue
    <3>3. \A p \in Pumps : commands[p] = <<>> /\ (p # q => responses[p] = <<>>)
      BY <2>1 DEF OneAtATime
    <3> QED
      BY <2>1, <2>2, <3>2, <3>3 DEF TypeOK
  <2>7. \A f, g \in Handlers : Active(f)' /\ Active(g)' => f = g
    BY <1>5, <2>1 DEF OneAtATime, Active, Ended, TypeOK
  <2> QED
    BY <2>5, <2>6, <2>7, EmptyOneAtATime
<1>6. ASSUME NEW p \in Pumps, Serve(p)
      PROVE  foreign' = {} /\ OneAtATime'
  <2> PICK c : c = Head(commands[p])
    OBVIOUS
  <2> PICK r : r = ResponseTo(p, c)
    OBVIOUS
  <2>1. /\ commands[p] # <<>> /\ commands[p] \in Seq(Commands)
        /\ commands' = [commands EXCEPT ![p] = Tail(@)]
        /\ responses' = [responses EXCEPT ![c.replyTo] = Append(@, r)]
        /\ UNCHANGED <<pc, plan, foreign>>
    BY <1>6 DEF Serve, Done, handlerVars, history, TypeOK
  <2>2. c \in Commands /\ c = commands[p][1] /\ Tail(commands[p]) = <<>>
    <3>1. c \in Commands
      BY <2>1
    <3>2. Len(commands[p]) <= 1
      BY <1>6 DEF OneAtATime
    <3> QED
      BY <2>1, <3>1, <3>2, ShortQueue
  <2>3. c.replyTo \in Pumps
    BY <2>2 DEF Commands
  <2>4. Awaited(r)'
    <3>1. Awaited(c) /\ r.op = c.op /\ r.prop = c.prop /\ r.by = c.by
      BY <1>6, <2>1, <2>2 DEF OneAtATime, ResponseTo
    <3> QED
      BY <2>1, <3>1 DEF Awaited
  <2>5. \A q \in Pumps : commands'[q] = <<>> /\ responses[q] = <<>>
    BY <1>6, <2>1, <2>2 DEF OneAtATime, TypeOK
  <2>6. \A q \in Pumps : responses'[q] = IF q = c.replyTo THEN <<r>> ELSE <<>>
    <3>1. \A q \in Pumps : responses'[q] = IF q = c.replyTo THEN Append(responses[q], r) ELSE responses[q]
      BY <2>1, <2>3 DEF TypeOK
    <3> QED
      BY <2>5, <3>1, Append(<<>>, r) = <<r>>
  <2>7. \A f, g \in Handlers : Active(f)' /\ Active(g)' => f = g
    BY <2>1 DEF OneAtATime, Active
  <2>8. \A q \in Pumps : /\ Len(responses'[q]) <= 1
                         /\ responses'[q] # <<>> => q = c.replyTo /\ responses'[q][1] = r
    <3>1. \A q \in Pumps : /\ responses'[q] \in {<<r>>, <<>>}
                           /\ responses'[q] # <<>> => q = c.replyTo
      BY <2>6
    <3> QED
      BY ONLY <3>1, OneOrNone
  <2>9. \A q \in Pumps : responses'[q] # <<>> => Awaited(responses[q][1])'
    BY <2>4, <2>8 DEF Awaited
  <2>10. \A q \in Pumps : Len(commands'[q]) <= 1
    BY <2>5, OneOrNone
  <2>11. \A q, t \in Pumps : responses'[q] # <<>> /\ t # q => responses'[t] = <<>>
    BY <2>8
  <2>12. \A q \in Pumps :
           /\ Len(commands'[q]) <= 1 /\ (commands'[q] # <<>> => Awaited(commands[q][1])')
           /\ Len(responses'[q]) <= 1 /\ (responses'[q] # <<>> => Awaited(responses[q][1])')
    BY <2>5, <2>8, <2>9, <2>10
  <2>13. \A q, t \in Pumps :
           /\ commands'[q] # <<>> => responses'[t] = <<>> /\ (t # q => commands'[t] = <<>>)
           /\ responses'[q] # <<>> /\ t # q => responses'[t] = <<>>
    BY <2>5, <2>11
  <2>14. OneAtATime'
    BY ONLY <2>7, <2>12, <2>13, Zenon DEF OneAtATime
  <2> QED
    BY <2>1, <2>14
<1>7. ASSUME NEW p \in Pumps, CrashPump(p)
      PROVE  foreign' = {} /\ OneAtATime'
  <2>1. PICK n \in 1..(Len(commands[p]) + 1) :
          commands' = [commands EXCEPT ![p] = SubSeq(@, n, Len(@))]
    BY <1>7 DEF CrashPump
  <2>2. UNCHANGED <<pc, plan, responses, foreign>>
    BY <1>7 DEF CrashPump, handlerVars, history
  <2>3. commands'[p] = commands[p] \/ commands'[p] = <<>>
    <3>1. commands'[p] = SubSeq(commands[p], n, Len(commands[p])) /\ commands[p] \in Seq(Commands)
      BY <1>7, <2>1 DEF TypeOK
    <3>2. Len(commands[p]) <= 1
      BY <1>7 DEF OneAtATime
    <3> QED
      BY <2>1, <3>1, <3>2, ShortQueue
  <2>4. \A q \in Pumps : commands'[q] = commands[q] \/ commands'[q] = <<>>
    BY <2>1, <2>3 DEF TypeOK
  <2>5. \A m : Awaited(m) => Awaited(m)'
    BY <2>2 DEF Awaited
  <2>6. \A f, g \in Handlers : Active(f)' /\ Active(g)' => f = g
    BY <2>2 DEF OneAtATime, Active
  <2> QED
    BY <2>2, <2>4, <2>5, <2>6 DEF OneAtATime
<1>8. ASSUME NEW h \in Handlers, SubscribeFails(h)
      PROVE  FALSE
  BY <1>8 DEF SubscribeFails
<1>9. ASSUME NEW h \in Handlers, RejectForm(h)
      PROVE  foreign' = {} /\ OneAtATime'
  <2>1. /\ pc[h] = "new" /\ pc' = [pc EXCEPT ![h] = "done"]
        /\ UNCHANGED <<plan, commands, responses, foreign>>
    BY <1>9 DEF RejectForm, Goto, queues, history
  <2>2. /\ \A g \in Handlers : Active(g)' => Active(g)
        /\ \A g \in Handlers : pc[g] \in {"subscribe", "wait"} => pc'[g] = pc[g]
    BY <2>1 DEF Active, Ended, TypeOK
  <2> QED
    BY <2>1, <2>2, StillAwaited
<1>10. ASSUME NEW p \in Pumps, ServeFails(p)
       PROVE  foreign' = {} /\ OneAtATime'
  <2>1. /\ commands[p] # <<>> /\ commands[p] \in Seq(Commands)
        /\ commands' = [commands EXCEPT ![p] = Tail(@)]
        /\ UNCHANGED <<pc, plan, responses, foreign>>
    BY <1>10 DEF ServeFails, Done, handlerVars, history, TypeOK
  <2>2. Tail(commands[p]) = <<>>
    <3>1. Len(commands[p]) <= 1
      BY <1>10 DEF OneAtATime
    <3> QED
      BY <2>1, <3>1, ShortQueue
  <2>3. \A q \in Pumps : commands'[q] = <<>> /\ responses'[q] = <<>>
    BY <1>10, <2>1, <2>2 DEF OneAtATime, TypeOK
  <2>4. \A f, g \in Handlers : Active(f)' /\ Active(g)' => f = g
    BY <2>1 DEF OneAtATime, Active
  <2> QED
    BY <2>1, <2>3, <2>4, EmptyOneAtATime
<1>11. CASE UNCHANGED vars
  <2>1. UNCHANGED <<pc, plan, commands, responses, foreign>>
    BY <1>11 DEF vars, handlerVars, queues, history
  <2> QED
    BY <2>1 DEF OneAtATime, Awaited, Active
<1> QED
  BY <1>1, <1>2, <1>3, <1>4, <1>5, <1>6, <1>7, <1>8, <1>9, <1>10, <1>11 DEF Next, Handle

\* Every step keeps handlers apart that come one at a time.
LEMMA AloneStep ==
  ASSUME TypeOK, AloneInv, [Next]_vars
  PROVE  AloneInv'
<1>1. (overlap => overlap') /\ (unread => unread')
  <2>1. ASSUME NEW h \in Handlers, \/ Handle(h) \/ SendFails(h) \/ SubscribeFails(h) \/ RejectForm(h)
                                   \/ \E k \in Kinds : Begin(h, k)
        PROVE  (overlap => overlap') /\ (unread => unread')
    <3>1. CASE Handle(h)
      BY <3>1 DEF Handle, SetCommandQueue, SetResponseQueue, BuildCommand, SendCommand,
         Subscribe, ReadOneMessage, Respond, history
    <3>2. CASE SendFails(h) \/ SubscribeFails(h) \/ RejectForm(h)
      <4>1. overlap' = overlap /\ (unread' = unread \/ unread' = TRUE)
        BY <3>2 DEF SendFails, SubscribeFails, RejectForm, history
      <4> QED
        BY <4>1
    <3>3. CASE \E k \in Kinds : Begin(h, k)
      <4>1. unread' = unread /\ overlap' = (overlap \/ \E g \in Handlers : Active(g))
        BY <3>3 DEF Begin
      <4> QED
        BY <4>1, Zenon
    <3> QED
      BY <2>1, <3>1, <3>2, <3>3
  <2>2. ASSUME NEW p \in Pumps, Serve(p) \/ ServeFails(p) \/ CrashPump(p)
        PROVE  (overlap => overlap') /\ (unread => unread')
    BY <2>2 DEF Serve, ServeFails, CrashPump, history
  <2> QED
    BY <2>1, <2>2 DEF Next, vars, history
<1>2. ~overlap' => \A h \in Handlers, k \in Kinds : Begin(h, k) => \A g \in Handlers : ~Active(g)
  BY DEF Begin
<1>3. ~overlap /\ ~overlap' /\ ~unread /\ ~unread' => foreign' = {} /\ OneAtATime'
  BY <1>2, OneStep DEF AloneInv
<1> QED
  BY <1>1, <1>3 DEF AloneInv

\* As long as handlers have come one at a time and no call has failed with its response
\* still to come, whatever pumps restart in between, each has read the responses to its own commands, though responses name neither.
THEOREM LoneHandlersReadTheirOwn == Spec => []OwnAnswersWhenAlone
<1>1. Init => AloneInv
  BY DEF Init, AloneInv, OneAtATime, Active, Ended
<1>2. AloneInv => OwnAnswersWhenAlone
  BY DEF AloneInv, OwnAnswersWhenAlone
<1> QED
  BY <1>1, <1>2, AloneStep, TypeCorrect, PTL DEF Spec

=============================================================================
