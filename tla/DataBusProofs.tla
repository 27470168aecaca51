---------------------------- MODULE DataBusProofs ----------------------------
(***************************************************************************)
(* Proofs about DataBus, for any systems, pumps and queues, any number of  *)
(* groups and crashes, and with failing sends: type correctness, that each *)
(* group is sent once to every recorded queue, that a subscriber misses at *)
(* most one group of a system, and that the groups of a system reach the   *)
(* pumps in the order they were made, none lost on the way.                *)
(***************************************************************************)
EXTENDS DataBus, TLAPS, SequenceTheorems

\* A queue is recorded once, and a loop over the receivers stays within them.
LoopsWithin ==
  /\ \A i, j \in 1 .. Len(receivers) : receivers[i] = receivers[j] => i = j
  /\ \A s \in Systems : lastR[s] <= Len(receivers)

\* The cache is one group behind while a listener sends, and never otherwise.
\* The command loop goes through systems that have a group.
CacheBehind ==
  /\ \A s \in Systems : nextR[s] <= lastR[s] => s \in uncached
  /\ \A s \in Systems : ver[s] = cache[s] + (IF s \in uncached THEN 1 ELSE 0)
  /\ \A s \in todo : cache[s] > 0

\* Nothing is counted for a queue that is not recorded.
NotCounted ==
  \A q \in Queues, s \in Systems : ~Recorded(q) => tried[q][s] = 0 /\ answers[q][s] = {}

\* What a queue may have missed is no more than the group on its way when it
\* was recorded.
BaseBehind ==
  \A q \in Queues, s \in Systems : Recorded(q) => base[q][s] <= cache[s] + 1

BusInv == LoopsWithin /\ CacheBehind /\ NotCounted /\ BaseBehind

\* The two properties, one queue and one system at a time.
OnceAt(q, s) ==
  Recorded(q) => tried[q][s] + (IF Remaining(s, q) THEN 1 ELSE 0) = ver[s] - base[q][s]

MissesAt(q, s) == Recorded(q) => \A v \in answers[q][s] : base[q][s] <= v + 1

-----------------------------------------------------------------------------
\* What a queue holds after its reader died was in it before.
LEMMA LostSuffix ==
  ASSUME NEW S, NEW q \in Seq(S), NEW n \in 0 .. Len(q)
  PROVE  SubSeq(q, n + 1, Len(q)) \in Seq(S)
<1>1. CASE n = Len(q)
  BY <1>1, SubSeqProperties
<1>2. CASE n < Len(q)
  BY <1>2, SubSeqProperties
<1> QED
  BY <1>1, <1>2

\* A message taken off a queue was in it.
LEMMA TakenHead ==
  ASSUME NEW S, NEW q \in Seq(S), q # <<>>
  PROVE  Head(q) \in S /\ Tail(q) \in Seq(S) /\ Len(q) >= 1 /\ q[1] \in S
BY HeadTailProperties, EmptySeq

\* The hook of SUBSCRIBE appends a queue once.
LEMMA SubscribeStep ==
  ASSUME TypeOK, NEW q \in Queues, HandleSubscribeEnvelope(q)
  PROVE  /\ receivers' \in Seq(Queues)
         /\ base' \in [Queues -> [Systems -> Versions]]
         /\ UNCHANGED <<tried, answers>>
<1>1. CASE Recorded(q)
  BY <1>1 DEF TypeOK, HandleSubscribeEnvelope, histVars
<1>2. CASE ~Recorded(q)
  <2>1. receivers' = Append(receivers, q) /\ base' = [base EXCEPT ![q] = ver]
    BY <1>2 DEF HandleSubscribeEnvelope
  <2>2. receivers' \in Seq(Queues)
    BY <2>1 DEF TypeOK
  <2>3. base' \in [Queues -> [Systems -> Versions]]
    BY <2>1 DEF TypeOK
  <2> QED
    BY <1>2, <2>2, <2>3 DEF HandleSubscribeEnvelope
<1> QED
  BY <1>1, <1>2

\* The answers noted are versions.
LEMMA NoteType ==
  ASSUME TypeOK, NEW q \in Queues, NEW S, NEW v \in Versions, Note(q, S, v)
  PROVE  answers' \in [Queues -> [Systems -> SUBSET Versions]]
BY DEF TypeOK, Note

\* Every step keeps the types.
LEMMA TypeStep ==
  ASSUME TypeOK, BusInv, [Next]_vars
  PROVE  TypeOK'
<1> USE DataBusConstants
    DEF TypeOK, Versions, loopVars, listenVars, pumpVars, histVars
<1>1. ASSUME NEW p \in Pumps, Subscribe(p) PROVE TypeOK'
  <2>1. cmdQ' \in Seq(Commands)
    BY <1>1 DEF Subscribe, Commands
  <2> QED
    BY <1>1, <2>1 DEF Subscribe
<1>2. ASSUME NEW p \in Pumps, Get(p) PROVE TypeOK'
  <2>1. cmdQ' \in Seq(Commands)
    BY <1>2 DEF Get, Commands
  <2> QED
    BY <1>2, <2>1 DEF Get
<1>3. ASSUME NEW p \in Pumps, GetGroup(p) PROVE TypeOK'
  <2>1. queues[QueueOf[p]] \in Seq(Envelopes) /\ queues[QueueOf[p]] # <<>>
    BY <1>3 DEF GetGroup
  <2>2. Head(queues[QueueOf[p]]) \in Envelopes /\ Tail(queues[QueueOf[p]]) \in Seq(Envelopes)
    BY <2>1, TakenHead
  <2>3. queues' \in [Queues -> Seq(Envelopes)]
    BY <1>3, <2>2 DEF GetGroup
  <2>4. got' \in [Pumps -> [Systems -> Versions]]
    <3> DEFINE env == Head(queues[QueueOf[p]])
               latest == [got[p] EXCEPT ![env.sys] = Max2(@, env.ver)]
    <3>1. env.sys \in Systems /\ env.ver \in Versions
      <4>1. \A e \in Envelopes : e.sys \in Systems /\ e.ver \in Versions
        BY DEF Envelopes
      <4> QED
        BY <2>2, <4>1
    <3>2. latest \in [Systems -> Versions]
      <4>1. got[p] \in [Systems -> Versions]
        OBVIOUS
      <4>2. Max2(got[p][env.sys], env.ver) \in Versions
        BY <3>1, <4>1 DEF Max2
      <4> HIDE DEF TypeOK, env, Versions
      <4> QED
        BY <3>1, <4>1, <4>2
    <3>3. got' = [got EXCEPT ![p] = latest] \/ got' = got
      BY <1>3 DEF GetGroup
    <3> QED
      BY <3>2, <3>3
  <2> QED
    BY <1>3, <2>3, <2>4 DEF GetGroup
<1>4. ASSUME NEW p \in Pumps, CrashPump(p) PROVE TypeOK'
  <2>1. PICK n \in 0 .. Len(queues[QueueOf[p]]) :
          queues' = [queues EXCEPT ![QueueOf[p]] = SubSeq(@, n + 1, Len(@))]
    BY <1>4 DEF CrashPump
  <2>2. SubSeq(queues[QueueOf[p]], n + 1, Len(queues[QueueOf[p]])) \in Seq(Envelopes)
    BY LostSuffix
  <2>3. queues' \in [Queues -> Seq(Envelopes)]
    BY <2>1, <2>2
  <2>4. crashes' \in 0 .. MaxCrashes /\ pump' \in [Pumps -> {"start", "subscribed", "running"}]
    BY <1>4 DEF CrashPump
  <2> QED
    BY <1>4, <2>3, <2>4 DEF CrashPump
<1>5. CASE ListenToQueue
  <2>1. Head(cmdQ) \in Commands /\ cmdQ' \in Seq(Commands)
    BY <1>5, TakenHead DEF ListenToQueue
  <2>2. pending' \in Seq(Commands) /\ Len(pending') <= 1
    BY <1>5, <2>1 DEF ListenToQueue
  <2>3. /\ receivers' \in Seq(Queues)
        /\ base' \in [Queues -> [Systems -> Versions]]
        /\ UNCHANGED <<tried, answers>>
    <3>1. Head(cmdQ).replyTo \in Queues
      BY <2>1 DEF Commands
    <3> QED
      BY <1>5, <3>1, SubscribeStep DEF ListenToQueue
  <2> QED
    BY <1>5, <2>1, <2>2, <2>3 DEF ListenToQueue
<1>6. CASE TakeCommand
  <2>1. pending[1] \in Commands
    BY <1>6, TakenHead DEF TakeCommand
  <2>2. pending[1].replyTo \in Queues
    BY <2>1 DEF Commands
  <2>3. CASE pending[1].type = "GET"
    <3>1. Note(pending[1].replyTo, {s \in Systems : cache[s] = 0}, 0)
      BY <1>6, <2>3 DEF TakeCommand
    <3>2. answers' \in [Queues -> [Systems -> SUBSET Versions]]
      BY <2>2, <3>1, NoteType
    <3> QED
      BY <1>6, <2>2, <2>3, <3>2 DEF TakeCommand
  <2>4. CASE pending[1].type # "GET"
    BY <1>6, <2>4 DEF TakeCommand
  <2> QED
    BY <2>3, <2>4
<1>7. ASSUME NEW s \in Systems, ReadCached(s) PROVE TypeOK'
  <2>1. asker \in Queues /\ cache[s] \in 1 .. MaxGroups
    BY <1>7 DEF ReadCached, BusInv, CacheBehind
  <2>2. reply' \in Seq(Envelopes) /\ Len(reply') <= 1
    BY <1>7, <2>1 DEF ReadCached, Envelopes
  <2>3. answers' \in [Queues -> [Systems -> SUBSET Versions]]
    BY <1>7, <2>1, NoteType DEF ReadCached
  <2> QED
    BY <1>7, <2>1, <2>2, <2>3 DEF ReadCached
<1>8. CASE Reply
  <2>1. asker \in Queues
    BY <1>8 DEF Reply
  <2>2. queues[asker] \o reply \in Seq(Envelopes)
    BY <2>1
  <2>3. queues' \in [Queues -> Seq(Envelopes)]
    BY <1>8, <2>2 DEF Reply
  <2> QED
    BY <1>8, <2>3 DEF Reply
<1>9. CASE Replied
  BY <1>9 DEF Replied
<1>10. ASSUME NEW s \in Systems, BeginSendGroup(s) PROVE TypeOK'
  <2>1. ver' \in [Systems -> Versions]
    BY <1>10 DEF BeginSendGroup
  <2>2. nextR' \in [Systems -> Nat \ {0}] /\ lastR' \in [Systems -> Nat]
    BY <1>10 DEF BeginSendGroup
  <2> QED
    BY <1>10, <2>1, <2>2 DEF BeginSendGroup
<1>11. ASSUME NEW s \in Systems, SendGroupToQueue(s) PROVE TypeOK'
  <2>1. receivers[nextR[s]] \in Queues /\ ver[s] \in 1 .. MaxGroups
    <3>1. nextR[s] \in 1 .. Len(receivers)
      <4>1. nextR[s] \in Nat \ {0} /\ lastR[s] \in Nat /\ Len(receivers) \in Nat
        OBVIOUS
      <4>2. nextR[s] <= lastR[s] /\ lastR[s] <= Len(receivers)
        BY <1>11 DEF SendGroupToQueue, BusInv, LoopsWithin
      <4> HIDE DEF TypeOK
      <4> QED
        BY <4>1, <4>2
    <3>2. s \in uncached /\ ver[s] = cache[s] + (IF s \in uncached THEN 1 ELSE 0)
      BY <1>11 DEF SendGroupToQueue, BusInv, CacheBehind
    <3>3. ver[s] \in Versions /\ cache[s] \in Versions
      OBVIOUS
    <3>4. receivers[nextR[s]] \in Queues
      BY <3>1
    <3> HIDE DEF TypeOK
    <3> QED
      BY <3>2, <3>3, <3>4
  <2>2. queues' \in [Queues -> Seq(Envelopes)]
    <3>1. [type |-> "DATAGROUP", sys |-> s, ver |-> ver[s]] \in Envelopes
      BY <2>1 DEF Envelopes
    <3> QED
      <4>1. Append(queues[receivers[nextR[s]]], [type |-> "DATAGROUP", sys |-> s, ver |-> ver[s]])
              \in Seq(Envelopes)
        BY <2>1, <3>1
      <4> QED
        BY <1>11, <2>1, <4>1 DEF SendGroupToQueue, Deliver
  <2>3. nextR' \in [Systems -> Nat \ {0}]
    BY <1>11 DEF SendGroupToQueue
  <2>4. tried' \in [Queues -> [Systems -> Nat]]
    <3> DEFINE q == receivers[nextR[s]]
               counted == [tried[q] EXCEPT ![s] = @ + 1]
    <3>1. counted \in [Systems -> Nat]
      <4>1. tried[q] \in [Systems -> Nat]
        BY <2>1
      <4>2. \A f \in [Systems -> Nat] : [f EXCEPT ![s] = @ + 1] \in [Systems -> Nat]
        OBVIOUS
      <4> HIDE DEF TypeOK
      <4> QED
        BY <4>1, <4>2
    <3>2. tried' = [tried EXCEPT ![q] = counted]
      BY <1>11 DEF SendGroupToQueue
    <3> QED
      BY <3>1, <3>2
  <2> QED
    BY <1>11, <2>2, <2>3, <2>4 DEF SendGroupToQueue
<1>12. ASSUME NEW s \in Systems, AddDataGroup(s) PROVE TypeOK'
  BY <1>12 DEF AddDataGroup
<1>13. CASE CrashReader
  <2>1. cmdQ' \in Seq(Commands)
    <3>1. PICK n \in 0 .. Len(cmdQ) : cmdQ' = SubSeq(cmdQ, n + 1, Len(cmdQ))
      BY <1>13 DEF CrashReader
    <3> QED
      BY <3>1, LostSuffix
  <2>2. /\ cache' \in [Systems -> Versions] /\ ver' \in [Systems -> Versions]
        /\ nextR' \in [Systems -> Nat \ {0}] /\ lastR' \in [Systems -> Nat]
    BY <1>13 DEF CrashReader
  <2>3. /\ base' \in [Queues -> [Systems -> Versions]]
        /\ tried' \in [Queues -> [Systems -> Nat]]
        /\ answers' \in [Queues -> [Systems -> SUBSET Versions]]
    BY <1>13 DEF CrashReader, Zero
  <2>4. crashes' \in 0 .. MaxCrashes
    BY <1>13 DEF CrashReader
  <2> QED
    BY <1>13, <2>1, <2>2, <2>3, <2>4 DEF CrashReader
<1>14. CASE UNCHANGED vars
  BY <1>14 DEF vars
<1> QED
  BY <1>1, <1>2, <1>3, <1>4, <1>5, <1>6, <1>7, <1>8, <1>9, <1>10, <1>11, <1>12, <1>13, <1>14
     DEF Next, PumpMain, CommandLoop, Sender

-----------------------------------------------------------------------------
\* A command names the queue to reply to.
LEMMA CommandTaken == ASSUME TypeOK, ListenToQueue PROVE Head(cmdQ).replyTo \in Queues
<1>1. Head(cmdQ) \in Commands
  BY TakenHead DEF TypeOK, ListenToQueue
<1> QED
  BY <1>1 DEF Commands

\* The list of receivers grows at its end, by a queue it does not hold.
LEMMA RecordStep ==
  ASSUME TypeOK, ListenToQueue
  PROVE  \/ UNCHANGED <<receivers, base>>
         \/ \E q \in Queues : /\ ~Recorded(q)
                              /\ receivers' = Append(receivers, q)
                              /\ base' = [base EXCEPT ![q] = ver]
<1>1. Head(cmdQ).replyTo \in Queues
  BY CommandTaken
<1> QED
  BY <1>1 DEF ListenToQueue, HandleSubscribeEnvelope, histVars

\* A queue recorded by an append, and those that were.
LEMMA AppendRecords ==
  ASSUME TypeOK, NEW q \in Queues, receivers' = Append(receivers, q)
  PROVE  /\ Len(receivers') = Len(receivers) + 1
         /\ receivers'[Len(receivers) + 1] = q
         /\ \A i \in 1 .. Len(receivers) : receivers'[i] = receivers[i]
         /\ \A r \in Queues : Recorded(r)' <=> (r = q \/ Recorded(r))
<1>1. /\ Len(receivers') = Len(receivers) + 1
      /\ receivers'[Len(receivers) + 1] = q
      /\ \A i \in 1 .. Len(receivers) : receivers'[i] = receivers[i]
  BY DEF TypeOK
<1>2. Len(receivers) \in Nat
  BY DEF TypeOK
<1>3. \A r \in Queues : Recorded(r)' => (r = q \/ Recorded(r))
  BY <1>1, <1>2 DEF Recorded
<1>4. \A r \in Queues : Recorded(r) => Recorded(r)'
  BY <1>1, <1>2 DEF Recorded
<1>5. Recorded(q)'
  <2>1. Len(receivers) + 1 \in 1 .. Len(receivers')
    BY <1>1, <1>2
  <2> QED
    BY <1>1, <2>1 DEF Recorded
<1> QED
  BY <1>1, <1>3, <1>4, <1>5

\* Noting an answer adds versions for the systems and the queue it is about.
LEMMA NoteStep ==
  ASSUME TypeOK, NEW q \in Queues, NEW S \in SUBSET Systems, NEW v \in Versions, Note(q, S, v),
         NEW r \in Queues, NEW s \in Systems
  PROVE  /\ ~Recorded(r) => answers'[r][s] = answers[r][s]
         /\ answers'[r][s] \subseteq answers[r][s] \cup (IF s \in S THEN {v} ELSE {})
<1>1. CASE Recorded(q) /\ r = q
  <2>1. answers'[r][s] = answers[r][s] \cup (IF s \in S THEN {v} ELSE {})
    BY <1>1 DEF TypeOK, Note
  <2> QED
    BY <1>1, <2>1
<1>2. CASE ~(Recorded(q) /\ r = q)
  <2>1. answers'[r][s] = answers[r][s]
    BY <1>2 DEF TypeOK, Note
  <2> QED
    BY <2>1
<1> QED
  BY <1>1, <1>2

CountInv == /\ BusInv
            /\ \A q \in Queues, s \in Systems : OnceAt(q, s) /\ MissesAt(q, s)

\* Steps that leave the receivers, the listeners and what is counted alone.
LEMMA OtherStep ==
  ASSUME CountInv, UNCHANGED <<receivers, listenVars, todo, histVars>>
  PROVE  CountInv'
BY DEF CountInv, BusInv, LoopsWithin, CacheBehind, NotCounted, BaseBehind, OnceAt, MissesAt,
   Recorded, Remaining, listenVars, histVars

\* A queue is recorded while listeners send.
LEMMA ListenStep ==
  ASSUME TypeOK, CountInv, ListenToQueue
  PROVE  CountInv'
<1>1. UNCHANGED <<listenVars, todo, tried, answers>>
  <2>1. Head(cmdQ).replyTo \in Queues
    BY CommandTaken
  <2> QED
    BY <2>1, SubscribeStep DEF ListenToQueue, histVars
<1>2. CASE UNCHANGED <<receivers, base>>
  BY <1>1, <1>2, OtherStep DEF histVars
<1>3. ASSUME NEW q \in Queues, ~Recorded(q), receivers' = Append(receivers, q),
             base' = [base EXCEPT ![q] = ver]
      PROVE  CountInv'
  <2>1. /\ Len(receivers) \in Nat
        /\ Len(receivers') = Len(receivers) + 1
        /\ receivers'[Len(receivers) + 1] = q
        /\ \A i \in 1 .. Len(receivers) : receivers'[i] = receivers[i]
        /\ \A r \in Queues : Recorded(r)' <=> (r = q \/ Recorded(r))
    <3>1. Len(receivers) \in Nat
      BY DEF TypeOK
    <3> QED
      BY <1>3, <3>1, AppendRecords
  <2>2. \A i \in 1 .. Len(receivers) : receivers'[i] # q
    BY <1>3, <2>1 DEF Recorded
  <2>3. LoopsWithin'
    <3>1. \A i, j \in 1 .. Len(receivers') : receivers'[i] = receivers'[j] => i = j
      BY <2>1, <2>2 DEF CountInv, BusInv, LoopsWithin
    <3>2. \A s \in Systems : lastR'[s] <= Len(receivers')
      BY <1>1, <2>1 DEF CountInv, BusInv, LoopsWithin, TypeOK, listenVars
    <3> QED
      BY <3>1, <3>2 DEF LoopsWithin
  <2>4. CacheBehind'
    BY <1>1 DEF CountInv, BusInv, CacheBehind, listenVars
  <2>5. NotCounted'
    BY <1>1, <2>1 DEF CountInv, BusInv, NotCounted
  <2>6. ASSUME NEW s \in Systems PROVE ver[s] \in Nat /\ cache[s] \in Nat /\ ver[s] <= cache[s] + 1
    <3>1. ver[s] \in Versions /\ cache[s] \in Versions
      BY <2>6 DEF TypeOK
    <3>2. ver[s] = cache[s] + (IF s \in uncached THEN 1 ELSE 0)
      BY <2>6 DEF CountInv, BusInv, CacheBehind
    <3> QED
      BY <3>1, <3>2, DataBusConstants DEF Versions
  <2>7. BaseBehind'
    BY <1>1, <1>3, <2>1, <2>6 DEF CountInv, BusInv, BaseBehind, TypeOK, listenVars
  <2>8. ASSUME NEW r \in Queues, NEW s \in Systems PROVE OnceAt(r, s)' /\ MissesAt(r, s)'
    <3>1. /\ nextR[s] \in Nat \ {0} /\ lastR[s] \in Nat /\ lastR[s] <= Len(receivers)
          /\ nextR'[s] = nextR[s] /\ lastR'[s] = lastR[s] /\ ver'[s] = ver[s]
      BY <1>1, <2>8 DEF CountInv, BusInv, LoopsWithin, TypeOK, listenVars
    <3>2. Remaining(s, r)' <=> Remaining(s, r)
      BY <2>1, <3>1 DEF Remaining
    <3>3. CASE r = q
      <4>1. ~Remaining(s, r)
        BY <2>1, <2>2, <3>1, <3>3 DEF Remaining
      <4>2. tried'[r][s] = 0 /\ answers'[r][s] = {} /\ base'[r][s] = ver[s]
        BY <1>1, <1>3, <2>8, <3>3 DEF CountInv, BusInv, NotCounted, TypeOK
      <4> QED
        BY <2>6, <3>1, <3>2, <4>1, <4>2 DEF OnceAt, MissesAt
    <3>4. CASE r # q
      <4>1. /\ tried'[r][s] = tried[r][s] /\ answers'[r][s] = answers[r][s]
            /\ base'[r][s] = base[r][s] /\ (Recorded(r)' <=> Recorded(r))
        BY <1>1, <1>3, <2>1, <2>8, <3>4 DEF TypeOK
      <4>2. OnceAt(r, s) /\ MissesAt(r, s)
        BY DEF CountInv
      <4> QED
        BY <3>1, <3>2, <4>1, <4>2 DEF OnceAt, MissesAt
    <3> QED
      BY <3>3, <3>4
  <2> QED
    BY <2>3, <2>4, <2>5, <2>7, <2>8 DEF CountInv, BusInv
<1> QED
  BY <1>2, <1>3, RecordStep

\* The command loop answers from the cache as it is by then.
LEMMA AnswerStep ==
  ASSUME TypeOK, CountInv, NEW q \in Queues, NEW S \in SUBSET Systems, NEW v \in Versions,
         Note(q, S, v), \A s \in S : v = cache[s],
         UNCHANGED <<receivers, listenVars, base, tried>>,
         \A s \in todo' : cache[s] > 0
  PROVE  CountInv'
<1>1. LoopsWithin' /\ BaseBehind'
  BY DEF CountInv, BusInv, LoopsWithin, BaseBehind, Recorded, listenVars
<1>2. CacheBehind'
  BY DEF CountInv, BusInv, CacheBehind, listenVars
<1>3. \A r \in Queues : Recorded(r)' <=> Recorded(r)
  BY DEF Recorded
<1>4. NotCounted'
  BY <1>3, NoteStep DEF CountInv, BusInv, NotCounted
<1>5. ASSUME NEW r \in Queues, NEW s \in Systems PROVE OnceAt(r, s)' /\ MissesAt(r, s)'
  <2>1. OnceAt(r, s)'
    BY DEF CountInv, OnceAt, Recorded, Remaining, listenVars
  <2>2. answers'[r][s] \subseteq answers[r][s] \cup (IF s \in S THEN {v} ELSE {})
    BY NoteStep
  <2>3. Recorded(r) => \A w \in answers'[r][s] : base[r][s] <= w + 1
    BY <2>2 DEF CountInv, BusInv, BaseBehind, MissesAt
  <2> QED
    BY <1>3, <2>1, <2>3 DEF MissesAt
<1> QED
  BY <1>1, <1>2, <1>4, <1>5 DEF CountInv, BusInv

\* A listener begins to send a group to the receivers there are.
LEMMA BeginStep ==
  ASSUME TypeOK, CountInv, NEW s \in Systems, BeginSendGroup(s)
  PROVE  CountInv'
<1>1. /\ nextR' = [nextR EXCEPT ![s] = 1] /\ lastR' = [lastR EXCEPT ![s] = Len(receivers)]
      /\ ver' = [ver EXCEPT ![s] = @ + 1] /\ uncached' = uncached \cup {s}
      /\ UNCHANGED <<receivers, cache, todo, base, tried, answers>>
      /\ nextR[s] > lastR[s] /\ s \notin uncached
  BY DEF BeginSendGroup, Idle, histVars, loopVars
<1>2. Len(receivers) \in Nat /\ \A r \in Queues : Recorded(r)' <=> Recorded(r)
  BY <1>1 DEF TypeOK, Recorded
<1>3. LoopsWithin'
  BY <1>1, <1>2 DEF CountInv, BusInv, LoopsWithin, TypeOK
<1>4. CacheBehind'
  <2>1. \A t \in Systems : nextR'[t] <= lastR'[t] => t \in uncached'
    BY <1>1 DEF CountInv, BusInv, CacheBehind, TypeOK
  <2>2. ASSUME NEW t \in Systems
        PROVE  ver'[t] = cache'[t] + (IF t \in uncached' THEN 1 ELSE 0)
    <3>1. ver[t] = cache[t] + (IF t \in uncached THEN 1 ELSE 0)
      BY DEF CountInv, BusInv, CacheBehind
    <3>2. ver[t] \in Nat /\ cache[t] \in Nat
      BY DEF TypeOK, Versions
    <3>3. ver'[t] = (IF t = s THEN ver[t] + 1 ELSE ver[t]) /\ cache'[t] = cache[t]
      BY <1>1 DEF TypeOK
    <3> QED
      BY <1>1, <3>1, <3>2, <3>3
  <2> QED
    BY <1>1, <2>1, <2>2 DEF CountInv, BusInv, CacheBehind
<1>5. NotCounted' /\ BaseBehind'
  BY <1>1, <1>2 DEF CountInv, BusInv, NotCounted, BaseBehind
<1>6. ASSUME NEW q \in Queues, NEW t \in Systems PROVE OnceAt(q, t)' /\ MissesAt(q, t)'
  <2>1. MissesAt(q, t)'
    BY <1>1, <1>2 DEF CountInv, MissesAt
  <2>2. CASE t = s
    <3>1. ~Remaining(s, q)
      BY <1>1 DEF Remaining, TypeOK
    <3>2. Remaining(s, q)' <=> Recorded(q)
      BY <1>1 DEF Remaining, Recorded, TypeOK
    <3>3. /\ tried[q][s] \in Nat /\ ver[s] \in Nat /\ base[q][s] \in Nat
          /\ ver'[s] = ver[s] + 1
      BY <1>1 DEF TypeOK, Versions
    <3>4. OnceAt(q, s)
      BY DEF CountInv
    <3> QED
      BY <1>1, <1>2, <2>1, <2>2, <3>1, <3>2, <3>3, <3>4 DEF OnceAt
  <2>3. CASE t # s
    <3>1. nextR'[t] = nextR[t] /\ lastR'[t] = lastR[t] /\ ver'[t] = ver[t]
      BY <1>1, <2>3 DEF TypeOK
    <3>2. Remaining(t, q)' <=> Remaining(t, q)
      BY <1>1, <3>1 DEF Remaining
    <3>3. OnceAt(q, t)
      BY DEF CountInv
    <3> QED
      BY <1>1, <1>2, <2>1, <3>1, <3>2, <3>3 DEF OnceAt
  <2> QED
    BY <2>2, <2>3
<1> QED
  BY <1>3, <1>4, <1>5, <1>6 DEF CountInv, BusInv

\* One send of a listener's loop, to a queue it comes to once only.
LEMMA SendStep ==
  ASSUME TypeOK, CountInv, NEW s \in Systems, SendGroupToQueue(s)
  PROVE  CountInv'
<1> DEFINE q == receivers[nextR[s]]
<1>1. /\ nextR' = [nextR EXCEPT ![s] = @ + 1]
      /\ tried' = [tried EXCEPT ![q][s] = @ + 1]
      /\ UNCHANGED <<receivers, cache, ver, lastR, uncached, todo, base, answers>>
      /\ nextR[s] <= lastR[s]
  BY DEF SendGroupToQueue, loopVars
<1>2. /\ nextR[s] \in Nat \ {0} /\ lastR[s] \in Nat /\ Len(receivers) \in Nat
      /\ lastR[s] <= Len(receivers)
  BY DEF TypeOK, CountInv, BusInv, LoopsWithin
<1>3. nextR[s] \in 1 .. Len(receivers) /\ q \in Queues /\ Recorded(q)
  <2>1. nextR[s] \in 1 .. Len(receivers)
    BY <1>1, <1>2
  <2>2. q \in Queues
    BY <2>1 DEF TypeOK
  <2> QED
    BY <2>1, <2>2 DEF Recorded
<1>4. \A r \in Queues : Recorded(r)' <=> Recorded(r)
  BY <1>1 DEF Recorded
<1>5. LoopsWithin' /\ BaseBehind'
  BY <1>1, <1>4 DEF CountInv, BusInv, LoopsWithin, BaseBehind
<1>6. CacheBehind'
  BY <1>1, <1>2 DEF CountInv, BusInv, CacheBehind, TypeOK
<1>7. /\ tried'[q][s] = tried[q][s] + 1
      /\ \A r \in Queues, t \in Systems : r # q \/ t # s => tried'[r][t] = tried[r][t]
  BY <1>1, <1>3 DEF TypeOK
<1>8. NotCounted'
  BY <1>1, <1>3, <1>4, <1>7 DEF CountInv, BusInv, NotCounted
<1>9. ASSUME NEW r \in Queues, NEW t \in Systems PROVE OnceAt(r, t)' /\ MissesAt(r, t)'
  <2>1. MissesAt(r, t)'
    BY <1>1, <1>4 DEF CountInv, MissesAt
  <2>2. OnceAt(r, t)
    BY DEF CountInv
  <2>3. CASE r = q /\ t = s
    <3>1. Remaining(s, r)
      BY <1>1, <1>2, <2>3 DEF Remaining
    <3>2. ~Remaining(s, r)'
      <4>1. \A i \in (nextR[s] + 1) .. lastR[s] : receivers[i] # r
        BY <1>2, <1>3, <2>3 DEF CountInv, BusInv, LoopsWithin
      <4>2. nextR'[s] = nextR[s] + 1 /\ lastR'[s] = lastR[s] /\ receivers' = receivers
        BY <1>1 DEF TypeOK
      <4> QED
        BY <4>1, <4>2 DEF Remaining
    <3>3. tried[r][s] \in Nat /\ ver[s] \in Nat /\ base[r][s] \in Nat
      BY DEF TypeOK, Versions
    <3>4. tried'[r][s] = tried[r][s] + 1
      BY <1>7, <2>3
    <3> HIDE DEF q
    <3> QED
      BY <1>1, <1>4, <2>1, <2>2, <2>3, <3>1, <3>2, <3>3, <3>4 DEF OnceAt
  <2>4. CASE ~(r = q /\ t = s)
    <3>1. Remaining(t, r)' <=> Remaining(t, r)
      <4>1. CASE t # s
        BY <1>1, <4>1 DEF Remaining, TypeOK
      <4>2. CASE t = s /\ r # q
        <5>1. nextR'[s] = nextR[s] + 1 /\ lastR'[s] = lastR[s] /\ receivers' = receivers
          BY <1>1 DEF TypeOK
        <5> QED
          BY <1>2, <4>2, <5>1 DEF Remaining
      <4> QED
        BY <2>4, <4>1, <4>2
    <3> QED
      BY <1>1, <1>4, <1>7, <2>1, <2>2, <2>4, <3>1 DEF OnceAt
  <2> QED
    BY <2>3, <2>4
<1> QED
  BY <1>5, <1>6, <1>8, <1>9 DEF CountInv, BusInv

\* The group sent becomes the cached one.
LEMMA CacheStep ==
  ASSUME TypeOK, CountInv, NEW s \in Systems, AddDataGroup(s)
  PROVE  CountInv'
<1>1. /\ s \in uncached /\ nextR[s] > lastR[s]
      /\ cache' = [cache EXCEPT ![s] = ver[s]] /\ uncached' = uncached \ {s}
      /\ UNCHANGED <<receivers, ver, nextR, lastR, todo, base, tried, answers>>
  BY DEF AddDataGroup, loopVars, histVars
<1>2. \A t \in Systems : cache[t] \in Nat /\ ver[t] \in Nat /\ cache'[t] >= cache[t] /\ cache'[t] \in Nat
  <2> SUFFICES ASSUME NEW t \in Systems
               PROVE  /\ cache[t] \in Nat /\ ver[t] \in Nat
                      /\ cache'[t] >= cache[t] /\ cache'[t] \in Nat
    OBVIOUS
  <2>1. cache[t] \in Nat /\ ver[t] \in Nat
    BY DEF TypeOK, Versions
  <2>2. ver[t] = cache[t] + (IF t \in uncached THEN 1 ELSE 0)
    BY DEF CountInv, BusInv, CacheBehind
  <2>3. cache'[t] = IF t = s THEN ver[t] ELSE cache[t]
    BY <1>1 DEF TypeOK
  <2> QED
    BY <2>1, <2>2, <2>3
<1>3. \A r \in Queues : Recorded(r)' <=> Recorded(r)
  BY <1>1 DEF Recorded
<1>4. LoopsWithin' /\ NotCounted'
  BY <1>1, <1>3 DEF CountInv, BusInv, LoopsWithin, NotCounted
<1>5. CacheBehind'
  <2>1. \A t \in Systems : nextR'[t] <= lastR'[t] => t \in uncached'
    BY <1>1 DEF CountInv, BusInv, CacheBehind, TypeOK
  <2>2. ASSUME NEW t \in Systems
        PROVE  ver'[t] = cache'[t] + (IF t \in uncached' THEN 1 ELSE 0)
    <3>1. ver[t] = cache[t] + (IF t \in uncached THEN 1 ELSE 0)
      BY DEF CountInv, BusInv, CacheBehind
    <3>2. cache'[t] = (IF t = s THEN ver[t] ELSE cache[t]) /\ ver'[t] = ver[t]
      BY <1>1 DEF TypeOK
    <3> QED
      BY <1>1, <1>2, <3>1, <3>2
  <2>3. \A t \in todo' : cache'[t] > 0
    BY <1>1, <1>2 DEF CountInv, BusInv, CacheBehind, TypeOK
  <2> QED
    BY <2>1, <2>2, <2>3 DEF CacheBehind
<1>6. BaseBehind'
  <2>1. \A r \in Queues, t \in Systems : base[r][t] \in Nat
    BY DEF TypeOK, Versions
  <2> QED
    BY <1>1, <1>2, <1>3, <2>1 DEF CountInv, BusInv, BaseBehind
<1>7. ASSUME NEW r \in Queues, NEW t \in Systems PROVE OnceAt(r, t)' /\ MissesAt(r, t)'
  BY <1>1, <1>3 DEF CountInv, OnceAt, MissesAt, Remaining
<1> QED
  BY <1>4, <1>5, <1>6, <1>7 DEF CountInv, BusInv

\* A process without receivers and groups owes nobody anything.
LEMMA EmptyBus ==
  ASSUME ReaderInit
  PROVE  CountInv
<1>1. \A q \in Queues : ~Recorded(q)
  BY DEF ReaderInit, Recorded
<1> QED
  BY <1>1 DEF ReaderInit, CountInv, BusInv, LoopsWithin, CacheBehind, NotCounted, BaseBehind,
     OnceAt, MissesAt, Zero

\* A crash of redfishread empties the bus.
LEMMA CrashStep ==
  ASSUME CrashReader
  PROVE  CountInv'
<1>1. \A q \in Queues : ~Recorded(q)'
  BY DEF CrashReader, Recorded
<1>2. LoopsWithin' /\ CacheBehind'
  BY DEF CrashReader, LoopsWithin, CacheBehind
<1>3. NotCounted' /\ BaseBehind'
  BY <1>1 DEF CrashReader, NotCounted, BaseBehind, Zero
<1>4. \A q \in Queues, s \in Systems : OnceAt(q, s)' /\ MissesAt(q, s)'
  BY <1>1 DEF OnceAt, MissesAt
<1> QED
  BY <1>2, <1>3, <1>4 DEF CountInv, BusInv

\* Every step keeps the count of every queue and system.
LEMMA CountStep ==
  ASSUME TypeOK, CountInv, [Next]_vars
  PROVE  CountInv'
<1>1. ASSUME NEW p \in Pumps, Subscribe(p) \/ Get(p) \/ GetGroup(p) \/ CrashPump(p)
      PROVE  CountInv'
  BY <1>1, OtherStep DEF Subscribe, Get, GetGroup, CrashPump, loopVars
<1>2. CASE Reply \/ Replied \/ UNCHANGED vars
  BY <1>2, OtherStep DEF Reply, Replied, vars, loopVars
<1>3. CASE TakeCommand
  <2>1. CASE pending[1].type = "GET"
    <3>1. pending[1].replyTo \in Queues
      <4>1. pending[1] \in Commands
        BY <1>3, TakenHead DEF TakeCommand, TypeOK
      <4> QED
        BY <4>1 DEF Commands
    <3>2. /\ Note(pending[1].replyTo, {s \in Systems : cache[s] = 0}, 0)
          /\ UNCHANGED <<receivers, listenVars, base, tried>>
          /\ todo' = {s \in Systems : cache[s] > 0}
      BY <1>3, <2>1 DEF TakeCommand
    <3>3. 0 \in Versions
      BY DataBusConstants DEF Versions
    <3> QED
      BY <3>1, <3>2, <3>3, AnswerStep
  <2>2. CASE pending[1].type # "GET"
    BY <1>3, <2>2, OtherStep DEF TakeCommand, histVars
  <2> QED
    BY <2>1, <2>2
<1>4. ASSUME NEW s \in Systems, ReadCached(s) PROVE CountInv'
  <2>1. /\ Note(asker, {s}, cache[s]) /\ asker \in Queues /\ cache[s] \in Versions
        /\ UNCHANGED <<receivers, listenVars, base, tried>>
        /\ todo' = todo \ {s}
    BY <1>4 DEF ReadCached, TypeOK
  <2>2. \A t \in todo' : cache[t] > 0
    BY <2>1 DEF CountInv, BusInv, CacheBehind
  <2> QED
    BY <2>1, <2>2, AnswerStep
<1> QED
  BY <1>1, <1>2, <1>3, <1>4, ListenStep, BeginStep, SendStep, CacheStep, CrashStep
     DEF Next, PumpMain, CommandLoop, Sender

-----------------------------------------------------------------------------
\* The inductive invariant: types, and the count of every queue and system.
THEOREM BusInvariant == Spec => [](TypeOK /\ CountInv)
<1>1. Init => TypeOK /\ CountInv
  <2> SUFFICES ASSUME Init PROVE TypeOK /\ CountInv
    OBVIOUS
  <2>1. CountInv
    BY EmptyBus DEF Init
  <2>2. /\ cmdQ \in Seq(Commands) /\ queues \in [Queues -> Seq(Envelopes)]
        /\ receivers \in Seq(Queues)
        /\ pending \in Seq(Commands) /\ Len(pending) <= 1
        /\ reply \in Seq(Envelopes) /\ Len(reply) <= 1
    BY DEF Init, ReaderInit
  <2>3. /\ cache \in [Systems -> Versions] /\ ver \in [Systems -> Versions]
        /\ nextR \in [Systems -> Nat \ {0}] /\ lastR \in [Systems -> Nat]
        /\ pump \in [Pumps -> {"start", "subscribed", "running"}]
        /\ got \in [Pumps -> [Systems -> Versions]]
    BY DataBusConstants DEF Init, ReaderInit, Versions
  <2>4. /\ base \in [Queues -> [Systems -> Versions]]
        /\ tried \in [Queues -> [Systems -> Nat]]
        /\ answers \in [Queues -> [Systems -> SUBSET Versions]]
    BY DataBusConstants DEF Init, ReaderInit, Versions, Zero
  <2>5. /\ asker \in Queues \cup {None} /\ todo \subseteq Systems /\ uncached \subseteq Systems
        /\ crashes \in 0 .. MaxCrashes /\ (asker = None => todo = {} /\ reply = <<>>)
    BY DataBusConstants DEF Init, ReaderInit
  <2> QED
    BY <2>1, <2>2, <2>3, <2>4, <2>5 DEF TypeOK
<1>2. TypeOK /\ CountInv /\ [Next]_vars => TypeOK' /\ CountInv'
  BY TypeStep, CountStep DEF CountInv
<1> QED
  BY <1>1, <1>2, PTL DEF Spec

\* Every variable keeps to its type: an answer is never sent to nobody and a
\* group on a queue has always been made by a listener.
THEOREM TypeCorrect == Spec => []TypeOK
BY BusInvariant, PTL

\* Every group begun after SUBSCRIBE is sent once to the queue, whatever
\* subscriptions, failed sends and crashes interleave with the loops.
THEOREM GroupsSentOnce == Spec => []EveryGroupOnce
<1>1. CountInv => EveryGroupOnce
  BY DEF CountInv, OnceAt, EveryGroupOnce
<1> QED
  BY <1>1, BusInvariant, PTL

\* A subscriber that asks for the current groups misses at most the one that
\* was on its way when its queue was recorded.
THEOREM BoundedGap == Spec => []MissesAtMostOne
<1>1. CountInv => MissesAtMostOne
  BY DEF CountInv, MissesAt, MissesAtMostOne
<1> QED
  BY <1>1, BusInvariant, PTL

-----------------------------------------------------------------------------
(* Groups arrive in order. *)

\* The command loop sends answers to GET, which no pump is handed.
RepliesAreGets == reply # <<>> => reply[1].type = "GET"

\* What waits on a queue, or has been handed to its pumps, is what was sent.
ArriveAt(q, s) ==
  /\ InOrder(queues[q], s)
  /\ \A v \in 1 .. MaxGroups : Waits(queues[q], s, v) => ~Handed(q, s, v)
  /\ \A v \in 1 .. MaxGroups :
       Waits(queues[q], s, v) \/ Handed(q, s, v) => v <= SentTo(q, s)
  /\ Recorded(q) /\ ~SendsFail =>
       \A v \in (base[q][s] + 1) .. SentTo(q, s) : Waits(queues[q], s, v) \/ Handed(q, s, v)

ArriveInv ==
  /\ RepliesAreGets
  /\ crashes = 0 => \A q \in Queues, s \in Systems : ArriveAt(q, s)

-----------------------------------------------------------------------------
\* What waits on a queue after a send.
LEMMA Appended ==
  ASSUME NEW w \in Seq(Envelopes), NEW e \in Envelopes, NEW s
  PROVE  /\ \A v : Waits(Append(w, e), s, v)
                     <=> Waits(w, s, v) \/ (e.type = "DATAGROUP" /\ e.sys = s /\ e.ver = v)
         /\ InOrder(w, s)
              /\ (e.type = "DATAGROUP" /\ e.sys = s => \A v \in 1 .. MaxGroups : Waits(w, s, v) => v < e.ver)
              => InOrder(Append(w, e), s)
<1> DEFINE u == Append(w, e)
<1>1. /\ Len(w) \in Nat /\ Len(u) = Len(w) + 1 /\ u[Len(w) + 1] = e
      /\ \A i \in 1 .. Len(w) : u[i] = w[i]
  BY AppendProperties
<1> HIDE DEF u
<1>2. ASSUME NEW v
      PROVE  Waits(u, s, v) <=> Waits(w, s, v) \/ (e.type = "DATAGROUP" /\ e.sys = s /\ e.ver = v)
  <2>1. ASSUME Waits(u, s, v)
        PROVE  Waits(w, s, v) \/ (e.type = "DATAGROUP" /\ e.sys = s /\ e.ver = v)
    <3>1. PICK i \in 1 .. Len(u) : GroupAt(u, i, s) /\ u[i].ver = v
      BY <2>1 DEF Waits
    <3>2. CASE i = Len(w) + 1
      BY <1>1, <3>1, <3>2 DEF GroupAt
    <3>3. CASE i \in 1 .. Len(w)
      <4>1. u[i] = w[i]
        BY <1>1, <3>3
      <4> QED
        BY <3>1, <3>3, <4>1 DEF GroupAt, Waits
    <3> QED
      BY <1>1, <3>2, <3>3
  <2>2. ASSUME Waits(w, s, v) PROVE Waits(u, s, v)
    <3>1. PICK i \in 1 .. Len(w) : GroupAt(w, i, s) /\ w[i].ver = v
      BY <2>2 DEF Waits
    <3>2. i \in 1 .. Len(u) /\ u[i] = w[i]
      BY <1>1
    <3> QED
      BY <3>1, <3>2 DEF GroupAt, Waits
  <2>3. ASSUME e.type = "DATAGROUP", e.sys = s, e.ver = v PROVE Waits(u, s, v)
    <3>1. Len(w) + 1 \in 1 .. Len(u)
      BY <1>1
    <3> QED
      BY <1>1, <2>3, <3>1 DEF GroupAt, Waits
  <2> QED
    BY <2>1, <2>2, <2>3
<1>3. ASSUME InOrder(w, s),
             e.type = "DATAGROUP" /\ e.sys = s => \A v \in 1 .. MaxGroups : Waits(w, s, v) => v < e.ver
      PROVE  InOrder(u, s)
  <2> SUFFICES ASSUME NEW i \in 1 .. Len(u), NEW j \in 1 .. Len(u), i < j,
                      GroupAt(u, i, s), GroupAt(u, j, s)
               PROVE  u[i].ver < u[j].ver
    BY DEF InOrder
  <2>1. i \in 1 .. Len(w) /\ u[i] = w[i]
    BY <1>1
  <2>2. CASE j = Len(w) + 1
    <3>1. e.type = "DATAGROUP" /\ e.sys = s
      BY <1>1, <2>2 DEF GroupAt
    <3>2. Waits(w, s, w[i].ver)
      BY <2>1 DEF Waits, GroupAt
    <3>3. w[i].ver \in 1 .. MaxGroups
      <4>1. w[i] \in Envelopes
        BY <2>1
      <4> QED
        BY <4>1 DEF Envelopes
    <3> QED
      BY <1>1, <1>3, <2>1, <2>2, <3>1, <3>2, <3>3
  <2>3. CASE j \in 1 .. Len(w)
    <3>1. u[j] = w[j]
      BY <1>1, <2>3
    <3> QED
      BY <1>3, <2>1, <2>3, <3>1 DEF InOrder, GroupAt
  <2> QED
    BY <1>1, <2>2, <2>3
<1> QED
  BY <1>2, <1>3 DEF u

\* What waits on a queue after its first envelope was taken.
LEMMA TakenOff ==
  ASSUME NEW w \in Seq(Envelopes), w # <<>>, NEW s, InOrder(w, s)
  PROVE  /\ InOrder(Tail(w), s)
         /\ \A v : Waits(Tail(w), s, v) => Waits(w, s, v)
         /\ \A v : Waits(w, s, v) => Waits(Tail(w), s, v) \/ (GroupAt(w, 1, s) /\ w[1].ver = v)
         /\ GroupAt(w, 1, s) => \A v : Waits(Tail(w), s, v) => w[1].ver < v
<1> DEFINE u == Tail(w)
<1>1. /\ Len(w) \in Nat /\ Len(w) >= 1 /\ Len(u) = Len(w) - 1
      /\ \A i \in 1 .. Len(u) : u[i] = w[i + 1]
  BY HeadTailProperties, EmptySeq
<1> HIDE DEF u
<1>2. InOrder(u, s)
  <2> SUFFICES ASSUME NEW i \in 1 .. Len(u), NEW j \in 1 .. Len(u), i < j,
                      GroupAt(u, i, s), GroupAt(u, j, s)
               PROVE  u[i].ver < u[j].ver
    BY DEF InOrder
  <2>1. /\ i + 1 \in 1 .. Len(w) /\ j + 1 \in 1 .. Len(w) /\ i + 1 < j + 1
        /\ u[i] = w[i + 1] /\ u[j] = w[j + 1]
    BY <1>1
  <2> QED
    BY <2>1 DEF InOrder, GroupAt
<1>3. ASSUME NEW v, Waits(u, s, v)
      PROVE  Waits(w, s, v) /\ (GroupAt(w, 1, s) => w[1].ver < v)
  <2>1. PICK i \in 1 .. Len(u) : GroupAt(u, i, s) /\ u[i].ver = v
    BY <1>3 DEF Waits
  <2>2. /\ i + 1 \in 1 .. Len(w) /\ 1 \in 1 .. Len(w) /\ 1 < i + 1
        /\ u[i] = w[i + 1]
    BY <1>1
  <2>3. GroupAt(w, i + 1, s) /\ w[i + 1].ver = v
    BY <2>1, <2>2 DEF GroupAt
  <2> QED
    BY <2>2, <2>3 DEF Waits, InOrder
<1>4. ASSUME NEW v, Waits(w, s, v)
      PROVE  Waits(u, s, v) \/ (GroupAt(w, 1, s) /\ w[1].ver = v)
  <2>1. PICK i \in 1 .. Len(w) : GroupAt(w, i, s) /\ w[i].ver = v
    BY <1>4 DEF Waits
  <2>2. CASE i = 1
    BY <2>1, <2>2
  <2>3. CASE i # 1
    <3>1. PICK k \in 1 .. Len(u) : i = k + 1
      <4>1. i - 1 \in 1 .. Len(u) /\ i = (i - 1) + 1
        BY <1>1, <2>3
      <4> QED
        BY <4>1
    <3>2. u[k] = w[i]
      BY <1>1, <3>1
    <3> QED
      BY <2>1, <3>2 DEF Waits, GroupAt
  <2> QED
    BY <2>2, <2>3
<1> QED
  BY <1>2, <1>3, <1>4 DEF u

-----------------------------------------------------------------------------
LEMMA SentToType ==
  ASSUME TypeOK, CountInv, NEW q \in Queues, NEW s \in Systems
  PROVE  /\ SentTo(q, s) \in 0 .. MaxGroups
         /\ SentTo(q, s) = IF Remaining(s, q) THEN ver[s] - 1 ELSE ver[s]
<1>1. ver[s] \in Nat /\ cache[s] \in Nat /\ ver[s] <= MaxGroups /\ nextR[s] \in Nat /\ lastR[s] \in Nat
  BY DataBusConstants DEF TypeOK, Versions
<1>2. Remaining(s, q) => ver[s] = cache[s] + 1
  <2>1. Remaining(s, q) => s \in uncached
    BY <1>1 DEF Remaining, CountInv, BusInv, CacheBehind
  <2> QED
    BY <2>1 DEF CountInv, BusInv, CacheBehind
<1> QED
  BY <1>1, <1>2, DataBusConstants DEF SentTo

\* Steps that leave the queues, the listeners' loops and the pumps' groups alone.
LEMMA StillArrived ==
  ASSUME ArriveInv, UNCHANGED <<queues, got, ver, nextR, lastR, receivers, base, crashes>>,
         RepliesAreGets'
  PROVE  ArriveInv'
<1>1. ASSUME NEW q \in Queues, NEW s \in Systems, ArriveAt(q, s) PROVE ArriveAt(q, s)'
  <2>1. /\ Remaining(s, q)' <=> Remaining(s, q)
        /\ Recorded(q)' <=> Recorded(q)
        /\ \A v : Waits(queues[q], s, v)' <=> Waits(queues[q], s, v)
        /\ \A v : Handed(q, s, v)' <=> Handed(q, s, v)
        /\ InOrder(queues[q], s)' <=> InOrder(queues[q], s)
    BY DEF Remaining, Recorded, Waits, Handed, InOrder, GroupAt
  <2>2. SentTo(q, s)' = SentTo(q, s)
    BY <2>1 DEF SentTo
  <2> QED
    BY <1>1, <2>1, <2>2 DEF ArriveAt
<1> QED
  BY <1>1 DEF ArriveInv

\* A queue is recorded when everything begun so far is none of its business.
LEMMA RecordArrive ==
  ASSUME TypeOK, CountInv, ArriveInv, ListenToQueue
  PROVE  ArriveInv'
<1>1. UNCHANGED <<queues, got, ver, nextR, lastR, crashes, reply>>
  BY DEF ListenToQueue, listenVars, pumpVars
<1>2. RepliesAreGets'
  BY <1>1 DEF ArriveInv, RepliesAreGets
<1>3. CASE UNCHANGED <<receivers, base>>
  BY <1>1, <1>2, <1>3, StillArrived
<1>4. ASSUME NEW r \in Queues, ~Recorded(r), receivers' = Append(receivers, r),
             base' = [base EXCEPT ![r] = ver]
      PROVE  ArriveInv'
  <2>1. /\ Len(receivers) \in Nat
        /\ \A i \in 1 .. Len(receivers) : receivers'[i] = receivers[i]
        /\ \A q \in Queues : Recorded(q)' <=> (q = r \/ Recorded(q))
    <3>1. Len(receivers) \in Nat
      BY DEF TypeOK
    <3> QED
      BY <1>4, <3>1, AppendRecords
  <2>2. ASSUME NEW q \in Queues, NEW s \in Systems, ArriveAt(q, s) PROVE ArriveAt(q, s)'
    <3>1. nextR[s] \in Nat \ {0} /\ lastR[s] \in Nat /\ lastR[s] <= Len(receivers)
      BY DEF TypeOK, CountInv, BusInv, LoopsWithin
    <3>2. Remaining(s, q)' <=> Remaining(s, q)
      BY <1>1, <2>1, <3>1 DEF Remaining
    <3>3. /\ SentTo(q, s)' = SentTo(q, s)
          /\ \A v : Waits(queues[q], s, v)' <=> Waits(queues[q], s, v)
          /\ \A v : Handed(q, s, v)' <=> Handed(q, s, v)
          /\ InOrder(queues[q], s)' <=> InOrder(queues[q], s)
      BY <1>1, <3>2 DEF SentTo, Waits, Handed, InOrder, GroupAt
    <3>4. CASE q = r
      <4>1. base'[q][s] = ver[s] /\ SentTo(q, s) <= ver[s] /\ ver[s] \in Nat
        <5>1. base'[q][s] = ver[s] /\ ver[s] \in Nat
          BY <1>4, <3>4 DEF TypeOK, Versions
        <5>2. SentTo(q, s) = IF Remaining(s, q) THEN ver[s] - 1 ELSE ver[s]
          BY SentToType
        <5> QED
          BY <5>1, <5>2
      <4>2. (base'[q][s] + 1) .. SentTo(q, s) = {}
        BY <4>1, SentToType
      <4> QED
        BY <2>2, <3>3, <4>2 DEF ArriveAt
    <3>5. CASE q # r
      <4>1. base'[q][s] = base[q][s] /\ (Recorded(q)' <=> Recorded(q))
        BY <1>4, <2>1, <3>5 DEF TypeOK
      <4> QED
        BY <2>2, <3>3, <4>1 DEF ArriveAt
    <3> QED
      BY <3>4, <3>5
  <2> QED
    BY <1>1, <1>2, <2>2 DEF ArriveInv
<1> QED
  BY <1>3, <1>4, RecordStep

\* A new group is to be sent to every recorded queue.
LEMMA BeginArrive ==
  ASSUME TypeOK, CountInv, ArriveInv, NEW t \in Systems, BeginSendGroup(t)
  PROVE  ArriveInv'
<1>1. /\ UNCHANGED <<queues, got, receivers, base, crashes, reply>>
      /\ nextR' = [nextR EXCEPT ![t] = 1] /\ lastR' = [lastR EXCEPT ![t] = Len(receivers)]
      /\ ver' = [ver EXCEPT ![t] = @ + 1] /\ nextR[t] > lastR[t]
  BY DEF BeginSendGroup, Idle, histVars, loopVars, pumpVars
<1>2. RepliesAreGets'
  BY <1>1 DEF ArriveInv, RepliesAreGets
<1>3. ASSUME NEW q \in Queues, NEW s \in Systems, ArriveAt(q, s) PROVE ArriveAt(q, s)'
  <2>1. /\ \A v : Waits(queues[q], s, v)' <=> Waits(queues[q], s, v)
        /\ \A v : Handed(q, s, v)' <=> Handed(q, s, v)
        /\ InOrder(queues[q], s)' <=> InOrder(queues[q], s)
        /\ Recorded(q)' <=> Recorded(q)
    BY <1>1 DEF Waits, Handed, InOrder, GroupAt, Recorded
  <2>2. CASE s = t
    <3>1. ~Remaining(s, q)
      BY <1>1, <2>2 DEF Remaining, TypeOK
    <3>2. Remaining(s, q)' <=> Recorded(q)
      BY <1>1, <2>2 DEF Remaining, Recorded, TypeOK
    <3>3. ver[s] \in Nat /\ ver'[s] = ver[s] + 1 /\ SentTo(q, s) = ver[s]
      <4>1. ver[s] \in Nat /\ ver'[s] = ver[s] + 1
        BY <1>1, <2>2 DEF TypeOK, Versions
      <4>2. SentTo(q, s) = IF Remaining(s, q) THEN ver[s] - 1 ELSE ver[s]
        BY SentToType
      <4> QED
        BY <3>1, <4>1, <4>2
    <3>4. SentTo(q, s)' = IF Recorded(q) THEN SentTo(q, s) ELSE SentTo(q, s) + 1
      BY <3>2, <3>3 DEF SentTo
    <3> QED
      BY <1>1, <1>3, <2>1, <3>3, <3>4 DEF ArriveAt
  <2>3. CASE s # t
    <3>1. nextR'[s] = nextR[s] /\ lastR'[s] = lastR[s] /\ ver'[s] = ver[s]
      BY <1>1, <2>3 DEF TypeOK
    <3>2. Remaining(s, q)' <=> Remaining(s, q)
      BY <1>1, <3>1 DEF Remaining
    <3>3. SentTo(q, s)' = SentTo(q, s)
      BY <3>1, <3>2 DEF SentTo
    <3> QED
      BY <1>1, <1>3, <2>1, <3>3 DEF ArriveAt
  <2> QED
    BY <2>2, <2>3
<1> QED
  BY <1>1, <1>2, <1>3 DEF ArriveInv

\* One send of a listener's loop: the group is newer than all on the queue.
LEMMA SendArrive ==
  ASSUME TypeOK, CountInv, ArriveInv, NEW t \in Systems, SendGroupToQueue(t)
  PROVE  ArriveInv'
<1> PICK r : r = receivers[nextR[t]]
  OBVIOUS
<1>1. /\ UNCHANGED <<got, receivers, ver, lastR, base, crashes, reply>>
      /\ nextR' = [nextR EXCEPT ![t] = @ + 1] /\ nextR[t] <= lastR[t]
      /\ Deliver(t, r) \/ (SendsFail /\ UNCHANGED queues)
  BY DEF SendGroupToQueue, loopVars, pumpVars
<1>2. /\ nextR[t] \in Nat \ {0} /\ lastR[t] \in Nat /\ Len(receivers) \in Nat
      /\ lastR[t] <= Len(receivers)
  BY DEF TypeOK, CountInv, BusInv, LoopsWithin
<1>3. r \in Queues /\ Remaining(t, r)
  <2>1. nextR[t] \in 1 .. Len(receivers)
    BY <1>1, <1>2
  <2>2. nextR[t] \in nextR[t] .. lastR[t]
    BY <1>1, <1>2
  <2>3. receivers[nextR[t]] \in Queues
    BY <2>1 DEF TypeOK
  <2> QED
    BY <2>2, <2>3 DEF Remaining
<1>4. ~Remaining(t, r)'
  <2>1. \A i \in (nextR[t] + 1) .. lastR[t] : receivers[i] # r
    BY <1>1, <1>2 DEF CountInv, BusInv, LoopsWithin
  <2>2. nextR'[t] = nextR[t] + 1 /\ lastR'[t] = lastR[t] /\ receivers' = receivers
    BY <1>1 DEF TypeOK
  <2> QED
    BY <2>1, <2>2 DEF Remaining
<1> PICK n \in 1 .. MaxGroups : n = ver[t]
  <2>1. ver[t] \in Nat /\ ver[t] <= MaxGroups
    BY DataBusConstants DEF TypeOK, Versions
  <2>2. ver[t] - 1 \in 0 .. MaxGroups
    BY <1>3, SentToType
  <2> QED
    BY <2>1, <2>2, DataBusConstants
<1>5. RepliesAreGets'
  BY <1>1 DEF ArriveInv, RepliesAreGets
<1>6. ASSUME NEW q \in Queues, NEW s \in Systems, ~(q = r /\ s = t), ArriveAt(q, s)
      PROVE  ArriveAt(q, s)'
  <2>1. Remaining(s, q)' <=> Remaining(s, q)
    <3>1. CASE s # t
      BY <1>1, <3>1 DEF Remaining, TypeOK
    <3>2. CASE s = t /\ q # r
      <4>1. nextR'[s] = nextR[s] + 1 /\ lastR'[s] = lastR[s] /\ receivers' = receivers
        BY <1>1, <3>2 DEF TypeOK
      <4> QED
        BY <1>2, <3>2, <4>1 DEF Remaining
    <3> QED
      BY <1>6, <3>1, <3>2
  <2>2. SentTo(q, s)' = SentTo(q, s)
    BY <1>1, <2>1 DEF SentTo
  <2>3. /\ \A v : Handed(q, s, v)' <=> Handed(q, s, v)
        /\ Recorded(q)' <=> Recorded(q)
    BY <1>1 DEF Handed, Recorded
  <2>4. /\ \A v : Waits(queues[q], s, v)' <=> Waits(queues[q], s, v)
        /\ InOrder(queues[q], s) => InOrder(queues[q], s)'
    <3>1. CASE queues'[q] = queues[q]
      BY <3>1 DEF Waits, InOrder, GroupAt
    <3>2. CASE queues'[q] # queues[q]
      <4>1. q = r /\ s # t /\ Deliver(t, r)
        BY <1>1, <1>6, <3>2 DEF Deliver, TypeOK
      <4> DEFINE e == [type |-> "DATAGROUP", sys |-> t, ver |-> n]
      <4>2. queues'[q] = Append(queues[q], e) /\ queues[q] \in Seq(Envelopes)
        BY <4>1 DEF Deliver, TypeOK
      <4>3. e \in Envelopes /\ e.sys # s
        BY <4>1 DEF Envelopes
      <4> HIDE DEF e
      <4>4. /\ \A v : Waits(Append(queues[q], e), s, v) <=> Waits(queues[q], s, v)
            /\ InOrder(queues[q], s) => InOrder(Append(queues[q], e), s)
        BY <4>2, <4>3, Appended
      <4> PICK w : w = queues'[q]
        OBVIOUS
      <4>5. /\ \A v : Waits(queues[q], s, v)' <=> Waits(w, s, v)
            /\ InOrder(queues[q], s)' <=> InOrder(w, s)
        BY DEF Waits, InOrder, GroupAt
      <4> QED
        BY <4>2, <4>4, <4>5
    <3> QED
      BY <3>1, <3>2
  <2> QED
    BY <1>1, <1>6, <2>2, <2>3, <2>4 DEF ArriveAt
<1>7. ASSUME ArriveAt(r, t) PROVE ArriveAt(r, t)'
  <2>2. SentTo(r, t) = n - 1 /\ SentTo(r, t)' = n
    <3>1. SentTo(r, t) = n - 1
      BY <1>3, SentToType
    <3>2. SentTo(r, t)' = n
      BY <1>1, <1>4 DEF SentTo
    <3> QED
      BY <3>1, <3>2
  <2>3. /\ \A v : Handed(r, t, v)' <=> Handed(r, t, v)
        /\ Recorded(r)' <=> Recorded(r)
    BY <1>1 DEF Handed, Recorded
  <2>4. /\ InOrder(queues[r], t)
        /\ \A v \in 1 .. MaxGroups : Waits(queues[r], t, v) => v < n
        /\ \A v \in 1 .. MaxGroups : Handed(r, t, v) => v < n
    BY <1>7, <2>2 DEF ArriveAt
  <2>5. CASE Deliver(t, r)
    <3> DEFINE e == [type |-> "DATAGROUP", sys |-> t, ver |-> n]
    <3>1. queues'[r] = Append(queues[r], e) /\ queues[r] \in Seq(Envelopes)
      BY <1>3, <2>5 DEF Deliver, TypeOK
    <3>2. e \in Envelopes /\ e.type = "DATAGROUP" /\ e.sys = t /\ e.ver = n
      BY DEF Envelopes
    <3> HIDE DEF e
    <3>3. /\ \A v : Waits(Append(queues[r], e), t, v) <=> Waits(queues[r], t, v) \/ v = n
          /\ InOrder(Append(queues[r], e), t)
      BY <2>4, <3>1, <3>2, Appended
    <3>4. /\ \A v : Waits(queues[r], t, v)' <=> Waits(queues[r], t, v) \/ v = n
          /\ InOrder(queues[r], t)'
      <4> PICK w : w = queues'[r]
        OBVIOUS
      <4>1. /\ \A v : Waits(queues[r], t, v)' <=> Waits(w, t, v)
            /\ InOrder(queues[r], t)' <=> InOrder(w, t)
        BY DEF Waits, InOrder, GroupAt
      <4> QED
        BY <3>1, <3>3, <4>1
    <3>5. base[r][t] \in Nat /\ base'[r][t] = base[r][t]
      BY <1>1, <1>3 DEF TypeOK, Versions
    <3>6. Recorded(r) /\ ~SendsFail =>
            \A v \in (base[r][t] + 1) .. n : v \in (base[r][t] + 1) .. (n - 1) \/ v = n
      BY <3>5
    <3> QED
      BY <1>7, <2>2, <2>3, <2>4, <3>4, <3>5, <3>6 DEF ArriveAt
  <2>6. CASE SendsFail /\ UNCHANGED queues
    <3>1. /\ \A v : Waits(queues[r], t, v)' <=> Waits(queues[r], t, v)
          /\ InOrder(queues[r], t)'
      BY <2>4, <2>6 DEF Waits, InOrder, GroupAt
    <3> QED
      BY <1>7, <2>2, <2>3, <2>4, <2>6, <3>1 DEF ArriveAt
  <2> QED
    BY <1>1, <2>5, <2>6
<1> QED
  BY <1>1, <1>5, <1>6, <1>7 DEF ArriveInv

\* GetGroup hands on the oldest group of its system that waits.
LEMMA HandArrive ==
  ASSUME TypeOK, CountInv, ArriveInv, NEW p \in Pumps, GetGroup(p)
  PROVE  ArriveInv'
<1> PICK r \in Queues : r = QueueOf[p]
  BY DataBusConstants
<1> PICK w \in Seq(Envelopes) : w = queues[r]
  BY DEF TypeOK
<1> PICK e : e = Head(w)
  OBVIOUS
<1>1. /\ UNCHANGED <<receivers, ver, nextR, lastR, base, crashes, reply>>
      /\ w # <<>> /\ queues' = [queues EXCEPT ![r] = Tail(w)]
      /\ got' = IF e.type = "DATAGROUP" THEN [got EXCEPT ![p][e.sys] = Max2(@, e.ver)] ELSE got
  BY DEF GetGroup, listenVars, loopVars, histVars
<1>2. e = w[1] /\ e.sys \in Systems /\ e.ver \in 1 .. MaxGroups /\ 1 \in 1 .. Len(w)
  <2>1. e = w[1] /\ e \in Envelopes /\ 1 \in 1 .. Len(w)
    BY <1>1, TakenHead, HeadTailProperties
  <2> QED
    BY <2>1 DEF Envelopes
<1>3. RepliesAreGets'
  BY <1>1 DEF ArriveInv, RepliesAreGets
<1>4. ASSUME NEW q \in Queues, NEW s \in Systems
      PROVE  /\ SentTo(q, s)' = SentTo(q, s)
             /\ Recorded(q)' <=> Recorded(q)
  BY <1>1 DEF SentTo, Remaining, Recorded
<1>5. ASSUME NEW q \in Queues, NEW s \in Systems, q # r, ArriveAt(q, s) PROVE ArriveAt(q, s)'
  <2>1. queues'[q] = queues[q]
    BY <1>1, <1>5 DEF TypeOK
  <2>2. \A x \in Pumps : QueueOf[x] = q => got'[x] = got[x]
    BY <1>1, <1>5 DEF TypeOK
  <2>3. /\ \A v : Waits(queues[q], s, v)' <=> Waits(queues[q], s, v)
        /\ \A v : Handed(q, s, v)' <=> Handed(q, s, v)
        /\ InOrder(queues[q], s)' <=> InOrder(queues[q], s)
    BY <2>1, <2>2 DEF Waits, Handed, InOrder, GroupAt
  <2> QED
    BY <1>1, <1>4, <1>5, <2>3 DEF ArriveAt
<1>6. ASSUME NEW s \in Systems, ArriveAt(r, s) PROVE ArriveAt(r, s)'
  <2> PICK u : u = Tail(w)
    OBVIOUS
  <2>1. /\ \A v : Waits(queues[r], s, v)' <=> Waits(u, s, v)
        /\ InOrder(queues[r], s)' <=> InOrder(u, s)
    <3>1. queues'[r] = u
      BY <1>1 DEF TypeOK
    <3> QED
      BY <3>1 DEF Waits, InOrder, GroupAt
  <2>2. /\ InOrder(u, s)
        /\ \A v : Waits(u, s, v) => Waits(w, s, v)
        /\ \A v : Waits(w, s, v) => Waits(u, s, v) \/ (GroupAt(w, 1, s) /\ e.ver = v)
        /\ GroupAt(w, 1, s) => \A v : Waits(u, s, v) => e.ver < v
    <3>1. InOrder(w, s)
      BY <1>6 DEF ArriveAt
    <3> QED
      BY <1>1, <1>2, <3>1, TakenOff
  <2>3. CASE GroupAt(w, 1, s)
    <3>1. e.type = "DATAGROUP" /\ e.sys = s
      BY <1>2, <2>3 DEF GroupAt
    <3>2. /\ \A x \in Pumps : got[x][s] \in Nat
          /\ \A x \in Pumps \ {p} : got'[x][s] = got[x][s]
          /\ got'[p][s] = Max2(got[p][s], e.ver)
      <4>1. \A x \in Pumps : got[x] \in [Systems -> Nat]
        BY DEF TypeOK, Versions
      <4>2. got' = [got EXCEPT ![p] = [got[p] EXCEPT ![s] = Max2(got[p][s], e.ver)]]
        BY <1>1, <3>1
      <4>3. got \in [Pumps -> [Systems -> Nat]]
        BY DEF TypeOK, Versions
      <4>4. got'[p] = [got[p] EXCEPT ![s] = Max2(got[p][s], e.ver)]
        BY <4>2, <4>3
      <4>5. \A x \in Pumps \ {p} : got'[x] = got[x]
        BY <4>2, <4>3
      <4> QED
        BY <4>1, <4>4, <4>5
    <3>3. \A v \in Nat : Handed(r, s, v)' <=> Handed(r, s, v) \/ v <= e.ver
      <4> SUFFICES ASSUME NEW v \in Nat PROVE Handed(r, s, v)' <=> Handed(r, s, v) \/ v <= e.ver
        OBVIOUS
      <4>1. got'[p][s] >= v <=> got[p][s] >= v \/ v <= e.ver
        BY <1>2, <3>2 DEF Max2
      <4> QED
        BY <3>2, <4>1 DEF Handed
    <3>4. Waits(w, s, e.ver)
      BY <1>2, <2>3 DEF Waits
    <3>5. /\ \A v \in 1 .. MaxGroups : Waits(w, s, v) => ~Handed(r, s, v)
          /\ \A v \in 1 .. MaxGroups : Waits(w, s, v) \/ Handed(r, s, v) => v <= SentTo(r, s)
          /\ Recorded(r) /\ ~SendsFail =>
               \A v \in (base[r][s] + 1) .. SentTo(r, s) : Waits(w, s, v) \/ Handed(r, s, v)
          /\ base[r][s] \in Nat /\ base'[r][s] = base[r][s] /\ SentTo(r, s) \in 0 .. MaxGroups
      <4>1. base[r][s] \in Nat /\ base'[r][s] = base[r][s]
        <5>1. base[r] \in [Systems -> Versions]
          BY DEF TypeOK
        <5>2. base' = base
          BY <1>1
        <5> QED
          BY <5>1, <5>2, DataBusConstants DEF Versions
      <4>2. SentTo(r, s) \in 0 .. MaxGroups
        BY SentToType
      <4> QED
        BY <1>6, <4>1, <4>2 DEF ArriveAt
    <3>6. \A v \in 1 .. MaxGroups : Waits(u, s, v) => ~Handed(r, s, v)'
      BY <1>2, <2>2, <2>3, <3>3, <3>5
    <3>7. \A v \in 1 .. MaxGroups : Waits(u, s, v) \/ Handed(r, s, v)' => v <= SentTo(r, s)
      <4>1. e.ver <= SentTo(r, s)
        BY <1>2, <3>4, <3>5
      <4> QED
        BY <1>2, <2>2, <3>3, <3>5, <4>1
    <3>8. Recorded(r) /\ ~SendsFail =>
            \A v \in (base[r][s] + 1) .. SentTo(r, s) : Waits(u, s, v) \/ Handed(r, s, v)'
      BY <1>2, <2>2, <3>3, <3>5
    <3> QED
      BY <1>4, <2>1, <2>2, <3>5, <3>6, <3>7, <3>8 DEF ArriveAt
  <2>4. CASE ~GroupAt(w, 1, s)
    <3>1. \A x \in Pumps : got'[x][s] = got[x][s]
      BY <1>1, <1>2, <2>4 DEF GroupAt, TypeOK
    <3>2. \A v : Handed(r, s, v)' <=> Handed(r, s, v)
      BY <3>1 DEF Handed
    <3> QED
      BY <1>1, <1>4, <1>6, <2>1, <2>2, <2>4, <3>2 DEF ArriveAt
  <2> QED
    BY <2>3, <2>4
<1> QED
  BY <1>1, <1>3, <1>5, <1>6 DEF ArriveInv

\* An answer to GET on a queue is no group for its pumps.
LEMMA ReplyArrive ==
  ASSUME TypeOK, CountInv, ArriveInv, Reply
  PROVE  ArriveInv'
<1> PICK e : e = reply[1]
  OBVIOUS
<1>1. /\ UNCHANGED <<receivers, ver, nextR, lastR, base, crashes, got>>
      /\ reply # <<>> /\ reply' = <<>> /\ asker \in Queues
      /\ queues' = [queues EXCEPT ![asker] = @ \o reply]
  BY DEF Reply, listenVars, pumpVars, histVars, TypeOK
<1>2. reply = <<e>> /\ e \in Envelopes /\ e.type = "GET"
  <2>1. reply \in Seq(Envelopes) /\ Len(reply) <= 1
    BY DEF TypeOK
  <2>2. Len(reply) = 1 /\ reply[1] \in Envelopes
    <3>1. Len(reply) \in Nat /\ Len(reply) # 0
      BY <1>1, <2>1, EmptySeq
    <3>2. Len(reply) = 1
      <4> PICK k : k = Len(reply)
        OBVIOUS
      <4>1. k \in Nat /\ k <= 1 /\ k # 0
        BY <2>1, <3>1
      <4>2. k = 1
        BY <4>1
      <4> QED
        BY <4>2
    <3> QED
      BY <2>1, <3>2
  <2>3. reply = <<reply[1]>>
    BY <2>1, <2>2
  <2>4. reply[1].type = "GET"
    BY <1>1 DEF ArriveInv, RepliesAreGets
  <2> QED
    BY <2>2, <2>3, <2>4
<1>3. ASSUME NEW q \in Queues, NEW s \in Systems, ArriveAt(q, s) PROVE ArriveAt(q, s)'
  <2>1. /\ SentTo(q, s)' = SentTo(q, s)
        /\ Recorded(q)' <=> Recorded(q)
        /\ \A v : Handed(q, s, v)' <=> Handed(q, s, v)
    BY <1>1 DEF SentTo, Remaining, Recorded, Handed
  <2> PICK u : u = queues'[q]
    OBVIOUS
  <2>2. /\ \A v : Waits(queues[q], s, v)' <=> Waits(u, s, v)
        /\ InOrder(queues[q], s)' <=> InOrder(u, s)
    BY DEF Waits, InOrder, GroupAt
  <2>3. /\ \A v : Waits(u, s, v) <=> Waits(queues[q], s, v)
        /\ InOrder(queues[q], s) => InOrder(u, s)
    <3>1. CASE q # asker
      <4>1. u = queues[q]
        BY <1>1, <3>1 DEF TypeOK
      <4> QED
        BY <4>1
    <3>2. CASE q = asker
      <4> PICK w \in Seq(Envelopes) : w = queues[q]
        BY DEF TypeOK
      <4>1. u = w \o <<e>>
        BY <1>1, <1>2, <3>2 DEF TypeOK
      <4>2. w \o <<e>> = Append(w, e)
        BY <1>2
      <4>3. /\ \A v : Waits(Append(w, e), s, v) <=> Waits(w, s, v)
            /\ InOrder(w, s) => InOrder(Append(w, e), s)
        <5>1. e \in Envelopes /\ ~(e.type = "DATAGROUP")
          BY <1>2
        <5>2. /\ \A v : Waits(Append(w, e), s, v)
                          <=> Waits(w, s, v) \/ (e.type = "DATAGROUP" /\ e.sys = s /\ e.ver = v)
              /\ InOrder(w, s)
                   /\ (e.type = "DATAGROUP" /\ e.sys = s => \A v \in 1 .. MaxGroups : Waits(w, s, v) => v < e.ver)
                   => InOrder(Append(w, e), s)
          BY <5>1, Appended
        <5> QED
          BY <5>1, <5>2
      <4> QED
        BY <4>1, <4>2, <4>3
    <3> QED
      BY <3>1, <3>2
  <2> QED
    BY <1>1, <1>3, <2>1, <2>2, <2>3 DEF ArriveAt
<1>4. RepliesAreGets'
  BY <1>1 DEF RepliesAreGets
<1> QED
  BY <1>1, <1>3, <1>4 DEF ArriveInv

LEMMA ArriveStep ==
  ASSUME TypeOK, CountInv, ArriveInv, [Next]_vars
  PROVE  ArriveInv'
<1>1. ASSUME NEW p \in Pumps, Subscribe(p) \/ Get(p) PROVE ArriveInv'
  <2>1. RepliesAreGets'
    BY <1>1 DEF Subscribe, Get, loopVars, ArriveInv, RepliesAreGets
  <2> QED
    BY <1>1, <2>1, StillArrived DEF Subscribe, Get, listenVars, histVars
<1>2. CASE TakeCommand \/ Replied \/ UNCHANGED vars
  <2>1. RepliesAreGets'
    BY <1>2 DEF TakeCommand, Replied, vars, loopVars, ArriveInv, RepliesAreGets
  <2> QED
    BY <1>2, <2>1, StillArrived DEF TakeCommand, Replied, vars, listenVars, pumpVars, histVars
<1>3. ASSUME NEW s \in Systems, ReadCached(s) PROVE ArriveInv'
  <2>1. RepliesAreGets'
    BY <1>3 DEF ReadCached, RepliesAreGets
  <2> QED
    BY <1>3, <2>1, StillArrived DEF ReadCached, listenVars, pumpVars
<1>4. ASSUME NEW s \in Systems, AddDataGroup(s) PROVE ArriveInv'
  <2>1. RepliesAreGets'
    BY <1>4 DEF AddDataGroup, loopVars, ArriveInv, RepliesAreGets
  <2> QED
    BY <1>4, <2>1, StillArrived DEF AddDataGroup, pumpVars, histVars
<1>5. ASSUME crashes' = crashes + 1, reply' \in {reply, <<>>} PROVE ArriveInv'
  <2>1. crashes' # 0
    BY <1>5 DEF TypeOK
  <2> QED
    BY <1>5, <2>1 DEF ArriveInv, RepliesAreGets
<1>6. ASSUME NEW p \in Pumps, CrashPump(p) PROVE ArriveInv'
  BY <1>5, <1>6 DEF CrashPump, loopVars
<1>7. CASE CrashReader
  BY <1>5, <1>7 DEF CrashReader
<1> QED
  BY <1>1, <1>2, <1>3, <1>4, <1>6, <1>7, HandArrive, ReplyArrive, RecordArrive, BeginArrive,
     SendArrive DEF Next, PumpMain, CommandLoop, Sender

\* The inductive invariant behind the order of groups.
THEOREM ArriveInvariant == Spec => []ArriveInv
<1>1. Init => ArriveInv
  <2> SUFFICES ASSUME Init PROVE ArriveInv
    OBVIOUS
  <2>1. RepliesAreGets
    BY DEF Init, ReaderInit, RepliesAreGets
  <2>2. ASSUME NEW q \in Queues, NEW s \in Systems PROVE ArriveAt(q, s)
    <3>1. queues[q] = <<>> /\ Len(queues[q]) = 0 /\ ~Recorded(q)
      BY DEF Init, ReaderInit, Recorded
    <3>2. \A v : ~Waits(queues[q], s, v)
      BY <3>1 DEF Waits
    <3>3. InOrder(queues[q], s)
      BY <3>1 DEF InOrder
    <3>4. \A v \in 1 .. MaxGroups : ~Handed(q, s, v)
      BY DEF Init, Handed
    <3> QED
      BY <3>1, <3>2, <3>3, <3>4 DEF ArriveAt
  <2> QED
    BY <2>1, <2>2 DEF ArriveInv
<1>2. TypeOK /\ CountInv /\ ArriveInv /\ [Next]_vars => ArriveInv'
  BY ArriveStep
<1> QED
  BY <1>1, <1>2, BusInvariant, PTL DEF Spec

\* Pumps are handed the groups of a system in the order they were made, and no
\* group sent to a recorded queue is lost on the way while nothing crashes.
THEOREM NoGroupLostOnTheWay == Spec => []GroupsArriveInOrder
<1>1. ArriveInv => GroupsArriveInOrder
  BY DEF ArriveInv, ArriveAt, GroupsArriveInOrder
<1> QED
  BY <1>1, ArriveInvariant, PTL

=============================================================================
