-------------------------- MODULE KafkaPumpProofs --------------------------
(***************************************************************************)
(* kafkapump loses nothing it has gone past, stores nothing three times    *)
(* and keeps the order of first copies in partition 0, for any settings,   *)
(* any groups and any number of failures.                                  *)
(***************************************************************************)
EXTENDS KafkaPump, FiniteSetTheorems, SequenceTheorems, TLAPS

-----------------------------------------------------------------------------
\* A sequence of one element.
LEMMA JustOne ==
  ASSUME NEW S, NEW a \in S
  PROVE  /\ <<a>> \in Seq(S) /\ Len(<<a>>) = 1 /\ Len(<<a>>) <= 2
         /\ DOMAIN <<a>> = {1} /\ <<a>>[1] = a
OBVIOUS

\* Two sequences of one element in a row.
LEMMA OneAndOne ==
  ASSUME NEW S, NEW x \in Seq(S), NEW y \in Seq(S), Len(x) = 1, Len(y) = 1
  PROVE  /\ x \o y \in Seq(S) /\ Len(x \o y) <= 2 /\ DOMAIN (x \o y) = {1, 2}
         /\ (x \o y)[1] = x[1] /\ (x \o y)[2] = y[1]
<1>1. /\ x \o y \in Seq(S) /\ Len(x \o y) = 2
      /\ (x \o y)[1] = x[1] /\ (x \o y)[2] = y[1]
  BY ConcatProperties
<1>2. DOMAIN (x \o y) = 1..2
  BY <1>1, LenProperties
<1> QED
  BY <1>1, <1>2

\* What the messages of a group are: at most two, of the group, with no record in
\* both, and together with every record of it whose timestamp parses.
LEMMA MessagesOfGroup ==
  ASSUME KafkaTypeOK, NEW g \in Group
  PROVE  /\ Messages(g) \in Seq(Msg) /\ Len(Messages(g)) <= 2
         /\ \A i \in DOMAIN Messages(g) : Messages(g)[i].group = g.id
         /\ \A i, j \in DOMAIN Messages(g) :
              i # j => Messages(g)[i].records \cap Messages(g)[j].records = {}
         /\ \A r \in Metrics(g) \cup Alerts(g) :
              \E i \in DOMAIN Messages(g) : r \in Messages(g)[i].records
<1> DEFINE mt == TopicName[settings.topic]
           at == TopicName[settings.alertTopic]
           ms == [topic |-> mt, group |-> g.id, records |-> Metrics(g)]
           as == [topic |-> at, group |-> g.id, records |-> Alerts(g)]
           both == [topic |-> mt, group |-> g.id, records |-> Metrics(g) \cup Alerts(g)]
<1>1. /\ Metrics(g) \subseteq Record /\ Alerts(g) \subseteq Record
      /\ Metrics(g) \cap Alerts(g) = {}
  BY DEF Metrics, Alerts, Records, Record, Group, Stamps
<1>2. mt \in Topics \cup {""} /\ at \in Topics \cup {""}
  BY DEF KafkaTypeOK, Topics, TopicSettings, Names
<1>3. ms \in Msg /\ as \in Msg /\ both \in Msg
  BY <1>1, <1>2 DEF Msg, Group
<1>4. CASE at = ""
  <2>1. Messages(g) = <<both>>
    BY <1>4 DEF Messages
  <2> HIDE DEF both
  <2>2. both.group = g.id /\ both.records = Metrics(g) \cup Alerts(g)
    BY DEF both
  <2> QED
    BY <1>3, <2>1, <2>2
<1>5. CASE at # ""
  <2> DEFINE to(t, rs) == IF rs = {} THEN <<>> ELSE <<[topic |-> t, group |-> g.id, records |-> rs]>>
  <2>1. Messages(g) = to(mt, Metrics(g)) \o to(at, Alerts(g))
    BY <1>5 DEF Messages
  <2>2. /\ Metrics(g) = {} /\ Alerts(g) = {} => Messages(g) = <<>>
        /\ Metrics(g) # {} /\ Alerts(g) = {} => Messages(g) = <<ms>>
        /\ Metrics(g) = {} /\ Alerts(g) # {} => Messages(g) = <<as>>
        /\ Metrics(g) # {} /\ Alerts(g) # {} => Messages(g) = <<ms>> \o <<as>>
    <3>1. <<ms>> \in Seq(Msg) /\ <<as>> \in Seq(Msg) /\ <<>> \in Seq(Msg)
      BY <1>3
    <3> QED
      BY <2>1, <3>1, ConcatEmptySeq
  <2>3. /\ ms.group = g.id /\ ms.records = Metrics(g)
        /\ as.group = g.id /\ as.records = Alerts(g)
    OBVIOUS
  <2> HIDE DEF ms, as, to
  <2>4. CASE Metrics(g) = {} /\ Alerts(g) = {}
    BY <2>2, <2>4
  <2>5. CASE Metrics(g) # {} /\ Alerts(g) = {}
    <3>1. <<ms>> \in Seq(Msg) /\ Len(<<ms>>) <= 2 /\ DOMAIN <<ms>> = {1} /\ <<ms>>[1] = ms
      BY ONLY <1>3, JustOne
    <3>2. PICK s : s = Messages(g)
      OBVIOUS
    <3>3. s = <<ms>>
      BY <2>2, <2>5, <3>2
    <3>4. s \in Seq(Msg) /\ Len(s) <= 2 /\ DOMAIN s = {1} /\ s[1] = ms
      BY ONLY <3>1, <3>3
    <3>5. /\ \A i \in DOMAIN s : s[i].group = g.id
          /\ \A i, j \in DOMAIN s : i # j => s[i].records \cap s[j].records = {}
      BY ONLY <2>3, <3>4
    <3>6. \A r \in Metrics(g) \cup Alerts(g) : r \in s[1].records
      BY ONLY <2>3, <2>5, <3>4
    <3>7. \A r \in Metrics(g) \cup Alerts(g) : \E i \in DOMAIN s : r \in s[i].records
      BY ONLY <3>4, <3>6
    <3> QED
      BY ONLY <3>2, <3>4, <3>5, <3>7, Zenon
  <2>6. CASE Metrics(g) = {} /\ Alerts(g) # {}
    <3>1. <<as>> \in Seq(Msg) /\ Len(<<as>>) <= 2 /\ DOMAIN <<as>> = {1} /\ <<as>>[1] = as
      BY ONLY <1>3, JustOne
    <3>2. PICK s : s = Messages(g)
      OBVIOUS
    <3>3. s = <<as>>
      BY <2>2, <2>6, <3>2
    <3>4. s \in Seq(Msg) /\ Len(s) <= 2 /\ DOMAIN s = {1} /\ s[1] = as
      BY ONLY <3>1, <3>3
    <3>5. /\ \A i \in DOMAIN s : s[i].group = g.id
          /\ \A i, j \in DOMAIN s : i # j => s[i].records \cap s[j].records = {}
      BY ONLY <2>3, <3>4
    <3>6. \A r \in Metrics(g) \cup Alerts(g) : r \in s[1].records
      BY ONLY <2>3, <2>6, <3>4
    <3>7. \A r \in Metrics(g) \cup Alerts(g) : \E i \in DOMAIN s : r \in s[i].records
      BY ONLY <3>4, <3>6
    <3> QED
      BY ONLY <3>2, <3>4, <3>5, <3>7, Zenon
  <2>7. CASE Metrics(g) # {} /\ Alerts(g) # {}
    <3>1. PICK x, y : x = <<ms>> /\ y = <<as>>
      OBVIOUS
    <3>2. x \in Seq(Msg) /\ Len(x) = 1 /\ y \in Seq(Msg) /\ Len(y) = 1
      BY ONLY <1>3, <3>1, JustOne
    <3>3. x[1] = ms /\ y[1] = as
      BY ONLY <3>1
    <3>4. PICK s : s = Messages(g)
      OBVIOUS
    <3>5. s = x \o y
      BY <2>2, <2>7, <3>1, <3>4
    <3>6. /\ x \o y \in Seq(Msg) /\ Len(x \o y) <= 2 /\ DOMAIN (x \o y) = {1, 2}
          /\ (x \o y)[1] = x[1] /\ (x \o y)[2] = y[1]
      BY ONLY <3>2, OneAndOne
    <3>7. s \in Seq(Msg) /\ Len(s) <= 2 /\ DOMAIN s = {1, 2} /\ s[1] = ms /\ s[2] = as
      BY ONLY <3>3, <3>5, <3>6
    <3>8. \A i, j \in {1, 2} : i # j => (i = 1 /\ j = 2) \/ (i = 2 /\ j = 1)
      OBVIOUS
    <3>9. /\ \A i \in DOMAIN s : s[i].group = g.id
          /\ \A i, j \in DOMAIN s : i # j => s[i].records \cap s[j].records = {}
      BY ONLY <1>1, <2>3, <3>7, <3>8
    <3>10. \A r \in Metrics(g) \cup Alerts(g) : r \in s[1].records \/ r \in s[2].records
      BY ONLY <2>3, <3>7
    <3>11. \A r \in Metrics(g) \cup Alerts(g) : \E i \in DOMAIN s : r \in s[i].records
      BY ONLY <3>7, <3>10
    <3> QED
      BY ONLY <3>4, <3>7, <3>9, <3>11, Zenon
  <2> QED
    BY <2>4, <2>5, <2>6, <2>7
<1> QED
  BY <1>4, <1>5

-----------------------------------------------------------------------------
\* A message that is stored is of a topic, at the end of one of its partitions.
LEMMA StoredType ==
  ASSUME KafkaTypeOK, NEW m \in Msg, m.topic \in Topics, NEW p \in Partitions
  PROVE  Stored(m, p) \in [Topics -> [Partitions -> Seq(LogEntry)]]
<1>1. [group |-> m.group, records |-> m.records] \in LogEntry
  BY DEF Msg, LogEntry
<1>2. log[m.topic] \in [Partitions -> Seq(LogEntry)] /\ log[m.topic][p] \in Seq(LogEntry)
  BY DEF KafkaTypeOK
<1>3. Append(log[m.topic][p], [group |-> m.group, records |-> m.records]) \in Seq(LogEntry)
  BY <1>1, <1>2
<1> QED
  BY <1>2, <1>3 DEF Stored, KafkaTypeOK

\* The connection a message is written to.
LEMMA ConnectedType ==
  ASSUME KafkaTypeOK, Sending, Connected
  PROVE  /\ Message \in Msg /\ Message.topic \in Topics
         /\ conns[Message.topic] \in Partitions
<1>1. Message \in Msg
  BY DEF KafkaTypeOK, Message, Sending
<1>2. Message.topic \in Topics
  BY <1>1 DEF Connected, Msg
<1> QED
  BY <1>1, <1>2 DEF KafkaTypeOK, Connected

\* What a write that fails may leave behind.
LEMMA UnacknowledgedType ==
  ASSUME KafkaTypeOK, Sending, Connected, Unacknowledged
  PROVE  /\ log' \in [Topics -> [Partitions -> Seq(LogEntry)]]
         /\ flying' \subseteq Flight
<1>1. /\ Message \in Msg /\ Message.topic \in Topics
      /\ conns[Message.topic] \in Partitions
  BY ConnectedType
<1>2. Stored(Message, conns[Message.topic]) \in [Topics -> [Partitions -> Seq(LogEntry)]]
  BY <1>1, StoredType
<1>3. [message |-> Message, partition |-> conns[Message.topic], fault |-> faults] \in Flight
  <2>1. faults \in 0..MaxFaults
    BY DEF KafkaTypeOK
  <2>2. Message \in [topic : Topics, group : 0..MaxGroups, records : SUBSET Record]
    BY <1>1 DEF Msg
  <2> QED
    BY <1>1, <2>1, <2>2 DEF Flight
<1> QED
  BY <1>2, <1>3 DEF Unacknowledged, KafkaTypeOK

\* What a process starts with.
LEMMA StartTypes ==
  NoGroup \in Group /\ NoConf \in Conf /\ Unconnected \in [Topics -> Partitions \cup {None}]
<1>1. NoGroup \in Group
  BY KafkaPumpConstants DEF NoGroup, Group
<1>2. NoConf \in Conf
  BY DEF NoConf, Conf, Partitions
<1> QED
  BY <1>1, <1>2 DEF Unconnected

\* Every step keeps the types.
LEMMA KafkaTypeStep ==
  ASSUME KafkaTypeOK, [KafkaNext]_kafkaVars
  PROVE  KafkaTypeOK'
<1> USE DEF KafkaTypeOK
<1>1. CASE ConfigSet
  BY <1>1 DEF ConfigSet
<1>2. CASE GroupArrives
  BY <1>2, KafkaPumpConstants DEF GroupArrives, Group
<1>3. CASE WaitForConfig
  BY <1>3 DEF WaitForConfig, Conf, Partitions, Names
<1>4. CASE Connect
  BY <1>4 DEF Connect, Unconnected, Conf
<1>5. CASE TakeGroup
  <2>1. Head(groupsIn) \in Group /\ Tail(groupsIn) \in Seq(Group) /\ Len(Tail(groupsIn)) <= ChannelSize
    BY <1>5, KafkaPumpConstants DEF TakeGroup
  <2>2. Messages(Head(groupsIn)) \in Seq(Msg) /\ Len(Messages(Head(groupsIn))) <= 2
    BY <2>1, MessagesOfGroup
  <2> QED
    BY <1>5, <2>1, <2>2 DEF TakeGroup
<1>6. CASE GroupDone
  BY <1>6, KafkaPumpConstants DEF GroupDone, NoGroup, Group
<1>7. CASE TopicConnect
  BY <1>7 DEF TopicConnect, Partitions
<1>8. CASE WriteSucceeds
  <2>1. log' \in [Topics -> [Partitions -> Seq(LogEntry)]]
    BY <1>8, ConnectedType, StoredType DEF WriteSucceeds
  <2>2. Tail(pending) \in Seq(Msg) /\ Len(Tail(pending)) <= 2
    BY <1>8 DEF WriteSucceeds, Sending
  <2> QED
    BY <1>8, <2>1, <2>2 DEF WriteSucceeds
<1>9. CASE WriteBreaks
  <2>1. /\ log' \in [Topics -> [Partitions -> Seq(LogEntry)]]
        /\ flying' \subseteq Flight
    BY <1>9, UnacknowledgedType DEF WriteBreaks
  <2>2. faults' \in 0..MaxFaults
    BY <1>9, KafkaPumpConstants DEF WriteBreaks
  <2> QED
    BY <1>9, <2>1, <2>2 DEF WriteBreaks
<1>10. CASE WriteFails \/ DiesElsewhere
  <2>1. /\ log' \in [Topics -> [Partitions -> Seq(LogEntry)]]
        /\ flying' \subseteq Flight
    BY <1>10, UnacknowledgedType DEF DiesElsewhere, WriteFails
  <2>2. Exit /\ faults' \in 0..MaxFaults
    BY <1>10, KafkaPumpConstants DEF DiesElsewhere, WriteFails, Exit
  <2>6. cut' \subseteq 0..MaxGroups
    BY <2>2 DEF Exit, Group
  <2>3. EnvSettings \in [Names -> UNION {Settings[n] : n \in Names}]
    BY KafkaPumpConstants
  <2>4. \A n \in Names : EnvSettings[n] \in Settings[n]
    BY KafkaPumpConstants
  <2>5. <<>> \in Seq(Group) /\ <<>> \in Seq(Msg) /\ Len(<<>>) <= ChannelSize /\ Len(<<>>) <= 2
    BY KafkaPumpConstants
  <2> QED
    BY <2>1, <2>2, <2>3, <2>4, <2>5, <2>6, StartTypes DEF Exit
<1>11. CASE StoreLate
  <2>1. PICK f \in flying : log' = Stored(f.message, f.partition) /\ flying' = flying \ {f}
    BY <1>11 DEF StoreLate
  <2> QED
    BY <1>11, <2>1, StoredType DEF StoreLate, Flight, Msg
<1>12. CASE UNCHANGED kafkaVars
  BY <1>12 DEF kafkaVars
<1> QED
  BY <1>1, <1>2, <1>3, <1>4, <1>5, <1>6, <1>7, <1>8, <1>9, <1>10, <1>11, <1>12 DEF KafkaNext

\* The initial types.
LEMMA KafkaTypeStart == KafkaInit => KafkaTypeOK
<1>1. /\ EnvSettings \in [Names -> UNION {Settings[n] : n \in Names}]
      /\ \A n \in Names : EnvSettings[n] \in Settings[n]
      /\ MaxGroups \in Nat /\ MaxFaults \in Nat
  BY KafkaPumpConstants
<1>2. <<>> \in Seq(Group) /\ <<>> \in Seq(Msg) /\ Len(<<>>) <= ChannelSize /\ Len(<<>>) <= 2
  BY KafkaPumpConstants
<1>3. [t \in Topics |-> [p \in Partitions |-> <<>>]] \in [Topics -> [Partitions -> Seq(LogEntry)]]
  BY <<>> \in Seq(LogEntry)
<1>4. ASSUME KafkaInit
      PROVE  /\ groupsIn \in Seq(Group) /\ Len(groupsIn) <= ChannelSize
             /\ pending \in Seq(Msg) /\ Len(pending) <= 2
  BY <1>2, <1>4 DEF KafkaInit
<1>5. ASSUME KafkaInit
      PROVE  /\ settings \in [Names -> UNION {Settings[n] : n \in Names}]
             /\ \A n \in Names : settings[n] \in Settings[n]
             /\ arrived \in 0..MaxGroups /\ faults \in 0..MaxFaults
  BY <1>1, <1>5 DEF KafkaInit
<1>6. KafkaInit => /\ conf \in Conf /\ hand \in Group /\ conns \in [Topics -> Partitions \cup {None}]
                   /\ log \in [Topics -> [Partitions -> Seq(LogEntry)]]
  BY <1>3, StartTypes DEF KafkaInit
<1>7. KafkaInit => /\ kpc \in {"wait", "connect", "take", "send"} /\ retrying \in BOOLEAN
                   /\ flying \subseteq Flight /\ done \subseteq Group /\ cut \subseteq 0..MaxGroups
  BY DEF KafkaInit
<1> QED
  BY <1>4, <1>5, <1>6, <1>7 DEF KafkaTypeOK

\* kafkapump's channel, its connections and what the broker has stay what they are.
THEOREM KafkaTypeCorrect == KafkaSpec => []KafkaTypeOK
BY KafkaTypeStart, KafkaTypeStep, PTL DEF KafkaSpec

-----------------------------------------------------------------------------
\* The head and the tail of a queue.
LEMMA HeadAndTail ==
  ASSUME NEW S, NEW s \in Seq(S), s # <<>>
  PROVE  LET n == Len(s) IN
         /\ n \in Nat \ {0} /\ DOMAIN s = 1..n /\ 1 \in DOMAIN s /\ Head(s) = s[1] /\ Head(s) \in S
         /\ DOMAIN Tail(s) = 1..(n - 1) /\ \A i \in 1..(n - 1) : i + 1 \in 1..n /\ Tail(s)[i] = s[i + 1]
<1>1. Len(s) \in Nat \ {0} /\ DOMAIN s = 1..Len(s)
  BY EmptySeq, LenProperties
<1>2. /\ Head(s) \in S /\ Tail(s) \in Seq(S) /\ Len(Tail(s)) = Len(s) - 1
      /\ \A i \in 1..Len(Tail(s)) : Tail(s)[i] = s[i + 1]
  BY HeadTailProperties
<1>3. DOMAIN Tail(s) = 1..Len(Tail(s))
  BY <1>2, LenProperties
<1> QED
  BY <1>1, <1>2, <1>3

\* A sequence and one element more.
LEMMA AppendAt ==
  ASSUME NEW S, NEW s \in Seq(S), NEW e \in S
  PROVE  LET n == Len(s) IN
         /\ n \in Nat /\ DOMAIN s = 1..n
         /\ DOMAIN Append(s, e) = 1..(n + 1) /\ Append(s, e)[n + 1] = e
         /\ \A i \in 1..n : Append(s, e)[i] = s[i]
OBVIOUS

\* What the broker holds after it has stored a message.
LEMMA StoredAt ==
  ASSUME KafkaTypeOK, NEW m \in Msg, m.topic \in Topics, NEW p \in Partitions, log' = Stored(m, p)
  PROVE  LET s == log[m.topic][p]  n == Len(s)  e == [group |-> m.group, records |-> m.records] IN
         /\ n \in Nat /\ DOMAIN s = 1..n
         /\ DOMAIN log'[m.topic][p] = 1..(n + 1) /\ log'[m.topic][p][n + 1] = e
         /\ \A i \in 1..n : log'[m.topic][p][i] = s[i]
<1>1. PICK s, e : s = log[m.topic][p] /\ e = [group |-> m.group, records |-> m.records]
  OBVIOUS
<1>2. s \in Seq(LogEntry) /\ e \in LogEntry
  BY <1>1 DEF KafkaTypeOK, Msg, LogEntry
<1>3. log'[m.topic][p] = Append(s, e)
  BY <1>1 DEF Stored, KafkaTypeOK
<1>4. /\ Len(s) \in Nat /\ DOMAIN s = 1..Len(s)
      /\ DOMAIN Append(s, e) = 1..(Len(s) + 1) /\ Append(s, e)[Len(s) + 1] = e
      /\ \A i \in 1..Len(s) : Append(s, e)[i] = s[i]
  BY <1>2, AppendAt
<1> QED
  BY <1>1, <1>3, <1>4, Zenon

\* Other partitions are left alone.
LEMMA NotStoredAt ==
  ASSUME KafkaTypeOK, NEW m, NEW p, log' = Stored(m, p),
         NEW t \in Topics, NEW q \in Partitions, ~(t = m.topic /\ q = p)
  PROVE  log'[t][q] = log[t][q]
BY DEF Stored, KafkaTypeOK

\* The group is one whose turn has come: it is not, and will not be, in the channel.
Past(n) == n \in 0..arrived /\ \A i \in DOMAIN groupsIn : n < groupsIn[i].id

\* Something of the group has been written to a connection.
Sent(n) ==
  \/ \E t \in Topics, p \in Partitions : \E i \in DOMAIN log[t][p] : log[t][p][i].group = n
  \/ \E f \in flying : f.message.group = n

\* Only the message in hand is written.
LEMMA NewlySent ==
  ASSUME KafkaTypeOK, [KafkaNext]_kafkaVars, NEW n
  PROVE  Sent(n)' => Sent(n) \/ (Sending /\ n = Message.group)
<1>1. CASE UNCHANGED <<log, flying>>
  BY <1>1 DEF Sent
<1>2. ASSUME NEW m \in Msg, m.topic \in Topics, NEW p \in Partitions, log' = Stored(m, p),
             flying' \subseteq flying, Sent(n)'
      PROVE  Sent(n) \/ n = m.group
  <2>1. CASE \E f \in flying' : f.message.group = n
    BY <1>2, <2>1 DEF Sent
  <2>2. ASSUME NEW t \in Topics, NEW q \in Partitions, NEW i \in DOMAIN log'[t][q], log'[t][q][i].group = n
        PROVE  Sent(n) \/ n = m.group
    <3>1. CASE i \in DOMAIN log[t][q] /\ log'[t][q][i] = log[t][q][i]
      BY <2>2, <3>1 DEF Sent
    <3>2. CASE log'[t][q][i] = [group |-> m.group, records |-> m.records]
      BY <2>2, <3>2
    <3>3. PICK k \in Nat : LET at == log'[m.topic][p] IN
            /\ DOMAIN log[m.topic][p] = 1..k /\ DOMAIN at = 1..(k + 1)
            /\ at[k + 1] = [group |-> m.group, records |-> m.records]
            /\ \A j \in 1..k : at[j] = log[m.topic][p][j]
      BY <1>2, StoredAt
    <3>4. ~(t = m.topic /\ q = p) => log'[t][q] = log[t][q]
      BY <1>2, NotStoredAt
    <3>5. \A j \in 1..(k + 1) : j \in 1..k \/ j = k + 1
      OBVIOUS
    <3> QED
      BY <2>2, <3>1, <3>2, <3>3, <3>4, <3>5
  <2> QED
    BY <1>2, <2>1, <2>2 DEF Sent
<1>3. CASE WriteSucceeds
  BY <1>2, <1>3, ConnectedType DEF WriteSucceeds
<1>4. CASE Sending /\ Connected /\ Unacknowledged
  <2>1. CASE log' = Stored(Message, conns[Message.topic]) /\ flying' = flying
    BY <1>2, <1>4, <2>1, ConnectedType
  <2>2. CASE log' = log /\ flying' = flying \cup
               {[message |-> Message, partition |-> conns[Message.topic], fault |-> faults]}
    BY <1>4, <2>2 DEF Sent
  <2> QED
    BY <1>1, <1>4, <2>1, <2>2 DEF Unacknowledged
<1>5. CASE StoreLate
  <2>1. PICK f \in flying : log' = Stored(f.message, f.partition) /\ flying' = flying \ {f}
    BY <1>5 DEF StoreLate
  <2>2. f.message \in Msg /\ f.message.topic \in Topics /\ f.partition \in Partitions
    BY DEF KafkaTypeOK, Flight, Msg
  <2>3. Sent(n)' => Sent(n) \/ n = f.message.group
    BY <1>2, <2>1, <2>2
  <2> QED
    BY <2>3 DEF Sent
<1> QED
  BY <1>1, <1>3, <1>4, <1>5 DEF KafkaNext, ConfigSet, GroupArrives, WaitForConfig, Connect,
     TakeGroup, GroupDone, TopicConnect, WriteBreaks, WriteFails, DiesElsewhere, kafkaVars

\* Groups are taken in the order they arrived in, and nothing of a group is written
\* before it is in hand or after the next one is.
GroupsInOrder ==
  /\ \A i \in DOMAIN groupsIn : groupsIn[i].id \in 1..arrived
  /\ \A i, j \in DOMAIN groupsIn : i < j => groupsIn[i].id < groupsIn[j].id
  /\ kpc = "send" => hand.id >= 1 /\ Past(hand.id)
  /\ \A g \in done : Past(g.id) /\ (kpc = "send" => g.id < hand.id)
  /\ \A n \in 0..MaxGroups : Sent(n) => Past(n) /\ (kpc = "send" => n <= hand.id)

\* What is pending is of the group in hand, no record in two messages, and a message
\* that is retried goes to partition 0.
PendingInHand ==
  /\ kpc # "send" => pending = <<>>
  /\ retrying => pending # <<>> /\ (Message.topic # "" => conns[Message.topic] \in {None, "0"})
  /\ \A i \in DOMAIN pending : pending[i].group = hand.id
  /\ \A i, j \in DOMAIN pending : i # j => pending[i].records \cap pending[j].records = {}


\* Every step keeps the order of the groups ...
LEMMA GroupsStep ==
  ASSUME KafkaTypeOK, GroupsInOrder, PendingInHand, [KafkaNext]_kafkaVars
  PROVE  GroupsInOrder'
<1>1. \A n \in 0..MaxGroups : Sent(n)' => Sent(n) \/ (kpc = "send" /\ n = hand.id)
  <2>1. ASSUME Sending
        PROVE  kpc = "send" /\ Message.group = hand.id
    <3>1. kpc = "send" /\ pending # <<>> /\ pending \in Seq(Msg)
      BY <2>1 DEF Sending, KafkaTypeOK
    <3>2. 1 \in DOMAIN pending /\ Message = pending[1]
      BY <3>1, HeadAndTail DEF Message
    <3> QED
      BY <3>1, <3>2 DEF PendingInHand
  <2> QED
    BY <2>1, NewlySent
<1>2. ASSUME arrived' = arrived, groupsIn' \in {groupsIn, <<>>}, done' = done, hand' = hand \/ kpc' # "send",
             kpc' = "send" => kpc = "send"
      PROVE  GroupsInOrder'
  <2>1. \A n : Past(n) => Past(n)'
    BY <1>2 DEF Past
  <2>2. \A n \in 0..MaxGroups : Sent(n)' => Past(n)' /\ (kpc' = "send" => n <= hand'.id)
    BY <1>1, <1>2, <2>1 DEF GroupsInOrder
  <2> QED
    BY <1>2, <2>1, <2>2 DEF GroupsInOrder
<1>3. CASE GroupArrives
  <2>1. PICK c \in Contents :
          groupsIn' = Append(groupsIn, [id |-> arrived', values |-> c.values, events |-> c.events])
    BY <1>3 DEF GroupArrives
  <2>2. /\ arrived \in Nat /\ arrived' = arrived + 1 /\ UNCHANGED <<kpc, hand, log, flying, done>>
    BY <1>3 DEF GroupArrives, KafkaTypeOK
  <2>3. LET n == Len(groupsIn) IN
        /\ n \in Nat /\ DOMAIN groupsIn = 1..n /\ DOMAIN groupsIn' = 1..(n + 1)
        /\ \A i \in 1..n : groupsIn'[i] = groupsIn[i]
        /\ groupsIn'[n + 1].id = arrived + 1
    BY <2>1, <2>2 DEF KafkaTypeOK
  <2>4. \A n : Past(n) => Past(n)'
    BY <2>2, <2>3 DEF Past
  <2>5. \A i \in DOMAIN groupsIn' : groupsIn'[i].id \in 1..arrived'
    BY <2>2, <2>3 DEF GroupsInOrder
  <2>6. \A i, j \in DOMAIN groupsIn' : i < j => groupsIn'[i].id < groupsIn'[j].id
    BY <2>2, <2>3 DEF GroupsInOrder
  <2>7. \A n : Sent(n)' <=> Sent(n)
    BY <2>2 DEF Sent
  <2> QED
    BY <2>2, <2>4, <2>5, <2>6, <2>7 DEF GroupsInOrder
<1>4. CASE TakeGroup
  <2>1. /\ kpc' = "send" /\ hand' = Head(groupsIn) /\ groupsIn' = Tail(groupsIn)
        /\ groupsIn \in Seq(Group) /\ groupsIn # <<>>
        /\ UNCHANGED <<log, flying, arrived, done>>
    BY <1>4 DEF TakeGroup, KafkaTypeOK
  <2>2. PICK n \in Nat : /\ DOMAIN groupsIn = 1..n /\ 1 \in DOMAIN groupsIn /\ Head(groupsIn) = groupsIn[1]
                         /\ DOMAIN Tail(groupsIn) = 1..(n - 1)
                         /\ \A i \in 1..(n - 1) : Tail(groupsIn)[i] = groupsIn[i + 1]
    BY <2>1, HeadAndTail
  <2>3. \A i \in DOMAIN groupsIn' : /\ i \in Int /\ 1 < i + 1 /\ i + 1 \in DOMAIN groupsIn
                                    /\ groupsIn'[i] = groupsIn[i + 1]
    BY <2>1, <2>2
  <2>4. \A i, j \in DOMAIN groupsIn' : i < j => i + 1 < j + 1
    BY <2>3
  <2>5. 1 \in DOMAIN groupsIn /\ hand' = groupsIn[1]
    BY <2>1, <2>2
  <2>6. \A i \in DOMAIN groupsIn' : /\ groupsIn'[i].id \in 1..arrived'
                                    /\ hand'.id < groupsIn'[i].id
                                    /\ \A j \in DOMAIN groupsIn' : i < j => groupsIn'[i].id < groupsIn'[j].id
    BY <2>1, <2>3, <2>4, <2>5 DEF GroupsInOrder
  <2>7. hand'.id \in 1..arrived'
    BY <2>1, <2>5 DEF GroupsInOrder
  <2>8. Past(hand.id)' /\ hand'.id >= 1
    BY <2>1, <2>6, <2>7 DEF Past, KafkaTypeOK
  <2>9. \A k : Past(k) => Past(k)' /\ k < hand'.id
    BY <2>1, <2>3, <2>5 DEF Past
  <2>10. \A k : Sent(k)' <=> Sent(k)
    BY <2>1 DEF Sent
  <2>11. \A g \in done' : Past(g.id)' /\ g.id < hand'.id
    BY <2>1, <2>9 DEF GroupsInOrder
  <2>12. \A k \in 0..MaxGroups : Sent(k)' => Past(k)' /\ k <= hand'.id
    BY <2>7, <2>9, <2>10 DEF GroupsInOrder
  <2> QED
    BY <2>6, <2>8, <2>11, <2>12 DEF GroupsInOrder
<1>5. CASE GroupDone
  <2>1. kpc = "send" /\ kpc' = "take" /\ done' = done \cup {hand} /\ UNCHANGED <<log, flying, arrived, groupsIn>>
    BY <1>5 DEF GroupDone
  <2>2. \A n : Past(n)' <=> Past(n)
    BY <2>1 DEF Past
  <2>3. \A n : Sent(n)' <=> Sent(n)
    BY <2>1 DEF Sent
  <2> QED
    BY <2>1, <2>2, <2>3 DEF GroupsInOrder
<1>6. CASE ConfigSet \/ WaitForConfig \/ Connect \/ TopicConnect \/ WriteSucceeds \/ WriteBreaks \/ StoreLate
  BY <1>2, <1>6 DEF ConfigSet, WaitForConfig, Connect, TopicConnect, WriteSucceeds,
     WriteBreaks, StoreLate
<1>7. CASE WriteFails \/ DiesElsewhere
  BY <1>2, <1>7 DEF DiesElsewhere, WriteFails, Exit
<1>8. CASE UNCHANGED kafkaVars
  BY <1>2, <1>8 DEF kafkaVars
<1> QED
  BY <1>3, <1>4, <1>5, <1>6, <1>7, <1>8 DEF KafkaNext

\* ... and what is pending.
LEMMA PendingStep ==
  ASSUME KafkaTypeOK, PendingInHand, [KafkaNext]_kafkaVars
  PROVE  PendingInHand'
<1>1. CASE pending' = <<>> /\ ~retrying'
  <2>1. \A s : s = <<>> => DOMAIN s = {}
    OBVIOUS
  <2> QED
    BY <1>1, <2>1, Zenon DEF PendingInHand
<1>2. CASE UNCHANGED <<kpc, pending, hand, retrying, conns>>
  BY <1>2 DEF PendingInHand, Message
<1>3. CASE WaitForConfig \/ Connect
  BY <1>1, <1>3 DEF WaitForConfig, Connect, PendingInHand, KafkaTypeOK
<1>4. CASE TakeGroup
  <2>1. Head(groupsIn) \in Group
    BY <1>4 DEF TakeGroup, KafkaTypeOK
  <2>2. retrying = FALSE
    BY <1>4 DEF TakeGroup, PendingInHand, KafkaTypeOK
  <2>3. /\ \A i \in DOMAIN pending' : pending'[i].group = hand'.id
        /\ \A i, j \in DOMAIN pending' : i # j => pending'[i].records \cap pending'[j].records = {}
    BY <1>4, <2>1, MessagesOfGroup DEF TakeGroup
  <2> QED
    BY <1>4, <2>2, <2>3 DEF TakeGroup, PendingInHand
<1>5. CASE GroupDone
  BY <1>1, <1>5 DEF GroupDone, PendingInHand, KafkaTypeOK
<1>6. CASE TopicConnect
  BY <1>6 DEF TopicConnect, PendingInHand, Message, KafkaTypeOK
<1>7. CASE WriteSucceeds
  <2>1. pending \in Seq(Msg) /\ pending # <<>> /\ pending' = Tail(pending)
    BY <1>7 DEF WriteSucceeds, Sending, KafkaTypeOK
  <2>2. kpc' = "send" /\ hand' = hand /\ retrying' = FALSE
    BY <1>7 DEF WriteSucceeds, Sending
  <2>3. PICK n \in Nat : /\ DOMAIN pending = 1..n /\ DOMAIN Tail(pending) = 1..(n - 1)
                         /\ \A i \in 1..(n - 1) : Tail(pending)[i] = pending[i + 1]
    BY <2>1, HeadAndTail
  <2>4. \A i \in DOMAIN pending' : /\ i \in Int /\ i + 1 \in DOMAIN pending
                                   /\ pending'[i] = pending[i + 1]
    BY <2>1, <2>3
  <2>5. \A i, j \in DOMAIN pending' : i # j => i + 1 # j + 1
    BY <2>4
  <2>6. \A i, j \in DOMAIN pending' : i # j => pending'[i].records \cap pending'[j].records = {}
    BY <2>4, <2>5 DEF PendingInHand
  <2> QED
    BY <2>2, <2>4, <2>6 DEF PendingInHand
<1>8. CASE WriteBreaks
  <2>1. UNCHANGED <<kpc, pending, hand>> /\ pending # <<>> /\ Message.topic \in Topics
    BY <1>8, ConnectedType DEF WriteBreaks, Sending
  <2>2. conns' = [conns EXCEPT ![Message.topic] = None]
    BY <1>8 DEF WriteBreaks
  <2>3. conns'[Message'.topic] = None
    BY <2>1, <2>2 DEF Message, KafkaTypeOK
  <2> QED
    BY <2>1, <2>3 DEF PendingInHand
<1>9. CASE WriteFails \/ DiesElsewhere
  BY <1>1, <1>9 DEF DiesElsewhere, WriteFails, Exit
<1> QED
  BY <1>2, <1>3, <1>4, <1>5, <1>6, <1>7, <1>8, <1>9 DEF KafkaNext, ConfigSet, GroupArrives,
     StoreLate, kafkaVars

-----------------------------------------------------------------------------
\* The copies of the record the broker may store yet, ...
FlyingCopies(g, r) == {f \in flying : f.message.group = g /\ r \in f.message.records}

\* ... and how many there are with the ones it has stored.
Written(g, r) == Cardinality(Copies(g, r)) + Cardinality(FlyingCopies(g, r))

Finite(g, r) == IsFiniteSet(Copies(g, r)) /\ IsFiniteSet(FlyingCopies(g, r))

\* A record is written at most twice: not at all before its message is the first one
\* pending, at most once while that has not been retried.  The fault that broke a
\* connection tells what is left in it from what is left in the others.
AtMostTwo ==
  /\ \A f \in flying : f.fault < faults
  /\ \A g \in 1..MaxGroups, r \in Record : Finite(g, r) /\ Written(g, r) <= 2
  /\ \A i \in DOMAIN pending : \A r \in pending[i].records :
       Written(hand.id, r) <= IF i = 1 /\ retrying THEN 1 ELSE 0

\* The copies in a log.
CopiesIn(l, g, r) ==
  UNION {{<<t, p, i>> : i \in {j \in DOMAIN l[t][p] : /\ l[t][p][j].group = g
                                                    /\ r \in l[t][p][j].records}} :
         t \in Topics, p \in Partitions}

\* The members of that set.
LEMMA CopyAt ==
  ASSUME NEW l, NEW g, NEW r, NEW x
  PROVE  x \in CopiesIn(l, g, r) <=>
           \E t \in Topics, p \in Partitions : \E i \in DOMAIN l[t][p] :
             x = <<t, p, i>> /\ l[t][p][i].group = g /\ r \in l[t][p][i].records
<1> DEFINE at(t, p) == {j \in DOMAIN l[t][p] : l[t][p][j].group = g /\ r \in l[t][p][j].records}
           F(t, p) == {<<t, p, i>> : i \in at(t, p)}
<1>1. CopiesIn(l, g, r) = UNION {F(t, p) : t \in Topics, p \in Partitions}
  BY DEF CopiesIn
<1>2. \A t, p : x \in F(t, p) <=> \E i \in at(t, p) : x = <<t, p, i>>
  OBVIOUS
<1> HIDE DEF F
<1>3. x \in CopiesIn(l, g, r) <=> \E t \in Topics, p \in Partitions : x \in F(t, p)
  BY <1>1
<1> QED
  BY <1>2, <1>3

\* The message holds the record of the group.
Holds(m, g, r) == m.group = g /\ r \in m.records

\* A message stored adds a copy of each of its records and of no other.
LEMMA StoredCopies ==
  ASSUME KafkaTypeOK, NEW m \in Msg, m.topic \in Topics, NEW p \in Partitions, log' = Stored(m, p),
         NEW g, NEW r
  PROVE  \E x : /\ x \notin Copies(g, r)
                /\ Copies(g, r)' = IF Holds(m, g, r) THEN Copies(g, r) \cup {x} ELSE Copies(g, r)
<1> DEFINE n == Len(log[m.topic][p])
           x == <<m.topic, p, n + 1>>
           e == [group |-> m.group, records |-> m.records]
<1>1. n \in Nat /\ DOMAIN log[m.topic][p] = 1..n /\ DOMAIN log'[m.topic][p] = 1..(n + 1)
  BY StoredAt
<1>2. log'[m.topic][p][n + 1] = e /\ \A i \in 1..n : log'[m.topic][p][i] = log[m.topic][p][i]
  BY StoredAt
<1>3. \A t \in Topics, q \in Partitions : ~(t = m.topic /\ q = p) => log'[t][q] = log[t][q]
  BY NotStoredAt
<1> HIDE DEF n, e
<1>4. n + 1 \notin DOMAIN log[m.topic][p]
  BY <1>1
<1>5. x \notin CopiesIn(log, g, r)
  BY <1>4, CopyAt
<1>6. \A t \in Topics, q \in Partitions : \A i \in DOMAIN log[t][q] :
        i \in DOMAIN log'[t][q] /\ log'[t][q][i] = log[t][q][i]
  BY <1>1, <1>2, <1>3
<1>7. \A t \in Topics, q \in Partitions : \A i \in DOMAIN log'[t][q] :
        \/ i \in DOMAIN log[t][q] /\ log'[t][q][i] = log[t][q][i]
        \/ <<t, q, i>> = x /\ log'[t][q][i] = e
  BY <1>1, <1>2, <1>3
<1>8. n + 1 \in DOMAIN log'[m.topic][p]
  BY <1>1
<1>9. \A y : y \in CopiesIn(log', g, r) <=>
        \E t \in Topics, q \in Partitions : \E i \in DOMAIN log'[t][q] :
          y = <<t, q, i>> /\ log'[t][q][i].group = g /\ r \in log'[t][q][i].records
  BY CopyAt
<1>10. Holds(m, g, r) <=> e.group = g /\ r \in e.records
  BY DEF Holds, e
<1>11. CopiesIn(log, g, r) \subseteq CopiesIn(log', g, r)
  <2> SUFFICES ASSUME NEW y \in CopiesIn(log, g, r) PROVE y \in CopiesIn(log', g, r)
    OBVIOUS
  <2>1. PICK t \in Topics, q \in Partitions : \E i \in DOMAIN log[t][q] :
          y = <<t, q, i>> /\ log[t][q][i].group = g /\ r \in log[t][q][i].records
    BY CopyAt
  <2> QED
    BY <1>6, <1>9, <2>1
<1>12. CopiesIn(log', g, r) \subseteq CopiesIn(log, g, r) \cup {x}
  <2> SUFFICES ASSUME NEW y \in CopiesIn(log', g, r) PROVE y \in CopiesIn(log, g, r) \/ y = x
    OBVIOUS
  <2>1. PICK t \in Topics, q \in Partitions : \E i \in DOMAIN log'[t][q] :
          y = <<t, q, i>> /\ log'[t][q][i].group = g /\ r \in log'[t][q][i].records
    BY <1>9
  <2> QED
    BY <1>7, <2>1, CopyAt
<1>13. x \in CopiesIn(log', g, r) <=> Holds(m, g, r)
  <2>1. ASSUME Holds(m, g, r) PROVE x \in CopiesIn(log', g, r)
    BY <1>2, <1>8, <1>9, <1>10, <2>1
  <2>2. ASSUME x \in CopiesIn(log', g, r) PROVE Holds(m, g, r)
    <3>1. PICK t \in Topics, q \in Partitions : \E i \in DOMAIN log'[t][q] :
            x = <<t, q, i>> /\ log'[t][q][i].group = g /\ r \in log'[t][q][i].records
      BY <1>9, <2>2
    <3>2. t = m.topic /\ q = p
      BY <3>1
    <3>3. e.group = g /\ r \in e.records
      BY <1>2, <3>1
    <3> QED
      BY <1>10, <3>3
  <2> QED
    BY <2>1, <2>2
<1> QED
  <2>1. Copies(g, r) = CopiesIn(log, g, r) /\ Copies(g, r)' = CopiesIn(log', g, r)
    BY DEF Copies, CopiesIn
  <2> HIDE DEF x
  <2> QED
    BY <1>5, <1>11, <1>12, <1>13, <2>1

-----------------------------------------------------------------------------
\* Nothing written.
LEMMA WrittenSame ==
  ASSUME UNCHANGED <<log, flying>>, NEW g, NEW r
  PROVE  /\ Finite(g, r)' <=> Finite(g, r)
         /\ Written(g, r)' = Written(g, r)
BY DEF Finite, Written, Copies, FlyingCopies

\* How many copies there are is a number.
LEMMA WrittenNumber ==
  ASSUME NEW g, NEW r, Finite(g, r)
  PROVE  /\ Cardinality(Copies(g, r)) \in Nat /\ Cardinality(FlyingCopies(g, r)) \in Nat
         /\ Written(g, r) \in Nat
BY FS_CardinalityType DEF Finite, Written

\* A message stored.
LEMMA WrittenStored ==
  ASSUME KafkaTypeOK, NEW m \in Msg, m.topic \in Topics, NEW p \in Partitions, log' = Stored(m, p),
         flying' = flying, NEW g, NEW r, Finite(g, r)
  PROVE  /\ Finite(g, r)'
         /\ Written(g, r)' = IF Holds(m, g, r) THEN Written(g, r) + 1 ELSE Written(g, r)
<1>1. FlyingCopies(g, r)' = FlyingCopies(g, r)
  BY DEF FlyingCopies
<1>2. PICK x : /\ x \notin Copies(g, r)
               /\ Copies(g, r)' = IF Holds(m, g, r) THEN Copies(g, r) \cup {x} ELSE Copies(g, r)
  BY StoredCopies
<1>3. /\ IsFiniteSet(Copies(g, r)')
      /\ Cardinality(Copies(g, r)') = IF Holds(m, g, r) THEN Cardinality(Copies(g, r)) + 1
                                      ELSE Cardinality(Copies(g, r))
  BY <1>2, FS_AddElement DEF Finite
<1> QED
  BY <1>1, <1>3, WrittenNumber DEF Finite, Written

\* A message left in a connection that broke.
LEMMA WrittenFlying ==
  ASSUME KafkaTypeOK, \A f \in flying : f.fault < faults, NEW m, NEW p, log' = log,
         flying' = flying \cup {[message |-> m, partition |-> p, fault |-> faults]},
         NEW g, NEW r, Finite(g, r)
  PROVE  /\ Finite(g, r)'
         /\ Written(g, r)' = IF Holds(m, g, r) THEN Written(g, r) + 1 ELSE Written(g, r)
<1>1. Copies(g, r)' = Copies(g, r)
  BY DEF Copies
<1>2. PICK x : x = [message |-> m, partition |-> p, fault |-> faults]
  OBVIOUS
<1>3. x \notin flying
  <2>1. x.fault = faults /\ faults \in Nat
    BY <1>2 DEF KafkaTypeOK
  <2> QED
    BY <2>1
<1>4. x \notin FlyingCopies(g, r)
  BY <1>3 DEF FlyingCopies
<1>5. FlyingCopies(g, r)' = IF Holds(m, g, r) THEN FlyingCopies(g, r) \cup {x} ELSE FlyingCopies(g, r)
  BY <1>2 DEF FlyingCopies, Holds
<1>6. /\ IsFiniteSet(FlyingCopies(g, r)')
      /\ Cardinality(FlyingCopies(g, r)') = IF Holds(m, g, r) THEN Cardinality(FlyingCopies(g, r)) + 1
                                            ELSE Cardinality(FlyingCopies(g, r))
  BY <1>4, <1>5, FS_AddElement DEF Finite
<1> QED
  BY <1>1, <1>6, WrittenNumber DEF Finite, Written

\* Such a message stored after all.
LEMMA WrittenLate ==
  ASSUME KafkaTypeOK, NEW f \in flying, log' = Stored(f.message, f.partition), flying' = flying \ {f},
         NEW g, NEW r, Finite(g, r)
  PROVE  Finite(g, r)' /\ Written(g, r)' = Written(g, r)
<1>1. f.message \in Msg /\ f.message.topic \in Topics /\ f.partition \in Partitions
  BY DEF KafkaTypeOK, Flight, Msg
<1>2. PICK x : /\ x \notin Copies(g, r)
               /\ Copies(g, r)' = IF Holds(f.message, g, r) THEN Copies(g, r) \cup {x} ELSE Copies(g, r)
  BY <1>1, StoredCopies
<1>3. /\ IsFiniteSet(Copies(g, r)')
      /\ Cardinality(Copies(g, r)') = IF Holds(f.message, g, r) THEN Cardinality(Copies(g, r)) + 1
                                      ELSE Cardinality(Copies(g, r))
  BY <1>2, FS_AddElement DEF Finite
<1>4. /\ FlyingCopies(g, r)' = FlyingCopies(g, r) \ {f}
      /\ f \in FlyingCopies(g, r) <=> Holds(f.message, g, r)
  BY DEF FlyingCopies, Holds
<1>5. /\ IsFiniteSet(FlyingCopies(g, r)')
      /\ Cardinality(FlyingCopies(g, r)') = IF Holds(f.message, g, r) THEN Cardinality(FlyingCopies(g, r)) - 1
                                            ELSE Cardinality(FlyingCopies(g, r))
  BY <1>4, FS_RemoveElement DEF Finite
<1> QED
  BY <1>3, <1>5, WrittenNumber DEF Finite, Written

\* A write, whatever becomes of it.
LEMMA WrittenOnce ==
  ASSUME KafkaTypeOK, AtMostTwo, Sending, Connected,
         \/ log' = Stored(Message, conns[Message.topic]) /\ flying' = flying
         \/ Unacknowledged,
         NEW g, NEW r, Finite(g, r)
  PROVE  /\ Finite(g, r)' /\ Written(g, r) \in Nat /\ Written(g, r)' \in Nat
         /\ Written(g, r)' <= Written(g, r) + 1
         /\ ~Holds(Message, g, r) => Written(g, r)' = Written(g, r)
<1>1. Written(g, r) \in Nat
  BY WrittenNumber
<1>2. CASE log' = Stored(Message, conns[Message.topic]) /\ flying' = flying
  BY <1>1, <1>2, ConnectedType, WrittenStored
<1>3. CASE log' = log /\ flying' = flying \cup
             {[message |-> Message, partition |-> conns[Message.topic], fault |-> faults]}
  <2>1. \A f \in flying : f.fault < faults
    BY DEF AtMostTwo
  <2>2. PICK m, p : m = Message /\ p = conns[Message.topic]
    OBVIOUS
  <2>3. /\ Finite(g, r)'
        /\ Written(g, r)' = IF Holds(m, g, r) THEN Written(g, r) + 1 ELSE Written(g, r)
    BY <1>3, <2>1, <2>2, WrittenFlying
  <2> QED
    BY <1>1, <2>2, <2>3
<1>4. CASE log' = log /\ flying' = flying
  BY <1>1, <1>4, WrittenSame
<1> QED
  BY <1>2, <1>3, <1>4 DEF Unacknowledged

\* A group nothing of which is written.
LEMMA NotSent ==
  ASSUME NEW g, ~Sent(g), NEW r
  PROVE  Written(g, r) = 0
<1>1. Copies(g, r) = {}
  <2>1. Copies(g, r) = CopiesIn(log, g, r)
    BY DEF Copies, CopiesIn
  <2>2. \A x : x \notin CopiesIn(log, g, r)
    BY CopyAt DEF Sent
  <2> QED
    BY <2>1, <2>2
<1>2. FlyingCopies(g, r) = {}
  BY DEF FlyingCopies, Sent
<1> QED
  BY <1>1, <1>2, FS_EmptySet DEF Written


\* Every step keeps to two copies.
LEMMA TwoStep ==
  ASSUME KafkaTypeOK, GroupsInOrder, PendingInHand, AtMostTwo, [KafkaNext]_kafkaVars
  PROVE  AtMostTwo'
<1>1. \A g \in 1..MaxGroups, r \in Record : /\ Finite(g, r) /\ Written(g, r) \in Nat /\ Written(g, r) <= 2
  BY WrittenNumber DEF AtMostTwo
<1>2. ASSUME UNCHANGED <<log, flying>>, faults' \in {faults, faults + 1},
             \A i \in DOMAIN pending' : \A r \in pending'[i].records :
               Written(hand'.id, r) <= IF i = 1 /\ retrying' THEN 1 ELSE 0
      PROVE  AtMostTwo'
  <2>1. \A g, r : (Finite(g, r)' <=> Finite(g, r)) /\ Written(g, r)' = Written(g, r)
    BY <1>2, WrittenSame
  <2>2. \A f \in flying' : f.fault < faults'
    BY <1>2 DEF AtMostTwo, KafkaTypeOK, Flight
  <2>3. \A g, r : g = hand'.id => Written(g, r)' = Written(hand'.id, r)
    BY <2>1
  <2> QED
    BY <1>1, <1>2, <2>1, <2>2, <2>3 DEF AtMostTwo
<1>3. CASE UNCHANGED <<log, flying, faults, pending, hand, retrying>>
  BY <1>2, <1>3 DEF AtMostTwo
<1>4. ASSUME UNCHANGED <<log, flying>>, faults' \in {faults, faults + 1}, pending' = <<>>
      PROVE  AtMostTwo'
  <2>1. DOMAIN pending' = {}
    BY <1>4
  <2> QED
    BY <1>2, <1>4, <2>1
<1>5. CASE TakeGroup
  <2>1. /\ groupsIn \in Seq(Group) /\ groupsIn # <<>> /\ hand' = Head(groupsIn)
        /\ pending' = Messages(Head(groupsIn)) /\ UNCHANGED <<log, flying, faults, retrying>>
    BY <1>5 DEF TakeGroup, KafkaTypeOK
  <2>2. 1 \in DOMAIN groupsIn /\ hand' = groupsIn[1] /\ hand' \in Group
    BY <2>1, HeadAndTail
  <2>3. hand'.id \in 0..MaxGroups /\ ~Past(hand'.id)
    BY <2>2 DEF Past, Group
  <2>4. ~Sent(hand'.id)
    BY <2>3 DEF GroupsInOrder
  <2>5. PICK g : g = hand'.id
    OBVIOUS
  <2>6. \A r : Written(g, r) = 0
    BY <2>4, <2>5, NotSent
  <2> QED
    BY <1>2, <2>1, <2>5, <2>6
<1>6. ASSUME Sending
      PROVE  /\ 1 \in DOMAIN pending /\ Message = pending[1]
             /\ hand.id \in 1..MaxGroups /\ Message.group = hand.id
             /\ \A i \in DOMAIN pending : i # 1 => \A r \in pending[i].records : ~Holds(Message, hand.id, r)
             /\ \A i \in DOMAIN pending : pending[i].records \subseteq Record
  <2>1. pending \in Seq(Msg) /\ pending # <<>> /\ kpc = "send"
    BY <1>6 DEF Sending, KafkaTypeOK
  <2>2. 1 \in DOMAIN pending /\ Message = pending[1]
    BY <2>1, HeadAndTail DEF Message
  <2>3. hand.id \in 1..MaxGroups
    BY <2>1 DEF GroupsInOrder, KafkaTypeOK, Group
  <2>4. \A i \in DOMAIN pending : pending[i] \in Msg
    BY <2>1
  <2>5. \A i \in DOMAIN pending : pending[i].records \subseteq Record
    BY <2>4 DEF Msg
  <2> QED
    BY <2>2, <2>3, <2>5 DEF PendingInHand, Holds
<1>7. ASSUME Sending, Connected,
             \/ log' = Stored(Message, conns[Message.topic]) /\ flying' = flying
             \/ Unacknowledged
      PROVE  \A g \in 1..MaxGroups, r \in Record :
               /\ Finite(g, r)' /\ Written(g, r)' \in Nat /\ Written(g, r)' <= 2
               /\ Written(g, r)' <= Written(g, r) + 1
               /\ ~Holds(Message, g, r) => Written(g, r)' = Written(g, r)
  <2> TAKE g \in 1..MaxGroups, r \in Record
  <2>1. /\ Finite(g, r)' /\ Written(g, r) \in Nat /\ Written(g, r)' \in Nat
        /\ Written(g, r)' <= Written(g, r) + 1
        /\ ~Holds(Message, g, r) => Written(g, r)' = Written(g, r)
    BY <1>1, <1>7, WrittenOnce
  <2>2. Holds(Message, g, r) => Written(g, r) <= 1
    <3>1. ASSUME Holds(Message, g, r)
          PROVE  Written(g, r) <= IF retrying THEN 1 ELSE 0
      BY <1>6, <1>7, <3>1 DEF AtMostTwo, Holds
    <3> QED
      BY <2>1, <3>1
  <2>3. Written(g, r)' <= 2
    BY <1>1, <2>1, <2>2
  <2> QED
    BY <2>1, <2>3
<1>8. CASE WriteSucceeds
  <2>1. /\ Sending /\ Connected /\ log' = Stored(Message, conns[Message.topic])
        /\ retrying' = FALSE /\ pending' = Tail(pending) /\ UNCHANGED <<hand, flying, faults>>
        /\ pending \in Seq(Msg) /\ pending # <<>>
    BY <1>8 DEF WriteSucceeds, Sending, KafkaTypeOK
  <2>2. PICK n \in Nat : /\ DOMAIN pending = 1..n /\ DOMAIN Tail(pending) = 1..(n - 1)
                         /\ \A i \in 1..(n - 1) : Tail(pending)[i] = pending[i + 1]
    BY <2>1, HeadAndTail
  <2>3. \A i \in DOMAIN pending' : /\ i \in Int /\ i + 1 \in DOMAIN pending /\ i + 1 # 1
                                   /\ pending'[i] = pending[i + 1]
    BY <2>1, <2>2
  <2>4. PICK h : h = hand.id
    OBVIOUS
  <2>5. \A i \in DOMAIN pending : i # 1 => \A r \in pending[i].records : Written(h, r)' <= 0
    <3>1. \A i \in DOMAIN pending : i # 1 => \A r \in pending[i].records : Written(h, r) <= 0
      BY <2>4 DEF AtMostTwo
    <3> QED
      BY <1>6, <1>7, <2>1, <2>4, <3>1
  <2>6. \A i \in DOMAIN pending' : \A r \in pending'[i].records : Written(h, r)' <= 0
    BY <2>3, <2>5
  <2>7. \A f \in flying' : f.fault < faults'
    BY <2>1 DEF AtMostTwo
  <2> QED
    BY <1>7, <2>1, <2>4, <2>6, <2>7 DEF AtMostTwo
<1>9. ASSUME Sending, Connected, Unacknowledged, faults' = faults + 1
      PROVE  \A f \in flying' : f.fault < faults'
  BY <1>9 DEF Unacknowledged, AtMostTwo, KafkaTypeOK, Flight
<1>10. CASE WriteBreaks
  <2>1. /\ Sending /\ Connected /\ Unacknowledged /\ faults' = faults + 1
        /\ retrying = FALSE /\ retrying' = TRUE /\ UNCHANGED <<hand, pending>>
    BY <1>10 DEF WriteBreaks, KafkaTypeOK
  <2>2. PICK h : h = hand.id
    OBVIOUS
  <2>3. \A i \in DOMAIN pending : \A r \in pending[i].records : Written(h, r) <= 0 /\ Written(h, r) \in Nat
    BY <1>1, <1>6, <2>1, <2>2 DEF AtMostTwo
  <2>4. \A i \in DOMAIN pending : \A r \in pending[i].records : Written(h, r)' <= IF i = 1 THEN 1 ELSE 0
    BY <1>6, <1>7, <2>1, <2>2, <2>3
  <2> QED
    BY <1>7, <1>9, <2>1, <2>2, <2>4 DEF AtMostTwo
<1>11. CASE WriteFails
  <2>1. /\ Sending /\ Connected /\ Unacknowledged /\ faults' = faults + 1 /\ pending' = <<>>
    BY <1>11 DEF WriteFails, Exit
  <2>2. DOMAIN pending' = {}
    BY <2>1
  <2> QED
    BY <1>7, <1>9, <2>1, <2>2 DEF AtMostTwo
<1>12. CASE StoreLate
  <2>1. PICK f \in flying : log' = Stored(f.message, f.partition) /\ flying' = flying \ {f}
    BY <1>12 DEF StoreLate
  <2>2. \A g \in 1..MaxGroups, r \in Record : Finite(g, r)' /\ Written(g, r)' = Written(g, r)
    BY <1>1, <2>1, WrittenLate
  <2>3. UNCHANGED <<hand, pending, retrying, faults>>
    BY <1>12 DEF StoreLate
  <2>4. \A i \in DOMAIN pending : hand.id \in 1..MaxGroups /\ pending[i].records \subseteq Record
    <3>1. CASE pending = <<>>
      BY <3>1
    <3>2. CASE pending # <<>>
      BY <1>6, <3>2 DEF PendingInHand, Sending
    <3> QED
      BY <3>1, <3>2
  <2>5. PICK h : h = hand.id
    OBVIOUS
  <2>6. \A i \in DOMAIN pending' : \A r \in pending'[i].records :
          Written(h, r)' <= IF i = 1 /\ retrying' THEN 1 ELSE 0
    BY <2>2, <2>3, <2>4, <2>5 DEF AtMostTwo
  <2> QED
    BY <1>1, <2>1, <2>2, <2>3, <2>5, <2>6 DEF AtMostTwo
<1>13. CASE GroupDone
  BY <1>4, <1>13 DEF GroupDone
<1>14. CASE DiesElsewhere
  BY <1>4, <1>14 DEF DiesElsewhere, Exit
<1> QED
  BY <1>3, <1>5, <1>8, <1>10, <1>11, <1>12, <1>13, <1>14 DEF KafkaNext, ConfigSet, GroupArrives,
     WaitForConfig, Connect, TopicConnect, kafkaVars

-----------------------------------------------------------------------------
\* What has been stored stays.
LEMMA CopiesStay ==
  ASSUME KafkaTypeOK, [KafkaNext]_kafkaVars, NEW g, NEW r
  PROVE  Copies(g, r) \subseteq Copies(g, r)'
<1>1. CASE log' = log
  BY <1>1 DEF Copies
<1>2. ASSUME NEW m \in Msg, m.topic \in Topics, NEW p \in Partitions, log' = Stored(m, p)
      PROVE  Copies(g, r) \subseteq Copies(g, r)'
  BY <1>2, StoredCopies
<1>3. CASE WriteSucceeds
  BY <1>2, <1>3, ConnectedType DEF WriteSucceeds
<1>4. CASE Sending /\ Connected /\ Unacknowledged
  BY <1>1, <1>2, <1>4, ConnectedType DEF Unacknowledged
<1>5. CASE StoreLate
  <2>1. PICK f \in flying : log' = Stored(f.message, f.partition)
    BY <1>5 DEF StoreLate
  <2>2. f.message \in Msg /\ f.message.topic \in Topics /\ f.partition \in Partitions
    BY DEF KafkaTypeOK, Flight, Msg
  <2> QED
    BY <1>2, <2>1, <2>2
<1> QED
  BY <1>1, <1>3, <1>4, <1>5 DEF KafkaNext, ConfigSet, GroupArrives, WaitForConfig, Connect,
     TakeGroup, GroupDone, TopicConnect, WriteBreaks, WriteFails, DiesElsewhere, kafkaVars

\* What is in the record of a group: stored, or to be stored by what is pending.
AllStored ==
  /\ \A g \in done : \A r \in Metrics(g) \cup Alerts(g) : Copies(g.id, r) # {}
  /\ kpc = "send" => \A r \in Metrics(hand) \cup Alerts(hand) :
       Copies(hand.id, r) # {} \/ \E i \in DOMAIN pending : r \in pending[i].records

\* Every step keeps what is stored or to be stored.
LEMMA AllStoredStep ==
  ASSUME KafkaTypeOK, PendingInHand, AllStored, [KafkaNext]_kafkaVars
  PROVE  AllStored'
<1>1. \A g, r : Copies(g, r) # {} => Copies(g, r)' # {}
  BY CopiesStay
<1>2. \A g \in done : \A r \in Metrics(g) \cup Alerts(g) : Copies(g.id, r)' # {}
  BY <1>1 DEF AllStored
<1>3. ASSUME done' = done, kpc' # "send"
      PROVE  AllStored'
  BY <1>2, <1>3 DEF AllStored
<1>4. ASSUME UNCHANGED <<done, kpc, hand, pending>>
      PROVE  AllStored'
  <2>1. PICK h : h = hand
    OBVIOUS
  <2>2. kpc = "send" => \A r \in Metrics(h) \cup Alerts(h) :
          Copies(h.id, r)' # {} \/ \E i \in DOMAIN pending : r \in pending[i].records
    BY <1>1, <2>1 DEF AllStored
  <2>3. hand' = h
    BY <1>4, <2>1
  <2> QED
    BY <1>2, <1>4, <2>2, <2>3 DEF AllStored
<1>5. CASE TakeGroup
  <2>1. PICK h : h = Head(groupsIn)
    OBVIOUS
  <2>2. /\ hand' = h /\ pending' = Messages(h) /\ done' = done /\ h \in Group
    BY <1>5, <2>1 DEF TakeGroup, KafkaTypeOK
  <2>3. \A r \in Metrics(h) \cup Alerts(h) : \E i \in DOMAIN pending' : r \in pending'[i].records
    BY <2>2, MessagesOfGroup
  <2> QED
    BY <1>2, <2>2, <2>3 DEF AllStored
<1>6. CASE GroupDone
  <2>1. PICK h : h = hand
    OBVIOUS
  <2>2. pending = <<>> /\ kpc = "send" /\ kpc' = "take" /\ done' = done \cup {h}
    BY <1>6, <2>1 DEF GroupDone
  <2>3. \A r \in Metrics(h) \cup Alerts(h) : Copies(h.id, r)' # {}
    BY <1>1, <2>1, <2>2 DEF AllStored
  <2> QED
    BY <1>2, <2>2, <2>3 DEF AllStored
<1>7. CASE WriteSucceeds
  <2>1. PICK h : h = hand
    OBVIOUS
  <2>2. /\ Sending /\ Connected /\ log' = Stored(Message, conns[Message.topic])
        /\ pending \in Seq(Msg) /\ pending # <<>> /\ kpc = "send"
        /\ pending' = Tail(pending) /\ hand' = h /\ UNCHANGED <<done, kpc>>
    BY <1>7, <2>1 DEF WriteSucceeds, Sending, KafkaTypeOK
  <2>3. PICK n \in Nat : /\ DOMAIN pending = 1..n /\ DOMAIN Tail(pending) = 1..(n - 1)
                         /\ \A i \in 1..(n - 1) : Tail(pending)[i] = pending[i + 1]
                         /\ Head(pending) = pending[1] /\ 1 \in DOMAIN pending
    BY <2>2, HeadAndTail
  <2>4. \A i \in DOMAIN pending : i = 1 \/ (i - 1 \in DOMAIN pending' /\ pending'[i - 1] = pending[i])
    BY <2>2, <2>3
  <2>5. \A r \in pending[1].records : Copies(h.id, r)' # {}
    <3> TAKE r \in pending[1].records
    <3>1. Holds(Message, h.id, r)
      BY <2>1, <2>3 DEF Holds, PendingInHand, Message
    <3>2. \E x : Copies(h.id, r)' = Copies(h.id, r) \cup {x}
      BY <2>2, <3>1, ConnectedType, StoredCopies
    <3> QED
      BY <3>2
  <2>6. \A r \in Metrics(h) \cup Alerts(h) :
          Copies(h.id, r)' # {} \/ \E i \in DOMAIN pending' : r \in pending'[i].records
    <3> TAKE r \in Metrics(h) \cup Alerts(h)
    <3>1. CASE Copies(h.id, r) # {}
      BY <1>1, <3>1
    <3>2. ASSUME NEW i \in DOMAIN pending, r \in pending[i].records
          PROVE  Copies(h.id, r)' # {} \/ \E j \in DOMAIN pending' : r \in pending'[j].records
      BY <2>4, <2>5, <3>2
    <3> QED
      BY <2>1, <2>2, <3>1, <3>2 DEF AllStored
  <2> QED
    BY <1>2, <2>2, <2>6 DEF AllStored
<1>8. CASE WriteFails \/ DiesElsewhere
  BY <1>3, <1>8 DEF DiesElsewhere, WriteFails, Exit
<1>9. CASE WaitForConfig \/ Connect
  BY <1>3, <1>9 DEF WaitForConfig, Connect
<1> QED
  BY <1>4, <1>5, <1>6, <1>7, <1>8, <1>9 DEF KafkaNext, ConfigSet, GroupArrives, TopicConnect,
     WriteBreaks, StoreLate, kafkaVars

\* What kafkapump keeps.
KafkaInv ==
  /\ KafkaTypeOK /\ GroupsInOrder /\ PendingInHand /\ AtMostTwo /\ AllStored

\* It holds at the start.
LEMMA KafkaStart == KafkaInit => KafkaInv
<1> SUFFICES ASSUME KafkaInit PROVE KafkaInv
  OBVIOUS
<1>1. /\ log = [t \in Topics |-> [p \in Partitions |-> <<>>]] /\ flying = {} /\ done = {} /\ groupsIn = <<>>
      /\ pending = <<>> /\ kpc = "wait" /\ retrying = FALSE
  BY DEF KafkaInit
<1>2. DOMAIN groupsIn = {} /\ DOMAIN pending = {}
  BY <1>1
<1>3. \A n : ~Sent(n)
  BY <1>1 DEF Sent
<1>4. GroupsInOrder /\ PendingInHand /\ AllStored
  BY <1>1, <1>2, <1>3 DEF GroupsInOrder, PendingInHand, AllStored
<1>5. \A g, r : Finite(g, r) /\ Written(g, r) = 0
  <2> TAKE g, r
  <2>1. Copies(g, r) = {}
    <3>1. Copies(g, r) = CopiesIn(log, g, r)
      BY DEF Copies, CopiesIn
    <3>2. \A x : x \notin CopiesIn(log, g, r)
      BY <1>1, CopyAt
    <3> QED
      BY <3>1, <3>2
  <2>2. FlyingCopies(g, r) = {}
    BY <1>1 DEF FlyingCopies
  <2> QED
    BY <2>1, <2>2, FS_EmptySet DEF Finite, Written
<1>6. AtMostTwo
  BY <1>1, <1>2, <1>5 DEF AtMostTwo
<1> QED
  BY <1>4, <1>6, KafkaTypeStart DEF KafkaInv

\* kafkapump keeps it, through failed writes and restarts.
THEOREM KafkaInvariant == KafkaSpec => []KafkaInv
<1>1. KafkaInv /\ [KafkaNext]_kafkaVars => KafkaInv'
  BY KafkaTypeStep, GroupsStep, PendingStep, TwoStep, AllStoredStep DEF KafkaInv
<1> QED
  BY <1>1, KafkaStart, PTL DEF KafkaSpec

\* Whatever connections break and however often the process is restarted, a group
\* kafkapump has gone past is stored with all of its records, and none of them is
\* stored a third time.
THEOREM KafkaOneOrTwoCopies == KafkaSpec => []OneOrTwoCopies
<1>1. KafkaInv => OneOrTwoCopies
  <2> SUFFICES ASSUME KafkaInv PROVE OneOrTwoCopies
    OBVIOUS
  <2>1. \A g \in 1..MaxGroups, r \in Record : Cardinality(Copies(g, r)) <= 2
    <3> TAKE g \in 1..MaxGroups, r \in Record
    <3>1. Finite(g, r) /\ Written(g, r) <= 2
      BY DEF KafkaInv, AtMostTwo
    <3>2. Cardinality(Copies(g, r)) \in Nat /\ Cardinality(FlyingCopies(g, r)) \in Nat
      BY <3>1, WrittenNumber
    <3> QED
      BY <3>1, <3>2 DEF Written
  <2>2. \A g \in done : \A r \in Metrics(g) \cup Alerts(g) : Copies(g.id, r) # {}
    BY DEF KafkaInv, AllStored
  <2> QED
    BY <2>1, <2>2 DEF OneOrTwoCopies
<1> QED
  BY <1>1, KafkaInvariant, PTL

-----------------------------------------------------------------------------
\* Partition 0 of the topic holds something of the group.
InZero(t, n) == \E i \in DOMAIN log[t]["0"] : log[t]["0"][i].group = n

\* What may be stored late in partition 0 is of a group in hand at an end of the
\* process, of one that is there, or it is the message in hand, to be retried.
LateAreSecond ==
  \A f \in flying : f.partition = "0" =>
    \/ f.message.group \in cut
    \/ InZero(f.message.topic, f.message.group)
    \/ kpc = "send" /\ retrying /\ f.message = Message

\* Nothing in partition 0 is of a group after the n-th.
LastInZero(n) == \A t \in Topics : \A i \in DOMAIN log[t]["0"] : log[t]["0"][i].group <= n

\* Partition 0 of the topic, with n entries, is left alone or has one more.
Grows(t, m, p, n) ==
  /\ DOMAIN log[t]["0"] = 1..n
  /\ \A i \in 1..n : i \in DOMAIN log'[t]["0"] /\ log'[t]["0"][i] = log[t]["0"][i]
  /\ t = m.topic /\ p = "0" =>
       DOMAIN log'[t]["0"] = 1..(n + 1) /\ log'[t]["0"][n + 1].group = m.group
  /\ ~(t = m.topic /\ p = "0") => DOMAIN log'[t]["0"] = 1..n

\* One of the two is what a stored message does.
LEMMA ZeroStored ==
  ASSUME KafkaTypeOK, NEW m \in Msg, m.topic \in Topics, NEW p \in Partitions, log' = Stored(m, p),
         NEW t \in Topics
  PROVE  \E n \in Nat : Grows(t, m, p, n)
<1>1. "0" \in Partitions
  BY DEF Partitions
<1>2. CASE t = m.topic /\ p = "0"
  <2>1. PICK n : n = Len(log[m.topic][p])
    OBVIOUS
  <2>2. /\ n \in Nat /\ DOMAIN log[m.topic][p] = 1..n /\ DOMAIN log'[m.topic][p] = 1..(n + 1)
        /\ log'[m.topic][p][n + 1] = [group |-> m.group, records |-> m.records]
        /\ \A j \in 1..n : log'[m.topic][p][j] = log[m.topic][p][j]
    BY <2>1, StoredAt
  <2>3. \A j \in 1..n : j \in 1..(n + 1)
    BY <2>2
  <2>4. Grows(t, m, p, n)
    BY <1>2, <2>2, <2>3 DEF Grows
  <2> QED
    BY <2>2, <2>4
<1>3. CASE ~(t = m.topic /\ p = "0")
  <2>1. log'[t]["0"] = log[t]["0"] /\ log[t]["0"] \in Seq(LogEntry)
    BY <1>1, <1>3, NotStoredAt DEF KafkaTypeOK
  <2>2. Len(log[t]["0"]) \in Nat /\ DOMAIN log[t]["0"] = 1..Len(log[t]["0"])
    BY <2>1
  <2> QED
    BY <1>3, <2>1, <2>2 DEF Grows
<1> QED
  BY <1>2, <1>3

\* The message's group is there already, is the last one there is, or is left out.
LEMMA OrderStored ==
  ASSUME KafkaTypeOK, FirstCopiesInOrder, NEW m \in Msg, m.topic \in Topics, NEW p \in Partitions,
         log' = Stored(m, p), cut \subseteq cut',
         p = "0" => m.group \in cut \/ InZero(m.topic, m.group) \/ LastInZero(m.group)
  PROVE  FirstCopiesInOrder'
<1> SUFFICES ASSUME NEW t \in Topics, NEW i \in DOMAIN log'[t]["0"], NEW g \in (1..MaxGroups) \ cut',
                    g < log'[t]["0"][i].group,
                    NEW k \in DOMAIN log'[t]["0"], log'[t]["0"][k].group = g
             PROVE  \E j \in DOMAIN log'[t]["0"] : log'[t]["0"][j].group = g /\ j < i
  BY DEF FirstCopiesInOrder
<1>1. PICK n \in Nat : Grows(t, m, p, n)
  BY ZeroStored
<1>2. \A j \in 1..(n + 1) : j \in 1..n \/ j = n + 1
  OBVIOUS
<1>3. ASSUME NEW l \in 1..n, log[t]["0"][l].group = g
      PROVE  \E j \in DOMAIN log'[t]["0"] : log'[t]["0"][j].group = g /\ j < i
  <2>1. CASE i \in 1..n
    <3> DEFINE at == {j \in DOMAIN log[t]["0"] : log[t]["0"][j].group = g}
    <3>1. l \in at /\ i \in DOMAIN log[t]["0"] /\ g < log[t]["0"][i].group
      BY <1>1, <1>3, <2>1 DEF Grows
    <3>2. \E j \in at : j < i
      BY <3>1 DEF FirstCopiesInOrder
    <3> QED
      BY <1>1, <3>2 DEF Grows
  <2>2. CASE i \notin 1..n
    <3>1. i = n + 1
      BY <1>1, <1>2, <2>2 DEF Grows
    <3>2. l < i
      BY <3>1
    <3> QED
      BY <1>1, <1>3, <3>2 DEF Grows
  <2> QED
    BY <2>1, <2>2
<1>4. CASE k \in 1..n
  <2>1. log[t]["0"][k].group = g
    BY <1>1, <1>4 DEF Grows
  <2> QED
    BY <1>3, <1>4, <2>1
<1>5. CASE k \notin 1..n
  <2>1. k = n + 1 /\ t = m.topic /\ p = "0" /\ m.group = g
    BY <1>1, <1>2, <1>5 DEF Grows
  <2>2. CASE InZero(m.topic, m.group)
    <3>1. PICK l \in 1..n : log[t]["0"][l].group = g
      BY <1>1, <2>1, <2>2 DEF Grows, InZero
    <3> QED
      BY <1>3, <3>1
  <2>3. CASE LastInZero(m.group)
    <3>1. i \in 1..n
      <4>1. i \in 1..(n + 1)
        BY <1>1, <2>1 DEF Grows
      <4>2. i # n + 1
        BY <1>1, <2>1 DEF Grows
      <4> QED
        BY <1>2, <4>1, <4>2
    <3>2. i \in DOMAIN log[t]["0"] /\ log'[t]["0"][i] = log[t]["0"][i]
      BY <1>1, <3>1 DEF Grows
    <3>3. log[t]["0"][i].group <= g
      BY <2>1, <2>3, <3>2 DEF LastInZero
    <3>4. log[t]["0"][i].group \in Int
      <4>1. log[t]["0"] \in Seq(LogEntry)
        BY DEF KafkaTypeOK, Partitions
      <4>2. log[t]["0"][i] \in LogEntry
        BY <3>2, <4>1
      <4> QED
        BY <4>2 DEF LogEntry
    <3> QED
      BY <3>2, <3>3, <3>4
  <2> QED
    BY <2>1, <2>2, <2>3
<1> QED
  BY <1>4, <1>5

\* What is in partition 0 stays there.
LEMMA ZeroStays ==
  ASSUME KafkaTypeOK, NEW m \in Msg, m.topic \in Topics, NEW p \in Partitions, log' = Stored(m, p),
         NEW t \in Topics, NEW n
  PROVE  /\ InZero(t, n) => InZero(t, n)'
         /\ t = m.topic /\ p = "0" /\ n = m.group => InZero(t, n)'
<1>1. PICK k \in Nat : Grows(t, m, p, k)
  BY ZeroStored
<1>2. k + 1 \in 1..(k + 1)
  OBVIOUS
<1> QED
  BY <1>1, <1>2 DEF Grows, InZero


\* While a message is being sent nothing later than its group is stored.
LEMMA SendingIsLast ==
  ASSUME KafkaTypeOK, GroupsInOrder, PendingInHand, Sending
  PROVE  kpc = "send" /\ Message.group = hand.id /\ LastInZero(Message.group)
<1>1. kpc = "send" /\ pending # <<>> /\ pending \in Seq(Msg)
  BY DEF Sending, KafkaTypeOK
<1>2. 1 \in DOMAIN pending /\ Message = pending[1]
  BY <1>1, HeadAndTail DEF Message
<1>3. PICK h : h = hand.id
  OBVIOUS
<1>4. Message.group = h
  BY <1>2, <1>3 DEF PendingInHand
<1>5. ASSUME NEW t \in Topics, NEW i \in DOMAIN log[t]["0"]
      PROVE  log[t]["0"][i].group <= h
  <2>1. "0" \in Partitions
    BY DEF Partitions
  <2>2. log[t]["0"] \in Seq(LogEntry)
    BY <2>1 DEF KafkaTypeOK
  <2>3. log[t]["0"][i] \in LogEntry
    BY <2>2
  <2>4. log[t]["0"][i].group \in 0..MaxGroups /\ Sent(log[t]["0"][i].group)
    BY <2>1, <2>3 DEF Sent, LogEntry
  <2> QED
    BY <1>1, <1>3, <2>4 DEF GroupsInOrder
<1> QED
  BY <1>1, <1>3, <1>4, <1>5 DEF LastInZero

\* Every step keeps the order of first copies.
LEMMA OrderStep ==
  ASSUME KafkaTypeOK, GroupsInOrder, PendingInHand, LateAreSecond, FirstCopiesInOrder,
         [KafkaNext]_kafkaVars
  PROVE  LateAreSecond' /\ FirstCopiesInOrder'
<1>1. \A f \in flying : /\ f.message \in Msg /\ f.message.topic \in Topics /\ f.partition \in Partitions
                        /\ f.message.group \in 0..MaxGroups
  BY DEF KafkaTypeOK, Flight, Msg
<1>2. ASSUME log' = log, cut \subseteq cut'
      PROVE  FirstCopiesInOrder'
  BY <1>2 DEF FirstCopiesInOrder
<1>3. ASSUME UNCHANGED <<log, flying>>, cut \subseteq cut',
             \/ ~(kpc = "send" /\ retrying) \/ UNCHANGED <<kpc, retrying, pending>>
             \/ \A f \in flying : f.message = Message => f.message.group \in cut'
      PROVE  LateAreSecond' /\ FirstCopiesInOrder'
  <2>1. \A t, n : InZero(t, n)' <=> InZero(t, n)
    BY <1>3 DEF InZero
  <2>2. ASSUME NEW f \in flying, f.partition = "0"
        PROVE  \/ f.message.group \in cut'
               \/ InZero(f.message.topic, f.message.group)'
               \/ kpc' = "send" /\ retrying' /\ f.message = Message'
    <3>1. CASE kpc = "send" /\ retrying /\ f.message = Message
      BY <1>3, <3>1 DEF Message
    <3> QED
      BY <1>3, <2>1, <2>2, <3>1 DEF LateAreSecond
  <2>3. LateAreSecond'
    BY <1>3, <2>2 DEF LateAreSecond
  <2> QED
    BY <1>2, <1>3, <2>3
<1>4. CASE TakeGroup
  BY <1>3, <1>4 DEF TakeGroup
<1>5. CASE GroupDone
  <2>1. ~retrying
    BY <1>5 DEF GroupDone, PendingInHand
  <2> QED
    BY <1>3, <1>5, <2>1 DEF GroupDone
<1>6. ASSUME Sending, Connected
      PROVE  /\ Message \in Msg /\ Message.topic \in Topics /\ conns[Message.topic] \in Partitions
             /\ kpc = "send" /\ Message.group = hand.id /\ LastInZero(Message.group)
             /\ retrying => conns[Message.topic] = "0"
  <2>1. /\ Message \in Msg /\ Message.topic \in Topics /\ conns[Message.topic] \in Partitions
    BY <1>6, ConnectedType
  <2>2. retrying => conns[Message.topic] = "0"
    BY <1>6 DEF PendingInHand, Connected
  <2> QED
    BY <1>6, <2>1, <2>2, SendingIsLast
<1>7. ASSUME Sending, Connected, log' = Stored(Message, conns[Message.topic])
      PROVE  /\ cut \subseteq cut' => FirstCopiesInOrder'
             /\ \A t \in Topics : \A n : InZero(t, n) => InZero(t, n)'
             /\ retrying => \A t, n : t = Message.topic /\ n = Message.group => InZero(t, n)'
  <2>1. PICK m, p : m = Message /\ p = conns[Message.topic]
    OBVIOUS
  <2>2. /\ m \in Msg /\ m.topic \in Topics /\ p \in Partitions /\ log' = Stored(m, p)
        /\ LastInZero(m.group)
    BY <1>6, <1>7, <2>1
  <2>3. cut \subseteq cut' => FirstCopiesInOrder'
    BY <2>2, OrderStored
  <2>4. \A t \in Topics : \A n : InZero(t, n) => InZero(t, n)'
    BY <2>2, ZeroStays
  <2>5. retrying => InZero(m.topic, m.group)'
    BY <1>6, <1>7, <2>1, <2>2, ZeroStays
  <2> QED
    BY <2>1, <2>3, <2>4, <2>5
<1>8. CASE WriteSucceeds
  <2>1. /\ Sending /\ Connected /\ log' = Stored(Message, conns[Message.topic])
        /\ UNCHANGED <<flying, cut>>
    BY <1>8 DEF WriteSucceeds
  <2>2. ASSUME NEW f \in flying, f.partition = "0"
        PROVE  f.message.group \in cut \/ InZero(f.message.topic, f.message.group)'
    <3>1. \/ f.message.group \in cut
          \/ InZero(f.message.topic, f.message.group)
          \/ retrying /\ f.message = Message
      BY <2>2 DEF LateAreSecond
    <3> QED
      BY <1>1, <1>7, <2>1, <3>1
  <2>3. LateAreSecond'
    BY <2>1, <2>2 DEF LateAreSecond
  <2> QED
    BY <1>7, <2>1, <2>3
<1>9. ASSUME Sending, Connected, Unacknowledged
      PROVE  /\ cut \subseteq cut' => FirstCopiesInOrder'
             /\ \A t \in Topics : \A n : InZero(t, n) => InZero(t, n)'
             /\ \A f \in flying' : f \in flying \/ f.message = Message
  <2>1. CASE log' = log
    BY <1>2, <1>9, <2>1 DEF Unacknowledged, InZero
  <2>2. CASE log' = Stored(Message, conns[Message.topic]) /\ flying' = flying
    BY <1>7, <1>9, <2>2
  <2> QED
    BY <1>9, <2>1, <2>2 DEF Unacknowledged
<1>10. CASE WriteBreaks
  <2>1. /\ Sending /\ Connected /\ Unacknowledged /\ retrying = FALSE /\ retrying' = TRUE
        /\ UNCHANGED <<kpc, pending, cut>>
    BY <1>10 DEF WriteBreaks, KafkaTypeOK
  <2>2. Message' = Message /\ kpc' = "send"
    BY <1>6, <2>1 DEF Message
  <2>3. ASSUME NEW f \in flying', f.partition = "0"
        PROVE  f.message.group \in cut \/ InZero(f.message.topic, f.message.group)' \/ f.message = Message
    <3>1. CASE f \in flying
      BY <1>1, <1>9, <2>1, <2>3, <3>1 DEF LateAreSecond
    <3> QED
      BY <1>9, <2>1, <3>1
  <2>4. LateAreSecond'
    BY <2>1, <2>2, <2>3 DEF LateAreSecond
  <2> QED
    BY <1>9, <2>1, <2>4
<1>11. CASE WriteFails
  <2>1. PICK h : h = hand.id
    OBVIOUS
  <2>2. Sending /\ Connected /\ Unacknowledged /\ cut' = cut \cup {h}
    BY <1>11, <2>1 DEF WriteFails, Exit
  <2>3. Message.group = h /\ LastInZero(h)
    BY <1>6, <2>1, <2>2
  <2>4. ASSUME NEW f \in flying', f.partition = "0"
        PROVE  f.message.group \in cut' \/ InZero(f.message.topic, f.message.group)'
    <3>1. CASE f.message = Message
      BY <2>2, <2>3, <3>1
    <3>2. CASE f \in flying /\ f.message # Message
      BY <1>1, <1>9, <2>2, <2>4, <3>2 DEF LateAreSecond
    <3> QED
      BY <1>9, <2>2, <3>1, <3>2
  <2>5. LateAreSecond'
    BY <2>4 DEF LateAreSecond
  <2> QED
    BY <1>9, <2>2, <2>5
<1>12. CASE StoreLate
  <2>1. PICK l \in flying : log' = Stored(l.message, l.partition) /\ flying' = flying \ {l}
    BY <1>12 DEF StoreLate
  <2>2. UNCHANGED <<kpc, retrying, pending, cut>>
    BY <1>12 DEF StoreLate
  <2>3. PICK m, p : m = l.message /\ p = l.partition
    OBVIOUS
  <2>4. m \in Msg /\ m.topic \in Topics /\ p \in Partitions /\ log' = Stored(m, p)
    BY <1>1, <2>1, <2>3
  <2>5. p = "0" => m.group \in cut \/ InZero(m.topic, m.group) \/ LastInZero(m.group)
    <3>1. ASSUME kpc = "send", retrying, m = Message
          PROVE  LastInZero(m.group)
      BY <3>1, SendingIsLast DEF Sending, PendingInHand
    <3> QED
      BY <2>3, <3>1 DEF LateAreSecond
  <2>6. FirstCopiesInOrder'
    BY <2>2, <2>4, <2>5, OrderStored
  <2>7. \A t \in Topics : \A n : InZero(t, n) => InZero(t, n)'
    BY <2>4, ZeroStays
  <2>8. Message' = Message
    BY <2>2 DEF Message
  <2>9. ASSUME NEW f \in flying, f.partition = "0"
        PROVE  \/ f.message.group \in cut
               \/ InZero(f.message.topic, f.message.group)'
               \/ kpc = "send" /\ retrying /\ f.message = Message
    BY <1>1, <2>7, <2>9 DEF LateAreSecond
  <2>10. LateAreSecond'
    BY <2>1, <2>2, <2>8, <2>9 DEF LateAreSecond
  <2> QED
    BY <2>6, <2>10
<1>13. CASE DiesElsewhere
  <2>1. PICK h : h = hand.id
    OBVIOUS
  <2>2. UNCHANGED <<log, flying>> /\ cut' = cut \cup {h}
    BY <1>13, <2>1 DEF DiesElsewhere, Exit
  <2>3. ASSUME kpc = "send", retrying
        PROVE  Message.group = h
    BY <2>1, <2>3, SendingIsLast DEF Sending, PendingInHand
  <2> QED
    BY <1>3, <2>2, <2>3
<1>14. CASE WaitForConfig \/ Connect
  BY <1>3, <1>14 DEF WaitForConfig, Connect
<1>15. CASE ConfigSet \/ GroupArrives \/ TopicConnect \/ UNCHANGED kafkaVars
  BY <1>3, <1>15 DEF ConfigSet, GroupArrives, TopicConnect, kafkaVars
<1> QED
  BY <1>4, <1>5, <1>8, <1>10, <1>11, <1>12, <1>13, <1>14, <1>15 DEF KafkaNext

\* In partition 0 every group appears for the first time before any later one, whatever
\* is written twice or stored late, unless the process ended with it in hand.
THEOREM KafkaFirstCopiesInOrder == KafkaSpec => []FirstCopiesInOrder
<1>1. KafkaInit => LateAreSecond /\ FirstCopiesInOrder
  <2> SUFFICES ASSUME KafkaInit PROVE LateAreSecond /\ FirstCopiesInOrder
    OBVIOUS
  <2>1. flying = {} /\ log = [t \in Topics |-> [p \in Partitions |-> <<>>]]
    BY DEF KafkaInit
  <2>2. \A t \in Topics : DOMAIN log[t]["0"] = {}
    BY <2>1 DEF Partitions
  <2> QED
    BY <2>1, <2>2 DEF LateAreSecond, FirstCopiesInOrder
<1>2. /\ KafkaInv /\ LateAreSecond /\ FirstCopiesInOrder /\ [KafkaNext]_kafkaVars
      => LateAreSecond' /\ FirstCopiesInOrder'
  BY OrderStep DEF KafkaInv
<1> QED
  BY <1>1, <1>2, KafkaInvariant, PTL DEF KafkaSpec

=============================================================================
