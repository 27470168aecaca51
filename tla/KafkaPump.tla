----------------------------- MODULE KafkaPump -----------------------------
(***************************************************************************)
(* kafkapump: wait for a minimum of settings, connect, then send each      *)
(* group taken from the channel to Kafka (cmd/kafkapump/kafkapump.go and   *)
(* internal/messagebus/kafka/kafka.go).  configService changes the         *)
(* settings at any time; an error the code cannot retry, or a crash at any *)
(* point, ends the process, which is restarted with the settings of its    *)
(* environment.                                                            *)
(*                                                                         *)
(* A group is its number with the timestamps of its values and events; a   *)
(* record sent is the kind and the timestamp.                              *)
(***************************************************************************)
EXTENDS Naturals, Sequences, FiniteSets

CONSTANTS
  Settings,     \* [broker, topic, alertTopic, partition, cert -> the values set]
  EnvSettings,  \* configStrings when the process has started
  TopicName,    \* of each topic that may be set, the one with "/" replaced by "_"
  Contents,     \* the values and events groups have, as sets of timestamps
  ChannelSize,  \* of groupsIn: 10
  MaxGroups,    \* bound on the groups that arrive
  MaxFaults     \* bound on failed writes, exits and crashes

Names == {"broker", "topic", "alertTopic", "partition", "cert"}
Stamps == {"rfc3339", "+0000", "other"}

ASSUME KafkaPumpConstants ==
  /\ DOMAIN Settings = Names
  /\ EnvSettings \in [Names -> UNION {Settings[n] : n \in Names}]
  /\ \A n \in Names : EnvSettings[n] \in Settings[n]
  /\ "none" \notin Settings["partition"]
  /\ \A c \in Contents : c.values \subseteq Stamps /\ c.events \subseteq Stamps
  /\ ChannelSize \in Nat \ {0} /\ MaxGroups \in Nat /\ MaxFaults \in Nat

TopicSettings == Settings["topic"] \cup Settings["alertTopic"]

ASSUME TopicNames ==
  DOMAIN TopicName = TopicSettings /\ \A t \in TopicSettings : TopicName[t] = "" <=> t = ""

Topics == (TopicSettings \cup {TopicName[t] : t \in TopicSettings}) \ {""}
Partitions == Settings["partition"] \cup {"0"}
None == "none"
NoGroup == [id |-> 0, values |-> {}, events |-> {}]

VARIABLES
  settings,  \* configStrings
  conf,      \* main's copy, the last one read while waiting
  kpc,       \* where main is
  groupsIn,  \* the channel
  hand,      \* the group handleGroups works on
  pending,   \* the messages of it that SendMessage has not returned for
  retrying,  \* SendMessage has dropped a stale connection
  conns,     \* [Topics -> partition of the cached connection, or None]
  log,       \* [Topics -> [Partitions -> what the broker has stored]]
  flying,    \* messages written to connections that broke, not stored so far
  arrived, faults,  \* counters of the bounds
  done,      \* history: the groups handleGroups has gone past
  cut        \* history: the numbers of the groups in hand when the process ended (0 is none)

kafkaVars == <<settings, conf, kpc, groupsIn, hand, pending, retrying, conns, log, flying,
               arrived, faults, done, cut>>

Unconnected == [t \in Topics |-> None]
NoConf == [broker |-> "", topic |-> "", partition |-> "0", cert |-> ""]

KafkaInit ==
  /\ settings = EnvSettings /\ conf = NoConf /\ kpc = "wait"
  /\ groupsIn = <<>> /\ hand = NoGroup /\ pending = <<>> /\ retrying = FALSE
  /\ conns = Unconnected
  /\ log = [t \in Topics |-> [p \in Partitions |-> <<>>]] /\ flying = {}
  /\ arrived = 0 /\ faults = 0 /\ done = {} /\ cut = {}

-----------------------------------------------------------------------------
\* configSet, called by configService.
ConfigSet ==
  /\ \E n \in Names : \E v \in Settings[n] : settings' = [settings EXCEPT ![n] = v]
  /\ UNCHANGED <<conf, kpc, groupsIn, hand, pending, retrying, conns, log, flying, arrived,
                 faults, done, cut>>

\* Mutation: the goroutine does not wait for room in the channel.
GroupArrivesUnbounded ==
  /\ arrived < MaxGroups
  /\ arrived' = arrived + 1
  /\ \E c \in Contents :
       groupsIn' = Append(groupsIn, [id |-> arrived', values |-> c.values, events |-> c.events])
  /\ UNCHANGED <<settings, conf, kpc, hand, pending, retrying, conns, log, flying, faults, done, cut>>

\* dbClient.GetGroup sends to the channel; groups arrive before there is a connection.
GroupArrives ==
  /\ arrived < MaxGroups /\ Len(groupsIn) < ChannelSize
  /\ arrived' = arrived + 1
  /\ \E c \in Contents :
       groupsIn' = Append(groupsIn, [id |-> arrived', values |-> c.values, events |-> c.events])
  /\ UNCHANGED <<settings, conf, kpc, hand, pending, retrying, conns, log, flying, faults, done, cut>>

\* One round of the wait: a certificate once seen stays, everything else is read anew.
WaitForConfig ==
  /\ kpc = "wait"
  /\ conf' = [broker |-> settings.broker, topic |-> settings.topic,
              partition |-> settings.partition,
              cert |-> IF settings.cert # "" THEN settings.cert ELSE conf.cert]
  /\ kpc' = IF conf'.broker # "" /\ conf'.topic # "" THEN "connect" ELSE "wait"
  /\ UNCHANGED <<settings, groupsIn, hand, pending, retrying, conns, log, flying, arrived,
                 faults, done, cut>>

\* NewKafkaMessageBus succeeds; the rounds in which it fails change nothing, and
\* with an unreadable certificate it always fails.  It keeps the connection under the
\* topic as it was set: with a "/" in it (if a broker takes that) nobody finds it again.
Connect ==
  /\ kpc = "connect" /\ conf.cert # "unreadable"
  /\ conns' = [Unconnected EXCEPT ![conf.topic] = conf.partition]
  /\ kpc' = "take"
  /\ UNCHANGED <<settings, conf, groupsIn, hand, pending, retrying, log, flying, arrived,
                 faults, done, cut>>

-----------------------------------------------------------------------------
\* handleGroups

\* Records whose timestamp does not parse, not even with "+0000" as "Z", are left out.
Records(kind, stamps) == {[kind |-> kind, stamp |-> s] : s \in stamps \ {"other"}}
Metrics(g) == Records("metric", g.values)
Alerts(g) == Records("alert", g.events)

\* Without a topic for alerts one message holds both, even if it holds nothing.  The
\* topic is the one SendMessage and TopicConnect look up.
Messages(g) ==
  LET to(t, rs) == IF rs = {} THEN <<>> ELSE <<[topic |-> t, group |-> g.id, records |-> rs]>>
      metricTopic == TopicName[settings.topic]
      alertTopic == TopicName[settings.alertTopic]
  IN  IF alertTopic # ""
      THEN to(metricTopic, Metrics(g)) \o to(alertTopic, Alerts(g))
      ELSE <<[topic |-> metricTopic, group |-> g.id, records |-> Metrics(g) \cup Alerts(g)]>>

TakeGroup ==
  /\ kpc = "take" /\ groupsIn # <<>>
  /\ hand' = Head(groupsIn) /\ groupsIn' = Tail(groupsIn)
  /\ pending' = Messages(Head(groupsIn))
  /\ kpc' = "send"
  /\ UNCHANGED <<settings, conf, retrying, conns, log, flying, arrived, faults, done, cut>>

GroupDone ==
  /\ kpc = "send" /\ pending = <<>>
  /\ done' = done \cup {hand} /\ hand' = NoGroup
  /\ kpc' = "take"
  /\ UNCHANGED <<settings, conf, groupsIn, pending, retrying, conns, log, flying, arrived, faults,
                 cut>>

-----------------------------------------------------------------------------
\* SendMessage of the first pending message

Message == Head(pending)
Sending == kpc = "send" /\ pending # <<>>
Connected == Message.topic # "" /\ conns[Message.topic] # None

\* TopicConnect dials partition 0, whatever kafkaPartition says.
TopicConnect ==
  /\ Sending /\ ~Connected /\ Message.topic # ""
  /\ conns' = [conns EXCEPT ![Message.topic] = "0"]
  /\ UNCHANGED <<settings, conf, kpc, groupsIn, hand, pending, retrying, log, flying, arrived,
                 faults, done, cut>>

Stored(m, p) == [log EXCEPT ![m.topic][p] = Append(@, [group |-> m.group, records |-> m.records])]

WriteSucceeds ==
  /\ Sending /\ Connected
  /\ log' = Stored(Message, conns[Message.topic])
  /\ pending' = Tail(pending) /\ retrying' = FALSE
  /\ UNCHANGED <<settings, conf, kpc, groupsIn, hand, conns, flying, arrived, faults, done, cut>>

\* A write that failed may or may not have reached the broker, and may do so yet.
Unacknowledged ==
  LET m == Message  p == conns[Message.topic] IN
  \/ log' = log /\ flying' = flying
  \/ log' = Stored(m, p) /\ flying' = flying
  \/ log' = log /\ flying' = flying \cup {[message |-> m, partition |-> p, fault |-> faults]}

\* Mutation: after any number of such errors the write is tried again.
WriteBreaksAgain ==
  /\ Sending /\ Connected
  /\ faults < MaxFaults /\ faults' = faults + 1
  /\ Unacknowledged
  /\ conns' = [conns EXCEPT ![Message.topic] = None] /\ retrying' = TRUE
  /\ UNCHANGED <<settings, conf, kpc, groupsIn, hand, pending, arrived, done, cut>>

\* Mutation: a group whose write failed goes to the end of the channel.
WriteBreaksRequeue ==
  /\ Sending /\ Connected /\ Len(groupsIn) < ChannelSize
  /\ faults < MaxFaults /\ faults' = faults + 1
  /\ Unacknowledged
  /\ conns' = [conns EXCEPT ![Message.topic] = None]
  /\ groupsIn' = Append(groupsIn, hand) /\ hand' = NoGroup /\ pending' = <<>> /\ kpc' = "take"
  /\ UNCHANGED <<settings, conf, retrying, arrived, done, cut>>

\* shouldRestartOnErr: the connection is dropped, and dialled and written once more.
WriteBreaks ==
  /\ Sending /\ Connected /\ ~retrying
  /\ faults < MaxFaults /\ faults' = faults + 1
  /\ Unacknowledged
  /\ conns' = [conns EXCEPT ![Message.topic] = None] /\ retrying' = TRUE
  /\ UNCHANGED <<settings, conf, kpc, groupsIn, hand, pending, arrived, done, cut>>

\* The process ends and is restarted: what the channel and the hand hold is gone.
Exit ==
  /\ faults < MaxFaults /\ faults' = faults + 1
  /\ settings' = EnvSettings /\ conf' = NoConf /\ kpc' = "wait"
  /\ groupsIn' = <<>> /\ hand' = NoGroup /\ pending' = <<>> /\ retrying' = FALSE
  /\ conns' = Unconnected
  /\ cut' = cut \cup {hand.id}
  /\ UNCHANGED <<arrived, done>>

\* A write fails, with an error that is not retried or after the retry, or the process
\* is killed in one, ...
WriteFails == Sending /\ Connected /\ Unacknowledged /\ Exit

\* ... DialLeader fails in SendMessage, as it must for an empty topic, or the process is
\* killed at any other point.
DiesElsewhere == Exit /\ UNCHANGED <<log, flying>>

\* External: the broker gets to what was left in a connection that broke.
StoreLate ==
  /\ \E f \in flying : log' = Stored(f.message, f.partition) /\ flying' = flying \ {f}
  /\ UNCHANGED <<settings, conf, kpc, groupsIn, hand, pending, retrying, conns, arrived, faults, done, cut>>

KafkaNext ==
  \/ ConfigSet \/ GroupArrives \/ WaitForConfig \/ Connect \/ TakeGroup \/ GroupDone
  \/ TopicConnect \/ WriteSucceeds \/ WriteBreaks \/ WriteFails \/ DiesElsewhere \/ StoreLate

KafkaSpec == KafkaInit /\ [][KafkaNext]_kafkaVars

-----------------------------------------------------------------------------
Group == [id : 0..MaxGroups, values : SUBSET Stamps, events : SUBSET Stamps]
Record == [kind : {"metric", "alert"}, stamp : Stamps]
Msg == [topic : Topics \cup {""}, group : 0..MaxGroups, records : SUBSET Record]
LogEntry == [group : 0..MaxGroups, records : SUBSET Record]
Flight == [message : [topic : Topics, group : 0..MaxGroups, records : SUBSET Record],
           partition : Partitions, fault : 0..MaxFaults]
Conf == [broker : Settings["broker"] \cup {""}, topic : Settings["topic"] \cup {""},
         partition : Partitions, cert : Settings["cert"] \cup {""}]

KafkaTypeOK ==
  /\ settings \in [Names -> UNION {Settings[n] : n \in Names}]
  /\ \A n \in Names : settings[n] \in Settings[n]
  /\ conf \in Conf
  /\ kpc \in {"wait", "connect", "take", "send"}
  /\ groupsIn \in Seq(Group) /\ Len(groupsIn) <= ChannelSize
  /\ hand \in Group /\ pending \in Seq(Msg) /\ Len(pending) <= 2
  /\ retrying \in BOOLEAN
  /\ conns \in [Topics -> Partitions \cup {None}]
  /\ log \in [Topics -> [Partitions -> Seq(LogEntry)]]
  /\ flying \subseteq Flight
  /\ arrived \in 0..MaxGroups /\ faults \in 0..MaxFaults
  /\ done \subseteq Group /\ cut \subseteq 0..MaxGroups

\* Where the broker holds the record of the group.
Copies(g, r) ==
  UNION {{<<t, p, i>> : i \in {j \in DOMAIN log[t][p] : /\ log[t][p][j].group = g
                                                      /\ r \in log[t][p][j].records}} :
         t \in Topics, p \in Partitions}

\* Whatever breaks on the way, a group handleGroups has gone past is in the broker
\* with every record of it that parses, and no record is there more than twice:
\* SendMessage returns without an error only for a stored message and retries once.
OneOrTwoCopies ==
  /\ \A g \in done : \A r \in Metrics(g) \cup Alerts(g) : Copies(g.id, r) # {}
  /\ \A g \in 1..MaxGroups : \A r \in Record : Cardinality(Copies(g, r)) <= 2

\* In partition 0, where every redialled connection writes, the groups appear for the
\* first time in the order of the channel, whatever is repeated or stored late, and so
\* does the one being sent.  Left out are only the groups in hand when the process
\* ended: what they left in a connection may be stored for the first time after groups
\* of the next process.  In other partitions there is no order: a retry goes elsewhere.
FirstCopiesInOrder ==
  \A t \in Topics : \A i \in DOMAIN log[t]["0"] : \A n \in (1..MaxGroups) \ cut :
    LET at == {j \in DOMAIN log[t]["0"] : log[t]["0"][j].group = n} IN
    n < log[t]["0"][i].group /\ at # {} => \E j \in at : j < i

=============================================================================
