------------------------------- MODULE DataBus -------------------------------
(***************************************************************************)
(* The data bus: redfishread's DataBusService (internal/databus), its      *)
(* cache of the latest groups (pkg/databus), the command loop of           *)
(* cmd/redfishread, and the pumps, which SUBSCRIBE their queue, ask for the*)
(* current groups with GET and read the queue through GetGroup.            *)
(*                                                                         *)
(* The list of receivers and the cache live in redfishread's memory; a pump*)
(* subscribes once, when it starts.  Three kinds of goroutine of           *)
(* redfishread share the list and the cache: one listener per system, the  *)
(* one that reads the command queue, and the command loop.  None of them   *)
(* locks the list.                                                         *)
(***************************************************************************)
EXTENDS Naturals, Sequences, FiniteSets

CONSTANTS
  Systems,      \* monitored systems, each with one group
  Pumps,
  Queues,
  QueueOf,      \* the queue a pump subscribes and reads
  None,
  MaxGroups,    \* groups a system emits while redfishread runs (a bound)
  MaxCrashes,   \* bound on the crashes of redfishread and of the pumps
  SendsFail     \* a send to a queue may return an error

ASSUME DataBusConstants ==
  /\ QueueOf \in [Pumps -> Queues]
  /\ None \notin Queues
  /\ MaxGroups \in Nat /\ MaxCrashes \in Nat
  /\ SendsFail \in BOOLEAN

Commands == [type : {"SUBSCRIBE", "GET"}, replyTo : Queues]

\* An envelope on a pump's queue.  Reply takes the type of the request.
Envelopes == [type : {"DATAGROUP", "GET"}, sys : Systems, ver : 1 .. MaxGroups]

VARIABLES
  cmdQ,       \* the command queue of the data bus
  queues,     \* [Queues -> Seq(Envelopes)]
  receivers,  \* DataBusService.Recievers
  pending,    \* a command the queue's goroutine offers the command loop
  asker,      \* the queue the command loop is replying to, or None
  todo,       \* systems the loop over the cache has not come to
  reply,      \* the group it has read and not sent yet: <<>> or <<envelope>>
  cache,      \* [Systems -> version in DataGroups, 0 if there is none]
  ver,        \* [Systems -> groups the listener has begun to send]
  nextR,      \* [Systems -> index in receivers of the next send]
  lastR,      \* [Systems -> length of receivers when SendGroup began]
  uncached,   \* systems whose listener has sent a group and not cached it
  pump,       \* [Pumps -> {"start", "subscribed", "running"}]
  got,        \* [Pumps -> [Systems -> latest version handed to the pump]]
  crashes,    \* counter of the bound
  base,       \* history: [Queues -> [Systems -> ver when recorded]]
  tried,      \* history: [Queues -> [Systems -> sends tried since]]
  answers     \* history: [Queues -> [Systems -> versions in replies since]]

loopVars   == <<pending, asker, todo, reply>>
listenVars == <<cache, ver, nextR, lastR, uncached>>
pumpVars   == <<pump, got>>
histVars   == <<base, tried, answers>>
vars == <<cmdQ, queues, receivers, loopVars, listenVars, pumpVars, crashes, histVars>>

Zero == [q \in Queues |-> [s \in Systems |-> 0]]
Recorded(q) == \E i \in 1 .. Len(receivers) : receivers[i] = q

\* The queues a listener has still to send its group to.
Remaining(s, q) == \E i \in nextR[s] .. lastR[s] : receivers[i] = q

ReaderInit ==
  /\ receivers = <<>>
  /\ pending = <<>> /\ asker = None /\ todo = {} /\ reply = <<>>
  /\ cache = [s \in Systems |-> 0]
  /\ ver = [s \in Systems |-> 0]
  /\ nextR = [s \in Systems |-> 1]
  /\ lastR = [s \in Systems |-> 0]
  /\ uncached = {}
  /\ base = Zero /\ tried = Zero
  /\ answers = [q \in Queues |-> [s \in Systems |-> {}]]

Init ==
  /\ cmdQ = <<>>
  /\ queues = [q \in Queues |-> <<>>]
  /\ ReaderInit
  /\ pump = [p \in Pumps |-> "start"]
  /\ got = [p \in Pumps |-> [s \in Systems |-> 0]]
  /\ crashes = 0

-----------------------------------------------------------------------------
(* A pump: its main subscribes, asks for the current groups, and reads. *)

Subscribe(p) ==
  /\ pump[p] = "start"
  /\ cmdQ' = Append(cmdQ, [type |-> "SUBSCRIBE", replyTo |-> QueueOf[p]])
  /\ pump' = [pump EXCEPT ![p] = "subscribed"]
  /\ UNCHANGED <<queues, receivers, loopVars, listenVars, got, crashes, histVars>>

Get(p) ==
  /\ pump[p] = "subscribed"
  /\ cmdQ' = Append(cmdQ, [type |-> "GET", replyTo |-> QueueOf[p]])
  /\ pump' = [pump EXCEPT ![p] = "running"]
  /\ UNCHANGED <<queues, receivers, loopVars, listenVars, got, crashes, histVars>>

Max2(m, n) == IF m > n THEN m ELSE n

\* Mutation: GetGroup is made to wait for the replies to GET only.
GetGroupReplies(p) ==
  /\ pump[p] = "running"
  /\ queues[QueueOf[p]] # <<>>
  /\ LET env == Head(queues[QueueOf[p]])
     IN  got' = IF env.type = "GET"
                  THEN [got EXCEPT ![p][env.sys] = Max2(@, env.ver)] ELSE got
  /\ queues' = [queues EXCEPT ![QueueOf[p]] = Tail(@)]
  /\ UNCHANGED <<cmdQ, receivers, loopVars, listenVars, pump, crashes, histVars>>

\* GetGroup takes every envelope off the queue and hands on those of type
\* DATAGROUP.
GetGroup(p) ==
  /\ pump[p] = "running"
  /\ queues[QueueOf[p]] # <<>>
  /\ LET env == Head(queues[QueueOf[p]])
     IN  got' = IF env.type = "DATAGROUP"
                  THEN [got EXCEPT ![p][env.sys] = Max2(@, env.ver)] ELSE got
  /\ queues' = [queues EXCEPT ![QueueOf[p]] = Tail(@)]
  /\ UNCHANGED <<cmdQ, receivers, loopVars, listenVars, pump, crashes, histVars>>

\* What the process had prefetched dies with it; it subscribes again.
CrashPump(p) ==
  /\ pump[p] # "start"
  /\ crashes < MaxCrashes
  /\ crashes' = crashes + 1
  /\ pump' = [pump EXCEPT ![p] = "start"]
  /\ \E n \in 0 .. Len(queues[QueueOf[p]]) :
       queues' = [queues EXCEPT ![QueueOf[p]] = SubSeq(@, n + 1, Len(@))]
  /\ UNCHANGED <<cmdQ, receivers, loopVars, listenVars, got, histVars>>

-----------------------------------------------------------------------------
(* redfishread: the command queue. *)

\* Mutation: a queue is recorded again by every SUBSCRIBE.
RecordAgain(q) ==
  /\ receivers' = Append(receivers, q)
  /\ base' = [base EXCEPT ![q] = IF Recorded(q) THEN @ ELSE ver]
  /\ UNCHANGED <<tried, answers>>

HandleSubscribeEnvelope(q) ==
  IF Recorded(q)
    THEN UNCHANGED <<receivers, histVars>>
    ELSE /\ receivers' = Append(receivers, q)
         /\ base' = [base EXCEPT ![q] = ver]
         /\ UNCHANGED <<tried, answers>>

\* Mutation: the next command is read before the loop has taken the last.
ListenAhead ==
  /\ cmdQ # <<>>
  /\ cmdQ' = Tail(cmdQ)
  /\ pending' = Append(pending, Head(cmdQ))
  /\ IF Head(cmdQ).type = "SUBSCRIBE"
       THEN HandleSubscribeEnvelope(Head(cmdQ).replyTo)
       ELSE UNCHANGED <<receivers, histVars>>
  /\ UNCHANGED <<queues, asker, todo, reply, listenVars, pumpVars, crashes>>

\* ListenToQueue runs the hook, then waits for the command loop.
ListenToQueue ==
  /\ pending = <<>>
  /\ cmdQ # <<>>
  /\ cmdQ' = Tail(cmdQ)
  /\ pending' = <<Head(cmdQ)>>
  /\ IF Head(cmdQ).type = "SUBSCRIBE"
       THEN HandleSubscribeEnvelope(Head(cmdQ).replyTo)
       ELSE UNCHANGED <<receivers, histVars>>
  /\ UNCHANGED <<queues, asker, todo, reply, listenVars, pumpVars, crashes>>

Note(q, S, v) ==
  answers' = IF Recorded(q)
               THEN [answers EXCEPT ![q] =
                       [s \in Systems |-> @[s] \cup (IF s \in S THEN {v} ELSE {})]]
               ELSE answers

\* The command loop takes an envelope; for GET it starts on the groups of the
\* cache.  A system without a group counts as answered with version 0.
TakeCommand ==
  /\ pending # <<>>
  /\ asker = None
  /\ pending' = <<>>
  /\ IF pending[1].type = "GET"
       THEN /\ asker' = pending[1].replyTo
            /\ todo' = {s \in Systems : cache[s] > 0}
            /\ Note(pending[1].replyTo, {s \in Systems : cache[s] = 0}, 0)
       ELSE UNCHANGED <<asker, todo, answers>>
  /\ UNCHANGED <<cmdQ, queues, receivers, reply, listenVars, pumpVars, crashes, base, tried>>

\* The map is the live one: the group read is the one cached by then.
ReadCached(s) ==
  /\ asker # None
  /\ reply = <<>>
  /\ s \in todo
  /\ todo' = todo \ {s}
  /\ reply' = <<[type |-> "GET", sys |-> s, ver |-> cache[s]]>>
  /\ Note(asker, {s}, cache[s])
  /\ UNCHANGED <<cmdQ, queues, receivers, pending, asker, listenVars, pumpVars, crashes,
                 base, tried>>

Reply ==
  /\ reply # <<>>
  /\ queues' = [queues EXCEPT ![asker] = @ \o reply]
  /\ reply' = <<>>
  /\ UNCHANGED <<cmdQ, receivers, pending, asker, todo, listenVars, pumpVars, crashes, histVars>>

Replied ==
  /\ asker # None
  /\ todo = {} /\ reply = <<>>
  /\ asker' = None
  /\ UNCHANGED <<cmdQ, queues, receivers, pending, todo, reply, listenVars, pumpVars,
                 crashes, histVars>>

-----------------------------------------------------------------------------
(* redfishread: the listener of a system. *)

Idle(s) == nextR[s] > lastR[s] /\ s \notin uncached

\* The loop of SendGroup ranges over the receivers there are now.
BeginSendGroup(s) ==
  /\ Idle(s)
  /\ ver[s] < MaxGroups
  /\ ver' = [ver EXCEPT ![s] = @ + 1]
  /\ nextR' = [nextR EXCEPT ![s] = 1]
  /\ lastR' = [lastR EXCEPT ![s] = Len(receivers)]
  /\ uncached' = uncached \cup {s}
  /\ UNCHANGED <<cmdQ, queues, receivers, loopVars, cache, pumpVars, crashes, histVars>>

Deliver(s, q) ==
  queues' = [queues EXCEPT ![q] =
               Append(@, [type |-> "DATAGROUP", sys |-> s, ver |-> ver[s]])]

\* Mutation: the first error ends the loop.
SendToFirstOnly(s) ==
  /\ nextR[s] <= lastR[s]
  /\ LET q == receivers[nextR[s]]
     IN  /\ \/ Deliver(s, q) /\ nextR' = [nextR EXCEPT ![s] = @ + 1]
            \/ SendsFail /\ UNCHANGED queues /\ nextR' = [nextR EXCEPT ![s] = lastR[s] + 1]
         /\ tried' = [tried EXCEPT ![q][s] = @ + 1]
  /\ UNCHANGED <<cmdQ, receivers, loopVars, cache, ver, lastR, uncached, pumpVars,
                 crashes, base, answers>>

\* One turn of the loop: an error is logged and the loop goes on.
SendGroupToQueue(s) ==
  /\ nextR[s] <= lastR[s]
  /\ LET q == receivers[nextR[s]]
     IN  /\ Deliver(s, q) \/ (SendsFail /\ UNCHANGED queues)
         /\ tried' = [tried EXCEPT ![q][s] = @ + 1]
  /\ nextR' = [nextR EXCEPT ![s] = @ + 1]
  /\ UNCHANGED <<cmdQ, receivers, loopVars, cache, ver, lastR, uncached, pumpVars,
                 crashes, base, answers>>

\* Mutation: the first group of a system only makes the system's map.
MakeMapOnly(s) ==
  /\ s \in uncached
  /\ nextR[s] > lastR[s]
  /\ cache' = [cache EXCEPT ![s] = IF ver[s] = 1 THEN 0 ELSE ver[s]]
  /\ uncached' = uncached \ {s}
  /\ UNCHANGED <<cmdQ, queues, receivers, loopVars, ver, nextR, lastR, pumpVars, crashes,
                 histVars>>

AddDataGroup(s) ==
  /\ s \in uncached
  /\ nextR[s] > lastR[s]
  /\ cache' = [cache EXCEPT ![s] = ver[s]]
  /\ uncached' = uncached \ {s}
  /\ UNCHANGED <<cmdQ, queues, receivers, loopVars, ver, nextR, lastR, pumpVars, crashes,
                 histVars>>

\* redfishread dies and starts again without receivers and groups.  Commands
\* it had prefetched are gone.  The fatal error of the runtime when
\* AddDataGroup writes the map the command loop is ranging over is such a
\* crash.  Versions are counted anew.
CrashReader ==
  /\ crashes < MaxCrashes
  /\ crashes' = crashes + 1
  /\ \E n \in 0 .. Len(cmdQ) : cmdQ' = SubSeq(cmdQ, n + 1, Len(cmdQ))
  /\ receivers' = <<>>
  /\ pending' = <<>> /\ asker' = None /\ todo' = {} /\ reply' = <<>>
  /\ cache' = [s \in Systems |-> 0]
  /\ ver' = [s \in Systems |-> 0]
  /\ nextR' = [s \in Systems |-> 1]
  /\ lastR' = [s \in Systems |-> 0]
  /\ uncached' = {}
  /\ base' = Zero /\ tried' = Zero
  /\ answers' = [q \in Queues |-> [s \in Systems |-> {}]]
  /\ UNCHANGED <<queues, pumpVars>>

-----------------------------------------------------------------------------
PumpMain(p) == Subscribe(p) \/ Get(p)

CommandLoop == TakeCommand \/ (\E s \in Systems : ReadCached(s)) \/ Reply \/ Replied

Sender(s) == SendGroupToQueue(s) \/ AddDataGroup(s)

Next ==
  \/ \E p \in Pumps : PumpMain(p) \/ GetGroup(p) \/ CrashPump(p)
  \/ ListenToQueue
  \/ CommandLoop
  \/ \E s \in Systems : BeginSendGroup(s) \/ Sender(s)
  \/ CrashReader

Spec == Init /\ [][Next]_vars

(***************************************************************************)
(* Every goroutine of the two processes runs; a device need not send a     *)
(* report, so BeginSendGroup is not fair.                                  *)
(***************************************************************************)
FairSpec ==
  /\ Spec
  /\ WF_vars(ListenToQueue) /\ WF_vars(CommandLoop)
  /\ \A s \in Systems : WF_vars(Sender(s))
  /\ \A p \in Pumps : WF_vars(PumpMain(p)) /\ WF_vars(GetGroup(p))

-----------------------------------------------------------------------------
Versions == 0 .. MaxGroups

TypeOK ==
  /\ cmdQ \in Seq(Commands)
  /\ queues \in [Queues -> Seq(Envelopes)]
  /\ receivers \in Seq(Queues)
  /\ pending \in Seq(Commands) /\ Len(pending) <= 1
  /\ asker \in Queues \cup {None}
  /\ todo \subseteq Systems
  /\ reply \in Seq(Envelopes) /\ Len(reply) <= 1
  /\ asker = None => todo = {} /\ reply = <<>>
  /\ cache \in [Systems -> Versions]
  /\ ver \in [Systems -> Versions]
  /\ nextR \in [Systems -> Nat \ {0}] /\ lastR \in [Systems -> Nat]
  /\ uncached \subseteq Systems
  /\ pump \in [Pumps -> {"start", "subscribed", "running"}]
  /\ got \in [Pumps -> [Systems -> Versions]]
  /\ crashes \in 0 .. MaxCrashes
  /\ base \in [Queues -> [Systems -> Versions]]
  /\ tried \in [Queues -> [Systems -> Nat]]
  /\ answers \in [Queues -> [Systems -> SUBSET Versions]]

\* Once SUBSCRIBE has recorded a queue, every group whose SendGroup begins
\* later is sent to it exactly once, whatever subscriptions (also repeated
\* ones, of restarted pumps) and failed sends happen while the loop runs.
EveryGroupOnce ==
  \A q \in Queues, s \in Systems :
    Recorded(q) =>
      tried[q][s] + (IF Remaining(s, q) THEN 1 ELSE 0) = ver[s] - base[q][s]

\* A pump that subscribes and then asks for the current groups misses at most
\* one group of a system on its queue: the one SendGroup was sending when the
\* queue was recorded, if it was not cached when the answer was read.
MissesAtMostOne ==
  \A q \in Queues, s \in Systems :
    Recorded(q) => \A v \in answers[q][s] : base[q][s] <= v + 1

\* Place i of the queue w holds a group of system s.
GroupAt(w, i, s) == w[i].type = "DATAGROUP" /\ w[i].sys = s

InOrder(w, s) ==
  \A i, j \in 1 .. Len(w) : i < j /\ GroupAt(w, i, s) /\ GroupAt(w, j, s) => w[i].ver < w[j].ver

\* The last group of s for which the loop of SendGroup has come past q.
SentTo(q, s) == ver[s] - (IF Remaining(s, q) THEN 1 ELSE 0)

Waits(w, s, v) == \E i \in 1 .. Len(w) : GroupAt(w, i, s) /\ w[i].ver = v
Handed(q, s, v) == \E p \in Pumps : QueueOf[p] = q /\ got[p][s] >= v

\* While nothing crashes a queue holds the groups of a system in the order they
\* were made, each once and all newer than what its pumps have been handed; if no
\* send fails, every group sent since the queue was recorded waits there or has
\* been handed to one of its pumps, or a newer one has.
GroupsArriveInOrder ==
  crashes = 0 => \A q \in Queues, s \in Systems :
    /\ InOrder(queues[q], s)
    /\ \A v \in 1 .. MaxGroups : Waits(queues[q], s, v) => ~Handed(q, s, v)
    /\ Recorded(q) /\ ~SendsFail =>
         \A v \in (base[q][s] + 1) .. SentTo(q, s) : Waits(queues[q], s, v) \/ Handed(q, s, v)

\* Every group sent to a recorded queue is handed to a pump that reads it, when sends
\* do not fail and nothing crashes: as groups are bounded, each of them from some time on.
EveryGroupReachesPump ==
  <>[](\A q \in Queues, s \in Systems : \A n \in 1 .. MaxGroups :
         Recorded(q) /\ ver[s] >= n /\ base[q][s] < n => Handed(q, s, n))

\* "Get requests that producers send their current DataGroups, instructing the
\* service to reply to the provided queue" (databus.go:166-167): a pump that
\* has emptied its queue holds every group it was sent in answer.
CurrentGroupsReachPump ==
  \A p \in Pumps, s \in Systems :
    pump[p] = "running" /\ reply = <<>> /\ queues[QueueOf[p]] = <<>> =>
      \A v \in answers[QueueOf[p]][s] : got[p][s] >= v

=============================================================================
