---------------------------- MODULE RequestReply ----------------------------
(***************************************************************************)
(* Request and reply over the message bus: BaseClient.Call, the reply      *)
(* listener and BaseService.Reply (internal/service/service.go,            *)
(* internal/wire/envelope.go).                                             *)
(*                                                                         *)
(* All calls of a client share one reply queue, whose name is the client's *)
(* and so outlives it; a reply finds its call by the correlation ID.  Each *)
(* member of Calls is one call of Call by some goroutine, with the random  *)
(* correlation ID NewRequest gives it.  The bus neither repeats nor loses  *)
(* messages, but a process that dies takes with it what it had prefetched. *)
(***************************************************************************)
EXTENDS Naturals, Sequences

CONSTANTS
  Calls,       \* calls made, each with its own correlation ID
  None,
  MaxCrashes   \* bound on the crashes of the client and of the service

ASSUME RequestReplyConstants ==
  /\ None \notin Calls
  /\ MaxCrashes \in Nat

\* A reply; answers is the request it was computed for.
Envelopes == [corr : Calls, answers : Calls, status : {"ok", "error"}]

VARIABLES
  listening,  \* ReplyOnce and ReplyErr: "no", "yes" or "failed"
  pc,         \* [Calls -> where Call is]
  Pending,    \* calls with a reply channel
  inbox,      \* [Calls -> their reply channel, of capacity one]
  commandQ,   \* requests
  replyQ,     \* replies
  serving,    \* the request the service is handling
  crashes,    \* counter of the bound
  outcome,    \* [Calls -> what the caller was told]
  result,     \* [Calls -> the request whose answer it was given]
  handled     \* [Calls -> how often the service has handled the request]

clientVars  == <<listening, pc, Pending, inbox>>
serviceVars == <<serving, handled>>
toldVars    == <<outcome, result>>
vars == <<clientVars, commandQ, replyQ, serviceVars, crashes, toldVars>>

Init ==
  /\ listening = "no"
  /\ pc = [c \in Calls |-> "new"]
  /\ Pending = {}
  /\ inbox = [c \in Calls |-> <<>>]
  /\ commandQ = <<>> /\ replyQ = <<>>
  /\ serving = None
  /\ crashes = 0
  /\ outcome = [c \in Calls |-> "new"]
  /\ result = [c \in Calls |-> None]
  /\ handled = [c \in Calls |-> 0]

Goto(c, l) == pc' = [pc EXCEPT ![c] = l]
Told(c, o) == outcome' = [outcome EXCEPT ![c] = o]

-----------------------------------------------------------------------------
(* The client. *)

\* ReplyOnce: the first call subscribes the reply queue, or leaves an error
\* that every later call returns.
initReplyListener(c) ==
  /\ pc[c] = "new"
  /\ listening = "no"
  /\ listening' \in {"yes", "failed"}
  /\ UNCHANGED <<pc, Pending, inbox, commandQ, replyQ, serviceVars, crashes, toldVars>>

\* Without a reply queue, or with a payload NewRequest cannot encode, Call returns
\* before it has registered anything.
Refuse(c) ==
  /\ pc[c] = "new"
  /\ listening \in {"failed", "yes"}
  /\ Goto(c, "done")
  /\ Told(c, "failed")
  /\ UNCHANGED <<listening, Pending, inbox, commandQ, replyQ, serviceVars, crashes, result>>

\* Mutation: the request is sent before its reply channel is registered.
SendFirst(c) ==
  /\ pc[c] = "new"
  /\ listening = "yes"
  /\ commandQ' = Append(commandQ, c)
  /\ Goto(c, "waiting")
  /\ Told(c, "open")
  /\ UNCHANGED <<listening, Pending, inbox, replyQ, serviceVars, crashes, result>>

Register(c) ==
  /\ pc[c] = "new"
  /\ listening = "yes"
  /\ Pending' = Pending \cup {c}
  /\ Goto(c, "registered")
  /\ Told(c, "open")
  /\ UNCHANGED <<listening, inbox, commandQ, replyQ, serviceVars, crashes, result>>

\* A send that fails may have been delivered all the same.
SendRequest(c) ==
  /\ pc[c] = "registered"
  /\ \/ /\ commandQ' = Append(commandQ, c)
        /\ Goto(c, "waiting")
        /\ UNCHANGED outcome
     \/ /\ commandQ' \in {commandQ, Append(commandQ, c)}
        /\ Goto(c, "leaving")
        /\ Told(c, "failed")
  /\ UNCHANGED <<listening, Pending, inbox, replyQ, serviceVars, crashes, result>>

\* Mutation: the reply goes to whichever call is waiting.
ReplyToAny ==
  /\ listening = "yes"
  /\ replyQ # <<>>
  /\ replyQ' = Tail(replyQ)
  /\ \/ \E c \in Pending : inbox[c] = <<>> /\ inbox' = [inbox EXCEPT ![c] = <<Head(replyQ)>>]
     \/ Pending = {} /\ UNCHANGED inbox
  /\ UNCHANGED <<listening, pc, Pending, commandQ, serviceVars, crashes, toldVars>>

\* The goroutine of listenForReplies.  A reply without a call, or for a call
\* whose channel is full, is dropped.  So is one that does not decode; there is
\* none, as only Reply and ReplyError send to this queue.
listenForReplies ==
  /\ listening = "yes"
  /\ replyQ # <<>>
  /\ replyQ' = Tail(replyQ)
  /\ LET env == Head(replyQ)
     IN  inbox' = IF env.corr \in Pending /\ inbox[env.corr] = <<>>
                    THEN [inbox EXCEPT ![env.corr] = <<env>>] ELSE inbox
  /\ UNCHANGED <<listening, pc, Pending, commandQ, serviceVars, crashes, toldVars>>

\* A reply that is an error, or whose payload does not decode into what the caller
\* wants, ends the call with an error.
TakeReply(c) ==
  /\ pc[c] = "waiting"
  /\ inbox[c] # <<>>
  /\ inbox' = [inbox EXCEPT ![c] = <<>>]
  /\ \/ /\ Head(inbox[c]).status = "ok"
        /\ Told(c, "answered")
        /\ result' = [result EXCEPT ![c] = Head(inbox[c]).answers]
     \/ Told(c, "failed") /\ UNCHANGED result
  /\ Goto(c, "leaving")
  /\ UNCHANGED <<listening, Pending, commandQ, replyQ, serviceVars, crashes>>

\* Mutation: Call returns from the timer without an error.
TimeoutQuietly(c) ==
  /\ pc[c] = "waiting"
  /\ Goto(c, "leaving")
  /\ UNCHANGED <<listening, Pending, inbox, commandQ, replyQ, serviceVars, crashes, toldVars>>

\* Mutation: the timer is looked at only when a reply has come.
TimeoutWithReply(c) ==
  /\ pc[c] = "waiting"
  /\ inbox[c] # <<>>
  /\ Told(c, "failed")
  /\ Goto(c, "leaving")
  /\ UNCHANGED <<listening, Pending, inbox, commandQ, replyQ, serviceVars, crashes, result>>

\* The timer of the select; when a reply is there too either may be taken.
Timeout(c) ==
  /\ pc[c] = "waiting"
  /\ Told(c, "failed")
  /\ Goto(c, "leaving")
  /\ UNCHANGED <<listening, Pending, inbox, commandQ, replyQ, serviceVars, crashes, result>>

\* Mutation: Call does not remove the entry when it has timed out.
UnregisterAnswered(c) ==
  /\ pc[c] = "leaving"
  /\ Pending' = IF outcome[c] = "answered" THEN Pending \ {c} ELSE Pending
  /\ inbox' = [inbox EXCEPT ![c] = <<>>]
  /\ Goto(c, "done")
  /\ UNCHANGED <<listening, commandQ, replyQ, serviceVars, crashes, toldVars>>

\* The deferred delete; the channel goes with its entry.
Unregister(c) ==
  /\ pc[c] = "leaving"
  /\ Pending' = Pending \ {c}
  /\ inbox' = [inbox EXCEPT ![c] = <<>>]
  /\ Goto(c, "done")
  /\ UNCHANGED <<listening, commandQ, replyQ, serviceVars, crashes, toldVars>>

Lost(q, n) == SubSeq(q, n + 1, Len(q))

CrashClient ==
  /\ listening # "no"
  /\ crashes < MaxCrashes
  /\ crashes' = crashes + 1
  /\ listening' = "no"
  /\ pc' = [c \in Calls |-> IF pc[c] = "new" THEN "new" ELSE "done"]
  /\ Pending' = {}
  /\ inbox' = [c \in Calls |-> <<>>]
  /\ \E n \in 0 .. Len(replyQ) : replyQ' = Lost(replyQ, n)
  /\ outcome' = [c \in Calls |-> IF outcome[c] = "open" THEN "failed" ELSE outcome[c]]
  /\ UNCHANGED <<commandQ, serviceVars, result>>

-----------------------------------------------------------------------------
(* The service. *)

TakeRequest ==
  /\ serving = None
  /\ commandQ # <<>>
  /\ serving' = Head(commandQ)
  /\ handled' = [handled EXCEPT ![serving'] = @ + 1]
  /\ commandQ' = Tail(commandQ)
  /\ UNCHANGED <<clientVars, replyQ, crashes, toldVars>>

\* Reply and ReplyError: the envelope has the correlation ID of the request.
Reply(status) ==
  /\ serving # None
  /\ replyQ' = Append(replyQ, [corr |-> serving, answers |-> serving, status |-> status])
  /\ serving' = None
  /\ UNCHANGED <<clientVars, commandQ, handled, crashes, toldVars>>

\* A command without a reply, or whose reply could not be sent.
NoReply ==
  /\ serving # None
  /\ serving' = None
  /\ UNCHANGED <<clientVars, commandQ, replyQ, handled, crashes, toldVars>>

CrashService ==
  /\ crashes < MaxCrashes
  /\ crashes' = crashes + 1
  /\ serving' = None
  /\ \E n \in 0 .. Len(commandQ) : commandQ' = Lost(commandQ, n)
  /\ UNCHANGED <<clientVars, replyQ, handled, toldVars>>

-----------------------------------------------------------------------------
Call(c) == initReplyListener(c) \/ Refuse(c) \/ Register(c) \/ SendRequest(c)
             \/ TakeReply(c) \/ Timeout(c) \/ Unregister(c)

Service == TakeRequest \/ Reply("ok") \/ Reply("error") \/ NoReply

Next ==
  \/ \E c \in Calls : Call(c)
  \/ listenForReplies
  \/ Service
  \/ CrashClient \/ CrashService

Spec == Init /\ [][Next]_vars

\* Only the goroutine that makes the call has to run: its timer fires whether
\* or not the service, the bus or the reply listener does anything.
FairSpec == Spec /\ \A c \in Calls : WF_vars(pc[c] # "new" /\ Call(c))

-----------------------------------------------------------------------------
Labels == {"new", "registered", "waiting", "leaving", "done"}

TypeOK ==
  /\ listening \in {"no", "yes", "failed"}
  /\ pc \in [Calls -> Labels]
  /\ Pending \subseteq Calls
  /\ inbox \in [Calls -> Seq(Envelopes)]
  /\ \A c \in Calls : Len(inbox[c]) <= 1
  /\ commandQ \in Seq(Calls)
  /\ replyQ \in Seq(Envelopes)
  /\ serving \in Calls \cup {None}
  /\ crashes \in 0 .. MaxCrashes
  /\ outcome \in [Calls -> {"new", "open", "answered", "failed"}]
  /\ result \in [Calls -> Calls \cup {None}]
  /\ handled \in [Calls -> Nat]
  /\ \A c \in Calls : (outcome[c] = "open") <=> pc[c] \in {"registered", "waiting"}

\* A call that is over has left nothing behind: no entry that would make the
\* map grow with every timeout, and no reply for a later call to find.
NothingLeftBehind ==
  \A c \in Calls : pc[c] = "done" => c \notin Pending /\ inbox[c] = <<>>

\* The listener drops a reply only when the call it answers is over: a reply
\* that comes in time is not lost, however fast the service was.
DropsOnlyLateReplies ==
  [][\A c \in Calls :
       replyQ # <<>> /\ replyQ' = Tail(replyQ) /\ Head(replyQ).corr = c
         /\ inbox' = inbox /\ crashes' = crashes
         => outcome[c] \in {"answered", "failed"}]_vars

\* Call keeps its promise: what it returns is the answer to its own request,
\* handled once, or an error, across timeouts, late replies and restarts of
\* either side with the same reply queue.
Promise == INSTANCE CallSpec

KeepsPromise == Promise!Spec

\* Every call ends, whatever the service, the bus and the reply listener do.
EveryCallEnds ==
  \A c \in Calls : outcome[c] = "open" ~> outcome[c] # "open"

=============================================================================
