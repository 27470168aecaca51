------------------------- MODULE RequestReplyProofs -------------------------
(***************************************************************************)
(* Proofs about RequestReply, for any number of calls and crashes: type    *)
(* correctness, that a call which is over leaves nothing behind, that      *)
(* every step is one CallSpec allows, and that no reply that comes in time *)
(* is dropped.                                                             *)
(***************************************************************************)
EXTENDS RequestReply, SequenceTheorems, TLAPS

\* A request on its way is unique, its call has been opened, and nobody has
\* handled it.
RequestsFresh ==
  /\ \A i \in 1 .. Len(commandQ) :
       /\ handled[commandQ[i]] = 0
       /\ pc[commandQ[i]] \notin {"new", "registered"}
  /\ \A i, j \in 1 .. Len(commandQ) : commandQ[i] = commandQ[j] => i = j

\* Requests are handled at most once, and not before they are sent.
HandledOnce ==
  /\ \A c \in Calls : handled[c] \in {0, 1}
  /\ \A c \in Calls : pc[c] \in {"new", "registered"} => handled[c] = 0
  /\ serving # None => handled[serving] = 1

\* A reply is the answer to the request whose correlation ID it has.
Genuine(env) == env.answers = env.corr /\ handled[env.corr] = 1

RepliesGenuine ==
  /\ \A i \in 1 .. Len(replyQ) : Genuine(replyQ[i])
  /\ \A c \in Calls : inbox[c] # <<>> => inbox[c][1].corr = c /\ Genuine(inbox[c][1])

\* The map has exactly the calls that have not ended, and a reply is kept
\* only in the map.
PendingExact ==
  /\ Pending = {c \in Calls : pc[c] \in {"registered", "waiting", "leaving"}}
  /\ \A c \in Calls : inbox[c] # <<>> => c \in Pending

CallInv ==
  /\ \A c \in Calls : outcome[c] = "new" <=> pc[c] = "new"
  /\ RequestsFresh
  /\ HandledOnce
  /\ RepliesGenuine
  /\ PendingExact

-----------------------------------------------------------------------------
\* What is left of a queue when a prefix is lost.
LEMMA LostSuffix ==
  ASSUME NEW S, NEW q \in Seq(S), NEW n \in 0 .. Len(q)
  PROVE  /\ Lost(q, n) \in Seq(S)
         /\ Len(Lost(q, n)) = Len(q) - n
         /\ \A i \in 1 .. Len(Lost(q, n)) : Lost(q, n)[i] = q[i + n]
<1>1. CASE n = Len(q)
  BY <1>1, SubSeqProperties DEF Lost
<1>2. CASE n < Len(q)
  BY <1>2, SubSeqProperties DEF Lost
<1> QED
  BY <1>1, <1>2

\* Every variable keeps to its type.
THEOREM TypeCorrect == Spec => []TypeOK
<1>1. Init => TypeOK
  BY RequestReplyConstants DEF Init, TypeOK, Labels
<1>2. TypeOK /\ [Next]_vars => TypeOK'
  <2> SUFFICES ASSUME TypeOK, [Next]_vars PROVE TypeOK'
    OBVIOUS
  <2> USE DEF TypeOK, Labels
  <2>1. ASSUME NEW c \in Calls, initReplyListener(c) PROVE TypeOK'
    BY <2>1 DEF initReplyListener, serviceVars, toldVars
  <2>2. ASSUME NEW c \in Calls, Refuse(c) PROVE TypeOK'
    BY <2>2 DEF Refuse, serviceVars, Goto, Told
  <2>3. ASSUME NEW c \in Calls, Register(c) PROVE TypeOK'
    BY <2>3 DEF Register, serviceVars, Goto, Told
  <2>4. ASSUME NEW c \in Calls, SendRequest(c) PROVE TypeOK'
    <3>1. commandQ' \in Seq(Calls)
      <4>1. commandQ' \in {commandQ, Append(commandQ, c)}
        BY <2>4 DEF SendRequest
      <4>2. commandQ \in Seq(Calls) /\ c \in Calls
        BY <2>4
      <4> QED
        BY ONLY <2>4, <4>1, <4>2, AppendProperties
    <3>2. CASE Goto(c, "waiting") /\ UNCHANGED outcome
      <4>1. /\ pc' \in [Calls -> Labels]
            /\ \A d \in Calls : (outcome'[d] = "open") <=> pc'[d] \in {"registered", "waiting"}
        BY <2>4, <3>2 DEF SendRequest, Goto
      <4> QED
        BY <2>4, <3>1, <3>2, <4>1 DEF SendRequest, serviceVars
    <3>3. CASE Goto(c, "leaving") /\ Told(c, "failed")
      BY <2>4, <3>1, <3>3 DEF SendRequest, serviceVars, Goto, Told
    <3> QED
      BY <2>4, <3>2, <3>3 DEF SendRequest
  <2>5. ASSUME NEW c \in Calls, TakeReply(c) PROVE TypeOK'
    <3>1. inbox[c][1] \in Envelopes /\ Head(inbox[c]) = inbox[c][1]
      BY <2>5 DEF TakeReply
    <3>2. Head(inbox[c]).answers \in Calls
      BY <3>1 DEF Envelopes
    <3>3. inbox' \in [Calls -> Seq(Envelopes)] /\ \A d \in Calls : Len(inbox'[d]) <= 1
      BY <2>5 DEF TakeReply
    <3>4. CASE Told(c, "answered") /\ result' = [result EXCEPT ![c] = Head(inbox[c]).answers]
      BY <2>5, <3>2, <3>3, <3>4 DEF TakeReply, serviceVars, Goto, Told
    <3>5. CASE Told(c, "failed") /\ UNCHANGED result
      BY <2>5, <3>3, <3>5 DEF TakeReply, serviceVars, Goto, Told
    <3> QED
      BY <2>5, <3>4, <3>5 DEF TakeReply
  <2>6. ASSUME NEW c \in Calls, Timeout(c) PROVE TypeOK'
    BY <2>6 DEF Timeout, serviceVars, Goto, Told
  <2>7. ASSUME NEW c \in Calls, Unregister(c) PROVE TypeOK'
    BY <2>7 DEF Unregister, serviceVars, toldVars, Goto
  <2>8. CASE listenForReplies
    <3> DEFINE env == Head(replyQ)
    <3>1. env \in Envelopes /\ Tail(replyQ) \in Seq(Envelopes)
      BY <2>8 DEF listenForReplies
    <3>2. <<env>> \in Seq(Envelopes) /\ Len(<<env>>) = 1
      BY <3>1
    <3> HIDE DEF env
    <3>3. inbox' \in [Calls -> Seq(Envelopes)] /\ \A c \in Calls : Len(inbox'[c]) <= 1
      BY <2>8, <3>2 DEF listenForReplies, env
    <3> QED
      BY <2>8, <3>1, <3>3 DEF listenForReplies, serviceVars, toldVars
  <2>9. CASE TakeRequest
    BY <2>9 DEF TakeRequest, clientVars, toldVars
  <2>10. ASSUME NEW s \in {"ok", "error"}, Reply(s) PROVE TypeOK'
    <3>1. [corr |-> serving, answers |-> serving, status |-> s] \in Envelopes
      BY <2>10 DEF Reply, Envelopes
    <3>2. replyQ' \in Seq(Envelopes)
      BY <2>10, <3>1 DEF Reply
    <3> QED
      BY <2>10, <3>2 DEF Reply, clientVars, toldVars
  <2>11. CASE NoReply
    BY <2>11 DEF NoReply, clientVars, toldVars
  <2>12. CASE CrashClient
    <3>1. replyQ' \in Seq(Envelopes)
      BY <2>12, LostSuffix DEF CrashClient
    <3> QED
      BY <2>12, <3>1, RequestReplyConstants DEF CrashClient, serviceVars
  <2>13. CASE CrashService
    <3>1. commandQ' \in Seq(Calls)
      BY <2>13, LostSuffix DEF CrashService
    <3> QED
      BY <2>13, <3>1, RequestReplyConstants DEF CrashService, clientVars, toldVars
  <2>14. CASE UNCHANGED vars
    BY <2>14 DEF vars, clientVars, serviceVars, toldVars
  <2> QED
    BY <2>1, <2>2, <2>3, <2>4, <2>5, <2>6, <2>7, <2>8, <2>9, <2>10, <2>11, <2>12, <2>13,
       <2>14 DEF Next, Call, Service
<1> QED
  BY <1>1, <1>2, PTL DEF Spec

-----------------------------------------------------------------------------
\* The steps of a caller keep the invariant.
LEMMA CallStep ==
  ASSUME TypeOK, CallInv, NEW c \in Calls, Call(c)
  PROVE  CallInv'
<1> USE DEF TypeOK, Labels
<1>1. CASE initReplyListener(c)
  BY <1>1 DEF initReplyListener, serviceVars, toldVars, CallInv, RequestsFresh, HandledOnce,
     RepliesGenuine, Genuine, PendingExact
<1>2. CASE Refuse(c)
  <2>1. RequestsFresh' /\ HandledOnce'
    BY <1>2 DEF Refuse, serviceVars, Goto, CallInv, RequestsFresh, HandledOnce
  <2>2. RepliesGenuine' /\ PendingExact'
    BY <1>2 DEF Refuse, serviceVars, Goto, CallInv, RepliesGenuine, Genuine, PendingExact
  <2> QED
    BY <1>2, <2>1, <2>2 DEF Refuse, Told, Goto, CallInv
<1>3. CASE Register(c)
  <2>1. RequestsFresh' /\ HandledOnce'
    BY <1>3 DEF Register, serviceVars, Goto, CallInv, RequestsFresh, HandledOnce
  <2>2. RepliesGenuine' /\ PendingExact'
    BY <1>3 DEF Register, serviceVars, Goto, CallInv, RepliesGenuine, Genuine, PendingExact
  <2> QED
    BY <1>3, <2>1, <2>2 DEF Register, Told, Goto, CallInv
<1>4. CASE SendRequest(c)
  <2>1. PICK l \in {"waiting", "leaving"} : pc' = [pc EXCEPT ![c] = l]
    BY <1>4 DEF SendRequest, Goto
  <2>2. ASSUME commandQ' = Append(commandQ, c)
        PROVE  RequestsFresh'
    <3>1. \A i \in 1 .. Len(commandQ') :
            commandQ'[i] = IF i = Len(commandQ) + 1 THEN c ELSE commandQ[i]
      BY <2>2
    <3>2. /\ pc[c] = "registered" /\ handled[c] = 0 /\ UNCHANGED handled
          /\ \A i \in 1 .. Len(commandQ) : commandQ[i] \in Calls /\ commandQ[i] # c
      BY <1>4 DEF SendRequest, serviceVars, CallInv, RequestsFresh, HandledOnce
    <3>3. \A i \in 1 .. Len(commandQ') :
            handled'[commandQ'[i]] = 0 /\ pc'[commandQ'[i]] \notin {"new", "registered"}
      <4>1. pc'[c] = l /\ \A d \in Calls : d # c => pc'[d] = pc[d]
        BY <2>1
      <4>2. \A i \in 1 .. Len(commandQ') : i = Len(commandQ) + 1 \/ i \in 1 .. Len(commandQ)
        <5>1. Len(commandQ') = Len(commandQ) + 1 /\ Len(commandQ) \in Nat
          BY <2>2, AppendProperties
        <5> HIDE DEF TypeOK
        <5> QED
          BY <5>1
      <4> HIDE DEF TypeOK
      <4> QED
        BY <3>1, <3>2, <4>1, <4>2 DEF CallInv, RequestsFresh
    <3>4. \A i, j \in 1 .. Len(commandQ') : commandQ'[i] = commandQ'[j] => i = j
      BY <2>2, <3>1, <3>2 DEF CallInv, RequestsFresh
    <3> QED
      BY <3>3, <3>4 DEF RequestsFresh
  <2>3. ASSUME UNCHANGED commandQ
        PROVE  RequestsFresh'
    BY <1>4, <2>1, <2>3 DEF SendRequest, serviceVars, CallInv, RequestsFresh
  <2>4. RequestsFresh'
    BY <1>4, <2>2, <2>3 DEF SendRequest
  <2>5. HandledOnce' /\ RepliesGenuine'
    BY <1>4, <2>1 DEF SendRequest, serviceVars, CallInv, HandledOnce, RepliesGenuine, Genuine
  <2>6. PendingExact'
    BY <1>4, <2>1 DEF SendRequest, CallInv, PendingExact
  <2> QED
    BY <1>4, <2>1, <2>4, <2>5, <2>6 DEF SendRequest, Told, CallInv
<1>5. CASE TakeReply(c)
  <2>1. /\ inbox' = [inbox EXCEPT ![c] = <<>>]
        /\ Goto(c, "leaving")
        /\ pc[c] = "waiting"
        /\ UNCHANGED <<Pending, commandQ, replyQ, serving, handled>>
        /\ \E o \in {"answered", "failed"} : Told(c, o)
    BY <1>5 DEF TakeReply, serviceVars
  <2>2. RequestsFresh' /\ HandledOnce'
    BY <2>1 DEF Goto, CallInv, RequestsFresh, HandledOnce
  <2>3. RepliesGenuine' /\ PendingExact'
    BY <2>1 DEF Goto, CallInv, RepliesGenuine, Genuine, PendingExact
  <2> QED
    BY <2>1, <2>2, <2>3 DEF Goto, Told, CallInv
<1>6. CASE Timeout(c)
  <2>1. RequestsFresh' /\ HandledOnce'
    BY <1>6 DEF Timeout, serviceVars, Goto, CallInv, RequestsFresh, HandledOnce
  <2>2. RepliesGenuine' /\ PendingExact'
    BY <1>6 DEF Timeout, serviceVars, Goto, CallInv, RepliesGenuine, Genuine, PendingExact
  <2> QED
    BY <1>6, <2>1, <2>2 DEF Timeout, Told, Goto, CallInv
<1>7. CASE Unregister(c)
  <2>1. RequestsFresh' /\ HandledOnce'
    BY <1>7 DEF Unregister, serviceVars, toldVars, Goto, CallInv, RequestsFresh, HandledOnce
  <2>2. RepliesGenuine' /\ PendingExact'
    BY <1>7 DEF Unregister, serviceVars, toldVars, Goto, CallInv, RepliesGenuine, Genuine,
       PendingExact
  <2> QED
    BY <1>7, <2>1, <2>2 DEF Unregister, toldVars, Goto, CallInv
<1> QED
  BY <1>1, <1>2, <1>3, <1>4, <1>5, <1>6, <1>7 DEF Call

\* So do those of the reply listener and of the service.
LEMMA ServiceStep ==
  ASSUME TypeOK, CallInv, listenForReplies \/ Service
  PROVE  CallInv'
<1> USE DEF TypeOK, Labels
<1>1. CASE listenForReplies
  <2> DEFINE env == Head(replyQ)
  <2>1. /\ env = replyQ[1] /\ env \in Envelopes /\ Genuine(env)
        /\ Len(replyQ') = Len(replyQ) - 1
        /\ \A i \in 1 .. Len(replyQ') : replyQ'[i] = replyQ[i + 1]
    BY <1>1 DEF listenForReplies, CallInv, RepliesGenuine
  <2>2. <<env>>[1] = env
    OBVIOUS
  <2> HIDE DEF env
  <2>3. \A c \in Calls :
          inbox'[c] # inbox[c] => c = env.corr /\ inbox'[c] = <<env>> /\ c \in Pending
    BY <1>1 DEF listenForReplies, env
  <2>4. RepliesGenuine'
    BY <1>1, <2>1, <2>2, <2>3 DEF listenForReplies, serviceVars, CallInv, RepliesGenuine, Genuine
  <2>5. PendingExact'
    BY <1>1, <2>3 DEF listenForReplies, CallInv, PendingExact
  <2> QED
    BY <1>1, <2>4, <2>5 DEF listenForReplies, serviceVars, toldVars, CallInv, RequestsFresh,
       HandledOnce
<1>2. CASE TakeRequest
  <2>1. /\ serving' = commandQ[1] /\ serving' \in Calls /\ handled[commandQ[1]] = 0
        /\ pc[commandQ[1]] \notin {"new", "registered"}
        /\ Len(commandQ') = Len(commandQ) - 1
        /\ \A i \in 1 .. Len(commandQ') :
             commandQ'[i] = commandQ[i + 1] /\ commandQ'[i] # commandQ[1]
             /\ commandQ'[i] \in Calls
    BY <1>2 DEF TakeRequest, CallInv, RequestsFresh
  <2>2. \A d \in Calls : handled'[d] = IF d = commandQ[1] THEN 1 ELSE handled[d]
    <3>1. handled' = [handled EXCEPT ![commandQ[1]] = handled[commandQ[1]] + 1]
      BY <1>2, <2>1 DEF TakeRequest
    <3> QED
      BY <2>1, <3>1
  <2>3. RequestsFresh'
    BY <1>2, <2>1, <2>2 DEF TakeRequest, clientVars, CallInv, RequestsFresh
  <2>4. HandledOnce'
    BY <1>2, <2>1, <2>2 DEF TakeRequest, clientVars, CallInv, HandledOnce
  <2>5. \A d \in Calls : handled[d] = 1 => handled'[d] = 1
    BY <2>2
  <2>6. \A i \in 1 .. Len(replyQ) : replyQ[i].corr \in Calls
    <3>1. \A i \in 1 .. Len(replyQ) : replyQ[i] \in Envelopes
      OBVIOUS
    <3>2. \A env \in Envelopes : env.corr \in Calls
      BY DEF Envelopes
    <3> QED
      BY <3>1, <3>2
  <2>7. RepliesGenuine'
    BY <1>2, <2>5, <2>6 DEF TakeRequest, clientVars, CallInv, RepliesGenuine, Genuine
  <2> QED
    BY <1>2, <2>3, <2>4, <2>7 DEF TakeRequest, clientVars, toldVars, CallInv, PendingExact
<1>3. ASSUME NEW s \in {"ok", "error"}, Reply(s) PROVE CallInv'
  <2> DEFINE env == [corr |-> serving, answers |-> serving, status |-> s]
  <2>1. Genuine(env)
    BY <1>3 DEF Reply, CallInv, HandledOnce, Genuine
  <2> HIDE DEF env
  <2>2. \A i \in 1 .. Len(replyQ') :
          replyQ'[i] = IF i = Len(replyQ) + 1 THEN env ELSE replyQ[i]
    BY <1>3 DEF Reply, env
  <2>3. RepliesGenuine'
    BY <1>3, <2>1, <2>2 DEF Reply, clientVars, CallInv, RepliesGenuine, Genuine
  <2> QED
    BY <1>3, <2>3 DEF Reply, clientVars, toldVars, CallInv, RequestsFresh, HandledOnce, PendingExact
<1>4. CASE NoReply
  BY <1>4 DEF NoReply, clientVars, toldVars, CallInv, RequestsFresh, HandledOnce,
     RepliesGenuine, Genuine, PendingExact
<1> QED
  BY <1>1, <1>2, <1>3, <1>4 DEF Service

\* And the crashes.
LEMMA CrashStep ==
  ASSUME TypeOK, CallInv, CrashClient \/ CrashService
  PROVE  CallInv'
<1> USE DEF TypeOK, Labels
<1>1. CASE CrashClient
  <2>1. PICK n \in 0 .. Len(replyQ) : replyQ' = Lost(replyQ, n)
    BY <1>1 DEF CrashClient
  <2>2. replyQ \in Seq(Envelopes) /\ Len(replyQ) \in Nat
    OBVIOUS
  <2>3. \A i \in 1 .. Len(replyQ') : i + n \in 1 .. Len(replyQ) /\ replyQ'[i] = replyQ[i + n]
    <3> HIDE DEF TypeOK
    <3> QED
      BY <2>1, <2>2, LostSuffix
  <2>4. inbox' = [c \in Calls |-> <<>>] /\ UNCHANGED <<commandQ, serving, handled>>
        /\ pc' = [c \in Calls |-> IF pc[c] = "new" THEN "new" ELSE "done"]
    BY <1>1 DEF CrashClient, serviceVars
  <2>5. \A i \in 1 .. Len(replyQ') : Genuine(replyQ'[i])
    BY <2>3 DEF CallInv, RepliesGenuine
  <2>6. RepliesGenuine'
    BY <2>4, <2>5 DEF RepliesGenuine, Genuine
  <2>7. RequestsFresh' /\ HandledOnce'
    BY <2>4 DEF CallInv, RequestsFresh, HandledOnce
  <2> QED
    BY <1>1, <2>4, <2>6, <2>7 DEF CrashClient, CallInv, PendingExact
<1>2. CASE CrashService
  <2>1. PICK n \in 0 .. Len(commandQ) : commandQ' = Lost(commandQ, n)
    BY <1>2 DEF CrashService
  <2>2. commandQ \in Seq(Calls) /\ Len(commandQ) \in Nat
    OBVIOUS
  <2>3. \A i \in 1 .. Len(commandQ') :
          i + n \in 1 .. Len(commandQ) /\ commandQ'[i] = commandQ[i + n]
    <3> HIDE DEF TypeOK
    <3> QED
      BY <2>1, <2>2, LostSuffix
  <2>4. UNCHANGED <<pc, handled>>
    BY <1>2 DEF CrashService, clientVars
  <2>5. RequestsFresh'
    <3> HIDE DEF TypeOK
    <3>1. \A i \in 1 .. Len(commandQ') :
            handled[commandQ'[i]] = 0 /\ pc[commandQ'[i]] \notin {"new", "registered"}
      BY <2>3 DEF CallInv, RequestsFresh
    <3>2. \A i, j \in 1 .. Len(commandQ') : commandQ'[i] = commandQ'[j] => i = j
      <4> SUFFICES ASSUME NEW i \in 1 .. Len(commandQ'), NEW j \in 1 .. Len(commandQ'),
                          commandQ'[i] = commandQ'[j]
                   PROVE  i = j
        OBVIOUS
      <4>1. i + n = j + n
        BY <2>3 DEF CallInv, RequestsFresh
      <4> QED
        BY <4>1, <2>2
    <3> QED
      BY <2>4, <3>1, <3>2 DEF RequestsFresh
  <2> QED
    BY <1>2, <2>5 DEF CrashService, clientVars, toldVars, CallInv, HandledOnce,
       RepliesGenuine, Genuine, PendingExact
<1> QED
  BY <1>1, <1>2

\* Requests and replies on their way belong to calls, each handled once.
THEOREM CallInvariant == Spec => [](TypeOK /\ CallInv)
<1>1. Init => CallInv
  BY RequestReplyConstants DEF Init, CallInv, RequestsFresh, HandledOnce, RepliesGenuine,
     Genuine, PendingExact
<1>2. TypeOK /\ CallInv /\ [Next]_vars => CallInv'
  <2> SUFFICES ASSUME TypeOK, CallInv, [Next]_vars PROVE CallInv'
    OBVIOUS
  <2>1. CASE UNCHANGED vars
    BY <2>1 DEF vars, clientVars, serviceVars, toldVars, CallInv, RequestsFresh, HandledOnce,
       RepliesGenuine, Genuine, PendingExact
  <2> QED
    BY <2>1, CallStep, ServiceStep, CrashStep DEF Next
<1> QED
  BY <1>1, <1>2, TypeCorrect, PTL DEF Spec

\* A call that is over has no entry in the map and no reply in a channel.
THEOREM LeavesNothing == Spec => []NothingLeftBehind
<1>1. TypeOK /\ CallInv => NothingLeftBehind
  BY DEF TypeOK, CallInv, PendingExact, NothingLeftBehind
<1> QED
  BY <1>1, CallInvariant, PTL

-----------------------------------------------------------------------------
\* Call keeps its promise: the implementation of CallSpec.
THEOREM PromiseKept == Spec => KeepsPromise
<1> USE DEF Promise!vars
<1>1. Init => Promise!Init
  BY DEF Init, Promise!Init
<1>2. TypeOK /\ CallInv /\ [Next]_vars => [Promise!Next]_(Promise!vars)
  <2> SUFFICES ASSUME TypeOK, CallInv, [Next]_vars
               PROVE  [Promise!Next]_(Promise!vars)
    OBVIOUS
  <2> USE DEF TypeOK, Labels
  <2>1. ASSUME NEW c \in Calls, Call(c) PROVE [Promise!Next]_(Promise!vars)
    <3>1. CASE initReplyListener(c)
      BY <3>1 DEF initReplyListener, serviceVars, toldVars
    <3>2. CASE Refuse(c)
      <4>1. Promise!Fail(c)
        BY <3>2 DEF Refuse, serviceVars, Told, Promise!Fail, CallInv
      <4> QED
        BY <4>1 DEF Promise!Next
    <3>3. CASE Register(c)
      <4>1. Promise!Open(c)
        BY <3>3 DEF Register, serviceVars, Told, Promise!Open, CallInv
      <4> QED
        BY <4>1 DEF Promise!Next
    <3>4. CASE SendRequest(c)
      <4>1. Promise!Fail(c) \/ UNCHANGED Promise!vars
        BY <3>4 DEF SendRequest, serviceVars, Told, Promise!Fail
      <4> QED
        BY <4>1 DEF Promise!Next
    <3>5. CASE TakeReply(c)
      <4>1. Head(inbox[c]) = inbox[c][1] /\ inbox[c] # <<>> /\ pc[c] = "waiting"
        BY <3>5 DEF TakeReply
      <4>2. Head(inbox[c]).answers = c /\ handled[c] = 1
        <5> HIDE DEF TypeOK
        <5> QED
          BY <4>1 DEF CallInv, RepliesGenuine, Genuine
      <4>3. Promise!Answer(c) \/ Promise!Fail(c)
        <5>1. CASE Told(c, "answered") /\ result' = [result EXCEPT ![c] = Head(inbox[c]).answers]
          BY <3>5, <4>1, <4>2, <5>1 DEF TakeReply, serviceVars, Told, Promise!Answer
        <5>2. CASE Told(c, "failed") /\ UNCHANGED result
          BY <3>5, <4>1, <5>2 DEF TakeReply, serviceVars, Told, Promise!Fail
        <5> QED
          BY <3>5, <5>1, <5>2 DEF TakeReply
      <4> QED
        BY <4>3 DEF Promise!Next
    <3>6. CASE Timeout(c)
      <4>1. Promise!Fail(c)
        BY <3>6 DEF Timeout, serviceVars, Told, Promise!Fail
      <4> QED
        BY <4>1 DEF Promise!Next
    <3>7. CASE Unregister(c)
      BY <3>7 DEF Unregister, serviceVars, toldVars
    <3> QED
      BY <2>1, <3>1, <3>2, <3>3, <3>4, <3>5, <3>6, <3>7 DEF Call
  <2>2. CASE listenForReplies
    BY <2>2 DEF listenForReplies, serviceVars, toldVars
  <2>3. CASE TakeRequest
    <3>1. commandQ[1] \in Calls /\ Head(commandQ) = commandQ[1]
          /\ handled[commandQ[1]] = 0 /\ outcome[commandQ[1]] # "new"
      BY <2>3 DEF TakeRequest, CallInv, RequestsFresh
    <3>2. Promise!Handle(commandQ[1])
      <4>1. serving' = commandQ[1] /\ UNCHANGED <<outcome, result>>
        BY <2>3, <3>1 DEF TakeRequest, toldVars
      <4>2. handled' = [handled EXCEPT ![commandQ[1]] = handled[commandQ[1]] + 1]
        BY <2>3, <4>1 DEF TakeRequest
      <4>3. handled' = [handled EXCEPT ![commandQ[1]] = 1]
        BY <3>1, <4>2
      <4> QED
        BY <3>1, <4>1, <4>3 DEF Promise!Handle
    <3> QED
      BY <3>1, <3>2 DEF Promise!Next
  <2>4. CASE Reply("ok") \/ Reply("error") \/ NoReply
    BY <2>4 DEF Reply, NoReply, toldVars
  <2>5. CASE CrashClient
    <3>1. Promise!FailAll
      BY <2>5 DEF CrashClient, serviceVars, Promise!FailAll
    <3> QED
      BY <3>1 DEF Promise!Next
  <2>6. CASE CrashService
    BY <2>6 DEF CrashService, toldVars
  <2>7. CASE UNCHANGED vars
    BY <2>7 DEF vars, serviceVars, toldVars
  <2> QED
    BY <2>1, <2>2, <2>3, <2>4, <2>5, <2>6, <2>7 DEF Next, Service
<1> QED
  BY <1>1, <1>2, CallInvariant, PTL DEF Spec, KeepsPromise, Promise!Spec

-----------------------------------------------------------------------------
\* A request has at most one reply, which is still to be made, in the queue
\* or in its call's channel.
OneReply ==
  /\ \A i, j \in 1 .. Len(replyQ) : replyQ[i].corr = replyQ[j].corr => i = j
  /\ \A i \in 1 .. Len(replyQ) : replyQ[i].corr # serving /\ inbox[replyQ[i].corr] = <<>>
  /\ serving # None => inbox[serving] = <<>>

\* The reply channel a call has not used is the only one a caller's step
\* touches.
LEMMA OneReplyCall ==
  ASSUME TypeOK, OneReply, NEW c \in Calls, Call(c)
  PROVE  OneReply'
<1>1. /\ UNCHANGED <<replyQ, serving>>
      /\ \A d \in Calls : inbox[d] = <<>> => inbox'[d] = <<>>
  BY DEF Call, initReplyListener, Refuse, Register, SendRequest, TakeReply, Timeout,
     Unregister, serviceVars, TypeOK
<1>2. \A i \in 1 .. Len(replyQ) : replyQ[i].corr \in Calls
  <2>1. \A i \in 1 .. Len(replyQ) : replyQ[i] \in Envelopes
    BY DEF TypeOK
  <2>2. \A env \in Envelopes : env.corr \in Calls
    BY DEF Envelopes
  <2> QED
    BY <2>1, <2>2
<1>3. serving \in Calls \cup {None}
  BY DEF TypeOK
<1> QED
  BY <1>1, <1>2, <1>3 DEF OneReply

\* The listener moves a reply from the queue to its call's channel.
LEMMA OneReplyListen ==
  ASSUME TypeOK, OneReply, listenForReplies
  PROVE  OneReply'
<1> DEFINE env == Head(replyQ)
<1>1. /\ env = replyQ[1] /\ Len(replyQ) \in Nat \ {0}
      /\ Len(replyQ') = Len(replyQ) - 1
      /\ \A i \in 1 .. Len(replyQ') : replyQ'[i] = replyQ[i + 1]
  BY DEF listenForReplies, TypeOK
<1>2. \A i \in 1 .. Len(replyQ') : i + 1 \in 1 .. Len(replyQ) /\ i + 1 # 1
  BY <1>1
<1>3. UNCHANGED serving
  BY DEF listenForReplies, serviceVars
<1> HIDE DEF env
<1>4. \A d \in Calls : d # env.corr => inbox'[d] = inbox[d]
  BY DEF listenForReplies, env, TypeOK
<1>5. \A i \in 1 .. Len(replyQ) : replyQ[i].corr \in Calls
  <2>1. \A i \in 1 .. Len(replyQ) : replyQ[i] \in Envelopes
    BY DEF TypeOK
  <2>2. \A e \in Envelopes : e.corr \in Calls
    BY DEF Envelopes
  <2> QED
    BY <2>1, <2>2
<1>6. 1 \in 1 .. Len(replyQ)
  BY <1>1
<1>7. \A i \in 1 .. Len(replyQ') : replyQ'[i].corr # env.corr
  BY <1>1, <1>2, <1>6 DEF OneReply
<1>8. \A i, j \in 1 .. Len(replyQ') : replyQ'[i].corr = replyQ'[j].corr => i = j
  <2> SUFFICES ASSUME NEW i \in 1 .. Len(replyQ'), NEW j \in 1 .. Len(replyQ'),
                      replyQ'[i].corr = replyQ'[j].corr
               PROVE  i = j
    OBVIOUS
  <2>1. i + 1 = j + 1
    BY <1>1, <1>2 DEF OneReply
  <2> QED
    BY <2>1
<1>9. \A i \in 1 .. Len(replyQ') :
        replyQ'[i].corr # serving /\ inbox'[replyQ'[i].corr] = <<>>
  BY <1>1, <1>2, <1>4, <1>5, <1>7 DEF OneReply
<1>10. serving # None => inbox'[serving] = <<>>
  <2>1. env.corr # serving
    BY <1>1, <1>6 DEF OneReply
  <2>2. serving \in Calls \cup {None}
    BY DEF TypeOK
  <2> QED
    BY <1>4, <2>1, <2>2 DEF OneReply
<1> QED
  BY <1>3, <1>8, <1>9, <1>10 DEF OneReply

\* A request that is taken has no reply yet; the one the service has taken
\* gets its first.
LEMMA OneReplyService ==
  ASSUME TypeOK, CallInv, OneReply, Service
  PROVE  OneReply'
<1>1. CASE TakeRequest
  <2>1. commandQ \in Seq(Calls) /\ commandQ # <<>> /\ serving' = Head(commandQ)
    BY <1>1 DEF TakeRequest, TypeOK
  <2>2. serving' = commandQ[1] /\ commandQ[1] \in Calls /\ 1 \in 1 .. Len(commandQ)
    BY <2>1
  <2>3. handled[serving'] = 0
    BY <2>2 DEF CallInv, RequestsFresh
  <2>4. \A i \in 1 .. Len(replyQ) : replyQ[i].corr # serving'
    BY <2>3 DEF CallInv, RepliesGenuine, Genuine
  <2>5. inbox[serving'] = <<>>
    BY <2>2, <2>3 DEF CallInv, RepliesGenuine, Genuine
  <2>6. UNCHANGED <<replyQ, inbox>>
    BY <1>1 DEF TakeRequest, clientVars
  <2> QED
    BY <2>4, <2>5, <2>6 DEF OneReply
<1>2. ASSUME NEW s \in {"ok", "error"}, Reply(s) PROVE OneReply'
  <2> DEFINE env == [corr |-> serving, answers |-> serving, status |-> s]
  <2>1. env.corr = serving /\ env \in Envelopes /\ serving # None
    BY <1>2 DEF Reply, TypeOK, Envelopes
  <2>2. replyQ' = Append(replyQ, env) /\ serving' = None /\ UNCHANGED inbox
    BY <1>2 DEF Reply, clientVars
  <2> HIDE DEF env
  <2>3. /\ Len(replyQ) \in Nat /\ Len(replyQ') = Len(replyQ) + 1
        /\ replyQ'[Len(replyQ) + 1] = env
        /\ \A i \in 1 .. Len(replyQ) : replyQ'[i] = replyQ[i]
    BY <2>1, <2>2 DEF TypeOK
  <2>4. \A i \in 1 .. Len(replyQ') : i = Len(replyQ) + 1 \/ i \in 1 .. Len(replyQ)
    BY <2>3
  <2>5. \A i, j \in 1 .. Len(replyQ') : replyQ'[i].corr = replyQ'[j].corr => i = j
    BY <2>1, <2>3, <2>4 DEF OneReply
  <2>6. \A i \in 1 .. Len(replyQ) : replyQ[i].corr # None
    <3>1. \A i \in 1 .. Len(replyQ) : replyQ[i] \in Envelopes
      BY DEF TypeOK
    <3>2. \A e \in Envelopes : e.corr # None
      BY RequestReplyConstants DEF Envelopes
    <3> QED
      BY <3>1, <3>2
  <2>7. \A i \in 1 .. Len(replyQ') :
          replyQ'[i].corr # serving' /\ inbox'[replyQ'[i].corr] = <<>>
    BY <2>1, <2>2, <2>3, <2>4, <2>6 DEF OneReply
  <2> QED
    BY <2>2, <2>5, <2>7 DEF OneReply
<1>3. CASE NoReply
  <2>1. \A i \in 1 .. Len(replyQ) : replyQ[i].corr # None
    <3>1. \A i \in 1 .. Len(replyQ) : replyQ[i] \in Envelopes
      BY DEF TypeOK
    <3>2. \A e \in Envelopes : e.corr # None
      BY RequestReplyConstants DEF Envelopes
    <3> QED
      BY <3>1, <3>2
  <2> QED
    BY <1>3, <2>1 DEF NoReply, clientVars, OneReply
<1> QED
  BY <1>1, <1>2, <1>3 DEF Service

\* A crash only takes replies away.
LEMMA OneReplyCrash ==
  ASSUME TypeOK, OneReply, CrashClient \/ CrashService
  PROVE  OneReply'
<1>1. /\ \A i \in 1 .. Len(replyQ) : replyQ[i].corr \in Calls /\ replyQ[i].corr # None
      /\ serving \in Calls \cup {None}
  <2>1. \A i \in 1 .. Len(replyQ) : replyQ[i] \in Envelopes
    BY DEF TypeOK
  <2>2. \A e \in Envelopes : e.corr \in Calls /\ e.corr # None
    BY RequestReplyConstants DEF Envelopes
  <2> QED
    BY <2>1, <2>2 DEF TypeOK
<1>2. CASE CrashClient
  <2>1. PICK n \in 0 .. Len(replyQ) : replyQ' = Lost(replyQ, n)
    BY <1>2 DEF CrashClient
  <2>2. replyQ \in Seq(Envelopes) /\ Len(replyQ) \in Nat
    BY DEF TypeOK
  <2>3. \A i \in 1 .. Len(replyQ') : i + n \in 1 .. Len(replyQ) /\ replyQ'[i] = replyQ[i + n]
    BY <2>1, <2>2, LostSuffix
  <2>4. UNCHANGED serving /\ \A d \in Calls : inbox'[d] = <<>>
    BY <1>2 DEF CrashClient, serviceVars
  <2>5. \A i, j \in 1 .. Len(replyQ') : replyQ'[i].corr = replyQ'[j].corr => i = j
    <3> SUFFICES ASSUME NEW i \in 1 .. Len(replyQ'), NEW j \in 1 .. Len(replyQ'),
                        replyQ'[i].corr = replyQ'[j].corr
                 PROVE  i = j
      OBVIOUS
    <3>1. i + n = j + n
      BY <2>3 DEF OneReply
    <3> QED
      BY <3>1, <2>2
  <2>6. \A i \in 1 .. Len(replyQ') :
          replyQ'[i].corr # serving /\ inbox'[replyQ'[i].corr] = <<>>
    <3> SUFFICES ASSUME NEW i \in 1 .. Len(replyQ')
                 PROVE  replyQ'[i].corr # serving /\ inbox'[replyQ'[i].corr] = <<>>
      OBVIOUS
    <3>1. PICK j \in 1 .. Len(replyQ) : replyQ'[i] = replyQ[j]
      BY <2>3
    <3>2. replyQ[j].corr # serving /\ replyQ[j].corr \in Calls
      BY <1>1 DEF OneReply
    <3> QED
      BY <2>4, <3>1, <3>2
  <2> QED
    BY <1>1, <2>4, <2>5, <2>6 DEF OneReply
<1>3. CASE CrashService
  BY <1>1, <1>3 DEF CrashService, clientVars, OneReply
<1> QED
  BY <1>2, <1>3

\* No request has two replies, in the queue, in a channel or to come.
THEOREM RepliesUnique == Spec => []OneReply
<1>1. Init => OneReply
  BY DEF Init, OneReply
<1>2. TypeOK /\ CallInv /\ OneReply /\ [Next]_vars => OneReply'
  <2> SUFFICES ASSUME TypeOK, CallInv, OneReply, [Next]_vars PROVE OneReply'
    OBVIOUS
  <2>1. CASE UNCHANGED vars
    BY <2>1 DEF vars, clientVars, serviceVars, OneReply
  <2> QED
    BY <2>1, OneReplyCall, OneReplyListen, OneReplyService, OneReplyCrash DEF Next
<1> QED
  BY <1>1, <1>2, CallInvariant, PTL DEF Spec

\* The reply listener drops a reply only when the call it answers is over.
THEOREM RepliesInTimeKept == Spec => DropsOnlyLateReplies
<1>1. TypeOK /\ CallInv /\ OneReply /\ [Next]_vars =>
        [\A c \in Calls :
           replyQ # <<>> /\ replyQ' = Tail(replyQ) /\ Head(replyQ).corr = c
             /\ inbox' = inbox /\ crashes' = crashes
             => outcome[c] \in {"answered", "failed"}]_vars
  <2> SUFFICES ASSUME TypeOK, CallInv, OneReply, [Next]_vars, NEW c \in Calls,
                      replyQ # <<>>, replyQ' = Tail(replyQ), Head(replyQ).corr = c,
                      inbox' = inbox, crashes' = crashes
               PROVE  outcome[c] \in {"answered", "failed"}
    OBVIOUS
  <2>1. /\ replyQ[1] = Head(replyQ) /\ 1 \in 1 .. Len(replyQ)
        /\ Len(replyQ') = Len(replyQ) - 1 /\ Len(replyQ) \in Nat
    BY DEF TypeOK
  <2>2. replyQ' # replyQ
    <3> SUFFICES ASSUME replyQ' = replyQ PROVE FALSE
      OBVIOUS
    <3>1. Len(replyQ) = Len(replyQ) - 1
      BY <2>1
    <3> QED
      BY <2>1, <3>1
  <2>3. \A s : ~Reply(s)
    <3> SUFFICES ASSUME NEW s, Reply(s) PROVE FALSE
      OBVIOUS
    <3> DEFINE env == [corr |-> serving, answers |-> serving, status |-> s]
    <3>1. replyQ' = Append(replyQ, env)
      BY DEF Reply
    <3> HIDE DEF env
    <3>2. Len(replyQ') = Len(replyQ) + 1
      BY <3>1 DEF TypeOK
    <3> QED
      BY <2>1, <3>2
  <2>4. listenForReplies
    <3>1. ~(\E d \in Calls : Call(d))
      BY <2>2 DEF Call, initReplyListener, Refuse, Register, SendRequest, TakeReply, Timeout,
         Unregister
    <3>2. ~TakeRequest /\ ~NoReply
      BY <2>2 DEF TakeRequest, NoReply
    <3>3. ~CrashClient /\ ~CrashService
      BY DEF CrashClient, CrashService, TypeOK
    <3>4. ~UNCHANGED vars
      BY <2>2 DEF vars
    <3> QED
      BY <2>3, <3>1, <3>2, <3>3, <3>4 DEF Next, Service
  <2>5. inbox[c] = <<>>
    BY <2>1 DEF OneReply
  <2>6. c \notin Pending
    <3> SUFFICES ASSUME c \in Pending PROVE FALSE
      OBVIOUS
    <3>1. inbox' = [inbox EXCEPT ![c] = <<Head(replyQ)>>]
      BY <2>4, <2>5 DEF listenForReplies
    <3>2. inbox[c] = <<Head(replyQ)>>
      BY <3>1 DEF TypeOK
    <3>3. Len(<<>>) = Len(<<Head(replyQ)>>)
      BY <2>5, <3>2
    <3> QED
      BY <3>3
  <2>7. handled[c] = 1
    BY <2>1 DEF CallInv, RepliesGenuine, Genuine
  <2>8. pc[c] = "done"
    BY <2>6, <2>7 DEF CallInv, PendingExact, HandledOnce, TypeOK, Labels
  <2> QED
    BY <2>8 DEF CallInv, TypeOK
<1> QED
  BY <1>1, CallInvariant, RepliesUnique, PTL DEF Spec, DropsOnlyLateReplies

=============================================================================
