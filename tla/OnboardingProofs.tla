-------------------------- MODULE OnboardingProofs --------------------------
(***************************************************************************)
(* Proofs about Onboarding, for any set of addresses and any number of     *)
(* additions, deletions and crashes: type correctness, that the registry   *)
(* of redfishread and its running monitors agree, that only systems which  *)
(* have been in the table are ever connected to, and that a system that is *)
(* gone comes back only when a user adds it.                               *)
(***************************************************************************)
EXTENDS Onboarding, TLAPS, SequenceTheorems

\* An addition names an address: only deletions carry the name of the UI's list.
AddsNameAddresses ==
  \A i \in 1 .. Len(authQ) : authQ[i].type = "ADDSERVICE" => authQ[i].ip \in Addrs

\* Everything on its way from the table to the registry has been in the table.
OnlyCommittedSent ==
  /\ db \subseteq committed
  /\ inserted # None => inserted \in committed
  /\ \A a \in Addrs : casts[a] > 0 => a \in committed
  /\ \A i \in 1 .. Len(eventQ) : eventQ[i] \in committed

\* The device being connected to is not in the registry: nothing registers it
\* while ValidateAndAddDevice waits for its first answer.
ConnectsAbsent == adding # None => devices[adding] = "absent"

OnboardingInv == /\ AddsNameAddresses
                 /\ OnlyCommittedSent
                 /\ ConnectsAbsent
                 /\ RegistryMatchesMonitors
                 /\ OnlyCommittedMonitored

-----------------------------------------------------------------------------
\* What a queue holds after its reader died was in it before.
LEMMA LostSuffix ==
  ASSUME NEW S, NEW q \in Seq(S), NEW n \in 0 .. Len(q)
  PROVE  /\ SubSeq(q, n + 1, Len(q)) \in Seq(S)
         /\ \A i \in 1 .. Len(SubSeq(q, n + 1, Len(q))) :
              /\ i + n \in 1 .. Len(q)
              /\ SubSeq(q, n + 1, Len(q))[i] = q[i + n]
<1>1. CASE n = Len(q)
  BY <1>1, SubSeqProperties
<1>2. CASE n < Len(q)
  BY <1>2, SubSeqProperties
<1> QED
  BY <1>1, <1>2

\* A message taken off a queue, and those that stay, were in it.
LEMMA TakenHead ==
  ASSUME NEW S, NEW q \in Seq(S), q # <<>>
  PROVE  /\ Len(q) \in Nat \ {0}
         /\ Head(q) = q[1] /\ Head(q) \in S
         /\ Tail(q) \in Seq(S)
         /\ \A i \in 1 .. Len(Tail(q)) : i + 1 \in 1 .. Len(q) /\ Tail(q)[i] = q[i + 1]
BY HeadTailProperties, EmptySeq

\* The broadcasts of a start-up or a resend are of rows of the table.
LEMMA CastAllStep ==
  ASSUME TypeOK, OnlyCommittedSent, CastAll
  PROVE  /\ casts' \in [Addrs -> Nat] /\ misread' \in BOOLEAN
         /\ \A a \in Addrs : casts'[a] > 0 => a \in committed
<1>1. PICK rows \in SUBSET db : Cast(rows) /\ misread' = (misread \/ rows # db)
  BY DEF CastAll
<1>2. \A a \in Addrs : casts'[a] = casts[a] + (IF a \in rows THEN 1 ELSE 0)
  BY <1>1 DEF Cast
<1>3. casts' \in [Addrs -> Nat]
  BY <1>1 DEF Cast, TypeOK
<1>4. misread' \in BOOLEAN
  BY <1>1
<1>5. ASSUME NEW a \in Addrs, casts'[a] > 0 PROVE a \in committed
  <2>1. a \in rows \/ casts[a] > 0
    BY <1>2, <1>5 DEF TypeOK
  <2> QED
    BY <1>1, <2>1 DEF OnlyCommittedSent
<1> QED
  BY <1>3, <1>4, <1>5

\* Every step keeps the types.
LEMMA TypeStep ==
  ASSUME TypeOK, OnboardingInv, [Next]_vars
  PROVE  TypeOK'
<1> MaxAdds \in Nat /\ MaxDeletes \in Nat /\ MaxCrashes \in Nat
  BY OnboardingConstants
<1> USE OnboardingConstants DEF TypeOK, Commands, Names, uiVars, authVars, readerVars
<1>1. ASSUME NEW a \in Addrs, addSystem(a) PROVE TypeOK'
  <2>1. authQ' \in Seq(Commands)
    BY <1>1 DEF addSystem, Command
  <2> QED
    BY <1>1, <2>1 DEF addSystem
<1>2. CASE getSystemList
  BY <1>2 DEF getSystemList, Listed
<1>3. ASSUME NEW n \in Names, deleteSystem(n) PROVE TypeOK'
  BY <1>3 DEF deleteSystem, Command
<1>4. CASE deleteProducer
  BY <1>4 DEF deleteProducer
<1>5. CASE StartAuth
  BY <1>5, CastAllStep DEF StartAuth, OnboardingInv
<1>6. ASSUME NEW a \in Addrs, BroadcastService(a) PROVE TypeOK'
  <2>1. casts' \in [Addrs -> Nat] /\ eventQ' \in Seq(Addrs)
    BY <1>6 DEF BroadcastService
  <2> QED
    BY <1>6, <2>1 DEF BroadcastService
<1>7. CASE Resend
  BY <1>7, CastAllStep, TakenHead DEF Resend, NextCommand, OnboardingInv
<1>8. CASE InsertService
  <2>1. Head(authQ).ip \in Addrs /\ authQ' \in Seq(Commands)
    BY <1>8, TakenHead DEF InsertService, NextCommand, OnboardingInv, AddsNameAddresses
  <2> QED
    BY <1>8, <2>1 DEF InsertService
<1>9. CASE BroadcastInserted
  BY <1>9 DEF BroadcastInserted
<1>10. CASE deleteServiceFromDB
  BY <1>10, TakenHead DEF deleteServiceFromDB, NextCommand
<1>11. CASE CrashAuth
  <2>1. authQ' \in Seq(Commands)
    <3>1. PICK n \in 0 .. Len(authQ) : authQ' = SubSeq(authQ, n + 1, Len(authQ))
      BY <1>11 DEF CrashAuth, LosePrefix
    <3> QED
      BY <3>1, LostSuffix
  <2>2. casts' \in [Addrs -> Nat] /\ crashes' \in 0 .. MaxCrashes
    BY <1>11 DEF CrashAuth
  <2> QED
    BY <1>11, <2>1, <2>2 DEF CrashAuth
<1>12. CASE StartReader
  BY <1>12 DEF StartReader, Command
<1>13. CASE TakeService
  BY <1>13, TakenHead DEF TakeService
<1>14. CASE AddDevice
  <2>1. /\ devices' \in [Addrs -> {"absent", "failed", "started"}]
        /\ monitors' \in [Addrs -> Nat]
    <3>1. adding \in Addrs
      BY <1>14 DEF AddDevice
    <3>2. CASE /\ devices' = [devices EXCEPT ![adding] = "started"]
               /\ monitors' = [monitors EXCEPT ![adding] = @ + 1]
      BY <3>1, <3>2
    <3>3. CASE devices' = [devices EXCEPT ![adding] = "failed"] /\ UNCHANGED monitors
      BY <3>1, <3>3
    <3> QED
      BY <1>14, <3>2, <3>3 DEF AddDevice
  <2> QED
    BY <1>14, <2>1 DEF AddDevice
<1>15. CASE DeleteKnown
  <2>1. busQ' \in Seq(Names)
    BY <1>15, TakenHead DEF DeleteKnown
  <2>2. /\ Head(busQ) \in Addrs
        /\ devices[Head(busQ)] = "started" => monitors[Head(busQ)] = 1
    BY <1>15 DEF DeleteKnown, Known, OnboardingInv, RegistryMatchesMonitors
  <2>3. monitors' \in [Addrs -> Nat] /\ devices' \in [Addrs -> {"absent", "failed", "started"}]
    BY <1>15, <2>2 DEF DeleteKnown
  <2> QED
    BY <1>15, <2>1, <2>3 DEF DeleteKnown
<1>16. CASE DeleteUnknown
  <2>1. busQ' \in Seq(Names) /\ eventQ' \in Seq(Addrs)
    <3>1. PICK m \in 0 .. Len(busQ) : busQ' = SubSeq(busQ, m + 1, Len(busQ))
      BY <1>16 DEF DeleteUnknown, LosePrefix
    <3>2. PICK n \in 0 .. Len(eventQ) : eventQ' = SubSeq(eventQ, n + 1, Len(eventQ))
      BY <1>16 DEF DeleteUnknown, StopReader, LosePrefix
    <3> QED
      BY <3>1, <3>2, LostSuffix
  <2>2. /\ monitors' \in [Addrs -> Nat]
        /\ devices' \in [Addrs -> {"absent", "failed", "started"}]
        /\ crashes' \in 0 .. MaxCrashes
    BY <1>16 DEF DeleteUnknown, StopReader
  <2> QED
    BY <1>16, <2>1, <2>2 DEF DeleteUnknown, StopReader
<1>17. CASE CrashReader
  <2>1. busQ' \in Seq(Names) /\ eventQ' \in Seq(Addrs)
    <3>1. PICK m \in 0 .. Len(busQ) : busQ' = SubSeq(busQ, m + 1, Len(busQ))
      BY <1>17 DEF CrashReader, LosePrefix
    <3>2. PICK n \in 0 .. Len(eventQ) : eventQ' = SubSeq(eventQ, n + 1, Len(eventQ))
      BY <1>17 DEF CrashReader, StopReader, LosePrefix
    <3> QED
      BY <3>1, <3>2, LostSuffix
  <2>2. /\ monitors' \in [Addrs -> Nat]
        /\ devices' \in [Addrs -> {"absent", "failed", "started"}]
        /\ crashes' \in 0 .. MaxCrashes
    BY <1>17 DEF CrashReader, StopReader
  <2> QED
    BY <1>17, <2>1, <2>2 DEF CrashReader, StopReader
<1>18. CASE UNCHANGED vars
  BY <1>18 DEF vars
<1> QED
  BY <1>1, <1>2, <1>3, <1>4, <1>5, <1>6, <1>7, <1>8, <1>9, <1>10, <1>11, <1>12, <1>13, <1>14,
     <1>15, <1>16, <1>17, <1>18 DEF Next, User, AuthLoop, Reader

\* Every step keeps what is on its way to the registry committed.
LEMMA SentStep ==
  ASSUME TypeOK, OnboardingInv, [Next]_vars
  PROVE  AddsNameAddresses' /\ OnlyCommittedSent'
<1> USE OnboardingConstants
    DEF TypeOK, OnboardingInv, AddsNameAddresses, OnlyCommittedSent, uiVars, authVars, readerVars
<1>1. ASSUME NEW a \in Addrs, addSystem(a) PROVE AddsNameAddresses' /\ OnlyCommittedSent'
  <2>1. authQ' = Append(authQ, Command("ADDSERVICE", a)) /\ Command("ADDSERVICE", a) \in Commands
    BY <1>1 DEF addSystem, Command, Commands, Names
  <2>2. AddsNameAddresses'
    BY <2>1 DEF Command
  <2> QED
    BY <1>1, <2>2 DEF addSystem
<1>2. CASE getSystemList
  BY <1>2 DEF getSystemList
<1>3. ASSUME NEW n \in Names, deleteSystem(n) PROVE AddsNameAddresses' /\ OnlyCommittedSent'
  <2>1. authQ' = Append(authQ, Command("DELETESERVICE", n)) /\ Command("DELETESERVICE", n) \in Commands
    BY <1>3 DEF deleteSystem, Command, Commands
  <2>2. AddsNameAddresses'
    BY <2>1 DEF Command
  <2> QED
    BY <1>3, <2>2 DEF deleteSystem
<1>4. CASE deleteProducer
  BY <1>4 DEF deleteProducer
<1>5. CASE StartAuth
  BY <1>5, CastAllStep DEF StartAuth
<1>6. ASSUME NEW a \in Addrs, BroadcastService(a) PROVE AddsNameAddresses' /\ OnlyCommittedSent'
  <2>1. a \in committed
    BY <1>6 DEF BroadcastService
  <2>2. \A i \in 1 .. Len(eventQ') : eventQ'[i] \in committed
    <3>1. eventQ' = Append(eventQ, a)
      BY <1>6 DEF BroadcastService
    <3> QED
      BY <2>1, <3>1
  <2>3. \A b \in Addrs : casts'[b] > 0 => b \in committed
    BY <1>6, <2>1 DEF BroadcastService
  <2> QED
    BY <1>6, <2>2, <2>3 DEF BroadcastService
<1>7. CASE Resend
  <2>1. AddsNameAddresses'
    <3>1. authQ # <<>> /\ authQ' = Tail(authQ)
      BY <1>7 DEF Resend, NextCommand
    <3> QED
      BY <3>1, TakenHead
  <2>2. OnlyCommittedSent'
    BY <1>7, CastAllStep DEF Resend
  <2> QED
    BY <2>1, <2>2
<1>8. CASE InsertService
  <2>1. AddsNameAddresses'
    BY <1>8, TakenHead DEF InsertService, NextCommand
  <2>2. OnlyCommittedSent'
    BY <1>8 DEF InsertService
  <2> QED
    BY <2>1, <2>2
<1>9. CASE BroadcastInserted
  BY <1>9 DEF BroadcastInserted
<1>10. CASE deleteServiceFromDB
  BY <1>10, TakenHead DEF deleteServiceFromDB, NextCommand
<1>11. CASE CrashAuth
  BY <1>11, LostSuffix DEF CrashAuth, LosePrefix
<1>12. CASE StartReader
  BY <1>12 DEF StartReader, Command, Commands
<1>13. CASE TakeService
  BY <1>13, TakenHead DEF TakeService
<1>14. CASE AddDevice
  BY <1>14 DEF AddDevice
<1>15. CASE DeleteKnown
  BY <1>15 DEF DeleteKnown
<1>16. CASE DeleteUnknown
  <2>1. PICK n \in 0 .. Len(eventQ) : eventQ' = SubSeq(eventQ, n + 1, Len(eventQ))
    BY <1>16 DEF DeleteUnknown, StopReader, LosePrefix
  <2>2. \A i \in 1 .. Len(eventQ') : eventQ'[i] \in committed
    BY <2>1, LostSuffix
  <2> QED
    BY <1>16, <2>2 DEF DeleteUnknown, StopReader
<1>17. CASE CrashReader
  <2>1. PICK n \in 0 .. Len(eventQ) : eventQ' = SubSeq(eventQ, n + 1, Len(eventQ))
    BY <1>17 DEF CrashReader, StopReader, LosePrefix
  <2>2. \A i \in 1 .. Len(eventQ') : eventQ'[i] \in committed
    BY <2>1, LostSuffix
  <2> QED
    BY <1>17, <2>2 DEF CrashReader, StopReader
<1>18. CASE UNCHANGED vars
  BY <1>18 DEF vars
<1> QED
  BY <1>1, <1>2, <1>3, <1>4, <1>5, <1>6, <1>7, <1>8, <1>9, <1>10, <1>11, <1>12, <1>13, <1>14,
     <1>15, <1>16, <1>17, <1>18 DEF Next, User, AuthLoop, Reader

RegistryInv == ConnectsAbsent /\ RegistryMatchesMonitors /\ OnlyCommittedMonitored

\* Every step keeps the registry, its monitors and the table in agreement.  Only
\* the inserting step and those of redfishread touch any of them.
LEMMA RegistryStep ==
  ASSUME TypeOK, OnboardingInv, [Next]_vars
  PROVE  RegistryInv'
<1> USE OnboardingConstants
    DEF TypeOK, OnboardingInv, RegistryInv, ConnectsAbsent, RegistryMatchesMonitors,
        OnlyCommittedMonitored
<1>1. CASE UNCHANGED <<devices, monitors, adding>> /\ committed \subseteq committed'
  BY <1>1
<1>2. CASE TakeService
  <2>1. Head(eventQ) \in Addrs /\ Head(eventQ) \in committed
    BY <1>2, TakenHead DEF TakeService, OnlyCommittedSent
  <2> QED
    BY <1>2, <2>1 DEF TakeService, authVars
<1>3. CASE AddDevice
  <2>1. adding \in Addrs /\ adding' = None /\ committed' = committed
    BY <1>3 DEF AddDevice, authVars
  <2>2. CASE /\ devices' = [devices EXCEPT ![adding] = "started"]
             /\ monitors' = [monitors EXCEPT ![adding] = @ + 1]
    BY <2>1, <2>2
  <2>3. CASE devices' = [devices EXCEPT ![adding] = "failed"] /\ UNCHANGED monitors
    BY <2>1, <2>3
  <2> QED
    BY <1>3, <2>2, <2>3 DEF AddDevice
<1>4. CASE DeleteKnown
  <2>1. PICK a \in Addrs : /\ devices[a] # "absent"
                           /\ monitors' = [monitors EXCEPT ![a] =
                                             IF devices[a] = "started" THEN @ - 1 ELSE @]
                           /\ devices' = [devices EXCEPT ![a] = "absent"]
    BY <1>4 DEF DeleteKnown, Known
  <2> QED
    BY <1>4, <2>1 DEF DeleteKnown, authVars
<1>5. CASE DeleteUnknown \/ CrashReader
  BY <1>5 DEF DeleteUnknown, CrashReader, StopReader, authVars
<1>6. CASE User \/ deleteProducer
  BY <1>6, <1>1 DEF User, addSystem, deleteSystem, getSystemList, deleteProducer, authVars,
     readerVars
<1>7. CASE StartAuth \/ AuthLoop \/ CrashAuth
  BY <1>7, <1>1 DEF StartAuth, AuthLoop, Resend, InsertService, BroadcastInserted,
     deleteServiceFromDB, CrashAuth, authVars, readerVars
<1>8. ASSUME NEW a \in Addrs, BroadcastService(a) PROVE RegistryInv'
  BY <1>8, <1>1 DEF BroadcastService, authVars, readerVars
<1>9. CASE StartReader \/ UNCHANGED vars
  BY <1>9, <1>1 DEF StartReader, vars, authVars, readerVars
<1> QED
  BY <1>2, <1>3, <1>4, <1>5, <1>6, <1>7, <1>8, <1>9 DEF Next, Reader

-----------------------------------------------------------------------------
\* The inductive invariant: types, and what is on its way to the registry.
THEOREM OnboardingInvariant == Spec => [](TypeOK /\ OnboardingInv)
<1>1. Init => TypeOK /\ OnboardingInv
  <2> SUFFICES ASSUME Init PROVE TypeOK /\ OnboardingInv
    OBVIOUS
  <2>1. TypeOK
    <3>1. authQ \in Seq(Commands) /\ eventQ \in Seq(Addrs) /\ busQ \in Seq(Names)
      BY DEF Init
    <3>2. casts \in [Addrs -> Nat] /\ monitors \in [Addrs -> Nat]
      BY DEF Init
    <3>3. devices \in [Addrs -> {"absent", "failed", "started"}]
      BY DEF Init
    <3>4. adds \in 0 .. MaxAdds /\ deletes \in 0 .. MaxDeletes /\ crashes \in 0 .. MaxCrashes
      <4>1. MaxAdds \in Nat /\ MaxDeletes \in Nat /\ MaxCrashes \in Nat
        BY OnboardingConstants
      <4> QED
        BY <4>1 DEF Init
    <3>5. /\ db \subseteq Addrs /\ committed \subseteq Addrs
          /\ shown \subseteq Names /\ unwanted \subseteq Names
      BY DEF Init
    <3>6. /\ inserted \in Addrs \cup {None} /\ adding \in Addrs \cup {None}
          /\ deleting \in Names \cup {None}
          /\ misread \in BOOLEAN /\ authUp \in BOOLEAN /\ readerUp \in BOOLEAN
      BY DEF Init
    <3> QED
      BY <3>1, <3>2, <3>3, <3>4, <3>5, <3>6 DEF TypeOK
  <2>2. AddsNameAddresses /\ OnlyCommittedSent
    BY DEF Init, AddsNameAddresses, OnlyCommittedSent
  <2>3. ConnectsAbsent /\ RegistryMatchesMonitors /\ OnlyCommittedMonitored
    BY OnboardingConstants DEF Init, ConnectsAbsent, RegistryMatchesMonitors, OnlyCommittedMonitored
  <2> QED
    BY <2>1, <2>2, <2>3 DEF OnboardingInv
<1>2. TypeOK /\ OnboardingInv /\ [Next]_vars => TypeOK' /\ OnboardingInv'
  BY TypeStep, SentStep, RegistryStep DEF RegistryInv, OnboardingInv
<1> QED
  BY <1>1, <1>2, PTL DEF Spec

\* Every variable keeps to its type, also when additions and deletions of the
\* same system meet in the queues.
THEOREM TypeCorrect == Spec => []TypeOK
BY OnboardingInvariant, PTL

\* One monitor per started device and none besides, whatever broadcasts are
\* repeated and however deletions and crashes interleave with a connect.
THEOREM OneMonitorPerDevice == Spec => []RegistryMatchesMonitors
<1>1. OnboardingInv => RegistryMatchesMonitors
  BY DEF OnboardingInv
<1> QED
  BY <1>1, OnboardingInvariant, PTL

\* redfishread connects only to systems that have been rows of the table.
THEOREM ConnectsOnlyCommitted == Spec => []OnlyCommittedMonitored
<1>1. OnboardingInv => OnlyCommittedMonitored
  BY DEF OnboardingInv
<1> QED
  BY <1>1, OnboardingInvariant, PTL

-----------------------------------------------------------------------------
\* A queue without a message lacks it after the queue's reader died, or after
\* another message was sent.
LEMMA StillLacks ==
  ASSUME NEW S, NEW q \in Seq(S), NEW x, \A i \in 1 .. Len(q) : q[i] # x
  PROVE  /\ \A n \in 0 .. Len(q) : \A i \in 1 .. Len(SubSeq(q, n + 1, Len(q))) :
              SubSeq(q, n + 1, Len(q))[i] # x
         /\ \A m \in S : m # x => \A i \in 1 .. Len(Append(q, m)) : Append(q, m)[i] # x
<1>1. ASSUME NEW n \in 0 .. Len(q), NEW i \in 1 .. Len(SubSeq(q, n + 1, Len(q)))
      PROVE  SubSeq(q, n + 1, Len(q))[i] # x
  BY <1>1, LostSuffix
<1>2. ASSUME NEW m \in S, m # x, NEW i \in 1 .. Len(Append(q, m))
      PROVE  Append(q, m)[i] # x
  BY <1>2, AppendProperties
<1> QED
  BY <1>1, <1>2

\* Every step but the addition of a leaves a system that is gone as it is.
LEMMA GoneStep ==
  ASSUME TypeOK, OnboardingInv, [Next]_vars, NEW a \in Addrs, Gone(a), ~addSystem(a)
  PROVE  Gone(a)'
<1> a # None
  BY OnboardingConstants
<1> USE DEF TypeOK, Gone, Command, uiVars, authVars, readerVars
<1>1. ASSUME NEW b \in Addrs, addSystem(b) PROVE Gone(a)'
  <2>1. a # b
    BY <1>1
  <2>2. \A i \in 1 .. Len(authQ') : authQ'[i] # Command("ADDSERVICE", a)
    BY <1>1, <2>1 DEF addSystem
  <2> QED
    BY <1>1, <2>2 DEF addSystem
<1>2. CASE getSystemList \/ deleteProducer
  BY <1>2 DEF getSystemList, deleteProducer
<1>3. ASSUME NEW n \in Names, deleteSystem(n) PROVE Gone(a)'
  <2>1. \A i \in 1 .. Len(authQ') : authQ'[i] # Command("ADDSERVICE", a)
    BY <1>3 DEF deleteSystem
  <2> QED
    BY <1>3, <2>1 DEF deleteSystem
<1>4. CASE StartAuth
  <2>1. casts'[a] = 0
    BY <1>4 DEF StartAuth, CastAll, Cast
  <2> QED
    BY <1>4, <2>1 DEF StartAuth
<1>5. ASSUME NEW b \in Addrs, BroadcastService(b) PROVE Gone(a)'
  <2>1. a # b
    BY <1>5 DEF BroadcastService
  <2>2. eventQ' = Append(eventQ, b)
    BY <1>5 DEF BroadcastService
  <2>3. \A i \in 1 .. Len(eventQ') : eventQ'[i] # a
    BY <2>1, <2>2, StillLacks
  <2> QED
    BY <1>5, <2>1, <2>3 DEF BroadcastService
<1>6. ASSUME NEW t, NextCommand(t)
      PROVE  /\ Head(authQ) # Command("ADDSERVICE", a)
             /\ \A i \in 1 .. Len(authQ') : authQ'[i] # Command("ADDSERVICE", a)
  BY <1>6, TakenHead DEF NextCommand
<1>7. CASE Resend
  <2>1. casts'[a] = 0
    BY <1>7 DEF Resend, CastAll, Cast
  <2>2. \A i \in 1 .. Len(authQ') : authQ'[i] # Command("ADDSERVICE", a)
    BY <1>6, <1>7 DEF Resend
  <2> QED
    BY <1>7, <2>1, <2>2 DEF Resend
<1>8. CASE InsertService
  <2>1. Head(authQ) = Command("ADDSERVICE", Head(authQ).ip)
    <3>1. Head(authQ) \in Commands /\ Head(authQ).type = "ADDSERVICE"
      BY <1>8, TakenHead DEF InsertService, NextCommand
    <3> QED
      BY <3>1 DEF Commands
  <2>2. Head(authQ).ip # a
    BY <1>6, <1>8, <2>1 DEF InsertService
  <2>3. \A i \in 1 .. Len(authQ') : authQ'[i] # Command("ADDSERVICE", a)
    BY <1>6, <1>8 DEF InsertService
  <2> QED
    BY <1>8, <2>2, <2>3 DEF InsertService
<1>9. CASE BroadcastInserted
  <2>1. \A i \in 1 .. Len(eventQ') : eventQ'[i] # a
    BY <1>9 DEF BroadcastInserted
  <2> QED
    BY <1>9, <2>1 DEF BroadcastInserted
<1>10. CASE deleteServiceFromDB
  BY <1>6, <1>10 DEF deleteServiceFromDB
<1>11. CASE CrashAuth
  <2>1. PICK n \in 0 .. Len(authQ) : authQ' = SubSeq(authQ, n + 1, Len(authQ))
    BY <1>11 DEF CrashAuth, LosePrefix
  <2>2. \A i \in 1 .. Len(authQ') : authQ'[i] # Command("ADDSERVICE", a)
    BY <2>1, StillLacks
  <2> QED
    BY <1>11, <2>2 DEF CrashAuth
<1>12. CASE StartReader
  <2>1. \A i \in 1 .. Len(authQ') : authQ'[i] # Command("ADDSERVICE", a)
    BY <1>12 DEF StartReader
  <2> QED
    BY <1>12, <2>1 DEF StartReader
<1>13. CASE TakeService
  <2>1. Head(eventQ) # a /\ \A i \in 1 .. Len(eventQ') : eventQ'[i] # a
    BY <1>13, TakenHead DEF TakeService
  <2> QED
    BY <1>13, <2>1 DEF TakeService
<1>14. CASE AddDevice
  BY <1>14 DEF AddDevice
<1>15. CASE DeleteKnown
  BY <1>15 DEF DeleteKnown
<1>16. ASSUME StopReader, UNCHANGED <<authQ, authVars>> PROVE Gone(a)'
  <2>1. PICK n \in 0 .. Len(eventQ) : eventQ' = SubSeq(eventQ, n + 1, Len(eventQ))
    BY <1>16 DEF StopReader, LosePrefix
  <2>2. \A i \in 1 .. Len(eventQ') : eventQ'[i] # a
    BY <2>1, StillLacks
  <2> QED
    BY <1>16, <2>2 DEF StopReader
<1>17. CASE DeleteUnknown \/ CrashReader
  BY <1>16, <1>17 DEF DeleteUnknown, CrashReader
<1>18. CASE UNCHANGED vars
  BY <1>18 DEF vars
<1> QED
  BY <1>1, <1>2, <1>3, <1>4, <1>5, <1>7, <1>8, <1>9, <1>10, <1>11, <1>12, <1>13, <1>14, <1>15,
     <1>17, <1>18 DEF Next, User, AuthLoop, Reader

\* What was deleted, and has left every queue, comes back only through a user.
THEOREM OnlyUsersBringBack == Spec => GoneStaysGone
<1>1. TypeOK /\ OnboardingInv /\ [Next]_vars
        => [\A a \in Addrs : Gone(a) => Gone(a)' \/ addSystem(a)]_vars
  BY GoneStep
<1> QED
  BY <1>1, OnboardingInvariant, PTL DEF Spec, GoneStaysGone

=============================================================================
