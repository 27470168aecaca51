----------------------------- MODULE Onboarding -----------------------------
(***************************************************************************)
(* How a system added in the UI comes to be monitored, and how it stops:   *)
(* configui (cmd/configui/configui.go), the authorization service with its *)
(* services table (cmd/dbdiscauth/dbdiscauth.go), and the device registry  *)
(* of redfishread (cmd/redfishread/redfishread.go,                         *)
(* pkg/redfishread/redfishread.go), connected by message-bus queues.       *)
(*                                                                         *)
(* The queues outlive the processes.  They are read with automatic         *)
(* acknowledgement, so a process that dies takes the messages it has       *)
(* prefetched with it.  redfishread keeps its registry in memory only and  *)
(* asks for all services again when it starts; dbdiscauth broadcasts the   *)
(* whole table when it starts.  A broadcast to a device already known is   *)
(* ignored.  The connection of a running process to the bus is assumed to  *)
(* hold: the STOMP client never reconnects.                                *)
(***************************************************************************)
EXTENDS Naturals, Sequences, FiniteSets

CONSTANTS
  Addrs,        \* the IPs users add
  V6,           \* those whose Hostname the Redfish client puts in brackets
  Bracketed,    \* such a hostname: not a key of the table or the registry
  None,
  MaxAdds,      \* bound on the users' additions
  MaxDeletes,   \* bound on the users' deletions
  MaxCrashes    \* bound on the crashes of the two services, panics aside

ASSUME OnboardingConstants ==
  /\ V6 \subseteq Addrs
  /\ Bracketed \notin Addrs /\ None \notin Addrs \cup {Bracketed}
  /\ {MaxAdds, MaxDeletes, MaxCrashes} \subseteq Nat

Names    == Addrs \cup {Bracketed}
Commands == [type : {"ADDSERVICE", "DELETESERVICE", "RESEND"}, ip : Names \cup {None}]

\* The name the UI shows for a device, and sends back to delete it: GetUri has
\* rewritten Hostname for an IPv6 address.
Listed(a) == IF a \in V6 THEN Bracketed ELSE a

VARIABLES
  authQ,      \* the authorization command queue
  eventQ,     \* the queue of service broadcasts
  busQ,       \* DELETEPRODUCER commands on the databus command queue
  db,         \* the services table
  authUp,     \* dbdiscauth is past its start-up
  inserted,   \* the service addServiceToDB has inserted but not broadcast
  casts,      \* [Addrs -> running BroadcastService goroutines]
  readerUp,   \* redfishread is running
  adding,     \* the service ValidateAndAddDevice is connecting to
  devices,    \* [Addrs -> registry entry of redfishread]
  monitors,   \* [Addrs -> devices started and not cancelled]
  shown,      \* the names in the UI's list
  deleting,   \* the name deleteSystem has deleted from the table only
  adds, deletes, crashes,   \* counters of the bounds
  misread,    \* history: a query of the table has failed, or given only some rows
  committed,  \* history: addresses that have been in the table
  unwanted    \* history: addresses a user has asked to delete

uiVars     == <<shown, deleting, adds, deletes, unwanted>>
authVars   == <<db, authUp, inserted, casts, committed, misread>>
readerVars == <<readerUp, adding, devices, monitors>>
vars == <<authQ, eventQ, busQ, uiVars, authVars, readerVars, crashes>>

Command(t, n) == [type |-> t, ip |-> n]

Init ==
  /\ authQ = <<>> /\ eventQ = <<>> /\ busQ = <<>>
  /\ db \in SUBSET Addrs
  /\ committed = db /\ misread = FALSE
  /\ authUp = FALSE
  /\ inserted = None
  /\ casts = [a \in Addrs |-> 0]
  /\ readerUp = FALSE
  /\ adding = None
  /\ devices = [a \in Addrs |-> "absent"]
  /\ monitors = [a \in Addrs |-> 0]
  /\ shown = {} /\ deleting = None /\ unwanted = {}
  /\ adds = 0 /\ deletes = 0
  /\ crashes = 0

-----------------------------------------------------------------------------
(* configui *)

addSystem(a) ==
  /\ adds < MaxAdds
  /\ adds' = adds + 1
  /\ authQ' = Append(authQ, Command("ADDSERVICE", a))
  /\ UNCHANGED <<eventQ, busQ, shown, deleting, deletes, unwanted, authVars, readerVars, crashes>>

getSystemList ==
  /\ readerUp
  /\ shown' = {Listed(a) : a \in {x \in Addrs : devices[x] # "absent"}}
  /\ UNCHANGED <<authQ, eventQ, busQ, deleting, adds, deletes, unwanted, authVars,
                 readerVars, crashes>>

\* deleteSystem for one name of the list, which may be out of date: first the
\* table, then the reader.
deleteSystem(n) ==
  /\ n \in shown
  /\ deleting = None
  /\ deletes < MaxDeletes
  /\ deletes' = deletes + 1
  /\ deleting' = n
  /\ unwanted' = unwanted \cup {n}
  /\ authQ' = Append(authQ, Command("DELETESERVICE", n))
  /\ UNCHANGED <<eventQ, busQ, shown, adds, authVars, readerVars, crashes>>

deleteProducer ==
  /\ deleting # None
  /\ busQ' = Append(busQ, deleting)
  /\ deleting' = None
  /\ UNCHANGED <<authQ, eventQ, shown, adds, deletes, unwanted, authVars, readerVars, crashes>>

-----------------------------------------------------------------------------
(* dbdiscauth *)

Cast(rows) == casts' = [a \in Addrs |-> casts[a] + (IF a \in rows THEN 1 ELSE 0)]

\* Mutation: the rows of an earlier query are broadcast, deleted ones included.
CastAllEver ==
  \E rows \in SUBSET committed : Cast(rows) /\ misread' = (misread \/ rows # committed)

\* go BroadcastService for each row.  A query that fails is only logged, and one that
\* breaks off gives the rows read so far: getInstancesFromDB does not ask results.Err().
CastAll ==
  \E rows \in SUBSET db : Cast(rows) /\ misread' = (misread \/ rows # db)

\* Mutation: the table is not broadcast at start-up.
StartAuthQuietly ==
  /\ ~authUp
  /\ authUp' = TRUE
  /\ UNCHANGED <<authQ, eventQ, busQ, uiVars, db, inserted, casts, committed, misread,
                 readerVars, crashes>>

\* Start-up: the table is broadcast before commands are read.
StartAuth ==
  /\ ~authUp
  /\ authUp' = TRUE
  /\ CastAll
  /\ UNCHANGED <<authQ, eventQ, busQ, uiVars, db, inserted, committed, readerVars, crashes>>

\* Mutation: a broadcast is repeated without counting it.
BroadcastAgain(a) ==
  /\ casts' = [casts EXCEPT ![a] = @ - 1]
  /\ eventQ' = Append(eventQ, a)
  /\ UNCHANGED <<authQ, busQ, uiVars, db, authUp, inserted, committed, misread, readerVars, crashes>>

\* A goroutine of the start-up or of RESEND gets to send its broadcast.
BroadcastService(a) ==
  /\ casts[a] > 0
  /\ casts' = [casts EXCEPT ![a] = @ - 1]
  /\ eventQ' = Append(eventQ, a)
  /\ UNCHANGED <<authQ, busQ, uiVars, db, authUp, inserted, committed, misread, readerVars, crashes>>

\* The command loop takes the next command once the last is done.
NextCommand(t) ==
  /\ authUp
  /\ inserted = None
  /\ authQ # <<>>
  /\ Head(authQ).type = t
  /\ authQ' = Tail(authQ)

Resend ==
  /\ NextCommand("RESEND")
  /\ CastAll
  /\ UNCHANGED <<eventQ, busQ, uiVars, db, authUp, inserted, committed, readerVars, crashes>>

\* Mutation: addServiceToDB broadcasts whether the INSERT failed or not.
InsertUnchecked ==
  /\ NextCommand("ADDSERVICE")
  /\ LET a == Head(authQ).ip
     IN  /\ inserted' = a
         /\ \/ db' = db \cup {a} /\ committed' = committed \cup {a}
            \/ UNCHANGED <<db, committed>>
  /\ UNCHANGED <<eventQ, busQ, uiVars, authUp, casts, misread, readerVars, crashes>>

\* The INSERT of addServiceToDB: it fails on a duplicate key, or for a reason
\* of the database's own, and then nothing is broadcast.
InsertService ==
  /\ NextCommand("ADDSERVICE")
  /\ LET a == Head(authQ).ip
     IN  \/ /\ a \notin db
            /\ inserted' = a
            /\ db' = db \cup {a}
            /\ committed' = committed \cup {a}
         \/ UNCHANGED <<inserted, db, committed>>
  /\ UNCHANGED <<eventQ, busQ, uiVars, authUp, casts, misread, readerVars, crashes>>

BroadcastInserted ==
  /\ inserted # None
  /\ eventQ' = Append(eventQ, inserted)
  /\ inserted' = None
  /\ UNCHANGED <<authQ, busQ, uiVars, db, authUp, casts, committed, misread, readerVars, crashes>>

deleteServiceFromDB ==
  /\ NextCommand("DELETESERVICE")
  /\ \/ db' = db \ {Head(authQ).ip}
     \/ UNCHANGED db
  /\ UNCHANGED <<eventQ, busQ, uiVars, authUp, inserted, casts, committed, misread, readerVars,
                 crashes>>

\* What the process had prefetched from a queue dies with it.
LosePrefix(q) == \E n \in 0 .. Len(q) : q' = SubSeq(q, n + 1, Len(q))

CrashAuth ==
  /\ authUp
  /\ crashes < MaxCrashes
  /\ crashes' = crashes + 1
  /\ authUp' = FALSE
  /\ inserted' = None
  /\ casts' = [a \in Addrs |-> 0]
  /\ LosePrefix(authQ)
  /\ UNCHANGED <<eventQ, busQ, uiVars, db, committed, misread, readerVars>>

-----------------------------------------------------------------------------
(* redfishread *)

StartReader ==
  /\ ~readerUp
  /\ readerUp' = TRUE
  /\ authQ' = Append(authQ, Command("RESEND", None))
  /\ UNCHANGED <<eventQ, busQ, uiVars, authVars, adding, devices, monitors, crashes>>

\* Mutation: the registry is not consulted before a device is added.
TakeServiceUnchecked ==
  /\ readerUp
  /\ adding = None
  /\ eventQ # <<>>
  /\ eventQ' = Tail(eventQ)
  /\ adding' = Head(eventQ)
  /\ UNCHANGED <<authQ, busQ, uiVars, authVars, readerUp, devices, monitors, crashes>>

\* handleAuthServiceChannel and the checks of ValidateAndAddDevice.
TakeService ==
  /\ readerUp
  /\ adding = None
  /\ eventQ # <<>>
  /\ eventQ' = Tail(eventQ)
  /\ adding' = IF devices[Head(eventQ)] = "absent" THEN Head(eventQ) ELSE None
  /\ UNCHANGED <<authQ, busQ, uiVars, authVars, readerUp, devices, monitors, crashes>>

\* The client's first request has ended: the device is registered either way,
\* and monitored if it answered.
AddDevice ==
  /\ adding # None
  /\ \/ /\ devices' = [devices EXCEPT ![adding] = "started"]
        /\ monitors' = [monitors EXCEPT ![adding] = @ + 1]
     \/ /\ devices' = [devices EXCEPT ![adding] = "failed"]
        /\ UNCHANGED monitors
  /\ adding' = None
  /\ UNCHANGED <<authQ, eventQ, busQ, uiVars, authVars, readerUp, crashes>>

Known(n) == n \in Addrs /\ devices[n] # "absent"

\* CtxCancel on the registry's entry, then delete.
DeleteKnown ==
  /\ readerUp
  /\ busQ # <<>>
  /\ Known(Head(busQ))
  /\ LET a == Head(busQ)
     IN  /\ monitors' = [monitors EXCEPT ![a] = IF devices[a] = "started" THEN @ - 1 ELSE @]
         /\ devices' = [devices EXCEPT ![a] = "absent"]
  /\ busQ' = Tail(busQ)
  /\ UNCHANGED <<authQ, eventQ, uiVars, authVars, readerUp, adding, crashes>>

StopReader ==
  /\ readerUp' = FALSE
  /\ adding' = None
  /\ devices' = [a \in Addrs |-> "absent"]
  /\ monitors' = [a \in Addrs |-> 0]
  /\ LosePrefix(eventQ)

\* devices[service.Ip].CtxCancel() on an address that is not registered is a
\* nil dereference: the process dies.
DeleteUnknown ==
  /\ readerUp
  /\ busQ # <<>>
  /\ ~Known(Head(busQ))
  /\ \E n \in 1 .. Len(busQ) : busQ' = SubSeq(busQ, n + 1, Len(busQ))
  /\ StopReader
  /\ UNCHANGED <<authQ, uiVars, authVars, crashes>>

CrashReader ==
  /\ readerUp
  /\ crashes < MaxCrashes
  /\ crashes' = crashes + 1
  /\ LosePrefix(busQ)
  /\ StopReader
  /\ UNCHANGED <<authQ, uiVars, authVars>>

-----------------------------------------------------------------------------
User == \/ \E a \in Addrs : addSystem(a)
        \/ \E n \in Names : deleteSystem(n)
        \/ getSystemList

AuthLoop == Resend \/ InsertService \/ BroadcastInserted \/ deleteServiceFromDB

Reader == DeleteKnown \/ DeleteUnknown

Next ==
  \/ User \/ deleteProducer
  \/ StartAuth \/ AuthLoop \/ CrashAuth
  \/ \E a \in Addrs : BroadcastService(a)
  \/ StartReader \/ TakeService \/ AddDevice \/ Reader \/ CrashReader

Spec == Init /\ [][Next]_vars

(***************************************************************************)
(* Both services are restarted by their container (restart: always) and    *)
(* every goroutine runs.  AddDevice is fair on the assumption that the     *)
(* device answers or refuses the first request: the HTTP client itself     *)
(* would wait for ever.  Users and crashes are not fair.                   *)
(***************************************************************************)
FairSpec ==
  /\ Spec
  /\ WF_vars(deleteProducer)
  /\ WF_vars(StartAuth) /\ WF_vars(AuthLoop)
  /\ \A a \in Addrs : WF_vars(BroadcastService(a))
  /\ WF_vars(StartReader) /\ WF_vars(TakeService) /\ WF_vars(AddDevice) /\ WF_vars(Reader)

-----------------------------------------------------------------------------
TypeOK ==
  /\ authQ \in Seq(Commands)
  /\ eventQ \in Seq(Addrs)
  /\ busQ \in Seq(Names)
  /\ db \subseteq Addrs /\ committed \subseteq Addrs /\ misread \in BOOLEAN
  /\ authUp \in BOOLEAN /\ readerUp \in BOOLEAN
  /\ inserted \in Addrs \cup {None}
  /\ casts \in [Addrs -> Nat]
  /\ adding \in Addrs \cup {None}
  /\ devices \in [Addrs -> {"absent", "failed", "started"}]
  /\ monitors \in [Addrs -> Nat]
  /\ shown \subseteq Names /\ unwanted \subseteq Names
  /\ deleting \in Names \cup {None}
  /\ adds \in 0 .. MaxAdds /\ deletes \in 0 .. MaxDeletes
  /\ crashes \in 0 .. MaxCrashes

\* An address has one monitor if the registry says started and none otherwise,
\* however often start-ups, resends and additions broadcast it and however
\* deletions interleave with the connecting goroutine: no device is monitored
\* twice, and every monitor can still be cancelled through the registry.
RegistryMatchesMonitors ==
  \A a \in Addrs : monitors[a] = IF devices[a] = "started" THEN 1 ELSE 0

\* redfishread never connects to a system that is not, or was not, a row of
\* the table, also when dbdiscauth dies between its two steps.
OnlyCommittedMonitored ==
  \A a \in Addrs : devices[a] # "absent" \/ adding = a => a \in committed

\* Nothing of a system is left: no row, no registry entry, and nothing on its
\* way from configui to the table or from the table to the registry.
Gone(a) ==
  /\ a \notin db /\ a # inserted /\ casts[a] = 0
  /\ a # adding /\ devices[a] = "absent"
  /\ \A i \in 1 .. Len(authQ) : authQ[i] # Command("ADDSERVICE", a)
  /\ \A i \in 1 .. Len(eventQ) : eventQ[i] # a

\* A system that is gone comes back only when a user adds it again: no resend,
\* restart, lost or late message of either service brings back what was deleted.
GoneStaysGone == [][\A a \in Addrs : Gone(a) => Gone(a)' \/ addSystem(a)]_vars

\* A system in the table that no user deletes is in the registry from some
\* time on, whatever crashes, prefetched messages lost and panics there were:
\* the start-up broadcast and ResendAll make up for every lost broadcast.  Only
\* a query of the table that failed or broke off is made up for by nothing.
Wanted(a) == a \in db /\ a \notin unwanted

EveryWantedSystemRegistered ==
  <>[](misread \/ \A a \in Addrs : Wanted(a) => devices[a] # "absent")

=============================================================================
