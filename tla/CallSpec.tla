------------------------------ MODULE CallSpec ------------------------------
(***************************************************************************)
(* What BaseClient.Call promises its callers, whatever becomes of the      *)
(* queues and processes below it: a call ends with the answer to its own   *)
(* request, which the service has handled, or it fails; a request is       *)
(* handled at most once, also when its call has failed in the meantime.    *)
(***************************************************************************)
EXTENDS Naturals

CONSTANTS Calls, None

VARIABLES
  outcome,   \* [Calls -> {"new", "open", "answered", "failed"}]
  result,    \* [Calls -> the call whose answer was returned, or None]
  handled    \* [Calls -> how often the service has handled the request]

vars == <<outcome, result, handled>>

Init ==
  /\ outcome = [c \in Calls |-> "new"]
  /\ result = [c \in Calls |-> None]
  /\ handled = [c \in Calls |-> 0]

Open(c) ==
  /\ outcome[c] = "new"
  /\ outcome' = [outcome EXCEPT ![c] = "open"]
  /\ UNCHANGED <<result, handled>>

Handle(c) ==
  /\ outcome[c] # "new"
  /\ handled[c] = 0
  /\ handled' = [handled EXCEPT ![c] = 1]
  /\ UNCHANGED <<outcome, result>>

Answer(c) ==
  /\ outcome[c] = "open"
  /\ handled[c] = 1
  /\ outcome' = [outcome EXCEPT ![c] = "answered"]
  /\ result' = [result EXCEPT ![c] = c]
  /\ UNCHANGED handled

Fail(c) ==
  /\ outcome[c] \in {"new", "open"}
  /\ outcome' = [outcome EXCEPT ![c] = "failed"]
  /\ UNCHANGED <<result, handled>>

\* The caller's process dies: all its open calls fail at once.
FailAll ==
  /\ outcome' = [c \in Calls |-> IF outcome[c] = "open" THEN "failed" ELSE outcome[c]]
  /\ UNCHANGED <<result, handled>>

Next == (\E c \in Calls : Open(c) \/ Handle(c) \/ Answer(c) \/ Fail(c)) \/ FailAll

Spec == Init /\ [][Next]_vars

=============================================================================
