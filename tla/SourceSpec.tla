----------------------------- MODULE SourceSpec -----------------------------
(***************************************************************************)
(* What an event source promises the goroutine that calls Next: the events *)
(* are returned one by one as the server numbered them, however often the  *)
(* connection below breaks; the end of the stream is final until the       *)
(* source is closed, and a closed source returns no event but the one a    *)
(* running Next had read.  How well a reconnect is hidden depends on the   *)
(* ID the source has kept: with one it resumes after the event of that ID, *)
(* without one the stream goes on at some event not returned yet.          *)
(***************************************************************************)
EXTENDS Naturals

CONSTANT Unnamed   \* the events without an ID

VARIABLES
  returned,  \* number of the last event returned, 0 before the first
  last,      \* the ID kept for the next request, 0 for none
  phase      \* "open", "ended", "closing" (closed while Next runs) or "closed"

vars == <<returned, last, phase>>

Init == returned = 0 /\ last = 0 /\ phase = "open"

\* The next event of a connection, the first of one that resumed, or the first
\* of one that was asked for without an ID.
Follows(e) ==
  \/ returned # 0 /\ e = returned + 1
  \/ last # 0 /\ e = last + 1
  \/ last = 0 /\ e > returned

\* An event without an ID leaves the ID kept as it is or, first on its
\* connection, loses it.
Keeps(e, id) == IF e \in Unnamed THEN id \in {last, 0} ELSE id = e

Return ==
  /\ phase \in {"open", "closing"}
  /\ returned' \in Nat /\ Follows(returned')
  /\ Keeps(returned', last')
  /\ phase' = IF phase = "closing" THEN "closed" ELSE phase

End ==
  /\ phase = "open" /\ phase' = "ended"
  /\ UNCHANGED <<returned, last>>

Close ==
  /\ phase \in {"open", "ended"}
  /\ phase' \in {"closing", "closed"}
  /\ UNCHANGED <<returned, last>>

\* The running Next gives up with an error.
Fail ==
  /\ phase = "closing" /\ phase' = "closed"
  /\ UNCHANGED <<returned, last>>

Next == Return \/ End \/ Close \/ Fail

Spec == Init /\ [][Next]_vars

=============================================================================
