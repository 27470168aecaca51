------------------------------ MODULE MCDataBus ------------------------------
(***************************************************************************)
(* DataBus with two pumps that read a queue each, and with two that share  *)
(* one, as prometheuspump and victoriapump share "/prometheus".            *)
(***************************************************************************)
EXTENDS DataBus, TLC

CONSTANTS p1, p2, q1, q2

QueuePerPump == p1 :> q1 @@ p2 :> q2

SharedQueue == p1 :> q1 @@ p2 :> q1

=============================================================================
