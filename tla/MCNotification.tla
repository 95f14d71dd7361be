--------------------------- MODULE MCNotification ---------------------------
(***************************************************************************)
(* An instance of Notification for TLC: two notifications of one user and  *)
(* type, so of one Redis key.                                              *)
(***************************************************************************)
EXTENDS Notification, TLC

CONSTANTS n1, n2, r1, r2

OneKey == (n1 :> "key") @@ (n2 :> "key")

AllFaults == FaultKinds
=============================================================================
