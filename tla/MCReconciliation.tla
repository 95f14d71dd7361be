-------------------------- MODULE MCReconciliation --------------------------
(***************************************************************************)
(* An instance of Reconciliation for TLC: a card transaction and a line of *)
(* the Visa file one cent apart, and a transaction and a line of the ACH   *)
(* file without codes, whose amounts differ.                               *)
(***************************************************************************)
EXTENDS Reconciliation, TLC

CONSTANTS t1, t2, l1, l2, r1, r2

Codes   == (t1 :> "A") @@ (t2 :> NoCode) @@ (l1 :> "A") @@ (l2 :> NoCode)
Amounts == (t1 :> 20) @@ (t2 :> 30) @@ (l1 :> 21) @@ (l2 :> 35)
Files   == (l1 :> "visa") @@ (l2 :> "ach")

AllFaults == FaultKinds
=============================================================================
