------------------------------ MODULE MCLedger ------------------------------
(***************************************************************************)
(* Instances of Ledger for TLC: batches of two, a channel of one, and a    *)
(* database that takes every row or refuses the credit row of t1.          *)
(***************************************************************************)
EXTENDS Ledger, TLC

CONSTANTS t1, t2, r1, r2

AllAccepted   == (t1 :> "no") @@ (t2 :> "no")
CreditRefused == (t1 :> "credit") @@ (t2 :> "no")

AllFaults == FaultKinds
=============================================================================
