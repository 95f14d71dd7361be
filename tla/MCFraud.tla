------------------------------ MODULE MCFraud ------------------------------
(***************************************************************************)
(* An instance of Fraud for TLC: a transaction that may be reviewed or     *)
(* declined, and one at the upper limits of those that never are.          *)
(***************************************************************************)
EXTENDS Fraud, TLC

CONSTANTS t1, t2, r1, r2

Amounts    == (t1 :> 50001) @@ (t2 :> 10000)
Categories == (t1 :> "7995") @@ (t2 :> "5411")

\* The least and the greatest; t1 is reviewed or declined.
SomeDraws == {0, 30}

AllFaults == FaultKinds
=============================================================================
