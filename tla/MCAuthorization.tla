-------------------------- MODULE MCAuthorization --------------------------
(***************************************************************************)
(* An instance of Authorization for TLC: two transactions of one account   *)
(* that can pay either of them, or the smaller one twice, but not both;    *)
(* and one of an account that Redis knows nothing about.                   *)
(***************************************************************************)
EXTENDS Authorization, TLC

CONSTANTS t1, t2, t3, a1, a2, r1, r2

Sources  == (t1 :> a1) @@ (t2 :> a1) @@ (t3 :> a2)
Amounts  == (t1 :> 2) @@ (t2 :> 3) @@ (t3 :> 1)
Balances == (a1 :> 4) @@ (a2 :> NoKey)

AllFaults == FaultKinds
=============================================================================
