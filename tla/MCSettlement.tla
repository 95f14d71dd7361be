---------------------------- MODULE MCSettlement ----------------------------
(***************************************************************************)
(* Instances of Settlement for TLC: transactions that cross between two    *)
(* accounts, so that runs can lock them in opposite orders and cannot      *)
(* always be paid.                                                         *)
(***************************************************************************)
EXTENDS Settlement, TLC

CONSTANTS t1, t2, t3, a1, a2, a3, r1, r2

\* t1 and t2 go from a1 to a2, t3 goes back: a run at its second batch can wait
\* for one at its first, and that one for it.
CrossSource == (t1 :> a1) @@ (t2 :> a1) @@ (t3 :> a2)
CrossTarget == (t1 :> a2) @@ (t2 :> a2) @@ (t3 :> a1)
CrossAmount == (t1 :> 2) @@ (t2 :> 1) @@ (t3 :> 3)
CrossFee    == (t1 :> 1) @@ (t2 :> 0) @@ (t3 :> 0)
Order       == (t1 :> 1) @@ (t2 :> 2) @@ (t3 :> 3)

\* a1 can pay t1 and t2, and both again only when t3 has come back; a2 can pay
\* t3 from what it receives.
Medium == (a1 :> 7) @@ (a2 :> 0)

\* Both can pay whatever comes in whatever order.
Ample  == (a1 :> 9) @@ (a2 :> 9)
Zero   == (a1 :> 0) @@ (a2 :> 0)
=============================================================================
