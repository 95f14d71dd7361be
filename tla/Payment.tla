------------------------------ MODULE Payment ------------------------------
(***************************************************************************)
(* What the services promise together about each transaction: it goes      *)
(* through their stages one at a time and never back.  Nothing is approved *)
(* that was not queued, held that was not approved, settled that was not   *)
(* held, or posted that was not settled.  It may stop at any stage.        *)
(***************************************************************************)
EXTENDS Naturals

CONSTANT Tx

VARIABLE stage

Stages == <<"new", "queued", "approved", "held", "settled", "posted">>

Init == stage = [t \in Tx |-> "new"]

\* Messages may be delivered two at a time, but each is one transaction's.
Advance(t) ==
    \E i \in 1 .. 5 :
        /\ stage[t] = Stages[i]
        /\ stage' = [stage EXCEPT ![t] = Stages[i + 1]]

Next == \E t \in Tx : Advance(t)

Spec == Init /\ [][Next]_stage
=============================================================================
