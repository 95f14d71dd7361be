--------------------------- MODULE LedgerPromise ---------------------------
(***************************************************************************)
(* What the ledger promises: a transaction that was settled is posted once *)
(* and for all, with its debit and its credit in one step; nothing else is *)
(* ever posted and nothing posted is changed.                              *)
(***************************************************************************)
EXTENDS Naturals

CONSTANT Tx

VARIABLES
    settled,   \* transactions reported as settled
    debits,    \* debit rows per transaction
    credits    \* credit rows per transaction

Init ==
    /\ settled = {}
    /\ debits = [t \in Tx |-> 0]
    /\ credits = [t \in Tx |-> 0]

Settle(t) ==
    /\ settled' = settled \cup {t}
    /\ UNCHANGED <<debits, credits>>

Post(t) ==
    /\ t \in settled
    /\ debits[t] = 0 /\ credits[t] = 0
    /\ debits' = [debits EXCEPT ![t] = 1]
    /\ credits' = [credits EXCEPT ![t] = 1]
    /\ UNCHANGED settled

Next == \E t \in Tx : Settle(t) \/ Post(t)

Spec == Init /\ [][Next]_<<settled, debits, credits>>
=============================================================================
