------------------------ MODULE AuthorizationPromise ------------------------
(***************************************************************************)
(* What the authorization service promises about each transaction: it is   *)
(* decided once, its amount is taken only from an account that can pay it, *)
(* a rejection takes nothing, and only what was taken is settled.          *)
(*                                                                         *)
(* Authorization implements this as long as no message is redelivered and  *)
(* no script reply is lost (see PromiseKept there); the faults it leaves   *)
(* out are the ones that break the promise.                                *)
(***************************************************************************)
EXTENDS Integers

CONSTANTS Tx, Account, SourceOf, Amount, InitBalance, NoKey

VARIABLES
    funds,     \* available balance per account, or NoKey
    decision   \* per transaction

Init ==
    /\ funds = InitBalance
    /\ decision = [t \in Tx |-> "pending"]

Hold(t) ==
    LET a == SourceOf[t]
    IN  /\ decision[t] = "pending"
        /\ funds[a] # NoKey
        /\ funds[a] >= Amount[t]
        /\ funds' = [funds EXCEPT ![a] = @ - Amount[t]]
        /\ decision' = [decision EXCEPT ![t] = "held"]

Settle(t) ==
    /\ decision[t] = "held"
    /\ decision' = [decision EXCEPT ![t] = "settled"]
    /\ UNCHANGED funds

Reject(t) ==
    /\ decision[t] = "pending"
    /\ decision' = [decision EXCEPT ![t] = "rejected"]
    /\ UNCHANGED funds

Next == \E t \in Tx : Hold(t) \/ Settle(t) \/ Reject(t)

Step == Next \/ UNCHANGED <<funds, decision>>

Spec == Init /\ [][Next]_<<funds, decision>>
=============================================================================
