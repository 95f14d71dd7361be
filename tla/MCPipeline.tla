----------------------------- MODULE MCPipeline -----------------------------
(***************************************************************************)
(* An instance of Pipeline for TLC: a payment that a client may post       *)
(* twice, and a smaller one that names no target.  The account can pay for *)
(* both attempts of the first, and then not for the second.                *)
(***************************************************************************)
EXTENDS Pipeline, TLC

CONSTANTS pay, gift, acc, f1, u1, l1

Sources    == (pay :> acc) @@ (gift :> acc)
Amounts    == (pay :> 20000) @@ (gift :> 1)
Categories == (pay :> "") @@ (gift :> "")
Balances   == (acc :> 40000)

Attempts   == (pay :> 2) @@ (gift :> 1)

SomeDraws == {0}

\* All kinds but those of Publish, which stands for what is modelled here.
GatewayKinds == FaultKinds
FraudKinds ==
    {"produce_lost", "produce_retry", "commit_error", "crash", "sigterm", "rebalance"}
AuthKinds ==
    {"redis_error", "reply_lost", "produce_error", "produce_retry", "produce_lost",
     "commit_error", "crash", "rebalance", "expire"}
LedgerKinds ==
    {"db_error", "db_reply_lost", "commit_error", "crash", "sigterm", "rebalance"}
=============================================================================
