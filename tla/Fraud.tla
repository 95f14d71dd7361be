------------------------------- MODULE Fraud -------------------------------
(***************************************************************************)
(* The fraud service: cmd/fraud-service/main.go.                           *)
(*                                                                         *)
(* Replicas of one consumer group read transactions.pending, score each    *)
(* transaction and publish it, by its score, on transactions.authorized,   *)
(* transactions.failed or fraud.events; then they commit the offset,       *)
(* whether or not the message was published.  One partition is modelled,   *)
(* as in Authorization.                                                    *)
(*                                                                         *)
(* A score is a random draw plus points for the amount and the merchant    *)
(* category.  Draws are whole numbers of [0, 30]: 30 itself stands for the *)
(* largest value of rand.Float64() * 30, which rounds up to 50 when 20 is  *)
(* added to it.                                                            *)
(***************************************************************************)
EXTENDS Integers, Sequences, FiniteSets

CONSTANTS
    Tx,         \* transaction ids
    Replica,    \* members of the consumer group (pods)
    Amount,     \* Tx -> Int: tx.Amount
    Category,   \* Tx -> STRING: tx.MerchantCategory
    Draws,      \* the random draws
    Malformed,  \* a message json.Unmarshal refuses
    NoOwner,    \* the partition is assigned to no replica
    Faults,     \* the kinds of fault the environment may inject
    MaxFaults,  \* bound: faults in one behaviour
    MaxLog      \* bound: messages published

FaultKinds ==
    {"produce_lost", "produce_retry", "commit_error", "crash", "sigterm",
     "rebalance", "duplicate", "foreign"}

ASSUME ConstantsAssumption ==
    /\ Amount \in [Tx -> Int]
    /\ Category \in [Tx -> STRING]
    /\ Draws \subseteq 0 .. 30
    /\ Malformed \notin Tx
    /\ NoOwner \notin Replica
    /\ Faults \subseteq FaultKinds
    /\ MaxFaults \in Nat /\ MaxLog \in Nat

VARIABLES
    log,        \* transactions.pending: the partition's messages
    committed,  \* the group's committed offset
    owner,      \* the replica the partition is assigned to
    pos,        \* per replica: the reader's position in memory
    pc,         \* per replica: the next call of the loop
    cur,        \* per replica: index in log of the message in hand
    decision,   \* per replica: result.Recommendation
    stopping,   \* per replica: ctx is cancelled
    sent,       \* the output topics: messages about each transaction on each
    faults,     \* history: number of faults so far
    happened    \* history: their kinds

kafkaVars == <<log, committed, owner, pos>>
loopVars  == <<pc, cur, decision, stopping>>
faultVars == <<faults, happened>>
vars == <<kafkaVars, loopVars, sent, faultVars>>

Recommendations == {"APPROVE", "REVIEW", "DECLINE"}

-----------------------------------------------------------------------------
\* The score.

AmountPoints(t) ==
    (IF Amount[t] > 10000 THEN 20 ELSE 0) + (IF Amount[t] > 50000 THEN 25 ELSE 0)

CategoryPoints(t) ==
    CASE Category[t] \in {"5411", "5812", "5814"} -> 15
      [] Category[t] \in {"7995", "7832", "7922"} -> 10
      [] OTHER -> 0

\* Mutant: the categories weigh as much as an amount over 10000.
HeavyScore(t, draw) == draw + AmountPoints(t) + 2 * CategoryPoints(t)

\* calculateFraudScore
Score(t, draw) == draw + AmountPoints(t) + CategoryPoints(t)

\* evaluateFraud
Recommendation(score) ==
    CASE score < 50                -> "APPROVE"
      [] score >= 50 /\ score < 80 -> "REVIEW"
      [] OTHER                     -> "DECLINE"

-----------------------------------------------------------------------------

Init ==
    /\ log = <<>>
    /\ committed = 0
    /\ owner = NoOwner
    /\ pos = [r \in Replica |-> 0]
    /\ pc = [r \in Replica |-> "fetch"]
    /\ cur = [r \in Replica |-> 0]
    /\ decision = [r \in Replica |-> "APPROVE"]
    /\ stopping = [r \in Replica |-> FALSE]
    /\ sent = [t \in Tx |-> [d \in Recommendations |-> 0]]
    /\ faults = 0
    /\ happened = {}

Fault(kind) ==
    /\ kind \in Faults
    /\ faults < MaxFaults
    /\ faults' = faults + 1
    /\ happened' = happened \cup {kind}

NoFault == UNCHANGED faultVars

\* No fault of these kinds has happened so far.
Without(kinds) == happened \cap kinds = {}

GoTo(r, step) == pc' = [pc EXCEPT ![r] = step]

\* r is gone and its pod starts again: everything in its memory is lost.
Restart(r) ==
    /\ owner' = IF owner = r THEN NoOwner ELSE owner
    /\ GoTo(r, "fetch")
    /\ cur' = [cur EXCEPT ![r] = 0]
    /\ stopping' = [stopping EXCEPT ![r] = FALSE]
    /\ UNCHANGED <<log, committed, pos, decision, sent>>

-----------------------------------------------------------------------------
\* What surrounds the process.

\* The gateway publishes a transaction; its writer may do so twice, and a
\* message that is not its own comes from elsewhere.
Publish(m) ==
    /\ Len(log) < MaxLog
    /\ log' = Append(log, m)
    /\ CASE m = Malformed -> Fault("foreign")
         [] m # Malformed /\ (\E i \in 1 .. Len(log) : log[i] = m) -> Fault("duplicate")
         [] OTHER -> NoFault
    /\ UNCHANGED <<committed, owner, pos, loopVars, sent>>

\* The coordinator assigns the partition to r, which reads on from the
\* committed offset; a message in some replica's hand stays there.
Rebalance(r) ==
    /\ owner' = r
    /\ pos' = [pos EXCEPT ![r] = committed]
    /\ IF owner = NoOwner THEN NoFault ELSE Fault("rebalance")
    /\ UNCHANGED <<log, committed, loopVars, sent>>

Crash(r) == Fault("crash") /\ Restart(r)

\* SIGTERM cancels ctx, at any point of the loop.
Cancel(r) ==
    /\ ~stopping[r]
    /\ Fault("sigterm")
    /\ stopping' = [stopping EXCEPT ![r] = TRUE]
    /\ UNCHANGED <<kafkaVars, pc, cur, decision, sent>>

-----------------------------------------------------------------------------
\* The loop, one action per call; the evaluation follows its fetch.

\* Mutant: ReadMessage, which commits as it fetches.
FetchCommitting(r) ==
    /\ pc[r] = "fetch"
    /\ owner = r
    /\ pos[r] < Len(log)
    /\ pos' = [pos EXCEPT ![r] = @ + 1]
    /\ cur' = [cur EXCEPT ![r] = pos[r] + 1]
    /\ GoTo(r, IF log[pos[r] + 1] = Malformed THEN "commit" ELSE "produce")
    /\ committed' = pos[r] + 1
    /\ UNCHANGED <<log, owner, decision, stopping, sent, faultVars>>

\* FetchMessage, json.Unmarshal and evaluateFraud.  A message that does not
\* parse is only committed.
Fetch(r) ==
    /\ pc[r] = "fetch"
    /\ owner = r
    /\ pos[r] < Len(log)
    /\ pos' = [pos EXCEPT ![r] = @ + 1]
    /\ cur' = [cur EXCEPT ![r] = pos[r] + 1]
    /\ LET m == log[pos[r] + 1]
       IN  \/ m = Malformed /\ GoTo(r, "commit") /\ UNCHANGED decision
           \/ /\ m # Malformed
              /\ GoTo(r, "produce")
              /\ \E draw \in Draws :
                    decision' = [decision EXCEPT ![r] = Recommendation(Score(m, draw))]
    /\ UNCHANGED <<log, committed, owner, stopping, sent, faultVars>>

\* FetchMessage returns ctx.Err() and main returns.
Exit(r) ==
    /\ pc[r] = "fetch"
    /\ stopping[r]
    /\ Restart(r)
    /\ NoFault

\* n messages about the transaction in hand reach the topic of its decision.
Send(r, n) == sent' = [sent EXCEPT ![log[cur[r]]][decision[r]] = @ + n]

\* Mutant: a message is produced again until that succeeds, and counted.
ProduceTwice(r) ==
    /\ pc[r] = "produce"
    /\ \/ Send(r, 1) /\ GoTo(r, "commit")
       \/ Send(r, 1) /\ UNCHANGED pc
    /\ NoFault
    /\ UNCHANGED <<kafkaVars, cur, decision, stopping>>

\* produceAuthorized, produceFailed or produceFraudEvent.  The message can be
\* lost, with an error or, as no acknowledgement is waited for, without; and the
\* writer may write it twice.  Whatever it is, the commit follows.
Produce(r) ==
    /\ pc[r] = "produce"
    /\ \/ Send(r, 1) /\ NoFault
       \/ Send(r, 2) /\ Fault("produce_retry")
       \/ UNCHANGED sent /\ Fault("produce_lost")
       \/ UNCHANGED sent /\ stopping[r] /\ NoFault
    /\ GoTo(r, "commit")
    /\ UNCHANGED <<kafkaVars, cur, decision, stopping>>

\* Mutant: one is added to the offset, as CommitMessages does by itself.
CommitOneTooFar(r) ==
    /\ pc[r] = "commit"
    /\ committed' = cur[r] + 1
    /\ NoFault
    /\ GoTo(r, "fetch")
    /\ cur' = [cur EXCEPT ![r] = 0]
    /\ UNCHANGED <<log, owner, pos, decision, stopping, sent>>

\* CommitMessages: the group's offset becomes that of this message, or it
\* stays and the error is logged.
Commit(r) ==
    /\ pc[r] = "commit"
    /\ \/ committed' = cur[r] /\ NoFault
       \/ UNCHANGED committed /\ Fault("commit_error")
       \/ UNCHANGED committed /\ stopping[r] /\ NoFault
    /\ GoTo(r, "fetch")
    /\ cur' = [cur EXCEPT ![r] = 0]
    /\ UNCHANGED <<log, owner, pos, decision, stopping, sent>>

-----------------------------------------------------------------------------

Loop(r) == Fetch(r) \/ Exit(r) \/ Produce(r) \/ Commit(r)

Next ==
    \/ \E m \in Tx \cup {Malformed} : Publish(m)
    \/ \E r \in Replica : Rebalance(r) \/ Crash(r) \/ Cancel(r) \/ Loop(r)

Spec == Init /\ [][Next]_vars

\* The loop runs, and a partition without an owner is assigned.
FairSpec ==
    /\ Spec
    /\ \A r \in Replica : WF_vars(Loop(r))
    /\ WF_vars(owner = NoOwner /\ \E r \in Replica : Rebalance(r))

-----------------------------------------------------------------------------
\* Properties.

FaultsOK == faults \in Nat /\ happened \subseteq Faults

\* The type of the state: offsets stay within the log, and a message that is
\* to be published is a transaction.
TypeOK ==
    /\ log \in Seq(Tx \cup {Malformed})
    /\ committed \in 0 .. Len(log)
    /\ owner \in Replica \cup {NoOwner}
    /\ pos \in [Replica -> 0 .. Len(log)]
    /\ pc \in [Replica -> {"fetch", "produce", "commit"}]
    /\ cur \in [Replica -> 0 .. Len(log)]
    /\ decision \in [Replica -> Recommendations]
    /\ stopping \in [Replica -> BOOLEAN]
    /\ sent \in [Tx -> [Recommendations -> Nat]]
    /\ FaultsOK
    /\ \A r \in Replica :
          pc[r] # "fetch" => /\ cur[r] # 0
                             /\ pc[r] = "produce" => log[cur[r]] \in Tx

\* The draw decides within limits: whatever is drawn, redelivered or raced, an
\* amount of at most 10000 is always authorized, only one over 50000 in a
\* listed category is declined, and that one is never authorized.
Listed(t) == CategoryPoints(t) > 0

DecisionFitsRisk ==
    \A t \in Tx :
        /\ Amount[t] <= 10000 => sent[t]["REVIEW"] = 0 /\ sent[t]["DECLINE"] = 0
        /\ Amount[t] > 50000 /\ Listed(t) => sent[t]["APPROVE"] = 0
        /\ Amount[t] <= 50000 \/ ~Listed(t) => sent[t]["DECLINE"] = 0

\* The three output topics together.
Decisions(t) == sent[t]["APPROVE"] + sent[t]["REVIEW"] + sent[t]["DECLINE"]

\* A transaction is decided once, and so one way, unless something redelivers
\* it or writes its decision twice.
Repeating == {"crash", "sigterm", "rebalance", "duplicate", "produce_retry"}

DecidedOnceUnlessRedelivered ==
    Without(Repeating) => \A t \in Tx : Decisions(t) <= 1

\* No offset is committed past a transaction without a decision, unless a
\* message was lost on its way out.
LosingFaults == {"produce_lost", "sigterm"}

CommittedIsDecidedIfProduced ==
    Without(LosingFaults) =>
        \A i \in 1 .. committed : log[i] \in Tx => Decisions(log[i]) > 0

\* Every published transaction is decided, unless a decision was lost.
EveryTransactionDecided ==
    \A t \in Tx : (\E i \in 1 .. Len(log) : log[i] = t)
                     ~> (Decisions(t) > 0 \/ ~Without(LosingFaults))
=============================================================================
