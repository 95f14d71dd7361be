--------------------------- MODULE Authorization ---------------------------
(***************************************************************************)
(* The authorization service: cmd/authorization-service/main.go.           *)
(*                                                                         *)
(* Replicas of one consumer group read transactions.authorized, decide     *)
(* each transaction against the available balance kept in Redis, place a   *)
(* hold with a Lua script, and publish the verdict on transactions.settled *)
(* or transactions.failed before they commit the offset.                   *)
(*                                                                         *)
(* One partition is modelled.  The topic is keyed by the source account    *)
(* (fraud-service, kafka.Hash balancer) and every Redis key the handler    *)
(* touches belongs to that account or to the transaction, so partitions    *)
(* share nothing but the replicas.                                         *)
(*                                                                         *)
(* Each call the handler makes to Redis or Kafka is one action, because    *)
(* another replica, a crash or a rebalance can come between two of them.   *)
(* Money is a whole number of minor units; float64 rounding is left out.   *)
(***************************************************************************)
EXTENDS Integers, Sequences, FiniteSets

CONSTANTS
    Tx,            \* transaction ids
    Account,       \* source accounts
    Replica,       \* members of the consumer group (pods)
    SourceOf,      \* Tx -> Account: tx.SourceAccountID
    TotalAmount,   \* Tx -> Int: tx.Amount + tx.FeeAmount
    InitBalance,   \* Account -> Int or NoKey: balance:available:<account>
    NoKey,         \* the Redis key does not exist
    Malformed,     \* a message json.Unmarshal refuses
    NoOwner,       \* the partition is assigned to no replica
    DecrByFloat,   \* does the server have the DECRBYFLOAT command?
    Faults,        \* the kinds of fault the environment may inject
    MaxFaults,     \* bound: faults in one behaviour
    MaxLog,        \* bound: messages published
    MaxRetries     \* go-redis Options.MaxRetries

FaultKinds ==
    {"redis_error", "reply_lost", "produce_error", "produce_retry", "produce_lost",
     "commit_error", "crash", "rebalance", "expire", "duplicate", "foreign"}

ASSUME ConstantsAssumption ==
    /\ SourceOf \in [Tx -> Account]
    /\ TotalAmount \in [Tx -> Int]
    /\ InitBalance \in [Account -> Int \cup {NoKey}]
    /\ NoKey \notin Int
    /\ Malformed \notin Tx
    /\ NoOwner \notin Replica
    /\ DecrByFloat \in BOOLEAN
    /\ Faults \subseteq FaultKinds
    /\ MaxFaults \in Nat /\ MaxLog \in Nat /\ MaxRetries \in Nat

VARIABLES
    log,        \* transactions.authorized: the partition's messages
    committed,  \* the group's committed offset (messages before it are done)
    owner,      \* the replica the partition is assigned to
    pos,        \* per replica: the reader's position in memory
    pc,         \* per replica: the next call of the handler
    cur,        \* per replica: index in log of the message in hand
    verdict,    \* per replica: result of authorizeTransaction
    tries,      \* per replica: attempts the Redis client made for the script
    balance,    \* Redis balance:available:<account>
    processed,  \* Redis tx:processed:<tx> = "1"
    holds,      \* Redis hold:<account>:<tx>
    settled,    \* transactions.settled: number of messages about each tx
    failed,     \* transactions.failed: reasons published about each tx
    debits,     \* history: times the script took the amount of each tx
    faults,     \* history: number of faults so far
    happened    \* history: their kinds

kafkaVars   == <<log, committed, owner, pos>>
handlerVars == <<pc, cur, verdict, tries>>
redisVars   == <<balance, processed, holds, debits>>
topicVars   == <<settled, failed>>
faultVars   == <<faults, happened>>
vars == <<kafkaVars, handlerVars, redisVars, topicVars, faultVars>>

-----------------------------------------------------------------------------

Approved == "APPROVED"
Reasons  == {"DUPLICATE_TRANSACTION", "BALANCE_UNAVAILABLE",
             "BALANCE_LOOKUP_ERROR", "INSUFFICIENT_FUNDS", "HOLD_ERROR"}
Steps    == {"fetch", "isProcessed", "getBalance", "placeHold",
             "markProcessed", "produce", "commit"}

Init ==
    /\ log = <<>>
    /\ committed = 0
    /\ owner = NoOwner
    /\ pos = [r \in Replica |-> 0]
    /\ pc = [r \in Replica |-> "fetch"]
    /\ cur = [r \in Replica |-> 0]
    /\ verdict = [r \in Replica |-> Approved]
    /\ tries = [r \in Replica |-> 0]
    /\ balance = InitBalance
    /\ processed = {}
    /\ holds = {}
    /\ settled = [t \in Tx |-> 0]
    /\ failed = [t \in Tx |-> {}]
    /\ debits = [t \in Tx |-> 0]
    /\ faults = 0
    /\ happened = {}

\* A fault of the kind happens, within the bound on faults.
Fault(kind) ==
    /\ kind \in Faults
    /\ faults < MaxFaults
    /\ faults' = faults + 1
    /\ happened' = happened \cup {kind}

NoFault == UNCHANGED faultVars

\* No fault of these kinds has happened so far.
Without(kinds) == happened \cap kinds = {}

\* The transaction in r's hand.
InHand(r) == log[cur[r]]

\* r's handler reaches its next call.
GoTo(r, step) == pc' = [pc EXCEPT ![r] = step]

\* authorizeTransaction returns: the verdict is published next.
Return(r, result) ==
    /\ verdict' = [verdict EXCEPT ![r] = result]
    /\ GoTo(r, "produce")

-----------------------------------------------------------------------------
\* What surrounds the handler: the topic, the group coordinator, the clock.

\* The fraud service publishes a transaction; the same one again only if it
\* processed a redelivered message, and a message that is not its own only
\* if something else writes to the topic.
Publish(m) ==
    /\ Len(log) < MaxLog
    /\ log' = Append(log, m)
    /\ CASE m = Malformed -> Fault("foreign")
         [] m # Malformed /\ (\E i \in 1 .. Len(log) : log[i] = m) -> Fault("duplicate")
         [] OTHER -> NoFault
    /\ UNCHANGED <<committed, owner, pos, handlerVars, redisVars, topicVars>>

\* The coordinator assigns the partition to r, whose reader starts at the
\* committed offset.  While another replica (or r itself, in an earlier
\* generation) still has a message in hand, that handler runs on.
Rebalance(r) ==
    /\ owner' = r
    /\ pos' = [pos EXCEPT ![r] = committed]
    /\ IF owner = NoOwner THEN NoFault ELSE Fault("rebalance")
    /\ UNCHANGED <<log, committed, handlerVars, redisVars, topicVars>>

\* r dies between two calls.  Redis and Kafka keep what was done.
Crash(r) ==
    /\ Fault("crash")
    /\ GoTo(r, "fetch")
    /\ cur' = [cur EXCEPT ![r] = 0]
    /\ tries' = [tries EXCEPT ![r] = 0]
    /\ owner' = IF owner = r THEN NoOwner ELSE owner
    /\ UNCHANGED <<log, committed, pos, verdict, redisVars, topicVars>>

\* The 24 hours of a tx:processed or hold key are over.
ExpireMarker(t) ==
    /\ t \in processed
    /\ Fault("expire")
    /\ processed' = processed \ {t}
    /\ UNCHANGED <<kafkaVars, handlerVars, balance, holds, debits, topicVars>>

ExpireHold(t) ==
    /\ t \in holds
    /\ Fault("expire")
    /\ holds' = holds \ {t}
    /\ UNCHANGED <<kafkaVars, handlerVars, balance, processed, debits, topicVars>>

-----------------------------------------------------------------------------
\* The handler, one action per call.

\* Mutant: ReadMessage, which commits as it fetches.
FetchCommitting(r) ==
    /\ pc[r] = "fetch"
    /\ owner = r
    /\ pos[r] < Len(log)
    /\ pos' = [pos EXCEPT ![r] = @ + 1]
    /\ committed' = pos[r] + 1
    /\ cur' = [cur EXCEPT ![r] = pos[r] + 1]
    /\ tries' = [tries EXCEPT ![r] = 0]
    /\ GoTo(r, IF log[pos[r] + 1] = Malformed THEN "commit" ELSE "isProcessed")
    /\ NoFault
    /\ UNCHANGED <<log, owner, verdict, redisVars, topicVars>>

\* reader.FetchMessage and json.Unmarshal.  The position moves on whatever
\* becomes of the message; a message that does not parse is only committed.
Fetch(r) ==
    /\ pc[r] = "fetch"
    /\ owner = r
    /\ pos[r] < Len(log)
    /\ pos' = [pos EXCEPT ![r] = @ + 1]
    /\ cur' = [cur EXCEPT ![r] = pos[r] + 1]
    /\ tries' = [tries EXCEPT ![r] = 0]
    /\ GoTo(r, IF log[pos[r] + 1] = Malformed THEN "commit" ELSE "isProcessed")
    /\ NoFault
    /\ UNCHANGED <<log, committed, owner, verdict, redisVars, topicVars>>

\* Mutant: the check sets the marker, SETNX-style.
IsProcessedMarking(r) ==
    /\ pc[r] = "isProcessed"
    /\ IF InHand(r) \in processed
       THEN Return(r, "DUPLICATE_TRANSACTION") /\ UNCHANGED processed
       ELSE /\ processed' = processed \cup {InHand(r)}
            /\ GoTo(r, "getBalance")
            /\ UNCHANGED verdict
    /\ NoFault
    /\ UNCHANGED <<kafkaVars, cur, tries, balance, holds, debits, topicVars>>

\* Mutant: a duplicate is committed with no message about it.
IsProcessedSilently(r) ==
    /\ pc[r] = "isProcessed"
    /\ GoTo(r, IF InHand(r) \in processed THEN "commit" ELSE "getBalance")
    /\ NoFault
    /\ UNCHANGED <<kafkaVars, cur, verdict, tries, redisVars, topicVars>>

\* Mutant: the marker is not looked at.
IsProcessedNever(r) ==
    /\ pc[r] = "isProcessed"
    /\ GoTo(r, "getBalance")
    /\ NoFault
    /\ UNCHANGED <<kafkaVars, cur, verdict, tries, redisVars, topicVars>>

\* isProcessed: a Redis error reads as "not processed".
IsProcessed(r) ==
    /\ pc[r] = "isProcessed"
    /\ \/ /\ InHand(r) \in processed
          /\ Return(r, "DUPLICATE_TRANSACTION")
          /\ NoFault
       \/ /\ InHand(r) \notin processed
          /\ GoTo(r, "getBalance")
          /\ NoFault
          /\ UNCHANGED verdict
       \/ /\ Fault("redis_error")
          /\ GoTo(r, "getBalance")
          /\ UNCHANGED verdict
    /\ UNCHANGED <<kafkaVars, cur, tries, redisVars, topicVars>>

\* Mutant: if the balance cannot be read, the transaction is approved.
GetAccountBalanceOpen(r) ==
    LET t == InHand(r)
        b == balance[SourceOf[t]]
    IN  /\ pc[r] = "getBalance"
        /\ \/ b = NoKey /\ Return(r, "BALANCE_UNAVAILABLE") /\ NoFault
           \/ /\ b # NoKey /\ b < TotalAmount[t]
              /\ Return(r, "INSUFFICIENT_FUNDS")
              /\ NoFault
           \/ /\ b # NoKey /\ b >= TotalAmount[t]
              /\ GoTo(r, "placeHold")
              /\ NoFault
              /\ UNCHANGED verdict
           \/ Fault("redis_error") /\ Return(r, Approved)
        /\ UNCHANGED <<kafkaVars, cur, tries, redisVars, topicVars>>

\* getAccountBalance and the comparison that follows it.
GetAccountBalance(r) ==
    LET t == InHand(r)
        b == balance[SourceOf[t]]
    IN  /\ pc[r] = "getBalance"
        /\ \/ /\ b = NoKey
              /\ Return(r, "BALANCE_UNAVAILABLE")
              /\ NoFault
           \/ /\ b # NoKey /\ b < TotalAmount[t]
              /\ Return(r, "INSUFFICIENT_FUNDS")
              /\ NoFault
           \/ /\ b # NoKey /\ b >= TotalAmount[t]
              /\ GoTo(r, "placeHold")
              /\ NoFault
              /\ UNCHANGED verdict
           \/ /\ Fault("redis_error")
              /\ Return(r, "BALANCE_LOOKUP_ERROR")
        /\ UNCHANGED <<kafkaVars, cur, tries, redisVars, topicVars>>

\* Mutant: the script trusts the caller's check of the balance.
ScriptReplyUnchecked(t) ==
    IF balance[SourceOf[t]] = NoKey THEN "unavailable" ELSE "held"

\* The Lua script's answer for t: 1, 0, -1 or an error.  DECRBYFLOAT is the
\* first write of the script, so when the server lacks it nothing is changed.
ScriptReply(t) ==
    LET b == balance[SourceOf[t]]
    IN  CASE b = NoKey                       -> "unavailable"
          [] b # NoKey /\ b < TotalAmount[t] -> "insufficient"
          [] OTHER -> IF DecrByFloat THEN "held" ELSE "error"

\* The Lua script's effect, atomic in Redis.
ScriptEffect(t) ==
    IF ScriptReply(t) = "held"
    THEN /\ balance' = [balance EXCEPT ![SourceOf[t]] = @ - TotalAmount[t]]
         /\ holds' = holds \cup {t}
         /\ debits' = [debits EXCEPT ![t] = @ + 1]
    ELSE UNCHANGED <<balance, holds, debits>>

\* placeHold and the switch on its result in authorizeTransaction.
PlaceHold(r) ==
    LET t == InHand(r)
    IN  /\ pc[r] = "placeHold"
        /\ ScriptEffect(t)
        /\ CASE ScriptReply(t) = "held" ->
                  GoTo(r, "markProcessed") /\ UNCHANGED verdict
             [] ScriptReply(t) = "insufficient" -> Return(r, "INSUFFICIENT_FUNDS")
             [] OTHER -> Return(r, "HOLD_ERROR")
        /\ NoFault
        /\ UNCHANGED <<kafkaVars, cur, tries, processed, topicVars>>

\* Mutant: a script without an answer is taken to have run.
PlaceHoldNetworkErrorIgnored(r) ==
    LET t == InHand(r)
    IN  /\ pc[r] = "placeHold"
        /\ \/ Fault("redis_error") /\ UNCHANGED <<balance, holds, debits>>
           \/ Fault("reply_lost") /\ ScriptEffect(t)
        /\ GoTo(r, "markProcessed")
        /\ UNCHANGED <<kafkaVars, cur, verdict, tries, processed, topicVars>>

\* The connection fails: the script did not run, or it ran and the reply is
\* lost.  The client sends it again until its retries are used up.
PlaceHoldNetworkError(r) ==
    LET t == InHand(r)
    IN  /\ pc[r] = "placeHold"
        /\ \/ Fault("redis_error") /\ UNCHANGED <<balance, holds, debits>>
           \/ Fault("reply_lost") /\ ScriptEffect(t)
        /\ IF tries[r] < MaxRetries
           THEN /\ tries' = [tries EXCEPT ![r] = @ + 1]
                /\ UNCHANGED <<pc, verdict>>
           ELSE /\ Return(r, "HOLD_ERROR")
                /\ UNCHANGED tries
        /\ UNCHANGED <<kafkaVars, cur, processed, topicVars>>

\* Mutant: the marker is never written.
MarkProcessedForgotten(r) ==
    /\ pc[r] = "markProcessed"
    /\ NoFault
    /\ Return(r, Approved)
    /\ UNCHANGED <<kafkaVars, cur, tries, redisVars, topicVars>>

\* Mutant: an error of markProcessed declines the transaction.
MarkProcessedStrict(r) ==
    /\ pc[r] = "markProcessed"
    /\ \/ /\ processed' = processed \cup {InHand(r)}
          /\ NoFault
          /\ Return(r, Approved)
       \/ /\ Fault("redis_error")
          /\ UNCHANGED processed
          /\ Return(r, "HOLD_ERROR")
    /\ UNCHANGED <<kafkaVars, cur, tries, balance, holds, debits, topicVars>>

\* markProcessed: its error is logged and the transaction stays approved.
MarkProcessed(r) ==
    /\ pc[r] = "markProcessed"
    /\ \/ processed' = processed \cup {InHand(r)} /\ NoFault
       \/ Fault("redis_error") /\ UNCHANGED processed
    /\ Return(r, Approved)
    /\ UNCHANGED <<kafkaVars, cur, tries, balance, holds, debits, topicVars>>

\* n messages with r's verdict reach the topic it goes to.
Report(r, n) ==
    LET t == InHand(r)
    IN  IF verdict[r] = Approved
        THEN settled' = [settled EXCEPT ![t] = @ + n] /\ UNCHANGED failed
        ELSE failed' = [failed EXCEPT ![t] = @ \cup {verdict[r]}] /\ UNCHANGED settled

\* produceSettled or produceFailed returns nil.  A writer made without
\* RequiredAcks waits for no acknowledgement, so the broker may have dropped the
\* message; and one that retries after a connection error may write it twice.
Produce(r) ==
    /\ pc[r] = "produce"
    /\ \/ Report(r, 1) /\ NoFault
       \/ Report(r, 2) /\ Fault("produce_retry")
       \/ UNCHANGED topicVars /\ Fault("produce_lost")
    /\ GoTo(r, "commit")
    /\ UNCHANGED <<kafkaVars, cur, verdict, tries, redisVars>>

\* It fails, with the message lost or written: "skipping commit".
ProduceError(r) ==
    /\ pc[r] = "produce"
    /\ Fault("produce_error")
    /\ Report(r, 1) \/ UNCHANGED topicVars
    /\ GoTo(r, "fetch")
    /\ cur' = [cur EXCEPT ![r] = 0]
    /\ UNCHANGED <<kafkaVars, verdict, tries, redisVars>>

\* Mutant: one is added to the offset, as CommitMessages does by itself.
CommitOneTooFar(r) ==
    /\ pc[r] = "commit"
    /\ committed' = cur[r] + 1
    /\ NoFault
    /\ GoTo(r, "fetch")
    /\ cur' = [cur EXCEPT ![r] = 0]
    /\ UNCHANGED <<log, owner, pos, verdict, tries, redisVars, topicVars>>

\* reader.CommitMessages: the group's offset becomes that of this message,
\* wherever it stood; the error is logged.
Commit(r) ==
    /\ pc[r] = "commit"
    /\ \/ committed' = cur[r] /\ NoFault
       \/ Fault("commit_error") /\ UNCHANGED committed
    /\ GoTo(r, "fetch")
    /\ cur' = [cur EXCEPT ![r] = 0]
    /\ UNCHANGED <<log, owner, pos, verdict, tries, redisVars, topicVars>>

-----------------------------------------------------------------------------

Handle(r) ==
    \/ Fetch(r) \/ IsProcessed(r) \/ GetAccountBalance(r)
    \/ PlaceHold(r) \/ PlaceHoldNetworkError(r) \/ MarkProcessed(r)
    \/ Produce(r) \/ ProduceError(r) \/ Commit(r)

Next ==
    \/ \E m \in Tx \cup {Malformed} : Publish(m)
    \/ \E r \in Replica : Rebalance(r) \/ Crash(r) \/ Handle(r)
    \/ \E t \in Tx : ExpireMarker(t) \/ ExpireHold(t)

Spec == Init /\ [][Next]_vars

\* The loop never rests while it has a message, and the coordinator hands a
\* partition without an owner to a live member.
Fairness ==
    /\ \A r \in Replica : WF_vars(Handle(r))
    /\ WF_vars(owner = NoOwner /\ \E r \in Replica : Rebalance(r))

FairSpec == Spec /\ Fairness

-----------------------------------------------------------------------------
\* Properties.

FaultsOK == faults \in Nat /\ happened \subseteq Faults

\* The type of the state: offsets stay within the log, a handler past "fetch"
\* has a message in hand and past "isProcessed" a transaction.
TypeOK ==
    /\ log \in Seq(Tx \cup {Malformed})
    /\ committed \in 0 .. Len(log)
    /\ owner \in Replica \cup {NoOwner}
    /\ pos \in [Replica -> 0 .. Len(log)]
    /\ pc \in [Replica -> Steps]
    /\ cur \in [Replica -> 0 .. Len(log)]
    /\ verdict \in [Replica -> Reasons \cup {Approved}]
    /\ tries \in [Replica -> Nat]
    /\ balance \in [Account -> Int \cup {NoKey}]
    /\ processed \in SUBSET Tx
    /\ holds \in SUBSET Tx
    /\ settled \in [Tx -> Nat]
    /\ failed \in [Tx -> SUBSET Reasons]
    /\ debits \in [Tx -> Nat]
    /\ FaultsOK
    /\ \A r \in Replica :
          pc[r] # "fetch" => /\ cur[r] # 0
                             /\ pc[r] # "commit" => log[cur[r]] \in Tx

\* The script re-reads the balance, so no interleaving of replicas that all
\* passed the check in authorizeTransaction takes an account below zero.
BalanceNonNegative ==
    (\A a \in Account : InitBalance[a] = NoKey \/ InitBalance[a] >= 0)
        => \A a \in Account : balance[a] = NoKey \/ balance[a] >= 0

\* A transaction reported as settled, answered as a duplicate or marked as
\* processed has had its amount taken: whatever crashes, expires or is lost,
\* nothing is settled on credit.
VerdictBackedByHold ==
    \A t \in Tx :
        (settled[t] > 0 \/ t \in processed \/ "DUPLICATE_TRANSACTION" \in failed[t])
            => debits[t] > 0

\* The tx:processed marker stops every later message about a transaction, and
\* the amount is taken once, unless something comes between the hold and the
\* marker or takes the marker away.
Interruptions == {"crash", "rebalance", "redis_error", "reply_lost", "expire"}

HeldOnceUnlessInterrupted ==
    Without(Interruptions) => \A t \in Tx : debits[t] <= 1

\* With one owner at a time, the marker readable and kept, a transaction is
\* settled at most once, whatever crashes: the marker is written before the
\* settled message.
SettledAtMostOnce ==
    Without({"redis_error", "expire", "rebalance", "produce_retry"})
        => \A t \in Tx : settled[t] <= 1

\* Some verdict about t is on a topic.
Answered(t) == settled[t] > 0 \/ failed[t] # {}

\* The faults that lose a verdict.
LosingFaults == {"produce_error", "produce_lost"}

\* If every verdict can be written, no offset is committed past a transaction
\* without a verdict, even by a replica that lost the partition.
NoSilentLoss ==
    \A i \in 1 .. committed : log[i] \in Tx => Answered(log[i])

NoSilentLossIfProduced == Without(LosingFaults) => NoSilentLoss

\* Every published transaction gets a verdict, unless one could not be written.
EveryTransactionAnswered ==
    \A t \in Tx : (\E i \in 1 .. Len(log) : log[i] = t)
                     ~> (Answered(t) \/ ~Without(LosingFaults))

\* An account that can pay gets its hold from the Lua script (README.md:91,
\* "Redis atomic balance holds via Lua scripts"): HOLD_ERROR is a fault's.
HoldErrorNeedsFault ==
    \A t \in Tx : "HOLD_ERROR" \in failed[t] => faults > 0

\* What the abstract specification sees of a transaction.
Decision(t) ==
    IF settled[t] > 0 THEN "settled"
    ELSE IF failed[t] # {} THEN "rejected"
    ELSE IF debits[t] > 0 THEN "held"
    ELSE "pending"

Promise == INSTANCE AuthorizationPromise
           WITH Amount <- TotalAmount,
                funds <- balance,
                decision <- [t \in Tx |-> Decision(t)]

\* The faults under which each transaction is handled once: calls fail, but
\* nothing is redelivered and no effect is hidden from the handler.
QuietFaults == {"redis_error", "produce_error", "produce_lost", "commit_error", "foreign"}

\* Until another fault happens the handler keeps the promise: one decision per
\* transaction, taken money settled or still to be settled, none taken by a
\* rejection.
PromiseKept ==
    Promise!Init /\ [][happened' \subseteq QuietFaults => Promise!Step]_vars

-----------------------------------------------------------------------------
\* Inductive strengthenings, used by the proofs.

\* What VerdictBackedByHold needs of the handlers: an amount was taken for
\* every verdict on its way to a topic that says so.
VerdictOnItsWayBacked ==
    \A r \in Replica :
        (\/ pc[r] = "markProcessed"
         \/ pc[r] = "produce" /\ verdict[r] \in {Approved, "DUPLICATE_TRANSACTION"})
        => debits[InHand(r)] > 0

\* Every transaction among the first n messages has a verdict.
AnsweredUpTo(n) == \A i \in 1 .. n : log[i] \in Tx => Answered(log[i])

\* What NoSilentLoss needs: a handler has nothing unanswered behind it, and
\* neither has the reader of the owner but for the message in hand.
NothingSkippedBy(r) ==
    /\ pc[r] = "commit" => AnsweredUpTo(cur[r])
    /\ pc[r] \notin {"fetch", "commit"} => AnsweredUpTo(cur[r] - 1)
    /\ owner = r => \/ AnsweredUpTo(pos[r])
                    \/ pc[r] \notin {"fetch", "commit"} /\ pos[r] = cur[r]

NothingSkipped ==
    /\ AnsweredUpTo(committed)
    /\ \A r \in Replica : NothingSkippedBy(r)

\* What SettledAtMostOnce needs: only the owner has a message in hand, what is
\* settled is marked, and what is being decided is not.
MarkedBeforeSettled ==
    /\ \A t \in Tx : settled[t] <= 1 /\ (settled[t] > 0 => t \in processed)
    /\ \A r \in Replica :
          /\ pc[r] # "fetch" => owner = r
          /\ pc[r] \in {"getBalance", "placeHold", "markProcessed"}
                => InHand(r) \notin processed
          /\ pc[r] = "produce" /\ verdict[r] = Approved
                => InHand(r) \in processed /\ settled[InHand(r)] = 0

\* What HeldOnceUnlessInterrupted needs: only the owner has a message in hand,
\* what was taken is marked or is being marked, and what is being decided is not.
HeldThenMarked ==
    /\ \A t \in Tx :
          /\ debits[t] <= 1
          /\ debits[t] > 0 =>
                t \in processed \/ \E r \in Replica : pc[r] = "markProcessed" /\ InHand(r) = t
    /\ \A r \in Replica :
          /\ pc[r] # "fetch" => owner = r
          /\ pc[r] \in {"getBalance", "placeHold"} => InHand(r) \notin processed

\* What PromiseKept needs: only the owner has a message in hand, the one it read
\* last; that message is decided as far as its handler has come; and what is
\* decided or marked lies behind the reader, which meets no message twice.
HandledAsFar(r) ==
    /\ pc[r] # "fetch" => owner = r /\ cur[r] = pos[r]
    /\ pc[r] \in {"isProcessed", "getBalance", "placeHold"} =>
          Decision(InHand(r)) = "pending" /\ InHand(r) \notin processed
    /\ pc[r] = "markProcessed" => Decision(InHand(r)) = "held"
    /\ pc[r] = "produce" =>
          Decision(InHand(r)) = IF verdict[r] = Approved THEN "held" ELSE "pending"

HandledInOrder ==
    /\ \A i, j \in 1 .. Len(log) : log[i] = log[j] /\ log[i] \in Tx => i = j
    /\ \A r \in Replica : HandledAsFar(r)
    /\ \A t \in Tx :
          Decision(t) # "pending" \/ t \in processed =>
             owner # NoOwner /\ \E i \in 1 .. pos[owner] : log[i] = t
=============================================================================
