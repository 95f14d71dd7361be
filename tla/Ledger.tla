------------------------------- MODULE Ledger -------------------------------
(***************************************************************************)
(* The ledger processor: cmd/ledger-processor/main.go and the batch insert *)
(* of internal/db/db.go.                                                   *)
(*                                                                         *)
(* In each replica a goroutine fetches transactions.settled into msgCh;    *)
(* the main loop collects messages into a batch and flushes it when it is  *)
(* full or a timer fires.  A flush writes a debit and a credit row per     *)
(* transaction and then commits the offsets of the writes that returned no *)
(* error.  One partition is modelled, as in Authorization.                 *)
(*                                                                         *)
(* The two rows go to PostgreSQL as one pgx batch, an implicit transaction *)
(* of which BatchInsertLedgerEntries reads only the first result.  The     *)
(* account lookups that precede the insert are part of the write: what     *)
(* they return goes into balance_after only, which is not modelled here.   *)
(***************************************************************************)
EXTENDS Integers, Sequences, FiniteSets

CONSTANTS
    Tx,         \* transaction ids
    Replica,    \* members of the consumer group (pods)
    Refused,    \* Tx -> {"no", "debit", "credit"}: the row the database refuses
    Malformed,  \* a message json.Unmarshal refuses
    NoOwner,    \* the partition is assigned to no replica
    FlushSize,  \* flushSize: messages in a full batch
    ChanCap,    \* capacity of msgCh
    Faults,     \* the kinds of fault the environment may inject
    MaxFaults,  \* bound: faults in one behaviour
    MaxLog      \* bound: messages published

FaultKinds ==
    {"db_error", "db_reply_lost", "commit_error", "crash", "sigterm",
     "rebalance", "duplicate", "foreign"}

ASSUME ConstantsAssumption ==
    /\ Refused \in [Tx -> {"no", "debit", "credit"}]
    /\ Malformed \notin Tx
    /\ NoOwner \notin Replica
    /\ FlushSize \in Nat \ {0} /\ ChanCap \in Nat \ {0}
    /\ Faults \subseteq FaultKinds
    /\ MaxFaults \in Nat /\ MaxLog \in Nat

VARIABLES
    log,        \* transactions.settled: the partition's messages
    committed,  \* the group's committed offset
    owner,      \* the replica the partition is assigned to
    pos,        \* per replica: the reader's position in memory
    msgCh,      \* per replica: offsets in the channel
    batch,      \* per replica: offsets in the batch
    pc,         \* per replica: where the main loop is
    next,       \* per replica: index in batch of the next write
    done,       \* per replica: offsets of successMsgs
    stopping,   \* per replica: ctx is cancelled
    debit,      \* ledger_entries: rows with key debit-<tx>
    credit,     \* ledger_entries: rows with key credit-<tx>
    faults,     \* history: number of faults so far
    happened    \* history: their kinds

kafkaVars == <<log, committed, owner>>
loopVars  == <<batch, pc, next, done>>
faultVars == <<faults, happened>>
vars == <<kafkaVars, pos, msgCh, loopVars, stopping, debit, credit, faultVars>>

-----------------------------------------------------------------------------

Init ==
    /\ log = <<>>
    /\ committed = 0
    /\ owner = NoOwner
    /\ pos = [r \in Replica |-> 0]
    /\ msgCh = [r \in Replica |-> <<>>]
    /\ batch = [r \in Replica |-> <<>>]
    /\ pc = [r \in Replica |-> "select"]
    /\ next = [r \in Replica |-> 1]
    /\ done = [r \in Replica |-> {}]
    /\ stopping = [r \in Replica |-> FALSE]
    /\ debit = [t \in Tx |-> 0]
    /\ credit = [t \in Tx |-> 0]
    /\ faults = 0
    /\ happened = {}

Fault(kind) ==
    /\ kind \in Faults
    /\ faults < MaxFaults
    /\ faults' = faults + 1
    /\ happened' = happened \cup {kind}

NoFault == UNCHANGED faultVars

\* No fault of these kinds has happened so far.
Without(kinds) == happened \cap kinds = {}

\* r is gone and its pod starts again: everything in its memory is lost.
Restart(r) ==
    /\ owner' = IF owner = r THEN NoOwner ELSE owner
    /\ msgCh' = [msgCh EXCEPT ![r] = <<>>]
    /\ batch' = [batch EXCEPT ![r] = <<>>]
    /\ pc' = [pc EXCEPT ![r] = "select"]
    /\ next' = [next EXCEPT ![r] = 1]
    /\ done' = [done EXCEPT ![r] = {}]
    /\ stopping' = [stopping EXCEPT ![r] = FALSE]
    /\ UNCHANGED <<log, committed, pos, debit, credit>>

-----------------------------------------------------------------------------
\* What surrounds the process.

\* The authorization service publishes a settled transaction, or the same one
\* again; a message that is not its own comes from elsewhere.
Publish(m) ==
    /\ Len(log) < MaxLog
    /\ log' = Append(log, m)
    /\ CASE m = Malformed -> Fault("foreign")
         [] m # Malformed /\ (\E i \in 1 .. Len(log) : log[i] = m) -> Fault("duplicate")
         [] OTHER -> NoFault
    /\ UNCHANGED <<committed, owner, pos, msgCh, loopVars, stopping, debit, credit>>

\* The coordinator assigns the partition to r, which reads on from the
\* committed offset; what is in a channel or a batch stays there.
Rebalance(r) ==
    /\ owner' = r
    /\ pos' = [pos EXCEPT ![r] = committed]
    /\ IF owner = NoOwner THEN NoFault ELSE Fault("rebalance")
    /\ UNCHANGED <<log, committed, msgCh, loopVars, stopping, debit, credit>>

Crash(r) == Fault("crash") /\ Restart(r)

\* SIGTERM cancels ctx, at any point of the loop.
Cancel(r) ==
    /\ ~stopping[r]
    /\ Fault("sigterm")
    /\ stopping' = [stopping EXCEPT ![r] = TRUE]
    /\ UNCHANGED <<kafkaVars, pos, msgCh, loopVars, debit, credit>>

-----------------------------------------------------------------------------
\* The fetch goroutine.

\* FetchMessage, then the send to msgCh, which blocks while the channel is full.
\* With ctx cancelled and a message at hand, FetchMessage returns either.
Fetch(r) ==
    /\ owner = r
    /\ pos[r] < Len(log)
    /\ Len(msgCh[r]) < ChanCap
    /\ pos' = [pos EXCEPT ![r] = @ + 1]
    /\ msgCh' = [msgCh EXCEPT ![r] = Append(@, pos[r] + 1)]
    /\ UNCHANGED <<kafkaVars, loopVars, stopping, debit, credit, faultVars>>

-----------------------------------------------------------------------------
\* The main loop: select, and within it the flush.

\* flush() of batch b: nothing to do, or processBatch begins.
Flush(r, b) ==
    /\ batch' = [batch EXCEPT ![r] = b]
    /\ pc' = [pc EXCEPT ![r] = IF b = <<>> THEN "select" ELSE "write"]
    /\ next' = [next EXCEPT ![r] = 1]
    /\ done' = [done EXCEPT ![r] = {}]

\* Mutant: the timer is reset and nothing flushed.
TimerOnlyReset(r) ==
    /\ pc[r] = "select"
    /\ batch[r] # <<>>
    /\ UNCHANGED vars

\* case <-batchTimer.C
Timer(r) ==
    /\ pc[r] = "select"
    /\ batch[r] # <<>>
    /\ Flush(r, batch[r])
    /\ UNCHANGED <<kafkaVars, pos, msgCh, stopping, debit, credit, faultVars>>

\* Mutant: the batch is flushed one message late.
FullTooLate(b) == Len(b) > FlushSize

Full(b) == Len(b) >= FlushSize

\* case msg := <-msgCh: a message that does not parse is committed at once,
\* before the batch that precedes it; the others join the batch.
Receive(r) ==
    /\ pc[r] = "select"
    /\ msgCh[r] # <<>>
    /\ msgCh' = [msgCh EXCEPT ![r] = Tail(@)]
    /\ LET o == Head(msgCh[r])
           b == Append(batch[r], o)
       IN  \/ /\ log[o] = Malformed
              /\ \/ committed' = o /\ NoFault
                 \/ UNCHANGED committed /\ Fault("commit_error")
                 \/ UNCHANGED committed /\ stopping[r] /\ NoFault
              /\ UNCHANGED loopVars
           \/ /\ log[o] # Malformed
              /\ IF Full(b)
                 THEN Flush(r, b)
                 ELSE batch' = [batch EXCEPT ![r] = b] /\ UNCHANGED <<pc, next, done>>
              /\ NoFault
              /\ UNCHANGED committed
    /\ UNCHANGED <<log, owner, pos, stopping, debit, credit>>

\* case <-ctx.Done(), or the closed channel: the last flush fails on its first
\* query, since ctx is cancelled, and the process ends.
Exit(r) ==
    /\ pc[r] = "select"
    /\ stopping[r]
    /\ Restart(r)
    /\ NoFault

\* Mutant: no unique index on idempotency_key.
InsertableAgain(t) == Refused[t] = "no"

\* The pgx batch inserts both rows or none.
Insertable(t) == Refused[t] = "no" /\ debit[t] = 0 /\ credit[t] = 0

\* Mutant: each row in a transaction of its own.
InsertEach(t) ==
    /\ debit' = IF Refused[t] # "debit" /\ debit[t] = 0
                THEN [debit EXCEPT ![t] = @ + 1] ELSE debit
    /\ credit' = IF Refused[t] # "credit" /\ credit[t] = 0
                 THEN [credit EXCEPT ![t] = @ + 1] ELSE credit

InsertBoth(t) ==
    IF Insertable(t)
    THEN /\ debit' = [debit EXCEPT ![t] = @ + 1]
         /\ credit' = [credit EXCEPT ![t] = @ + 1]
    ELSE UNCHANGED <<debit, credit>>

InsertNone == UNCHANGED <<debit, credit>>

\* br.Exec() reads the result of the first INSERT only: a transaction whose
\* second row is refused is rolled back and still reported as written.
FirstInsertSucceeds(t) == Refused[t] # "debit" /\ debit[t] = 0

\* Mutant: a transaction whose write failed is committed too.
PassIgnoringErrors(r, ok) ==
    LET succ == done[r] \cup {batch[r][next[r]]}
        last == next[r] = Len(batch[r])
    IN  /\ done' = [done EXCEPT ![r] = succ]
        /\ next' = [next EXCEPT ![r] = IF last THEN 1 ELSE @ + 1]
        /\ pc' = [pc EXCEPT ![r] = IF last THEN "commit" ELSE "write"]
        /\ UNCHANGED batch

\* processBatch passes over the next transaction of the batch; ok says whether
\* writeLedgerEntries returned no error.
Pass(r, ok) ==
    LET succ == IF ok THEN done[r] \cup {batch[r][next[r]]} ELSE done[r]
        last == next[r] = Len(batch[r])
    IN  /\ done' = [done EXCEPT ![r] = succ]
        /\ next' = [next EXCEPT ![r] = IF last THEN 1 ELSE @ + 1]
        /\ pc' = [pc EXCEPT ![r] = IF ~last THEN "write"
                                   ELSE IF succ = {} THEN "select" ELSE "commit"]
        /\ batch' = [batch EXCEPT ![r] = IF last /\ succ = {} THEN <<>> ELSE @]

\* createDoubleEntry and writeLedgerEntries for one transaction.
Write(r) ==
    LET t == log[batch[r][next[r]]]
    IN  /\ pc[r] = "write"
        /\ \/ ~stopping[r] /\ InsertBoth(t) /\ Pass(r, FirstInsertSucceeds(t)) /\ NoFault
           \/ ~stopping[r] /\ InsertNone /\ Pass(r, FALSE) /\ Fault("db_error")
           \/ ~stopping[r] /\ InsertBoth(t) /\ Pass(r, FALSE) /\ Fault("db_reply_lost")
           \/ stopping[r] /\ InsertNone /\ Pass(r, FALSE) /\ NoFault
        /\ UNCHANGED <<kafkaVars, pos, msgCh, stopping>>

\* CommitMessages(successMsgs...): the offset of the last success.
Commit(r) ==
    /\ pc[r] = "commit"
    /\ \/ \E o \in done[r] : (\A p \in done[r] : p <= o) /\ committed' = o /\ NoFault
       \/ UNCHANGED committed /\ Fault("commit_error")
       \/ UNCHANGED committed /\ stopping[r] /\ NoFault
    /\ Flush(r, <<>>)
    /\ UNCHANGED <<log, owner, pos, msgCh, stopping, debit, credit>>

-----------------------------------------------------------------------------

MainLoop(r) == Timer(r) \/ Receive(r) \/ Exit(r) \/ Write(r) \/ Commit(r)

Next ==
    \/ \E m \in Tx \cup {Malformed} : Publish(m)
    \/ \E r \in Replica :
          Rebalance(r) \/ Crash(r) \/ Cancel(r) \/ Fetch(r) \/ MainLoop(r)

Spec == Init /\ [][Next]_vars

\* Both goroutines run, the timer fires, and a partition without an owner is
\* assigned.
Fairness ==
    /\ \A r \in Replica : WF_vars(Fetch(r)) /\ WF_vars(MainLoop(r))
    /\ WF_vars(owner = NoOwner /\ \E r \in Replica : Rebalance(r))

FairSpec == Spec /\ Fairness

-----------------------------------------------------------------------------
\* Properties.

\* The type of the state: everything in a channel or a batch has been fetched,
\* channel and batch keep their bounds, and what is in a batch is a transaction.
TopicTypeOK ==
    /\ log \in Seq(Tx \cup {Malformed})
    /\ committed \in 0 .. Len(log)
    /\ owner \in Replica \cup {NoOwner}
    /\ pos \in [Replica -> 0 .. Len(log)]

MemoryTypeOK ==
    /\ msgCh \in [Replica -> Seq(1 .. Len(log))]
    /\ batch \in [Replica -> Seq(1 .. Len(log))]
    /\ pc \in [Replica -> {"select", "write", "commit"}]
    /\ next \in [Replica -> Nat \ {0}]
    /\ done \in [Replica -> SUBSET (1 .. Len(log))]
    /\ stopping \in [Replica -> BOOLEAN]

RowTypeOK == debit \in [Tx -> Nat] /\ credit \in [Tx -> Nat]

FaultsOK == faults \in Nat /\ happened \subseteq Faults

ChannelOK(r) == Len(msgCh[r]) <= ChanCap

BatchOK(r) ==
    /\ Len(batch[r]) <= FlushSize
    /\ pc[r] = "select" => Len(batch[r]) < FlushSize
    /\ pc[r] = "write" => next[r] <= Len(batch[r])
    /\ \A i \in 1 .. Len(batch[r]) : log[batch[r][i]] \in Tx

TypeOK ==
    /\ TopicTypeOK /\ MemoryTypeOK /\ RowTypeOK /\ FaultsOK
    /\ \A r \in Replica : ChannelOK(r) /\ BatchOK(r)

\* Double entry: a transaction has its debit row exactly when it has its
\* credit row, and never more than one of each, however often it is delivered
\* and whichever replicas write it.
DoubleEntry ==
    \A t \in Tx : debit[t] = credit[t] /\ debit[t] <= 1

Posted(t) == debit[t] = 1 /\ credit[t] = 1

\* Every settled transaction whose offset is committed has its ledger entries
\* (docs/slos.md:54, "settled transactions with correct ledger entries").
CommittedIsPosted ==
    \A i \in 1 .. committed : log[i] \in Tx => Posted(log[i])

\* That holds for the transactions the database accepts, through crashes,
\* shutdowns, rebalances, duplicates, failed commits and lost replies of the
\* database, until a query fails or a message that does not parse arrives.
CommittedIsPostedIfWritable ==
    Without({"db_error", "foreign"}) =>
        \A i \in 1 .. committed :
            log[i] \in Tx /\ Refused[log[i]] = "no" => Posted(log[i])

\* Every settled transaction the database accepts is posted, under the same
\* conditions.
EveryTransactionPosted ==
    \A t \in Tx :
        Refused[t] = "no" =>
            (\E i \in 1 .. Len(log) : log[i] = t)
                ~> (Posted(t) \/ ~Without({"db_error", "foreign"}))

\* The transactions on the topic.
Settled == {t \in Tx : \E i \in 1 .. Len(log) : log[i] = t}

Promise == INSTANCE LedgerPromise
           WITH settled <- Settled, debits <- debit, credits <- credit

\* Under every fault the ledger keeps the promise: rows appear in pairs, once,
\* and only for settled transactions.
PromiseSpec == Promise!Spec
=============================================================================
