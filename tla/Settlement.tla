----------------------------- MODULE Settlement -----------------------------
(***************************************************************************)
(* The settlement job: cmd/settlement-job/main.go.                         *)
(*                                                                         *)
(* A run selects the AUTHORIZED transactions of one day and settles them   *)
(* in batches.  A batch is one database transaction: for each of its       *)
(* transactions it locks the source account, inserts the debit row, locks  *)
(* the target account, inserts the credit row, and updates the status and  *)
(* both balances.  A batch that fails is rolled back, kept, and tried      *)
(* again when the next transaction has joined it; the last one is tried    *)
(* once.  The batch is the memory of the process and ends with it.         *)
(*                                                                         *)
(* Runs of the same day can overlap: docs/runbook.md starts one by hand,   *)
(* beside the CronJob of k8s/settlement-job.yaml.                          *)
(*                                                                         *)
(* PostgreSQL runs at READ COMMITTED (BeginTx with no options).  The rows  *)
(* of a batch other than accounts are guarded by its account locks, so     *)
(* they change at the commit.  Money is a whole number of minor units.     *)
(***************************************************************************)
EXTENDS Integers, FiniteSets, Functions

CONSTANTS
    Txn,           \* the day's transactions
    Account,
    Run,           \* runs of the job for this day
    Source,        \* Txn -> Account
    Target,        \* Txn -> Account
    Amount,        \* Txn -> Nat
    Fee,           \* Txn -> Nat
    AuthorizedAt,  \* Txn -> Nat: the order of the query
    InitBalance,   \* Account -> Int: balance_current before the runs
    Floor,         \* Account -> Int: -overdraft_limit
    BatchSize,
    NoRun,         \* the account row is not locked
    Faults,        \* the kinds of fault the environment may inject
    MaxFaults      \* bound: faults in one behaviour

FaultKinds == {"db_error", "reply_lost", "crash"}

ASSUME ConstantsAssumption ==
    /\ IsFiniteSet(Txn)
    /\ Source \in [Txn -> Account] /\ Target \in [Txn -> Account]
    /\ Amount \in [Txn -> Nat] /\ Fee \in [Txn -> Nat]
    /\ AuthorizedAt \in [Txn -> Nat]
    /\ \A t, u \in Txn : AuthorizedAt[t] = AuthorizedAt[u] => t = u
    /\ InitBalance \in [Account -> Int] /\ Floor \in [Account -> Int]
    /\ BatchSize \in Nat \ {0}
    /\ NoRun \notin Run
    /\ Faults \subseteq FaultKinds
    /\ MaxFaults \in Nat

VARIABLES
    status,    \* transactions.status
    balance,   \* accounts.balance_current, as committed
    entries,   \* ledger_entries: <<transaction, type>> of the settle-* keys
    holder,    \* per account: the run that holds its row lock
    dirty,     \* per account: balance_current as the lock's holder sees it
    pc,        \* per run: where it is
    todo,      \* per run: transactions of the query still to be batched
    batch,     \* per run: the batch
    left,      \* per run: what settleBatch has still to do of the batch
    final,     \* per run: this is the settleBatch after the loop
    newDebit,  \* per run: newDebitBalance of the transaction in hand
    applied,   \* history: times the balances took each transaction
    faults,    \* history: number of faults so far
    happened   \* history: their kinds, and "overlap" of two runs

tableVars == <<status, balance, entries, applied>>
lockVars  == <<holder, dirty>>
runVars   == <<pc, todo, batch, left, final, newDebit>>
faultVars == <<faults, happened>>
vars == <<tableVars, lockVars, runVars, faultVars>>

Init ==
    /\ status = [t \in Txn |-> "AUTHORIZED"]
    /\ balance = InitBalance
    /\ entries = {}
    /\ holder = [a \in Account |-> NoRun]
    /\ dirty = InitBalance
    /\ pc = [r \in Run |-> "start"]
    /\ todo = [r \in Run |-> {}]
    /\ batch = [r \in Run |-> {}]
    /\ left = [r \in Run |-> {}]
    /\ final = [r \in Run |-> FALSE]
    /\ newDebit = [r \in Run |-> 0]
    /\ applied = [t \in Txn |-> 0]
    /\ faults = 0
    /\ happened = {}

Fault(kind) ==
    /\ kind \in Faults
    /\ faults < MaxFaults
    /\ faults' = faults + 1
    /\ happened' = happened \cup {kind}

NoFault == UNCHANGED faultVars

GoTo(r, step) == pc' = [pc EXCEPT ![r] = step]

\* The transaction of S that was authorized first: the order of the query,
\* hence of the batch.
First(S) == CHOOSE t \in S : \A u \in S : AuthorizedAt[t] <= AuthorizedAt[u]

\* The transaction settleBatch is at.
InHand(r) == First(left[r])

-----------------------------------------------------------------------------
\* main: the query and the loop that fills the batch.

Active(r) == pc[r] \notin {"start", "done"}

\* A run begins, beside another one or not.
NoteOverlap ==
    /\ happened' = IF \E q \in Run : Active(q) THEN happened \cup {"overlap"} ELSE happened
    /\ UNCHANGED faults

\* Mutant: the query has no condition on the status.
QueryAll(r) ==
    /\ pc[r] = "start"
    /\ todo' = [todo EXCEPT ![r] = Txn]
    /\ GoTo(r, "loop")
    /\ NoteOverlap
    /\ UNCHANGED <<tableVars, lockVars, batch, left, final, newDebit>>

\* fetchAuthorizedTransactions
Query(r) ==
    /\ pc[r] = "start"
    /\ todo' = [todo EXCEPT ![r] = {t \in Txn : status[t] = "AUTHORIZED"}]
    /\ GoTo(r, "loop")
    /\ NoteOverlap
    /\ UNCHANGED <<tableVars, lockVars, batch, left, final, newDebit>>

\* settleBatch(b) begins.
BeginBatch(r, b) ==
    /\ left' = [left EXCEPT ![r] = b]
    /\ GoTo(r, "lockSource")

\* One turn of the loop: the next transaction joins the batch, which is
\* settled when it is full, or more than full after a failure.
Take(r) ==
    /\ pc[r] = "loop"
    /\ todo[r] # {}
    /\ LET b == batch[r] \cup {First(todo[r])}
       IN  /\ todo' = [todo EXCEPT ![r] = @ \ {First(@)}]
           /\ batch' = [batch EXCEPT ![r] = b]
           /\ IF Cardinality(b) >= BatchSize
              THEN BeginBatch(r, b)
              ELSE UNCHANGED <<left, pc>>
    /\ UNCHANGED <<tableVars, lockVars, final, newDebit, faultVars>>

\* Mutant: the batch left by the loop is settled even if it is empty.
FinishUnchecked(r) ==
    /\ pc[r] = "loop"
    /\ todo[r] = {}
    /\ BeginBatch(r, batch[r])
    /\ final' = [final EXCEPT ![r] = TRUE]
    /\ UNCHANGED <<tableVars, lockVars, todo, batch, newDebit, faultVars>>

\* After the loop what is in the batch is settled, once; then the run ends.
\* The report that follows reads the tables only.
Finish(r) ==
    /\ pc[r] = "loop"
    /\ todo[r] = {}
    /\ IF batch[r] = {}
       THEN GoTo(r, "done") /\ UNCHANGED <<left, final>>
       ELSE BeginBatch(r, batch[r]) /\ final' = [final EXCEPT ![r] = TRUE]
    /\ UNCHANGED <<tableVars, lockVars, todo, batch, newDebit, faultVars>>

\* settleBatch returns to the loop, or to the end of main.
Return(r) ==
    /\ GoTo(r, IF final[r] THEN "done" ELSE "loop")
    /\ left' = [left EXCEPT ![r] = {}]
    /\ UNCHANGED <<todo, final, newDebit>>

-----------------------------------------------------------------------------
\* settleBatch: one database transaction.

\* SELECT ... FOR UPDATE waits for the lock of account a and keeps it.
Lock(r, a) ==
    /\ holder[a] \in {NoRun, r}
    /\ holder' = [holder EXCEPT ![a] = r]

\* Mutant: it is read outside the database transaction.
BalanceCommitted(a) == balance[a]

\* The balance it returns: the committed one or what this database
\* transaction has made of it.
BalanceForUpdate(a) == dirty[a]

\* The locks of r are released, its changes undone.
Rollback(r) ==
    /\ holder' = [a \in Account |-> IF holder[a] = r THEN NoRun ELSE holder[a]]
    /\ dirty' = [a \in Account |-> IF holder[a] = r THEN balance[a] ELSE dirty[a]]
    /\ UNCHANGED tableVars

\* Mutant: one key for both rows, so the second is not inserted.
EntriesOfOneKey(t) == {<<t, "debit">>}

\* The rows settleBatch inserts, each under its own key.
EntriesOf(t) == {<<t, "debit">>, <<t, "credit">>}

\* Its changes become visible: both rows of each transaction unless their keys
\* exist (ON CONFLICT DO NOTHING), the status, and the balances.
Apply(r) ==
    /\ entries' = entries \cup UNION {EntriesOf(t) : t \in batch[r]}
    /\ status' = [t \in Txn |-> IF t \in batch[r] THEN "SETTLED" ELSE status[t]]
    /\ balance' = [a \in Account |-> IF holder[a] = r THEN dirty[a] ELSE balance[a]]
    /\ applied' = [t \in Txn |-> IF t \in batch[r] THEN applied[t] + 1 ELSE applied[t]]
    /\ holder' = [a \in Account |-> IF holder[a] = r THEN NoRun ELSE holder[a]]
    /\ UNCHANGED dirty

\* Mutant: main drops a batch that failed.
FailDropping(r) == Return(r) /\ batch' = [batch EXCEPT ![r] = {}]

\* Mutant: the last batch, too, is kept, and tried again for as long as it fails.
FailRetrying(r) ==
    /\ GoTo(r, "loop")
    /\ left' = [left EXCEPT ![r] = {}]
    /\ UNCHANGED <<batch, todo, final, newDebit>>

\* settleBatch returns an error: main logs it and keeps the batch.  After the
\* last one the process ends, and the Job is not run again: it has succeeded.
Fail(r) == Return(r) /\ batch' = [batch EXCEPT ![r] = IF final[r] THEN {} ELSE @]

\* The source account is locked and the debit row inserted.
LockSource(r) ==
    LET t == InHand(r)
    IN  /\ pc[r] = "lockSource"
        /\ Lock(r, Source[t])
        /\ newDebit' = [newDebit EXCEPT
                          ![r] = BalanceForUpdate(Source[t]) - Amount[t] - Fee[t]]
        /\ GoTo(r, "lockTarget")
        /\ UNCHANGED <<tableVars, dirty, todo, batch, left, final, faultVars>>

\* The target account is locked and the credit row inserted; then the updates,
\* of which those of the accounts obey chk_balance_non_negative.
LockTarget(r) ==
    LET t == InHand(r)
        s == Source[t]
        d == Target[t]
        newCredit == BalanceForUpdate(d) + Amount[t]
    IN  /\ pc[r] = "lockTarget"
        /\ holder[d] \in {NoRun, r}
        /\ \/ /\ newDebit[r] >= Floor[s] /\ newCredit >= Floor[d]
              /\ Lock(r, d)
              /\ dirty' = [dirty EXCEPT ![s] = newDebit[r], ![d] = newCredit]
              /\ left' = [left EXCEPT ![r] = @ \ {t}]
              /\ GoTo(r, IF left[r] = {t} THEN "commit" ELSE "lockSource")
              /\ UNCHANGED <<tableVars, todo, batch, final, newDebit>>
           \/ /\ newDebit[r] < Floor[s] \/ newCredit < Floor[d]
              /\ Rollback(r)
              /\ Fail(r)
        /\ NoFault

\* tx.Commit
Commit(r) ==
    /\ pc[r] = "commit"
    /\ Apply(r)
    /\ Return(r)
    /\ batch' = [batch EXCEPT ![r] = {}]
    /\ NoFault

\* tx.Commit takes effect but returns an error: the connection broke.
CommitReplyLost(r) ==
    /\ pc[r] = "commit"
    /\ Fault("reply_lost")
    /\ Apply(r)
    /\ Fail(r)

InBatch(r) == pc[r] \in {"lockSource", "lockTarget", "commit"}

\* A statement, or the commit, fails.
StatementError(r) ==
    /\ InBatch(r)
    /\ Fault("db_error")
    /\ Rollback(r)
    /\ Fail(r)

\* r waits for a lock that q holds.
WaitsFor(r, q) ==
    /\ q # r
    /\ \/ pc[r] = "lockSource" /\ holder[Source[InHand(r)]] = q
       \/ pc[r] = "lockTarget" /\ holder[Target[InHand(r)]] = q

\* PostgreSQL finds runs waiting in a circle and fails the statement of one.
Deadlocked(r) ==
    \E S \in SUBSET Run :
        /\ r \in S
        /\ \A q \in S : (\E p \in S : WaitsFor(q, p)) /\ (\E p \in S : WaitsFor(p, q))

DeadlockError(r) ==
    /\ Deadlocked(r)
    /\ Rollback(r)
    /\ Fail(r)
    /\ NoFault

\* The pod dies and the Job starts it again; the server rolls back.
Crash(r) ==
    /\ Active(r)
    /\ Fault("crash")
    /\ Rollback(r)
    /\ GoTo(r, "start")
    /\ todo' = [todo EXCEPT ![r] = {}]
    /\ batch' = [batch EXCEPT ![r] = {}]
    /\ left' = [left EXCEPT ![r] = {}]
    /\ final' = [final EXCEPT ![r] = FALSE]
    /\ UNCHANGED newDebit

-----------------------------------------------------------------------------

Work(r) ==
    \/ Query(r) \/ Take(r) \/ Finish(r)
    \/ LockSource(r) \/ LockTarget(r) \/ Commit(r) \/ DeadlockError(r)

Next ==
    \E r \in Run : Work(r) \/ CommitReplyLost(r) \/ StatementError(r) \/ Crash(r)

Spec == Init /\ [][Next]_vars

\* Pods run, the server grants free locks and resolves deadlocks.
FairSpec == Spec /\ \A r \in Run : WF_vars(Work(r))

-----------------------------------------------------------------------------
\* Properties.

FaultsOK == faults \in Nat /\ happened \subseteq Faults \cup {"overlap"}

\* The type of the state; a run has its batch in hand, or the part of it that
\* settleBatch has still to do, and no batch before its query or after its end.
TypeOK ==
    /\ status \in [Txn -> {"AUTHORIZED", "SETTLED"}]
    /\ balance \in [Account -> Int] /\ dirty \in [Account -> Int]
    /\ entries \subseteq Txn \X {"debit", "credit"}
    /\ holder \in [Account -> Run \cup {NoRun}]
    /\ pc \in [Run -> {"start", "loop", "lockSource", "lockTarget", "commit", "done"}]
    /\ todo \in [Run -> SUBSET Txn] /\ batch \in [Run -> SUBSET Txn]
    /\ left \in [Run -> SUBSET Txn]
    /\ final \in [Run -> BOOLEAN]
    /\ newDebit \in [Run -> Int]
    /\ applied \in [Txn -> Nat]
    /\ FaultsOK
    /\ \A r \in Run : /\ left[r] \subseteq batch[r]
                      /\ left[r] # {} <=> pc[r] \in {"lockSource", "lockTarget"}
                      /\ ~Active(r) => batch[r] = {}

\* A transaction is SETTLED exactly when both its rows are in the ledger and
\* its amount has moved, whatever fails, crashes or runs beside it.
SettledTogether ==
    \A t \in Txn :
        /\ status[t] = "SETTLED" <=> <<t, "debit">> \in entries
        /\ status[t] = "SETTLED" <=> <<t, "credit">> \in entries
        /\ status[t] = "SETTLED" <=> applied[t] > 0

\* While a run is at work it drops no transaction the query returned: one that
\* is not settled is in the batch or still to be batched, through failed batches
\* and other runs.
NothingDropped ==
    \A r \in Run : Active(r) =>
        \A t \in Txn : status[t] = "AUTHORIZED" => t \in batch[r] \cup todo[r]

\* A run that says it is completed (main.go:115) has settled the transactions of
\* its day (README.md:80, "AUTHORIZED -> SETTLED").  What it leaves AUTHORIZED no
\* process remembers, and the run of the next night selects another date.
DoneIsSettled ==
    \A r \in Run : pc[r] = "done" => \A t \in Txn : status[t] = "SETTLED"

\* Runs neither overwrite each other's updates nor read balances that are later
\* undone: every balance is what the applied transactions make of the first.
Effect(t, a) ==
    (IF Target[t] = a THEN Amount[t] ELSE 0)
        - (IF Source[t] = a THEN Amount[t] + Fee[t] ELSE 0)

NoLostUpdate ==
    (\A t \in Txn : Source[t] # Target[t]) =>
        \A a \in Account :
            balance[a] = InitBalance[a]
                         + SumFunction([t \in Txn |-> applied[t] * Effect(t, a)])

\* The balances take each transaction at most once (README.md:80, "AUTHORIZED
\* -> SETTLED").
AppliedOnce == \A t \in Txn : applied[t] <= 1

\* That holds for runs that do not overlap and learn the outcome of their
\* commits, whatever else fails and wherever they are restarted.  A run started
\* by hand (docs/runbook.md:76) can overlap and apply a transaction again.
AppliedOnceUnlessOverlapping ==
    happened \cap {"overlap", "reply_lost"} = {} => AppliedOnce

\* What AppliedOnceUnlessOverlapping needs: one run is at work at a time, and
\* nothing it has still to do is settled.
UnsettledInHand ==
    /\ \A r, q \in Run : Active(r) /\ Active(q) => r = q
    /\ \A r \in Run : Active(r) =>
          /\ todo[r] \cap batch[r] = {}
          /\ \A t \in todo[r] \cup batch[r] : status[t] = "AUTHORIZED"

\* Every run comes to its end: two runs that lock accounts in opposite orders
\* do not wait for each other for ever, and failed batches are not retried
\* without end.
EveryRunEnds == \A r \in Run : <>(pc[r] = "done")
=============================================================================
