# Verification of the transaction pipeline

TLA+ models of the Go services of this repository, the TLC runs that check them
on small instances, and proofs, checked by TLAPS, of the properties that matter
most for any instance. Paths are relative to the root of the repository.

    tlc -workers 2 -config Ledger_faults.cfg MCLedger.tla     # one run
    tlapm LedgerProofs.tla                                    # one module's proofs

`PROJECT.json` lists the runs with the properties each checks, the source lines
each definition models (`map`), the mutated definitions that show that each
property can fail (`mutants`), the hazards of the code, and the theorems.

## 1. The system

A transaction enters through the gateway and passes from service to service
over Kafka topics. Nothing else connects the services but the tables of
PostgreSQL and the keys of Redis.

    client -> api-gateway -> transactions.pending
    transactions.pending -> fraud-service -> transactions.authorized
                                             transactions.failed
                                             fraud.events            (no consumer)
    transactions.authorized -> authorization-service -> transactions.settled
                                  (Redis)               transactions.failed
    transactions.settled -> ledger-processor -> ledger_entries  (PostgreSQL)
    transactions, accounts -> settlement-job -> accounts, ledger_entries, status
    notifications.outbox -> notification-service -> notifications.sent / .failed

| Part | State it keeps | Operations | What is hard | What makes it correct | Module |
|---|---|---|---|---|---|
| api-gateway (`cmd/api-gateway`) | none | create a transaction or a transfer, answer 202 or 500 | the client repeats a request; the write times out after 5 s and may still arrive | a repeated request is paid once, unless its first attempt was in doubt; what was answered 202 comes to an end | `Gateway` |
| the pipeline (gateway to ledger) | the topics between the services | each service's own | a fault of one service met by another | stages in order; no row ahead of the money taken | `Pipeline`, `Payment` |
| fraud-service (`cmd/fraud-service`) | its consumer position | score, publish on one of three topics, commit | redelivery draws a new score; a lost decision is committed | the decision fits amount and category; one decision each; none lost | `Fraud` |
| authorization-service (`cmd/authorization-service`) | Redis: `balance:available`, `hold`, `tx:processed` | duplicate check, balance check, Lua hold, marker, verdict, commit | six remote calls in a row, any of which can fail, be retried or be cut off by a crash; two replicas | no overdraft; one hold; no verdict without its hold; no silent loss | `Authorization` |
| ledger-processor (`cmd/ledger-processor`) | channel, batch, timer; table `ledger_entries` | fetch, batch, flush, write, commit | two goroutines and a timer; partial failure of a batch; cumulative offsets | double entry; what is committed is posted | `Ledger` |
| settlement-job (`cmd/settlement-job`) | tables `transactions`, `accounts`, `ledger_entries` | query, batch, one database transaction per batch | row locks, deadlocks, COMMIT in doubt, overlapping and restarted runs | all or nothing; once; a run at work drops nothing; a completed run has settled its day | `Settlement` |
| notification-service (`cmd/notification-service`) | a Redis key per user and type | enqueue, send, publish the result, commit | HTTP handler and consumer share a writer; commit whatever happened | results tell what happened, once each, none missing; a queued notification is sent | `Notification` |
| database access (`internal/db`) | pool | batch insert, balances, transactions | only the first result of the batch is read | both rows or none | in `Ledger` |
| schema (`migrations`) | tables | constraints | | unique key of a row, balance at least 0, one summary a day | in `Ledger`, `Settlement`, `Reconciliation` |
| reconciliation (`python/reconciliation`) | `reconciliation_summary`, two reports on S3 | load, outer join on the authorization code, alert, reports, summary | missing files, an empty side, missing codes, overlapping runs, outputs one after the other | PASSED means reconciled; reports and summary of one run; discrepancies alerted | `Reconciliation` |
| configuration (`internal/config`) | the loaded fields | file, environment, defaults, the checks in `main` | what overrides what; values that read as nothing | a pod deployed as its manifest says starts | `Service` |
| health endpoints (`internal/health`), probes (`k8s`) | `ready`, `healthy`, the kubelet's view | start, listen, set ready, shut down; probe, restart | a server that comes up late or not; probes during start and end | ready in the end; nothing healthy is killed | `Service` |
| serializer (`internal/kafka`, `internal/schema`) | the loaded schemas | encode, or fall back to JSON | bytes the consumer does not parse | | in `Gateway` |
| metrics, kafka producer, models, tls, tracing (`internal/...`) | counters | | in-flight gauge on a panic | | not modelled |
| workers, analytics, admin CLI (`python/...`), mobile, CI | | | | | not modelled |

`k8s/` gives two replicas to every consumer and runs the settlement job as a
CronJob with `concurrencyPolicy: Forbid` and `restartPolicy: OnFailure`; the
instances follow it.

### Hazards

`PROJECT.json` lists them one by one, at their lines. They fall into six
groups. *At-least-once delivery*: a message comes again after a crash, a
rebalance or a failed commit, and each service has its own way, or none, of
noticing. *Cumulative offsets*: `CommitMessages` of a later message covers every
earlier one of the partition, so "skipping the commit" of a failed message
loses it. *Effects in doubt*: a Lua script, a COMMIT or a WriteMessages takes
effect and the caller is told otherwise, or the reverse. *Races*: replicas on
one account, two settlement runs on one table, the fetch goroutine with the
main loop and SIGTERM. *One bad element*: a row the database refuses, an account
that cannot pay, a message that does not parse, a transaction without a target.
*The pod*: what is configured, probed and routed is said in three places.

## 2. The modules

Each module models one process type with the part of its environment it talks
to; `Replica` (or `Run`) instances of it interleave. An action is one remote call
with what the code does up to the next, because a crash, a rebalance or another
replica can come between two calls and nowhere else matters. Faults are actions,
or disjuncts, guarded by `Fault(kind)`; the history variable `happened` keeps
their kinds, so that a property can say under which faults it holds.

Kafka is external and the same in the four modules of consumers: `log` is one partition,
`committed` the group's offset, `owner` the replica it is assigned to, `pos` a
reader's position. A topic is keyed by the source account, so partitions share
nothing but the replicas. `Rebalance` moves the partition while the
former owner keeps what it has in hand, and goes on to publish and to commit.

### Authorization (`cmd/authorization-service/main.go`)

| Action | Code |
|---|---|
| `Fetch` | FetchMessage and json.Unmarshal, lines 154-171 |
| `IsProcessed` | the duplicate check, which reads a Redis error as "no" |
| `GetAccountBalance` | the balance and the comparison with `Amount + FeeAmount` |
| `PlaceHold` | the Lua script, atomic; go-redis repeats it up to `MaxRetries` times |
| `MarkProcessed` | `tx:processed`, whose error is logged and passed over |
| `Produce` | the verdict; an error skips the commit |
| `Commit` | CommitMessages, whose error is logged |
| `Publish`, `Rebalance`, `Crash`, `ExpireMarker`, `ExpireHold` | fraud-service, coordinator, pod, the 24 h TTL |

`AuthorizationPromise` is the abstract specification: a pending transaction is
held (its account can pay, the amount goes) and then settled, or rejected.
`PromiseKept` in `Authorization` is the refinement, through
`Decision(t)`; it is required until a fault outside `QuietFaults` happens,
because redelivery and lost replies are exactly what breaks the promise.

Three notes on faithfulness. The writers are built as `&kafka.Writer{Addr,
Topic, Balancer}`; the zero RequiredAcks waits for no acknowledgement (the
producer of `internal/kafka` turns 0 into RequireAll, but no service uses it), so a message can be lost without an error: `produce_lost`. The script calls
`DECRBYFLOAT`, which Redis does not have: the constant `DecrByFloat` says whether
the server has it. All runs but one set it to TRUE and so check the protocol
that the script is written for; `Auth_stock_redis` shows what happens on Redis as
it is. SIGTERM is not an action of its own: a cancelled context makes the call in
progress fail and the loop end, which is `redis_error` or `produce_error` followed
by `crash`.

### Ledger (`cmd/ledger-processor/main.go`, `internal/db/db.go`)

`Fetch` is the goroutine that fills `msgCh`; `Timer`, `Receive`, `Exit` are the
cases of the main loop's select; `Flush`, `Write`, `Pass`, `Commit` are
`processBatch`. `InsertBoth` is the pgx batch of two INSERTs, one implicit
transaction; `FirstInsertSucceeds` is the only result
`BatchInsertLedgerEntries` reads, so a refused credit row is rolled back and
still reported as written (`Refused[t] = "credit"`). `LedgerPromise` is the
abstract specification: a settled transaction is posted once, both rows in one
step.

### Settlement (`cmd/settlement-job/main.go`)

`Query`, `Take`, `Finish` are `main`; `LockSource`, `LockTarget`, `Commit` are
`settleBatch`, with `SELECT ... FOR UPDATE` as a lock on the account (`holder`)
and the uncommitted balances in `dirty`. PostgreSQL is external: a lock waits, a
circle of waiting runs is broken by failing one statement (`DeadlockError`),
a rollback undoes, a commit publishes. While the loop over the query's rows goes on, `Fail` keeps the batch, as the
`continue` of line 99 does. The batch left after the loop (lines 107-113) is the
last: whether it succeeds or not, the process ends and its memory with it, the
exit status is 0, so the Job (`restartPolicy: OnFailure`) does not run it again,
and the run of the next night selects another date (lines 58 and 122-130). So
`NothingDropped` is stated of a run at work, and `DoneIsSettled`, of what
survives it, is violated.

### Fraud (`cmd/fraud-service/main.go`)

`Fetch` includes the evaluation; `Score` adds a draw of [0, 30] to the points for
amount and category, 30 standing for the largest draws, which round up;
`Produce` publishes on the topic of the decision; `Commit` follows whether or not
that succeeded. A transaction for REVIEW goes to `fraud.events`, which no
service consumes.

### Notification (`cmd/notification-service/main.go`)

`Fetch`, `SendNotification`, `PublishResult` and `Commit` are the loop of
`processNotifications`; sending is a stub in the code, a log line and a Redis key
that nobody reads, so `processed` has no guard on it and two notifications of one user
and type are both sent. `Request` is the HTTP handler. Its writer is that of
`notifications.sent` (`writer := sentWriter`), so what it takes lands in `raw` and
not in `log`, and no action reads `raw`. No program of the repository writes the outbox; `Publish` stands for whoever
does.

### Reconciliation (`python/reconciliation/reconciliation.py`)

A run is `LoadInternal`, `LoadFile` three times, `MatchTransactions`,
`AlertFinanceTeam`, `WriteReports` and `WriteSummary`, one read or write of the
outside each; `Raise` is the `except` that turns any exception into the status
ERROR. `Match` is `_match_transactions`, a function of the two tables: `Pairs`,
`LeftOnly` and `RightOnly` are pandas' outer join, in which a missing code equals
a missing code, and `Mismatches` leaves open on which side of 0.01 a difference of one cent
falls, as floats do. `merged` says whether the result has the column `_merge`:
not when one side was empty. `Joinable` is the join's own condition: the ACH file has
no codes, and alone it gives no column to join on. `Settle` and `Arrive`
are the day going on around the runs.

### Gateway (`cmd/api-gateway/main.go`, `internal/kafka/schema.go`, `internal/schema/schema.go`)

`Post` is a client's request up to the write, with the 400 of a request that
does not bind; `Write` and `WriteError` are WriteMessages with its three
outcomes each, `WriteLate` the message the writer still held when the 5 s were
over, `Reply` the answer. A transaction is named by its request and the number
of the attempt, since each attempt gets a new id; `KeyOf` is the idempotency key,
which no handler compares. `Payload` is the encoding: if the schemas load, the
serializer is tried first, and JSON goes on the topic when it fails. `Schema` is
`transaction.avsc` and `Record` the handler's record, both as field and type;
`Serializes` asks that each field is there or has a default (`Defaulted`) and that the codec,
which is external, encodes its Go type as its Avro type (`Encodes`). It fails for
three reasons at once: `target_account_id` is a plain string
(`cmd/api-gateway/main.go:128`) for a union (`transaction.avsc:11`), which
takes nil or a map; `initiated_at` is a `time.Time` (line 137) for a string
(`transaction.avsc:17`); and `created_at` is missing. A
`transaction_type` that the enum does not list, outside `InEnum`, would be a
fourth. So the JSON fallback is what makes the pipeline work, and the Avro
serialization of `README.md:89` never happens. The mutant
`PayloadUnchecked` sends what the serializer returns without looking at its
error; the fraud service, which parses JSON, then passes every transaction over,
and `AcceptedEnds` is violated. This writer, too, waits for no acknowledgement.

### Pipeline (gateway, fraud, authorization and ledger together) and Payment

`Pipeline` has no steps of its own. It instantiates the modules of the four
services over shared topics: `pending` is the fraud service's `log`, what
its `APPROVE` count grows by is appended to `authorized`, the log of the
authorization service, and what that settles to `settledLog`, the log of the ledger.
The environment actions `Publish` of the single modules do not occur; all faults
share one bound. `Payment` is the abstract specification of one transaction's
life, `new`, `queued`, `approved`, `held`, `settled`, `posted`, one stage per
step and never back; `Stage(t)` maps the four services' state to it and `LifeSpec` is the
refinement. A transaction without a target account, which
`/api/v1/transactions` accepts, has its money taken and is settled, and then the
ledger refuses it at the account lookup: `Postable`, `RowRefused`. `Ended` does not
count it as ended; `AcceptedEnds` leaves it out by name (section 5).

### Service (`internal/config`, `internal/health`, the `main` of each service, `k8s/`)

One pod: `LoadConfig` is `config.Load` with the `log.Fatalf`s after it, `Connect`
the database pool, `Serve` and `Listen` the HTTP server and its goroutine,
`SetReady`, `Stop` and `Shutdown` the life of `health.Server`, `DieOfSignal` a
SIGTERM where nothing catches it. `Overridden` and `WithTopics` are
`applyEnvOverrides` and `Defaults`; a numeric variable that does not parse is passed
over, a list of blanks is not. The kubelet is external: it asks (`AskReady`), hears
later (`HearReady`), probes and kills (`ProbeLive`) and restarts (`Restart`), with
the ports and paths of the manifests. `Main` holds what differs between the
services. The gateway and the notification service route neither `/readyz` nor
`/livez`, which their manifests probe. `ProbedIsReady` states of the services
that route them that they become ready and stay so; `DeployedIsReady` states it of every pod, as the
manifests and `docs/runbook.md:52` do, and is violated.

## 3. The runs

| Run | Instance | Shows |
|---|---|---|
| `Auth_faults` | 2 replicas, 2 transactions of one account that can pay either but not both, one of an account unknown to Redis, 3 messages, 2 faults of any kind; fair | no overdraft; no verdict without a hold; one hold, one settlement and nothing passed over, each unless the faults it names happened; every transaction is answered; the handler refines `AuthorizationPromise` under `QuietFaults` |
| `Auth_stock_redis` | `DecrByFloat = FALSE`, no fault | **violated**: a payable transaction is declined HOLD_ERROR |
| `Ledger_faults` | 2 replicas, 2 transactions of which the database refuses a credit row, batches of 2, a channel of 1, 3 messages, 3 faults; fair | pairs of rows, once; what can be written is posted before it is committed, and in the end; refines `LedgerPromise` |
| `Ledger_failed_write` | one failed query | **violated**: a later success of the batch commits past the failed write |
| `Settle_overlapping` | 2 runs, 3 transactions crossing between 2 accounts, batches of 2, 3 faults; fair | all or nothing, a run at work drops nothing, no lost update, applied once unless runs overlap or a COMMIT is in doubt, and every run ends |
| `Settle_last_batch` | 1 run, accounts that can pay everything, one failed statement | **violated**: the run ends as completed with transactions of its last batch AUTHORIZED |
| `Fraud_faults` | 2 replicas, amounts of 10000 and 50001, extreme draws, 3 messages, 2 faults; fair | the decision fits the risk; taken once unless redelivered; missing only if lost |
| `Notify_faults` | 2 replicas, 2 notifications of one Redis key, the HTTP handler, 3 messages, 2 faults; fair | results tell what happened, once unless redelivered, none missing unless lost |
| `Recon_runs` | 2 runs of one day, overlapping or not, a pair one cent apart, a pair without codes that differs, one fault; fair | PASSED means reconciled; reports and summary are of one run; the summary gets no older unless runs overlap; a run with both sides ends with a summary |
| `Pipe_faults` | a payment a client may post twice and a gift without a target, 1 replica of each service, one fault of any service, an account that can pay both attempts but not the gift after them; fair | the stages in order (`Payment`); no ledger row ahead of a hold; paid once unless the first attempt was in doubt; what was answered 202 and can be posted comes to an end unless something was lost |
| `Service_start` | a pod of each of the 5 services, 4 environments, 5 configuration files, 3 faults; fair | deployed as its manifest says, a pod whose service routes the probes is ready in the end and stays so, whatever its file says; the liveness probe kills nothing healthy that it reaches |
| `Service_unrouted` | the same, no fault; fair | **violated**: the pods of the gateway and the notification service never become ready |

A violation run checks what a document, a log line or a name in the repository
says, quoted under `findings` in `PROJECT.json`. The passing runs then say
exactly which faults the property depends on.

### Bounds

`MaxLog` bounds the messages of the partition, `MaxAttempts` the times a
client posts a request, `MaxFaults` the faults of one
behaviour, `MaxRetries` the attempts of the Redis client; all four are guards
of the actions they bound. Three messages are the least with which a batch of two
is filled and another begun, or two transactions and a duplicate of one are on
the topic. Every double effect the code can have takes at most two faults (what
redelivers and what hides the first effect); `Ledger` and `Settlement` have room
for a third, independent one. Every effect of a fault on a reconciliation needs one. In `Pipe_faults` one fault
is enough for each of the gateway's doubts, and for any fault of one service to meet the
others; combinations of faults inside a service are the single runs'. `Service_start` has
room for a crash, a taken port and a SIGTERM in one behaviour, and its `Threshold` of 3 is the
Kubernetes default, which the manifests keep. Two
replicas are what `k8s/` deploys and suffice for a stale owner beside a new one.
No run uses symmetry, which is unsound for liveness. Deadlock is checked in `Service_start`, where
a pod never stops for good, and not elsewhere: a topic that is read to its end and
a settlement or reconciliation run that is over do stop.

The balance of `Auth_faults` (4, against amounts of 2 and 3) is such that both
transactions cannot be paid but one can be held twice, so a race and a double
hold have different symptoms. In `Settle_overlapping` t1 and t2 go from a1 to a2
and t3 goes back, so that a run at its second batch and one at its first lock in
opposite orders; a1 can pay both once, and again when t3 has come back, which a2
pays from what it has received: a second application succeeds in some orders and is refused in
others. In `Settle_last_batch` the accounts can pay everything (`Ample`), so nothing but the one failed
statement keeps a transaction AUTHORIZED. In `Recon_runs` the pair one cent apart alone can pass or fail, and the
pair without codes matches though nothing but the missing codes says so.

### Fairness

`WF` of each replica's loop: the loops have no condition under which they rest
while a call can be made. `WF` of `Fetch` and of the main loop separately in
`Ledger`, two goroutines; the timer, which is armed again after each flush, is part of
the main loop. `WF` of the assignment of a partition without owner: a group with a
live member assigns it. In `Settlement`, `WF` of a run's work: PostgreSQL
grants free locks and breaks circles. In `Reconciliation`, `WF` of the work of a run that
has been started; nothing obliges a day to be reconciled. In `Pipeline`, one `WF` for each service: its
loops run and its partition is assigned; the gateway's handlers end and its
writer delivers. No client has to post. In `Service`, `WF` of the process, of its
server's goroutine, and of the kubelet's restart and probes; the liveness probe is
required only once the process has a server. Faults, publishing and rebalances of an
owned partition are never required; as they are bounded, a behaviour cannot be
kept from its end by crashing for ever.

## 4. The proofs

| Theorem | Module | For all values of the constants |
|---|---|---|
| `TypeCorrect` | each `...Proofs` | the type invariant, with the bounds of channel and batch |
| `NeverOverdrawn` | `AuthorizationProofs` | replicas never take an account below zero |
| `NothingSettledOnCredit` | `AuthorizationProofs` | a settled, marked or duplicate verdict has its hold |
| `NothingLost` | `AuthorizationProofs` | unless a verdict was lost, no committed offset passes an unanswered transaction |
| `SettledOnce` | `AuthorizationProofs` | with one owner and a reliable marker, settled at most once, through crashes |
| `HeldOnce` | `AuthorizationProofs` | an amount is taken once unless something comes between hold and marker |
| `PromiseIsKept` | `AuthorizationProofs` | `Authorization` implements `AuthorizationPromise` under `QuietFaults` |
| `BooksBalance` | `LedgerProofs` | debit and credit rows in pairs, once, under every fault |
| `LedgerKeepsPromise` | `LedgerProofs` | `Ledger` implements `LedgerPromise` |
| `NothingUnposted` | `LedgerProofs` | unless an insert failed or a message could not be read, no committed offset passes a transaction without its rows |
| `AllOrNothing` | `SettlementProofs` | status, rows and balances change together |
| `RunsDropNothing` | `SettlementProofs` | while a run is at work, an unsettled transaction stays in its batch or is still to be batched |
| `RunsInTurnApplyOnce` | `SettlementProofs` | runs in turn, with commits not in doubt, apply once |
| `BalancesAreTheSum` | `SettlementProofs` | overlapping runs lose no update: a balance is the first one and all that was applied to it |
| `RiskDecides` | `FraudProofs` | the decision fits amount and category, whatever is drawn, redelivered or raced |
| `NothingUndecided` | `FraudProofs` | unless a decision was lost, no committed offset passes a transaction without one |
| `NothingDecidedTwice` | `FraudProofs` | unless something is delivered or written again, one decision |
| `ResultsTellTheTruth` | `NotificationProofs` | SENT only of what Redis was told of, FAILED only after a Redis error |
| `NothingUnanswered` | `NotificationProofs` | unless a result was lost, no committed offset passes a notification without one |
| `NothingSentTwice` | `NotificationProofs` | unless something is delivered again, sent once and with one kind of result |
| `PassedReconciled` | `ReconciliationProofs` | a summary that says PASSED was written by a run whose transactions and lines agree one to one |
| `ReportsOfSummary` | `ReconciliationProofs` | until the day is run again, the reports and the alert are those of the summary |
| `SummariesGetFresher` | `ReconciliationProofs` | unless runs overlap, a summary is replaced only by one that saw at least the same transactions |
| `StagesInOrder` | `PipelineProofs` | the four services joined by their topics implement `Payment`, under every fault of each |
| `ChargedOnce` | `PipelineProofs` | a request posted again is paid once, unless what became of an attempt could not be known |
| `EntriesAreCovered` | `PipelineProofs` | what the ledger has posted from an account was taken from its balance in Redis |
| `HealthyIsNotKilled` | `ServiceProofs` | the liveness probe kills only what it cannot reach |
| `UnroutedNeverReady` | `ServiceProofs` | a service that does not route the probes is never ready |

They assume what `ConstantsAssumption` of each module says (`PipelineAssumption` of
the pipeline), no more. Beside types they say that settlement's transactions are
finitely many, as rows are, and no two have the same time, and that requests are
finitely many. TLC evaluates these assumptions on every run. Two properties have a condition on the
constants of their own: `NoLostUpdate` that no transaction goes from an account to
itself, `LedgerWithinHolds` that no amount is negative; section 5 says what happens otherwise.

*Type correctness* is inductive because a handler past `fetch` has a message in
hand: that conjunct is in `TypeOK` for the proofs' sake and is itself worth
checking. *NeverOverdrawn* needs only that the script compares and subtracts in
one step. *NothingSettledOnCredit* needs `VerdictOnItsWayBacked`: a handler on
its way to publish an approval has taken the amount. *NothingLost* needs
`NothingSkipped`: a handler has nothing unanswered behind it, nor has the reader
of the owner but for the message in hand; this holds of a replica that lost the
partition too, which is why its late commit does no harm. *SettledOnce* needs
`MarkedBeforeSettled`: what is settled is marked and what is being decided
is not. *HeldOnce* needs
`HeldThenMarked`: what was taken is marked, or in the hand of the one handler that is about to mark it.
*PromiseIsKept* shows each step of the handler to be a step of the promise or a stutter.
It needs `HandledInOrder`: the message in hand is decided exactly as far as its handler has
come, and what is decided lies behind the reader, which under `QuietFaults` meets no
message twice. *NothingUnposted* needs `NothingSkipped`, which
says of the ledger what that of *NothingLost* says of one message in hand: whatever a replica has read and not
written is in memory, the rest of its batch and then its channel (`Held`), and each offset there
is preceded only by offsets that are accounted for or stand before it. That makes the
commit of a whole batch sound, with two goroutines and a replica that
lost its partition. *RunsInTurnApplyOnce* needs `UnsettledInHand`: a run alone has only
unsettled transactions before it. *BalancesAreTheSum* needs `Isolation`: an account nobody locks shows
the committed balance; a run holds the locks of both accounts of what it has done of its batch; it sees in a
locked account the committed balance and the effects of that part of the batch; and the new debit in hand
was computed from a balance that is still the balance. Each lock and update then adds one transaction's effect to a sum,
and a commit adds the sum of the batch to that of all that was applied. *RiskDecides* needs `DrawnInv`: what is sent,
and what is in a hand, is what some draw gives. *NothingDecidedTwice* and *NothingSentTwice* need `NothingTwice`: what is decided, or sent, lies
behind the one replica at work. *NothingUndecided* and
*NothingUnanswered* follow the argument of *NothingLost*, in `SkipsNothing`; *ResultsTellTheTruth* needs the same of what a
replica is about to publish, `Fits`. *PassedReconciled* rests on
`PassedMatch`, a lemma about the join alone, and on `SummaryIsOfMatch`: what the
run of the summary loaded and found does not change any more. *ReportsOfSummary* needs `OneWritesInOrder`: until a
day is run again one run at most has written anything, and at each step it has written all that
comes before. *SummariesGetFresher* needs `NoOlderUnderway`: a run under way has loaded what the run of the summary had,
since transactions stay settled. *StagesInOrder* needs `Chain`: each mark a stage
leaves rests on the one before it, and so does each message between the stages and in a hand (`FraudHands`,
`AuthHands`, `LedgerHands`). One lemma per service says what it may change
(`FraudMoves`, `AuthMoves`, `LedgerMoves`, `GatewayMoves`), one that it keeps the
chain, one that it takes at most one transaction one stage on. *ChargedOnce* needs
`NothingInDoubt`: while nothing happened that leaves an attempt in doubt, a request is posted
again only after a 500, and that write was refused, so the earlier
attempt is in no topic and `Chain` keeps it from the ledger. *EntriesAreCovered* needs `HoldsAddUp`: a balance in
Redis is the first one less each amount as often as the script took it; by `Chain` an entry's amount was
taken at least once. *HealthyIsNotKilled*
needs `UpAndHealthy`: past its start a process is healthy and its server is gone
only if the port was taken. `AllOrNothing`,
`RunsDropNothing` and `BooksBalance` follow from the type invariant and
which actions change the tables. An invariant that holds until a fault of some kind is
proved as an implication from `Without(...)`; that `happened` only
grows makes it inductive.

*Sums.* The sum of the community modules is a recursive function that takes the elements of a set in an
order of its own. The proofs about balances first show that it is a cardinality:
the number of units it counts (`SumIsCount`), for settlement, where effects can be negative,
the units above zero less those below. Sums then grow by one element (`SumSplit`, `UnitsSplit`), add up
(`SumAdds`) and leave out zeros (`SumOfPart`) as finite sets do. The induction on finite sets that
this takes is `Subsets`, stated of a set of subsets rather than of a predicate, and proved
from the well-foundedness of the strict subset order.

*Model-checked only.* Liveness (`EveryTransactionAnswered`,
`EveryTransactionPosted`, `EveryTransactionDecided`, `EveryNotificationAnswered`,
`EveryRunEnds`, `EveryRunSummarised`, `AcceptedEnds`,
`ProbedIsReady`): the prover does not reach fairness. Every other property of a passing run
is the statement of a theorem.

## 5. What is left out, and what the models assume

- Money is a whole number: float64 rounding of sums, and the formatting of the
  amount for the script, are not modelled. The fee is in `TotalAmount`, though
  fraud-service drops `fee_amount` from what it forwards, so in practice it is 0.
- `balance_after` is not modelled, nor the account lookups it comes from: nothing
  reads it.
- The migration declares the unique key of `ledger_entries` on
  `idempotency_key`; it is taken as declared, although PostgreSQL asks for the
  partition key in a unique constraint of a partitioned table.
- Settlement's fee leaves the source account and reaches none, so debits exceed
  credits by the fees. `NoLostUpdate` states it so. It is stated for transactions
  between two accounts: from an account to itself the second update overwrites
  the first, and the amount is created.
- Binding a request asks for an amount and refuses zero, not a negative number. The script adds
  a negative amount to the balance and `chk_double_entry` refuses its rows (`Postable`), so `LedgerWithinHolds`
  is stated for amounts that are not negative.
- A NULL account makes Scan fail and with it the run of the day; the query is
  modelled as returning.
- `CommittedIsPosted` can fail in other ways than the one its run shows: a
  refused credit row (`internal/db/db.go:94`) and an unparsable message
  committed ahead of the batch before it (`cmd/ledger-processor/main.go:187`).
  `CommittedIsPostedIfWritable` excludes them by name.
- The ledger processor and the settlement job write rows for one
  transaction under different keys, and only one of them moves balances. The two are
  not composed: no program of the repository fills the `transactions` table from
  the topics, so what the job would find there is not the code's to say.
- A settlement run started by hand while the scheduled one is on, as
  `docs/runbook.md` describes, moves the balances twice; so does a COMMIT
  whose reply was lost, as the batch is kept and applied again (`cmd/settlement-job/main.go:234`). `AppliedOnceUnlessOverlapping` names both.
  One unpayable transaction fails every batch after it, as the batch is kept and grows
  (`cmd/settlement-job/main.go:99`): `NothingDropped` holds, since nothing is
  dropped, but nothing more is settled either, and at the end of the run all of it is left behind as
  `Settle_last_batch` shows.
- The CronJob's `backoffLimit` and `activeDeadlineSeconds` (`k8s/settlement-job.yaml`) are not
  modelled: a crashed run is always restarted. `EveryRunEnds` needs no more, as faults are bounded.
- `Pipeline` leaves out the topic `transactions.failed`, which nothing reads, and the
  services that transactions do not pass. `Service` leaves out the metrics server:
  its port is computed from `APP_PORT` before that gets its default, so
  without the variable it is 100; nothing depends on it. The readiness checkers of `internal/health` are never
  registered by a service. The remaining failure modes of a probe (a timeout, a
  hanging process) are not modelled.
- `internal/models`, `internal/tlsutil` and the producer of `internal/kafka` are
  used by no service.
- In `Fraud` the middle amounts (over 10000 and up to 50000) are covered by
  the theorem, not by the TLC instance.
- What is held twice: a crash between hold and marker, a marker that could not be
  written, a reply of the script that was lost (go-redis repeats it), or a check that a Redis error
  answers with "no" (`cmd/authorization-service/main.go:224`, 248, 267) makes the redelivered message take the amount
  again. `HeldOnceUnlessInterrupted` names the faults without which that cannot be. `SettledAtMostOnce` names
  those, the expired marker among them, without which nothing is settled twice.
- A crash or a lost commit after the verdict redelivers a settled transaction, which is then found
  processed and published as failed, DUPLICATE_TRANSACTION
  (`cmd/authorization-service/main.go:199`): both settled and failed. `VerdictBackedByHold` and `PromiseKept`
  allow for it, the latter by its condition. A produce error skips a commit
  and the next commit covers it (line 184): the same as `Ledger_failed_write` shows of the ledger.
- A fraud decision that cannot be published is logged and its offset committed
  (`cmd/fraud-service/main.go:190`), so the transaction disappears; a redelivered one is scored
  again with a new draw (line 231) and can be approved and declined. The properties of `Fraud` name both.
- A client that got a 500 or no answer after its write arrived and posts again pays
  twice: each attempt has its own id and no handler compares the idempotency key
  (`cmd/api-gateway/main.go:122`). `PaidOnceUnlessInDoubt` excludes it by name.
- A transaction without a target, or of an amount that is not positive, is answered 202, a positive
  amount is taken from its account, it is published as settled, and no ledger row is ever written, against
  the durability of `docs/slos.md:54`. The instance of `Pipe_faults` has such a gift, and
  `AcceptedEnds` is stated of the others (`Postable`).
- A notification posted over HTTP is answered "queued" and written to `notifications.sent`
  (`cmd/notification-service/main.go:100` and 126), where nobody sends it, and where `docs/slos.md:68`
  counts it as delivered.
- A day of which one side is empty has no column `_merge`; the alert asks for it
  (`reconciliation.py:233`), so the run raises and returns ERROR without an alert, a report or a
  summary, though its purpose is to alert (line 226). `EveryRunSummarised` is stated of the other
  days (`SidesFilled`).
- A reconciliation that finds nothing writes no report (`reconciliation.py:252`), so after a
  rerun, which `docs/slos.md:86` makes the rule, the reports of an earlier run stay beside
  the new summary; and of two overlapping runs the one that loaded less may write its summary last
  (line 280). `SummaryHasItsReports` and `SummaryGetsFresher` exclude them by name.
- `reconciliation.py:265` gives `conn.execute` a plain string, which SQLAlchemy 1.x accepts and 2.x
  refuses. No file of the repository pins a version; `WriteSummary` is that of 1.x. With 2.x every run ends
  in ERROR at its summary.
- The Redis key of a notification expires after 24 hours; nothing reads it, so
  `processed` is kept as a history.
- In `Reconciliation` codes are values compared as they are: that pandas may
  read a column of digits as numbers is not modelled. `PassedIsReconciled` is stated for
  codes that differ; two equal codes on a side multiply the rows of the join.
  Nothing in the repository writes `authorization_code` to the table, so all
  codes are missing today. The sums of the summary are always 0 and its
  `external_count` too; they are left out.
- Logging, metrics, tracing, the layout of a payload beyond the types of its fields.

## 6. Plan

Done: `Authorization`, `Ledger`, `Settlement`, `Fraud`, `Reconciliation`,
`Notification`, `Gateway` and `Pipeline`, `Service`, in this order: money first,
then what feeds it and what checks it, then the whole, then the pod around it.

What is left:

1. More theorems about what the components do together: which invariants of `Fraud`,
   `Authorization` and `Ledger` carry over to `Pipeline`, whose topics grow by the steps of others.
2. Ledger and settlement over common tables, once something fills `transactions`.
3. The in-flight gauge of `internal/metrics`, should anything come to depend on it.
