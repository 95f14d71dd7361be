------------------------------ MODULE Pipeline ------------------------------
(***************************************************************************)
(* The life of a payment: the gateway, the fraud service, the              *)
(* authorization service and the ledger processor, joined by their topics. *)
(*                                                                         *)
(*   gateway -> transactions.pending -> fraud -> transactions.authorized   *)
(*       -> authorization -> transactions.settled -> ledger                *)
(*                                                                         *)
(* Each component takes the steps of its own module; what it sends is what *)
(* the next one reads, so no component is fed by its environment here.     *)
(* The faults of all of them share one bound.                              *)
(***************************************************************************)
EXTENDS Gateway, Functions

CONSTANTS
    Account,        \* source accounts
    Source,         \* Request -> Account: req.SourceAccountID
    Amount,         \* Request -> Int: req.Amount
    Category,       \* Request -> STRING: req.MerchantCategory
    Draws,          \* the random draws of the fraud service
    InitBalance,    \* Account -> Int or NoKey: balance:available:<account>
    NoKey,          \* a Redis key that does not exist
    FraudPod,       \* replicas of each service
    AuthPod,
    LedgerPod,
    NoOwner,        \* a partition that is assigned to no replica
    FlushSize,      \* the ledger's flushSize
    ChanCap,        \* the capacity of its msgCh
    MaxRetries,     \* go-redis Options.MaxRetries
    FraudFaults,    \* the kinds of fault of each service
    AuthFaults,
    LedgerFaults

\* Requests are finitely many; binding asks for an amount, of whatever sign.
ASSUME PipelineAssumption ==
    /\ IsFiniteSet(Request)
    /\ Source \in [Request -> Account] /\ Amount \in [Request -> Int]
    /\ InitBalance \in [Account -> Int \cup {NoKey}] /\ NoKey \notin Int

VARIABLES
    fCommitted, fOwner, fPos, fPc, fCur, decision, fStopping, sent, fHappened,
    authorized,  \* transactions.authorized
    aCommitted, aOwner, aPos, aPc, aCur, verdict, tries,
    balance, processed, holds, settled, failed, debits, aHappened,
    settledLog,  \* transactions.settled
    lCommitted, lOwner, lPos, msgCh, batch, lPc, next, done, lStopping,
    debit, credit, lHappened

\* The gateway's own, without the topic and the count of the faults.
gatewayVars == <<attempts, call, buffered, answer, happened>>
fraudVars ==
    <<fCommitted, fOwner, fPos, fPc, fCur, decision, fStopping, sent, fHappened>>
authVars ==
    <<aCommitted, aOwner, aPos, aPc, aCur, verdict, tries,
      balance, processed, holds, settled, failed, debits, aHappened>>
ledgerVars ==
    <<lCommitted, lOwner, lPos, msgCh, batch, lPc, next, done, lStopping,
      debit, credit, lHappened>>
pipeVars ==
    <<pending, gatewayVars, fraudVars, authorized, authVars, settledLog, ledgerVars, faults>>

-----------------------------------------------------------------------------
\* What becomes of a request on its way.

SourceOf == [t \in Tx |-> Source[KeyOf(t)]]
CategoryOf == [t \in Tx |-> Category[KeyOf(t)]]
AmountOf == [t \in Tx |-> Amount[KeyOf(t)]]

\* writeLedgerEntries looks up both accounts before it inserts, so without a
\* target no row is written; chk_double_entry refuses a row whose amount is not
\* positive.
Postable(t) == KeyOf(t) \in WithTarget /\ Amount[KeyOf(t)] > 0

RowRefused == [t \in Tx |-> IF Postable(t) THEN "no" ELSE "debit"]

F == INSTANCE Fraud
     WITH Replica <- FraudPod, Amount <- AmountOf, Category <- CategoryOf,
          Faults <- FraudFaults, MaxLog <- 0,
          log <- pending, committed <- fCommitted, owner <- fOwner, pos <- fPos,
          pc <- fPc, cur <- fCur, stopping <- fStopping, happened <- fHappened

\* The fraud service drops fee_amount, so the total is the amount.
A == INSTANCE Authorization
     WITH Replica <- AuthPod, TotalAmount <- AmountOf, DecrByFloat <- TRUE,
          Faults <- AuthFaults, MaxLog <- 0,
          log <- authorized, committed <- aCommitted, owner <- aOwner, pos <- aPos,
          pc <- aPc, cur <- aCur, happened <- aHappened

L == INSTANCE Ledger
     WITH Replica <- LedgerPod, Refused <- RowRefused,
          Faults <- LedgerFaults, MaxLog <- 0,
          log <- settledLog, committed <- lCommitted, owner <- lOwner, pos <- lPos,
          pc <- lPc, stopping <- lStopping, happened <- lHappened

-----------------------------------------------------------------------------

PipeInit == Init /\ F!Init /\ A!Init /\ L!Init

\* The messages by which a step made the count of one transaction grow.
Produced(before, after) ==
    LET grown == {t \in Tx : after[t] > before[t]}
    IN  IF grown = {} THEN <<>>
        ELSE LET t == CHOOSE u \in grown : TRUE
             IN  [i \in 1 .. after[t] - before[t] |-> t]

Approvals == [t \in Tx |-> sent[t]["APPROVE"]]

\* The gateway writes to transactions.pending, which the fraud service reads.
GatewaySends == UNCHANGED <<fraudVars, authorized, authVars, settledLog, ledgerVars>>

GatewayStep ==
    /\ \/ \E k \in Request : Post(k)
       \/ \E t \in Tx : Handle(t)
       \/ \E S \in SUBSET Tx : Crash(S)
    /\ GatewaySends

\* What the fraud service approves goes to transactions.authorized.
FraudSends ==
    /\ authorized' = authorized \o Produced(Approvals, Approvals')
    /\ UNCHANGED <<gatewayVars, authVars, settledLog, ledgerVars>>

FraudStep ==
    /\ \E r \in FraudPod : F!Rebalance(r) \/ F!Crash(r) \/ F!Cancel(r) \/ F!Loop(r)
    /\ FraudSends

\* What the authorization service settles goes to transactions.settled.
AuthSends ==
    /\ settledLog' = settledLog \o Produced(settled, settled')
    /\ UNCHANGED <<pending, gatewayVars, fraudVars, authorized, ledgerVars>>

AuthStep ==
    /\ \/ \E r \in AuthPod : A!Rebalance(r) \/ A!Crash(r) \/ A!Handle(r)
       \/ \E t \in Tx : A!ExpireMarker(t) \/ A!ExpireHold(t)
    /\ AuthSends

\* The ledger's rows are for good.
LedgerEnds == UNCHANGED <<pending, gatewayVars, fraudVars, authorized, authVars, settledLog>>

LedgerStep ==
    /\ \E r \in LedgerPod :
          L!Rebalance(r) \/ L!Crash(r) \/ L!Cancel(r) \/ L!Fetch(r) \/ L!MainLoop(r)
    /\ LedgerEnds

PipeNext == GatewayStep \/ FraudStep \/ AuthStep \/ LedgerStep

PipeSpec == PipeInit /\ [][PipeNext]_pipeVars

\* No service stands still for ever with something to do: its loops run, its
\* partition is assigned, a handler of the gateway ends and its writer delivers.
\* No client has to post.
GatewayWorks == (\E t \in Tx : Handle(t)) /\ GatewaySends

FraudWorks ==
    /\ \E r \in FraudPod : F!Loop(r) \/ (fOwner = NoOwner /\ F!Rebalance(r))
    /\ FraudSends

AuthWorks ==
    /\ \E r \in AuthPod : A!Handle(r) \/ (aOwner = NoOwner /\ A!Rebalance(r))
    /\ AuthSends

LedgerWorks ==
    /\ \E r \in LedgerPod :
          L!Fetch(r) \/ L!MainLoop(r) \/ (lOwner = NoOwner /\ L!Rebalance(r))
    /\ LedgerEnds

PipeFairness ==
    /\ WF_pipeVars(GatewayWorks) /\ WF_pipeVars(FraudWorks)
    /\ WF_pipeVars(AuthWorks) /\ WF_pipeVars(LedgerWorks)

PipeFairSpec == PipeSpec /\ PipeFairness

-----------------------------------------------------------------------------
\* Properties.

\* How far a transaction has come, by what it has left behind: rows, a message
\* on transactions.settled, an amount taken, an approval, a message.
Stage(t) ==
    CASE debit[t] > 0                             -> "posted"
      [] debit[t] = 0 /\ settled[t] > 0           -> "settled"
      [] debit[t] = 0 /\ settled[t] = 0 /\ debits[t] > 0 -> "held"
      [] debit[t] = 0 /\ settled[t] = 0 /\ debits[t] = 0 /\ sent[t]["APPROVE"] > 0
                                                  -> "approved"
      [] OTHER -> IF \E i \in 1 .. Len(pending) : pending[i] = t THEN "queued" ELSE "new"

Life == INSTANCE Payment WITH stage <- [t \in Tx |-> Stage(t)]

\* Under every fault of every component, redelivery, crash, lost reply or
\* expired key, a transaction goes through the stages in order: no row is
\* written for money that was not taken, and none taken without an approval.
LifeSpec == Life!Spec

\* The money that has left an account by the ledger's entries was taken from
\* its available balance in Redis: whatever is retried, redelivered or
\* posted twice by a client, the ledger never runs ahead of the holds.  (That
\* is for amounts that are not negative: no row records a negative one, which
\* the script adds to the balance.)
Entries(a) == {t \in Tx : SourceOf[t] = a /\ L!Posted(t)}

LedgerWithinHolds ==
    (\A k \in Request : Amount[k] >= 0) =>
        \A a \in Account : InitBalance[a] # NoKey =>
            SumFunctionOnSet(AmountOf, Entries(a)) <= InitBalance[a] - balance[a]

\* A client that posts a request again, after an error the gateway reported or
\* a write that was refused, is not charged twice, unless it could not know
\* what became of its first attempt.  Nothing compares idempotency keys.
InDoubt == {"write_in_doubt", "write_timeout", "reply_lost", "crash"}

PaidOnceUnlessInDoubt ==
    Without(InDoubt) =>
        \A k \in Request : Cardinality({t \in Tx : KeyOf(t) = k /\ L!Posted(t)}) <= 1

\* A transaction has ended: it is in the ledger, or refused, or waits for a
\* review.
Ended(t) ==
    \/ L!Posted(t)
    \/ failed[t] # {} \/ sent[t]["DECLINE"] > 0 \/ sent[t]["REVIEW"] > 0

\* A message was lost on the way, or a row.
Lossy ==
    \/ ~Without({"produce_lost"})
    \/ ~F!Without(F!LosingFaults)
    \/ ~A!Without(A!LosingFaults)
    \/ ~L!Without({"db_error", "foreign"})

\* What a client was told is accepted comes to an end, whatever else fails and
\* whatever the serializer does: clients post only so often, so in the end all of
\* it has.  It is said of what the ledger can post.  A transaction that names no
\* target account, or whose amount is not positive, is accepted all the same, its
\* money is taken, and no row is ever written for it (cf. docs/slos.md:54).
AcceptedEnds ==
    <>[](\A t \in Tx : answer[t] = "202" /\ Postable(t) => Ended(t) \/ Lossy)
=============================================================================
