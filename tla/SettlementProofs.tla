-------------------------- MODULE SettlementProofs --------------------------
(***************************************************************************)
(* Theorems about the settlement job, for any transactions, accounts,      *)
(* overlapping runs, batch size and faults: the type, that a batch is all  *)
(* or nothing and that a run at work drops nothing, that runs in turn      *)
(* apply a transaction once, and that overlapping ones lose no update.     *)
(***************************************************************************)
EXTENDS Settlement, FiniteSetTheorems, WellFoundedInduction, TLAPS

-----------------------------------------------------------------------------
\* Type correctness.

\* The transaction taken first from a non-empty set is one of the set.
LEMMA FirstIsIn ==
    ASSUME NEW S \in SUBSET Txn, S # {}
    PROVE  First(S) \in S
<1> DEFINE T == {AuthorizedAt[t] : t \in S}
           R == OpToRel(<, Nat)
<1>1. T \in SUBSET Nat /\ T # {}
  BY ConstantsAssumption
<1>2. IsWellFoundedOn(R, Nat)
  BY NatLessThanWellFounded
<1>3. PICK n \in T : \A m \in T : <<m, n>> \notin R
  <2> HIDE DEF T, R
  <2> QED  BY <1>1, <1>2, WFMin
<1>4. \A m \in T : n <= m
  <2> SUFFICES ASSUME NEW m \in T PROVE n <= m
    OBVIOUS
  <2>1. m \in Nat /\ n \in Nat
    BY <1>1
  <2>2. ~(m < n)
    BY <1>3, <2>1 DEF OpToRel
  <2> QED  BY <2>1, <2>2
<1>5. PICK t \in S : AuthorizedAt[t] = n
  OBVIOUS
<1>6. \A u \in S : AuthorizedAt[t] <= AuthorizedAt[u]
  BY <1>4, <1>5
<1> QED  BY <1>6 DEF First

\* The record of faults keeps its type, and only grows.
LEMMA FaultsStep ==
    ASSUME FaultsOK, [Next]_vars
    PROVE  FaultsOK' /\ happened \subseteq happened'
<1>1. ASSUME NEW k, Fault(k) PROVE FaultsOK' /\ happened \subseteq happened'
  BY <1>1 DEF Fault, FaultsOK
<1>2. CASE UNCHANGED faultVars
  BY <1>2 DEF faultVars, FaultsOK
<1>3. CASE NoteOverlap
  BY <1>3 DEF NoteOverlap, FaultsOK
<1>4. UNCHANGED faultVars \/ NoteOverlap \/ \E k : Fault(k)
  BY DEF Next, Work, Query, Take, Finish, LockSource, LockTarget, Commit, CommitReplyLost,
         StatementError, DeadlockError, Crash, vars, NoFault
<1> QED  BY <1>1, <1>2, <1>3, <1>4

\* The tables and the locks keep their types when a batch ends.
LEMMA EndOfBatchType ==
    ASSUME TypeOK, NEW r \in Run, Rollback(r) \/ Apply(r)
    PROVE  /\ status' \in [Txn -> {"AUTHORIZED", "SETTLED"}]
           /\ balance' \in [Account -> Int] /\ dirty' \in [Account -> Int]
           /\ entries' \subseteq Txn \X {"debit", "credit"}
           /\ holder' \in [Account -> Run \cup {NoRun}]
           /\ applied' \in [Txn -> Nat]
<1>1. CASE Rollback(r)
  BY <1>1 DEF Rollback, tableVars, TypeOK
<1>2. CASE Apply(r)
  <2>1. \A t \in batch[r] : EntriesOf(t) \subseteq Txn \X {"debit", "credit"}
    BY DEF EntriesOf, TypeOK
  <2>2. entries' \subseteq Txn \X {"debit", "credit"}
    BY <1>2, <2>1 DEF Apply, TypeOK
  <2> QED  BY <1>2, <2>2 DEF Apply, TypeOK
<1> QED  BY <1>1, <1>2

\* settleBatch returning with a part of the batch, or all of it, kept; nothing
\* of it when the run ends.
LEMMA ReturnType ==
    ASSUME TypeOK, NEW r \in Run, Rollback(r) \/ Apply(r), Return(r),
           FaultsOK', NEW b \in SUBSET Txn, batch' = [batch EXCEPT ![r] = b],
           final[r] => b = {}
    PROVE  TypeOK'
<1>1. /\ pc' \in [Run -> {"start", "loop", "lockSource", "lockTarget", "commit", "done"}]
      /\ left' \in [Run -> SUBSET Txn] /\ batch' \in [Run -> SUBSET Txn]
      /\ UNCHANGED <<todo, final, newDebit>>
  BY DEF Return, GoTo, TypeOK
<1>2. /\ pc'[r] = (IF final[r] THEN "done" ELSE "loop") /\ left'[r] = {} /\ batch'[r] = b
      /\ \A q \in Run \ {r} : pc'[q] = pc[q] /\ left'[q] = left[q] /\ batch'[q] = batch[q]
  BY DEF Return, GoTo, TypeOK
<1>3. \A q \in Run : /\ left'[q] \subseteq batch'[q]
                     /\ left'[q] # {} <=> pc'[q] \in {"lockSource", "lockTarget"}
                     /\ pc'[q] \in {"start", "done"} => batch'[q] = {}
  BY <1>2 DEF TypeOK, Active
<1> QED  BY <1>1, <1>3, EndOfBatchType DEF TypeOK, Active

\* Every step keeps TypeOK.
LEMMA TypeStep == TypeOK /\ [Next]_vars => TypeOK'
<1> SUFFICES ASSUME TypeOK, [Next]_vars, FaultsOK' PROVE TypeOK'
  BY FaultsStep DEF TypeOK
<1>1. ASSUME NEW r \in Run, Query(r) PROVE TypeOK'
  BY <1>1 DEF Query, GoTo, tableVars, lockVars, TypeOK, Active
<1>2. ASSUME NEW r \in Run, Take(r) PROVE TypeOK'
  <2> DEFINE b == batch[r] \cup {First(todo[r])}
  <2>1. b \in SUBSET Txn /\ b # {}
    BY <1>2, FirstIsIn DEF Take, TypeOK
  <2>2. /\ UNCHANGED <<status, balance, entries, applied, holder, dirty>>
        /\ UNCHANGED <<final, newDebit>>
        /\ todo' = [todo EXCEPT ![r] = todo[r] \ {First(todo[r])}]
        /\ batch' = [batch EXCEPT ![r] = b]
        /\ pc[r] = "loop"
        /\ BeginBatch(r, b) \/ UNCHANGED <<left, pc>>
    BY <1>2 DEF Take, tableVars, lockVars
  <2> HIDE DEF b
  <2>3. CASE BeginBatch(r, b)
    BY <2>1, <2>2, <2>3 DEF BeginBatch, GoTo, TypeOK, Active
  <2>4. CASE UNCHANGED <<left, pc>>
    BY <2>1, <2>2, <2>4 DEF TypeOK, Active
  <2> QED  BY <2>2, <2>3, <2>4
<1>3. ASSUME NEW r \in Run, Finish(r) PROVE TypeOK'
  <2>1. CASE batch[r] = {}
    BY <1>3, <2>1 DEF Finish, GoTo, tableVars, lockVars, TypeOK, Active
  <2>2. CASE batch[r] # {}
    <3>1. /\ UNCHANGED <<status, balance, entries, applied, holder, dirty>>
          /\ UNCHANGED <<todo, batch, newDebit>>
          /\ left' = [left EXCEPT ![r] = batch[r]]
          /\ final' = [final EXCEPT ![r] = TRUE]
          /\ pc' = [pc EXCEPT ![r] = "lockSource"]
      BY <1>3, <2>2 DEF Finish, BeginBatch, GoTo, tableVars, lockVars
    <3> QED  BY <2>2, <3>1 DEF TypeOK, Active
  <2> QED  BY <2>1, <2>2
<1>4. ASSUME NEW r \in Run, LockSource(r) PROVE TypeOK'
  <2> DEFINE t == InHand(r)
  <2>1. t \in Txn
    BY <1>4, FirstIsIn DEF LockSource, InHand, TypeOK
  <2>2. /\ UNCHANGED <<status, balance, entries, applied, dirty, todo, batch, left>>
        /\ UNCHANGED <<final>>
        /\ holder' = [holder EXCEPT ![Source[t]] = r]
        /\ newDebit' = [newDebit EXCEPT ![r] = dirty[Source[t]] - Amount[t] - Fee[t]]
        /\ pc[r] = "lockSource" /\ pc' = [pc EXCEPT ![r] = "lockTarget"]
    BY <1>4 DEF LockSource, Lock, BalanceForUpdate, GoTo, tableVars
  <2>3. dirty[Source[t]] - Amount[t] - Fee[t] \in Int
    BY <2>1, ConstantsAssumption DEF TypeOK
  <2> HIDE DEF t
  <2>4. newDebit' \in [Run -> Int] /\ holder' \in [Account -> Run \cup {NoRun}]
    BY <2>2, <2>3 DEF TypeOK
  <2> QED  BY <2>2, <2>4 DEF TypeOK, Active
<1>5. ASSUME NEW r \in Run, LockTarget(r) PROVE TypeOK'
  <2> DEFINE t == InHand(r)
             c == dirty[Target[t]] + Amount[t]
  <2>1. t \in Txn /\ c \in Int
    <3>1. t \in Txn
      BY <1>5, FirstIsIn DEF LockTarget, InHand, TypeOK
    <3> QED  BY <3>1, ConstantsAssumption DEF TypeOK
  <2>2. pc[r] = "lockTarget" 
    BY <1>5 DEF LockTarget
  <2>3. \/ /\ UNCHANGED <<status, balance, entries, applied, todo, batch, final, newDebit>>
           /\ holder' = [holder EXCEPT ![Target[t]] = r]
           /\ dirty' = [dirty EXCEPT ![Source[t]] = newDebit[r], ![Target[t]] = c]
           /\ left' = [left EXCEPT ![r] = left[r] \ {t}]
           /\ pc' = [pc EXCEPT ![r] = IF left[r] = {t} THEN "commit" ELSE "lockSource"]
        \/ Rollback(r) /\ Fail(r)
    BY <1>5 DEF LockTarget, Lock, BalanceForUpdate, GoTo, tableVars
  <2> HIDE DEF t, c
  <2>4. CASE /\ UNCHANGED <<status, balance, entries, applied, todo, batch, final, newDebit>>
             /\ holder' = [holder EXCEPT ![Target[t]] = r]
             /\ dirty' = [dirty EXCEPT ![Source[t]] = newDebit[r], ![Target[t]] = c]
             /\ left' = [left EXCEPT ![r] = left[r] \ {t}]
             /\ pc' = [pc EXCEPT ![r] = IF left[r] = {t} THEN "commit" ELSE "lockSource"]
    <3>1. dirty' \in [Account -> Int] /\ holder' \in [Account -> Run \cup {NoRun}]
      BY <2>1, <2>4 DEF TypeOK
    <3>2. left[r] # {} /\ left[r] \subseteq batch[r]
      BY <2>2 DEF TypeOK
    <3>3. left[r] \ {t} # {} <=> left[r] # {t}
      BY <3>2
    <3> QED  BY <2>2, <2>4, <3>1, <3>2, <3>3 DEF TypeOK, Active
  <2>5. CASE Rollback(r) /\ Fail(r)
    <3> DEFINE b == IF final[r] THEN {} ELSE batch[r]
    <3>1. b \in SUBSET Txn /\ batch' = [batch EXCEPT ![r] = b] /\ (final[r] => b = {})
      BY <2>5 DEF Fail, TypeOK
    <3> HIDE DEF b
    <3> QED  BY <2>5, <3>1, ReturnType DEF Fail
  <2> QED  BY <2>3, <2>4, <2>5
<1>6. ASSUME NEW r \in Run, Commit(r) PROVE TypeOK'
  <2>1. batch' = [batch EXCEPT ![r] = {}] /\ {} \in SUBSET Txn
    BY <1>6 DEF Commit
  <2> QED  BY <1>6, <2>1, ReturnType DEF Commit
<1>7. ASSUME NEW r \in Run, Rollback(r) \/ Apply(r), Fail(r) PROVE TypeOK'
  <2> DEFINE b == IF final[r] THEN {} ELSE batch[r]
  <2>1. b \in SUBSET Txn /\ batch' = [batch EXCEPT ![r] = b] /\ (final[r] => b = {})
    BY <1>7 DEF Fail, TypeOK
  <2> HIDE DEF b
  <2> QED  BY <1>7, <2>1, ReturnType DEF Fail
<1>8. ASSUME NEW r \in Run, CommitReplyLost(r) \/ StatementError(r) \/ DeadlockError(r)
      PROVE  (Rollback(r) \/ Apply(r)) /\ Fail(r)
  BY <1>8 DEF CommitReplyLost, StatementError, DeadlockError
<1>9. ASSUME NEW r \in Run, Crash(r) PROVE TypeOK'
  <2>1. Rollback(r)
    BY <1>9 DEF Crash
  <2> QED  BY <1>9, <2>1, EndOfBatchType DEF Crash, GoTo, TypeOK, Active
<1>10. CASE UNCHANGED vars
  BY <1>10 DEF vars, tableVars, lockVars, runVars, TypeOK, Active
<1> QED
  BY <1>1, <1>2, <1>3, <1>4, <1>5, <1>6, <1>7, <1>8, <1>9, <1>10 DEF Next, Work

\* The state always has its type.
THEOREM TypeCorrect == Spec => []TypeOK
<1>1. Init => TypeOK
  BY ConstantsAssumption DEF Init, TypeOK, FaultsOK
<1> QED  BY <1>1, TypeStep, PTL DEF Spec

-----------------------------------------------------------------------------
\* What the tables say of a transaction.

\* Only a commit of a batch changes the tables.
LEMMA TablesChangeByApply ==
    [Next]_vars => UNCHANGED tableVars \/ \E r \in Run : Apply(r)
  BY DEF Next, Work, Query, Take, Finish, LockSource, LockTarget, Commit,
         CommitReplyLost, StatementError, DeadlockError, Crash, Rollback, vars

\* A transaction is SETTLED exactly when both its rows are in the ledger and
\* its amount has moved: a batch of settleBatch is all or nothing.
THEOREM AllOrNothing == Spec => []SettledTogether
<1>1. Init => SettledTogether
  BY DEF Init, SettledTogether
<1>2. TypeOK /\ SettledTogether /\ [Next]_vars => SettledTogether'
  <2> SUFFICES ASSUME TypeOK, SettledTogether, [Next]_vars PROVE SettledTogether'
    OBVIOUS
  <2>1. CASE UNCHANGED tableVars
    BY <2>1 DEF tableVars, SettledTogether
  <2>2. ASSUME NEW r \in Run, Apply(r) PROVE SettledTogether'
    <3> SUFFICES ASSUME NEW t \in Txn
                 PROVE  /\ status'[t] = "SETTLED" <=> <<t, "debit">> \in entries'
                        /\ status'[t] = "SETTLED" <=> <<t, "credit">> \in entries'
                        /\ status'[t] = "SETTLED" <=> applied'[t] > 0
      BY DEF SettledTogether
    <3>1. \A k : <<t, k>> \in entries' <=>
                   <<t, k>> \in entries \/ (t \in batch[r] /\ k \in {"debit", "credit"})
      <4>1. entries' = entries \cup UNION {EntriesOf(u) : u \in batch[r]}
        BY <2>2 DEF Apply
      <4>2. \A k : <<t, k>> \in UNION {EntriesOf(u) : u \in batch[r]}
                      <=> t \in batch[r] /\ k \in {"debit", "credit"}
        BY DEF EntriesOf
      <4> QED  BY <4>1, <4>2
    <3>2. CASE t \in batch[r]
      <4>1. status'[t] = "SETTLED" /\ applied'[t] = applied[t] + 1 /\ applied[t] \in Nat
        BY <2>2, <3>2 DEF Apply, TypeOK
      <4> QED  BY <3>1, <3>2, <4>1
    <3>3. CASE t \notin batch[r]
      <4>1. status'[t] = status[t] /\ applied'[t] = applied[t]
        BY <2>2, <3>3 DEF Apply
      <4> QED  BY <3>1, <3>3, <4>1 DEF SettledTogether
    <3> QED  BY <3>2, <3>3
  <2> QED  BY <2>1, <2>2, TablesChangeByApply
<1> QED  BY <1>1, <1>2, TypeCorrect, PTL DEF Spec

\* What is settled stays settled.
LEMMA SettledStays ==
    ASSUME TypeOK, [Next]_vars, NEW t \in Txn, status'[t] = "AUTHORIZED"
    PROVE  status[t] = "AUTHORIZED"
<1>1. ASSUME NEW r \in Run, Apply(r) PROVE status[t] = "AUTHORIZED"
  BY <1>1 DEF Apply
<1> QED  BY <1>1, TablesChangeByApply DEF tableVars

\* A step of r leaves what is r's own to the others.
LEMMA OthersKeepTheirs ==
    ASSUME TypeOK, NEW r \in Run, NEW q \in Run \ {r},
           Work(r) \/ CommitReplyLost(r) \/ StatementError(r) \/ Crash(r)
    PROVE  pc'[q] = pc[q] /\ batch'[q] = batch[q] /\ todo'[q] = todo[q]
<1>1. CASE Query(r)
  BY <1>1 DEF Query, GoTo, TypeOK
<1>2. CASE Take(r) \/ Finish(r)
  BY <1>2 DEF Take, Finish, BeginBatch, GoTo, TypeOK
<1>3. CASE LockSource(r)
  BY <1>3 DEF LockSource, GoTo, TypeOK
<1>4. CASE LockTarget(r)
  BY <1>4 DEF LockTarget, Fail, Return, GoTo, TypeOK
<1>5. CASE Commit(r) \/ CommitReplyLost(r) \/ DeadlockError(r) \/ StatementError(r)
  BY <1>5 DEF Commit, CommitReplyLost, DeadlockError, StatementError, Fail, Return, GoTo, TypeOK
<1>6. CASE Crash(r)
  BY <1>6 DEF Crash, GoTo, TypeOK
<1> QED  BY <1>1, <1>2, <1>3, <1>4, <1>5, <1>6 DEF Work

\* A run at work drops no transaction of its query, whatever fails and whoever
\* runs beside it: main keeps a batch until its commit is known.  Of a run that
\* has ended it says nothing: its memory is gone, settled or not.
THEOREM RunsDropNothing == Spec => []NothingDropped
<1>1. Init => NothingDropped
  BY DEF Init, NothingDropped, Active
<1>2. TypeOK /\ NothingDropped /\ [Next]_vars => NothingDropped'
  <2> SUFFICES ASSUME TypeOK, NothingDropped, [Next]_vars,
                      NEW r \in Run, Active(r)',
                      NEW t \in Txn, status'[t] = "AUTHORIZED"
               PROVE  t \in batch'[r] \cup todo'[r]
    BY DEF NothingDropped
  <2>1. status[t] = "AUTHORIZED"
    BY SettledStays
  <2>2. Active(r) => t \in batch[r] \cup todo[r]
    BY <2>1 DEF NothingDropped
  <2>3. CASE Query(r)
    BY <2>1, <2>3 DEF Query, TypeOK
  <2>4. CASE Take(r)
    BY <2>2, <2>4 DEF Take, Active, TypeOK
  <2>5. CASE Commit(r)
    <3>1. t \notin batch[r]
      BY <2>5 DEF Commit, Apply
    <3>2. Active(r) /\ todo' = todo
      BY <2>5 DEF Commit, Return, Active
    <3> QED  BY <2>2, <3>1, <3>2
  <2>6. CASE Crash(r)
    BY <2>6 DEF Crash, GoTo, Active, TypeOK
  <2>7. CASE Finish(r) \/ LockSource(r)
    <3>1. Active(r) /\ UNCHANGED <<batch, todo>>
      BY <2>7 DEF Finish, LockSource, Active
    <3> QED  BY <2>2, <3>1
  <2>8. CASE LockTarget(r) \/ CommitReplyLost(r) \/ StatementError(r) \/ DeadlockError(r)
    <3>1. Active(r) /\ todo' = todo
      BY <2>8 DEF LockTarget, CommitReplyLost, StatementError, InBatch, DeadlockError,
                  Deadlocked, WaitsFor, Fail, Return, Active
    <3>2. UNCHANGED batch \/ Fail(r)
      BY <2>8 DEF LockTarget, CommitReplyLost, StatementError, DeadlockError
    <3>3. Fail(r) => batch'[r] = batch[r]
      BY DEF Fail, Return, GoTo, Active, TypeOK
    <3> QED  BY <2>2, <3>1, <3>2, <3>3
  <2>9. ASSUME NEW q \in Run \ {r}, Work(q) \/ CommitReplyLost(q) \/ StatementError(q) \/ Crash(q)
        PROVE  batch'[r] = batch[r] /\ todo'[r] = todo[r] /\ pc'[r] = pc[r]
    BY <2>9, OthersKeepTheirs
  <2>10. CASE UNCHANGED vars
    BY <2>2, <2>10 DEF vars, runVars, Active
  <2>11. CASE Work(r) \/ CommitReplyLost(r) \/ StatementError(r) \/ Crash(r)
    BY <2>3, <2>4, <2>5, <2>6, <2>7, <2>8, <2>11 DEF Work
  <2>12. ASSUME NEW q \in Run \ {r}, Work(q) \/ CommitReplyLost(q) \/ StatementError(q) \/ Crash(q)
         PROVE  t \in batch'[r] \cup todo'[r]
    BY <2>2, <2>9, <2>12 DEF Active
  <2> QED
    BY <2>10, <2>11, <2>12 DEF Next
<1> QED  BY <1>1, <1>2, TypeCorrect, PTL DEF Spec

-----------------------------------------------------------------------------
\* Runs that do not overlap.

\* They learn the outcome of their commits, too.
InTurn == happened \cap {"overlap", "reply_lost"} = {}

\* What r must not have in hand.
UnsettledBy(r) ==
    Active(r) =>
        /\ todo[r] \cap batch[r] = {}
        /\ \A t \in todo[r] \cup batch[r] : status[t] = "AUTHORIZED"

\* What a step of r leaves in r's own hand is not settled.
LEMMA OwnHandUnsettled ==
    ASSUME TypeOK, UnsettledInHand, NEW r \in Run,
           Work(r) \/ StatementError(r) \/ Crash(r)
    PROVE  UnsettledBy(r)'
<1> USE DEF UnsettledBy, Active
<1>1. CASE Query(r)
  <2>1. batch[r] = {} /\ UNCHANGED <<status, batch>>
    BY <1>1 DEF Query, tableVars, TypeOK
  <2>2. todo'[r] = {t \in Txn : status[t] = "AUTHORIZED"} /\ pc'[r] = "loop"
    BY <1>1 DEF Query, GoTo, TypeOK
  <2> QED  BY <2>1, <2>2
<1>2. CASE Take(r)
  <2>1. todo[r] \cap batch[r] = {} /\ \A t \in todo[r] \cup batch[r] : status[t] = "AUTHORIZED"
    BY <1>2 DEF Take, UnsettledInHand
  <2>2. /\ todo'[r] = todo[r] \ {First(todo[r])}
        /\ batch'[r] = batch[r] \cup {First(todo[r])}
        /\ UNCHANGED status
        /\ First(todo[r]) \in todo[r]
    BY <1>2, FirstIsIn DEF Take, tableVars, TypeOK
  <2>3. pc'[r] # "start"
    BY <1>2 DEF Take, BeginBatch, GoTo, TypeOK
  <2> QED  BY <2>1, <2>2, <2>3
<1>3. CASE Commit(r)
  <2>1. todo[r] \cap batch[r] = {} /\ \A t \in todo[r] \cup batch[r] : status[t] = "AUTHORIZED"
    BY <1>3 DEF Commit, UnsettledInHand
  <2>2. todo' = todo /\ pc'[r] = IF final[r] THEN "done" ELSE "loop"
    BY <1>3 DEF Commit, Return, GoTo, TypeOK
  <2>3. batch'[r] = {} /\ todo[r] \subseteq Txn
    BY <1>3 DEF Commit, TypeOK
  <2>4. \A t \in todo[r] : status'[t] = status[t]
    BY <1>3, <2>1, <2>3 DEF Commit, Apply
  <2> QED  BY <2>1, <2>2, <2>3, <2>4
<1>4. CASE Finish(r) \/ LockSource(r) \/ LockTarget(r) \/ DeadlockError(r) \/ StatementError(r)
  <2>1. todo' = todo /\ (batch' = batch \/ Fail(r))
    BY <1>4 DEF Finish, LockSource, LockTarget, DeadlockError, StatementError, Fail, Return
  <2>2. UNCHANGED status
    BY <1>4 DEF Finish, LockSource, LockTarget, DeadlockError, StatementError,
                Rollback, tableVars
  <2>3. pc[r] \notin {"start", "done"}
    BY <1>4 DEF Finish, LockSource, LockTarget, DeadlockError, Deadlocked, WaitsFor,
                StatementError, InBatch
  <2>4. batch'[r] \subseteq batch[r]
    BY <2>1 DEF Fail, TypeOK
  <2> QED  BY <2>1, <2>2, <2>3, <2>4 DEF UnsettledInHand
<1>5. CASE Crash(r)
  BY <1>5 DEF Crash, GoTo, TypeOK
<1> QED  BY <1>1, <1>2, <1>3, <1>4, <1>5 DEF Work

\* The run that takes a step, while runs keep to their turns, is at work alone
\* or begins when none is.
LEMMA StepIsAlone ==
    ASSUME TypeOK, UnsettledInHand, NEW r \in Run, NEW q \in Run \ {r}, InTurn',
           Work(r) \/ StatementError(r) \/ Crash(r)
    PROVE  ~Active(q)
<1>1. CASE Query(r)
  BY <1>1 DEF Query, NoteOverlap, InTurn
<1>2. CASE ~Query(r)
  <2>1. Active(r)
    BY <1>2 DEF Work, Take, Finish, LockSource, LockTarget, Commit, DeadlockError, Deadlocked,
                WaitsFor, StatementError, InBatch, Crash, Active
  <2> QED  BY <2>1 DEF UnsettledInHand
<1> QED  BY <1>1, <1>2

\* Runs in turn have in hand only what is not settled.
LEMMA UnsettledStep ==
    ASSUME TypeOK, UnsettledInHand, [Next]_vars, InTurn'
    PROVE  UnsettledInHand'
<1>1. ASSUME NEW r \in Run, Work(r) \/ StatementError(r) \/ Crash(r)
      PROVE  UnsettledInHand'
  <2>1. \A q \in Run \ {r} : ~Active(q) /\ pc'[q] = pc[q] /\ batch'[q] = batch[q]
    BY <1>1, StepIsAlone, OthersKeepTheirs
  <2>2. \A q \in Run \ {r} : UnsettledBy(q)' /\ ~Active(q)'
    BY <2>1 DEF UnsettledBy, Active
  <2>3. UnsettledBy(r)'
    BY <1>1, OwnHandUnsettled
  <2> QED  BY <2>2, <2>3 DEF UnsettledInHand, UnsettledBy
<1>2. CASE UNCHANGED vars
  BY <1>2 DEF vars, tableVars, runVars, UnsettledInHand, Active
<1>3. \A r \in Run : ~CommitReplyLost(r)
  BY DEF CommitReplyLost, Fault, InTurn
<1> QED  BY <1>1, <1>2, <1>3 DEF Next

\* A commit applies what was not applied before.
LEMMA CommitAppliesOnce ==
    ASSUME TypeOK, SettledTogether, UnsettledInHand, AppliedOnce,
           NEW r \in Run, Commit(r)
    PROVE  AppliedOnce'
<1> SUFFICES ASSUME NEW t \in Txn PROVE applied'[t] <= 1
  BY DEF AppliedOnce
<1>1. CASE t \in batch[r]
  <2>1. status[t] = "AUTHORIZED"
    BY <1>1 DEF Commit, UnsettledInHand, Active
  <2>2. applied[t] = 0
    <3>1. applied[t] \in Nat /\ ~(applied[t] > 0)
      BY <2>1 DEF SettledTogether, TypeOK
    <3> QED  BY <3>1
  <2>3. applied'[t] = applied[t] + 1
    BY <1>1 DEF Commit, Apply
  <2> QED  BY <2>2, <2>3
<1>2. CASE t \notin batch[r]
  BY <1>2 DEF Commit, Apply, AppliedOnce
<1> QED  BY <1>1, <1>2

InTurnInv == InTurn => UnsettledInHand /\ AppliedOnce

\* The balances take each transaction once if runs do not overlap and learn
\* the outcome of their commits, wherever they fail, crash and start again:
\* the query and the status of the same database transaction see to it.
THEOREM RunsInTurnApplyOnce == Spec => []AppliedOnceUnlessOverlapping
<1>1. Init => InTurnInv
  BY DEF Init, UnsettledInHand, AppliedOnce, InTurnInv, Active
<1>2. TypeOK /\ SettledTogether /\ InTurnInv /\ [Next]_vars => InTurnInv'
  <2> SUFFICES ASSUME TypeOK, SettledTogether, UnsettledInHand, AppliedOnce,
                      [Next]_vars, InTurn'
               PROVE  UnsettledInHand' /\ AppliedOnce'
    <3>1. ASSUME TypeOK, [Next]_vars, InTurn' PROVE InTurn
      BY <3>1, FaultsStep DEF InTurn, TypeOK
    <3> QED  BY <3>1 DEF InTurnInv
  <2>1. UnsettledInHand'
    BY UnsettledStep
  <2>2. CASE UNCHANGED tableVars
    BY <2>1, <2>2 DEF tableVars, AppliedOnce
  <2>3. UNCHANGED tableVars \/ \E r \in Run : Commit(r)
    BY DEF Next, Work, Query, Take, Finish, LockSource, LockTarget, CommitReplyLost,
           Fault, StatementError, DeadlockError, Crash, Rollback, vars, InTurn
  <2> QED  BY <2>1, <2>2, <2>3, CommitAppliesOnce
<1>3. InTurnInv => AppliedOnceUnlessOverlapping
  BY DEF InTurnInv, InTurn, AppliedOnceUnlessOverlapping
<1> QED  BY <1>1, <1>2, <1>3, TypeCorrect, AllOrNothing, PTL DEF Spec

-----------------------------------------------------------------------------
\* Sums over finite sets.

\* Induction over finite sets: what a set of subsets contains that contains the
\* empty set, and a set whenever it contains it without one of its elements.
LEMMA Subsets ==
    ASSUME NEW S, IsFiniteSet(S), NEW Good,
           \A T \in SUBSET S : (\A x \in T : T \ {x} \in Good) => T \in Good
    PROVE  S \in Good
<1> DEFINE Bad == {T \in SUBSET S : T \notin Good}
<1> SUFFICES ASSUME S \notin Good PROVE FALSE
  OBVIOUS
<1>1. Bad \subseteq FiniteSubsetsOf(S) /\ Bad # {}
  BY FS_Subset DEF FiniteSubsetsOf
<1>2. PICK T \in Bad : \A U \in Bad : <<U, T>> \notin StrictSubsetOrdering(S)
  <2> HIDE DEF Bad
  <2> QED  BY <1>1, FS_StrictSubsetOrderingWellFounded, WFMin
<1>3. ASSUME NEW x \in T PROVE T \ {x} \in Good
  <2>1. <<T \ {x}, T>> \in StrictSubsetOrdering(S)
    BY <1>3 DEF StrictSubsetOrdering
  <2> QED  BY <1>2, <2>1
<1> QED  BY <1>2, <1>3

\* The units of what f counts.
Units(f, S) == UNION {{x} \X (1 .. f[x]) : x \in S}

\* One element's units beside those of the rest.
LEMMA UnitsSplit ==
    ASSUME NEW S, IsFiniteSet(S), NEW f, \A x \in S : f[x] \in Int
    PROVE  /\ IsFiniteSet(Units(f, S)) /\ Cardinality(Units(f, S)) \in Nat
           /\ \A x \in S : Cardinality(Units(f, S)) =
                 Cardinality(Units(f, S \ {x})) + (IF f[x] < 0 THEN 0 ELSE f[x])
<1>1. ASSUME NEW x \in S
      PROVE  /\ IsFiniteSet({x} \X (1 .. f[x]))
             /\ Cardinality({x} \X (1 .. f[x])) = IF f[x] < 0 THEN 0 ELSE f[x]
  <2>1. /\ IsFiniteSet(1 .. f[x])
        /\ Cardinality(1 .. f[x]) = IF f[x] < 0 THEN 0 ELSE f[x]
    BY FS_Interval, 1 \in Int
  <2>2. IsFiniteSet({x}) /\ Cardinality({x}) = 1
    BY FS_Singleton
  <2> DEFINE A == {x}
             B == 1 .. f[x]
             n == IF f[x] < 0 THEN 0 ELSE f[x]
  <2>3. n \in Nat
    OBVIOUS
  <2>4. IsFiniteSet(A) /\ Cardinality(A) = 1 /\ IsFiniteSet(B) /\ Cardinality(B) = n
    BY <2>1, <2>2
  <2> HIDE DEF A, B, n
  <2>5. IsFiniteSet(A \X B) /\ Cardinality(A \X B) = 1 * n
    BY <2>4, FS_Product
  <2>6. 1 * n = n
    BY <2>3
  <2> QED  BY <2>5, <2>6 DEF A, B, n
<1>2. ASSUME NEW T \in SUBSET S PROVE IsFiniteSet(Units(f, T))
  <2> DEFINE g == [x \in T |-> {x} \X (1 .. f[x])]
             C == {{x} \X (1 .. f[x]) : x \in T}
  <2>1. g \in Surjection(T, C)
    BY DEF Surjection
  <2>2. IsFiniteSet(T)
    BY FS_Subset
  <2>3. IsFiniteSet(C)
    BY <2>1, <2>2, FS_Surjection
  <2> QED  BY <1>1, <2>3, FS_UNION DEF Units
<1>3. ASSUME NEW x \in S
      PROVE  Cardinality(Units(f, S)) =
                 Cardinality(Units(f, S \ {x})) + (IF f[x] < 0 THEN 0 ELSE f[x])
  <2>1. Units(f, S) = Units(f, S \ {x}) \cup ({x} \X (1 .. f[x]))
    BY DEF Units
  <2>2. Units(f, S \ {x}) \cap ({x} \X (1 .. f[x])) = {}
    BY DEF Units
  <2>3. IsFiniteSet(Units(f, S \ {x})) /\ Cardinality(Units(f, S \ {x})) \in Nat
    BY <1>2, FS_CardinalityType
  <2>4. Cardinality(Units(f, S)) =
            Cardinality(Units(f, S \ {x})) + Cardinality({x} \X (1 .. f[x])) - Cardinality({})
    <3> DEFINE U == Units(f, S \ {x})
               V == {x} \X (1 .. f[x])
    <3>1. IsFiniteSet(U) /\ IsFiniteSet(V)
      BY <1>1, <2>3
    <3> HIDE DEF U, V
    <3>2. Cardinality(U \cup V) = Cardinality(U) + Cardinality(V) - Cardinality(U \cap V)
      BY <3>1, FS_Union
    <3> QED  BY <2>1, <2>2, <3>2 DEF U, V
  <2> QED  BY <1>1, <2>3, <2>4, FS_EmptySet
<1> QED  BY <1>2, <1>3, FS_CardinalityType

\* f below zero.
Minus(f, S) == [x \in S |-> 0 - f[x]]

\* A sum as a cardinality: the units above zero less those below.
Count(f, S) == Cardinality(Units(f, S)) - Cardinality(Units(Minus(f, S), S))

\* The count, element by element.
LEMMA CountSplit ==
    ASSUME NEW S, IsFiniteSet(S), NEW f, \A x \in S : f[x] \in Int
    PROVE  /\ Count(f, S) \in Int
           /\ \A x \in S : Count(f, S) = f[x] + Count(f, S \ {x})
<1>1. \A x \in S : Minus(f, S)[x] = 0 - f[x] /\ Minus(f, S)[x] \in Int
  BY DEF Minus
<1>2. ASSUME NEW x \in S PROVE Count(f, S) = f[x] + Count(f, S \ {x})
  <2>1. Units(Minus(f, S), S \ {x}) = Units(Minus(f, S \ {x}), S \ {x})
    BY DEF Units, Minus
  <2>2. IsFiniteSet(S \ {x})
    BY FS_RemoveElement
  <2>3. /\ Cardinality(Units(f, S \ {x})) \in Nat
        /\ Cardinality(Units(Minus(f, S), S \ {x})) \in Nat
    BY <1>1, <2>2, UnitsSplit
  <2>4. /\ Cardinality(Units(f, S)) =
              Cardinality(Units(f, S \ {x})) + (IF f[x] < 0 THEN 0 ELSE f[x])
        /\ Cardinality(Units(Minus(f, S), S)) =
              Cardinality(Units(Minus(f, S), S \ {x})) + (IF 0 - f[x] < 0 THEN 0 ELSE 0 - f[x])
    BY <1>1, UnitsSplit
  <2> QED  BY <2>1, <2>3, <2>4 DEF Count
<1>3. Count(f, S) \in Int
  BY <1>1, UnitsSplit DEF Count
<1> QED  BY <1>2, <1>3

\* The sum of the library, which takes its elements in an order of its own, is
\* that count.
LEMMA SumIsCount ==
    ASSUME NEW S, IsFiniteSet(S), NEW f, \A x \in S : f[x] \in Int
    PROVE  SumFunctionOnSet(f, S) = Count(f, S)
<1> DEFINE Body(it) == [s \in SUBSET S |->
                 IF s = {} THEN 0
                 ELSE LET x == CHOOSE x \in s : TRUE IN f[x] + it[s \ {x}]]
           it == CHOOSE i : i = Body(i)
           cnt == [s \in SUBSET S |-> Count(f, s)]
<1>1. SumFunctionOnSet(f, S) = it[S]
  BY DEF SumFunctionOnSet, FoldFunctionOnSet, MapThenFoldSet
<1>2. \A T \in SUBSET S : IsFiniteSet(T) /\ \A x \in T : f[x] \in Int
  BY FS_Subset
<1>3. Count(f, {}) = 0
  BY FS_EmptySet DEF Count, Units, Minus
<1>4. cnt = Body(cnt)
  <2> SUFFICES ASSUME NEW s \in SUBSET S, s # {}
               PROVE  Count(f, s) = LET x == CHOOSE x \in s : TRUE IN f[x] + Count(f, s \ {x})
    BY <1>3
  <2>1. \A x \in s : Count(f, s) = f[x] + Count(f, s \ {x})
    BY <1>2, CountSplit
  <2> QED  BY <2>1
<1>5. it = Body(it)
  <2> HIDE DEF cnt
  <2> QED  BY <1>4
<1>6. \A T \in SUBSET S : it[T] = IF T = {} THEN 0
                                   ELSE LET x == CHOOSE x \in T : TRUE IN f[x] + it[T \ {x}]
  <2> DEFINE i == it
  <2> HIDE DEF i
  <2>1. i = Body(i)
    BY <1>5 DEF i
  <2>2. \A T \in SUBSET S : i[T] = IF T = {} THEN 0
                                   ELSE LET x == CHOOSE x \in T : TRUE IN f[x] + i[T \ {x}]
    BY <2>1
  <2> QED  BY <2>2 DEF i
<1> HIDE DEF it
<1> DEFINE Good == {T \in SUBSET S : it[T] = Count(f, T)}
<1>7. {} \in Good
  BY <1>3, <1>6
<1>8. ASSUME NEW T \in SUBSET S, \A x \in T : T \ {x} \in Good PROVE T \in Good
  <2>1. CASE T = {}
    BY <1>7, <2>1
  <2>2. CASE T # {}
    <3>1. PICK x \in T : it[T] = f[x] + it[T \ {x}]
      BY <1>6, <2>2
    <3>2. it[T \ {x}] = Count(f, T \ {x})
      BY <1>8
    <3> QED  BY <1>2, <3>1, <3>2, CountSplit
  <2> QED  BY <2>1, <2>2
<1>9. S \in Good
  <2> HIDE DEF Good
  <2> QED  BY <1>8, Subsets
<1> QED  BY <1>1, <1>9

\* A sum, element by element.
LEMMA SumSplit ==
    ASSUME NEW S, IsFiniteSet(S), NEW f, \A x \in S : f[x] \in Int
    PROVE  /\ SumFunctionOnSet(f, {}) = 0
           /\ SumFunctionOnSet(f, S) \in Int
           /\ \A x \in S : SumFunctionOnSet(f, S) = f[x] + SumFunctionOnSet(f, S \ {x})
<1>1. SumFunctionOnSet(f, {}) = 0
  <2>1. IsFiniteSet({}) /\ Cardinality({}) = 0 /\ \A x \in {} : f[x] \in Int
    BY FS_EmptySet
  <2> QED  BY <2>1, SumIsCount DEF Count, Units, Minus
<1>2. SumFunctionOnSet(f, S) \in Int
  BY SumIsCount, CountSplit
<1>3. ASSUME NEW x \in S
      PROVE  SumFunctionOnSet(f, S) = f[x] + SumFunctionOnSet(f, S \ {x})
  <2>1. IsFiniteSet(S \ {x}) /\ \A y \in S \ {x} : f[y] \in Int
    BY FS_RemoveElement
  <2>2. Count(f, S) = f[x] + Count(f, S \ {x})
    BY CountSplit
  <2> QED  BY <2>1, <2>2, SumIsCount
<1> QED  BY <1>1, <1>2, <1>3

\* The sum of a sum.
LEMMA SumAdds ==
    ASSUME NEW S, IsFiniteSet(S), NEW f, NEW g, NEW h,
           \A x \in S : f[x] \in Int /\ g[x] \in Int /\ h[x] = f[x] + g[x]
    PROVE  SumFunctionOnSet(h, S) = SumFunctionOnSet(f, S) + SumFunctionOnSet(g, S)
<1> DEFINE Good == {T \in SUBSET S :
                       SumFunctionOnSet(h, T) = SumFunctionOnSet(f, T) + SumFunctionOnSet(g, T)}
<1>1. ASSUME NEW T \in SUBSET S, \A x \in T : T \ {x} \in Good PROVE T \in Good
  <2>1. /\ IsFiniteSet(T)
        /\ \A x \in T : f[x] \in Int /\ g[x] \in Int /\ h[x] \in Int
    BY FS_Subset
  <2>2. CASE T = {}
    BY <2>1, <2>2, SumSplit
  <2>3. ASSUME NEW x \in T PROVE T \in Good
    <3>1. /\ SumFunctionOnSet(f, T) = f[x] + SumFunctionOnSet(f, T \ {x})
          /\ SumFunctionOnSet(g, T) = g[x] + SumFunctionOnSet(g, T \ {x})
          /\ SumFunctionOnSet(h, T) = h[x] + SumFunctionOnSet(h, T \ {x})
      BY <2>1, SumSplit
    <3>2. IsFiniteSet(T \ {x}) /\ \A y \in T \ {x} : f[y] \in Int /\ g[y] \in Int
      BY <2>1, FS_RemoveElement
    <3>3. SumFunctionOnSet(f, T \ {x}) \in Int /\ SumFunctionOnSet(g, T \ {x}) \in Int
      BY <3>2, SumSplit
    <3>4. SumFunctionOnSet(h, T \ {x}) =
              SumFunctionOnSet(f, T \ {x}) + SumFunctionOnSet(g, T \ {x})
      BY <1>1
    <3>5. f[x] \in Int /\ g[x] \in Int /\ h[x] = f[x] + g[x]
      OBVIOUS
    <3> QED  BY <3>1, <3>3, <3>4, <3>5
  <2> QED  BY <2>2, <2>3
<1>2. S \in Good
  <2> HIDE DEF Good
  <2> QED  BY <1>1, Subsets
<1> QED  BY <1>2

\* Only the elements that count count.
LEMMA SumOfPart ==
    ASSUME NEW S, IsFiniteSet(S), NEW T \in SUBSET S, NEW f, NEW g,
           \A x \in S : f[x] \in Int,
           \A x \in S : f[x] = IF x \in T THEN g[x] ELSE 0
    PROVE  SumFunctionOnSet(f, S) = SumFunctionOnSet(g, T)
<1>1. Units(f, S) = Units(g, T)
  BY DEF Units
<1>2. Units(Minus(f, S), S) = Units(Minus(g, T), T)
  <2>1. \A x \in S : Minus(f, S)[x] = IF x \in T THEN Minus(g, T)[x] ELSE 0
    BY DEF Minus
  <2> QED  BY <2>1 DEF Units
<1>3. IsFiniteSet(T) /\ \A x \in T : g[x] \in Int
  BY FS_Subset
<1> QED  BY <1>1, <1>2, <1>3, SumIsCount DEF Count

-----------------------------------------------------------------------------
\* Locks and balances.

\* What each transaction does to the balance of a.
Effects(a) == [t \in Txn |-> Effect(t, a)]

\* A balance that nobody locks is the committed one.
FreeRowsAreCommitted ==
    \A a \in Account : holder[a] = NoRun => dirty[a] = balance[a]

\* What settleBatch has done of the batch of r.
Behind(r) == batch[r] \ left[r]

\* r keeps the locks of both accounts of what it has done until the batch ends.
KeepsLocks(r) ==
    InBatch(r) => \A t \in Behind(r) : holder[Source[t]] = r /\ holder[Target[t]] = r

\* r sees, of an account it has locked, the committed balance and its own
\* updates, and no others.
SeesItsOwn(r) ==
    \A a \in Account : holder[a] = r =>
        /\ InBatch(r)
        /\ dirty[a] = balance[a] + SumFunctionOnSet(Effects(a), Behind(r))

\* The new balance of the source is computed from one that is still the balance.
DebitIsFresh(r) ==
    pc[r] = "lockTarget" =>
        /\ holder[Source[InHand(r)]] = r
        /\ newDebit[r] = dirty[Source[InHand(r)]] - Amount[InHand(r)] - Fee[InHand(r)]

\* The conditions on one run.
Isolated(r) == KeepsLocks(r) /\ SeesItsOwn(r) /\ DebitIsFresh(r)

\* No run sees what another one is doing.
Isolation == FreeRowsAreCommitted /\ \A r \in Run : Isolated(r)

\* A transaction moves a whole number of units.
LEMMA EffectType ==
    \A a \in Account : /\ \A t \in Txn : Effect(t, a) \in Int
                       /\ \A t \in Txn : Effects(a)[t] = Effect(t, a)
BY ConstantsAssumption DEF Effect, Effects

\* The sum of effects, transaction by transaction; it is 0 for an account that
\* none of the transactions touches.
LEMMA EffectsSum ==
    ASSUME NEW a \in Account, NEW T \in SUBSET Txn
    PROVE  /\ SumFunctionOnSet(Effects(a), {}) = 0
           /\ SumFunctionOnSet(Effects(a), T) \in Int
           /\ \A t \in T : SumFunctionOnSet(Effects(a), T) =
                               Effect(t, a) + SumFunctionOnSet(Effects(a), T \ {t})
           /\ (\A t \in T : Source[t] # a /\ Target[t] # a) =>
                  SumFunctionOnSet(Effects(a), T) = 0
<1>1. IsFiniteSet(T) /\ \A t \in T : Effects(a)[t] = Effect(t, a) /\ Effects(a)[t] \in Int
  BY ConstantsAssumption, FS_Subset, EffectType
<1>2. /\ SumFunctionOnSet(Effects(a), {}) = 0
      /\ SumFunctionOnSet(Effects(a), T) \in Int
      /\ \A t \in T : SumFunctionOnSet(Effects(a), T) =
                          Effects(a)[t] + SumFunctionOnSet(Effects(a), T \ {t})
  BY <1>1, SumSplit
<1>3. ASSUME \A t \in T : Source[t] # a /\ Target[t] # a
      PROVE  SumFunctionOnSet(Effects(a), T) = 0
  <2>1. \A t \in T : Effects(a)[t] = IF t \in {} THEN Effects(a)[t] ELSE 0
    BY <1>1, <1>3 DEF Effect
  <2>2. SumFunctionOnSet(Effects(a), T) = SumFunctionOnSet(Effects(a), {})
    BY <1>1, <2>1, SumOfPart
  <2> QED  BY <1>2, <2>2
<1> QED  BY <1>1, <1>2, <1>3


\* A step of another run that keeps off the accounts r has locked does not
\* disturb r.
LEMMA OthersIsolated ==
    ASSUME TypeOK, Isolation, NEW r \in Run, NEW q \in Run \ {r},
           pc'[q] = pc[q], batch'[q] = batch[q], left'[q] = left[q],
           newDebit'[q] = newDebit[q],
           \A a \in Account : /\ holder'[a] = q <=> holder[a] = q
                              /\ holder[a] = q => dirty'[a] = dirty[a] /\ balance'[a] = balance[a]
    PROVE  Isolated(q)'
<1> USE DEF Isolation, Isolated, Behind, InBatch, InHand
<1>1. \A t \in Txn : Source[t] \in Account /\ Target[t] \in Account
  BY ConstantsAssumption
<1>2. KeepsLocks(q)'
  BY <1>1 DEF KeepsLocks, TypeOK
<1>3. SeesItsOwn(q)'
  BY DEF SeesItsOwn
<1>4. DebitIsFresh(q)'
  <2> SUFFICES ASSUME pc'[q] = "lockTarget" PROVE DebitIsFresh(q)'
    BY DEF DebitIsFresh
  <2>1. PICK t \in Txn : t = InHand(q) /\ t = InHand(q)'
    BY FirstIsIn DEF TypeOK
  <2>2. PICK s \in Account : s = Source[t]
    BY <1>1
  <2>3. holder[s] = q /\ newDebit[q] = dirty[s] - Amount[t] - Fee[t]
    BY <2>1, <2>2 DEF DebitIsFresh
  <2>4. holder'[s] = q /\ newDebit'[q] = dirty'[s] - Amount[t] - Fee[t]
    BY <2>3
  <2> QED  BY <2>1, <2>2, <2>4 DEF DebitIsFresh
<1> QED  BY <1>2, <1>3, <1>4

\* Outside of a batch a run holds no lock, and it begins one with nothing done.
LEMMA OutsideIsolated ==
    ASSUME TypeOK, Isolation, NEW r \in Run, pc[r] \in {"start", "loop"},
           UNCHANGED <<balance, holder, dirty>>,
           \/ pc'[r] \in {"start", "loop", "done"}
           \/ pc'[r] = "lockSource" /\ left'[r] = batch'[r],
           \A q \in Run \ {r} : /\ pc'[q] = pc[q] /\ batch'[q] = batch[q]
                                /\ left'[q] = left[q] /\ newDebit'[q] = newDebit[q]
    PROVE  Isolation'
<1>1. \A a \in Account : holder[a] # r
  BY DEF Isolation, Isolated, SeesItsOwn, InBatch
<1>2. Isolated(r)'
  BY <1>1 DEF Isolated, KeepsLocks, SeesItsOwn, DebitIsFresh, Behind, InBatch
<1>3. \A q \in Run \ {r} : Isolated(q)'
  BY OthersIsolated
<1>4. FreeRowsAreCommitted'
  BY DEF Isolation, FreeRowsAreCommitted
<1> QED  BY <1>2, <1>3, <1>4 DEF Isolation

\* A batch that ends gives its locks back, its updates done or undone.
LEMMA EndIsolated ==
    ASSUME TypeOK, Isolation, NEW r \in Run, Rollback(r) \/ Apply(r),
           pc'[r] \in {"start", "loop", "done"},
           \A q \in Run \ {r} : /\ pc'[q] = pc[q] /\ batch'[q] = batch[q]
                                /\ left'[q] = left[q] /\ newDebit'[q] = newDebit[q]
    PROVE  Isolation'
<1>1. /\ holder' = [a \in Account |-> IF holder[a] = r THEN NoRun ELSE holder[a]]
      /\ \A a \in Account : holder[a] = r => dirty'[a] = balance'[a]
      /\ \A a \in Account : holder[a] # r => dirty'[a] = dirty[a] /\ balance'[a] = balance[a]
  <2>1. CASE Rollback(r)
    BY <2>1 DEF Rollback, tableVars, TypeOK
  <2>2. CASE Apply(r)
    BY <2>2 DEF Apply, TypeOK
  <2> QED  BY <2>1, <2>2
<1>2. Isolated(r)'
  <2>1. \A a \in Account : holder'[a] # r
    BY <1>1, ConstantsAssumption
  <2> QED  BY <2>1 DEF Isolated, KeepsLocks, SeesItsOwn, DebitIsFresh, InBatch
<1>3. ASSUME NEW q \in Run \ {r} PROVE Isolated(q)'
  <2>1. \A a \in Account : /\ holder'[a] = q <=> holder[a] = q
                           /\ holder[a] = q => dirty'[a] = dirty[a] /\ balance'[a] = balance[a]
    BY <1>1, <1>3, ConstantsAssumption
  <2> QED  BY <1>3, <2>1, OthersIsolated
<1>4. FreeRowsAreCommitted'
  BY <1>1 DEF Isolation, FreeRowsAreCommitted
<1> QED  BY <1>2, <1>3, <1>4 DEF Isolation

\* A lock on an account that nothing done of the batch touches shows the
\* committed balance.
LEMMA NewLock ==
    ASSUME TypeOK, Isolation, NEW r \in Run, InBatch(r),
           NEW a \in Account, holder[a] \in {NoRun, r}
    PROVE  dirty[a] = balance[a] + SumFunctionOnSet(Effects(a), Behind(r))
<1>1. CASE holder[a] = r
  BY <1>1 DEF Isolation, Isolated, SeesItsOwn
<1>2. CASE holder[a] = NoRun
  <2>1. \A t \in Behind(r) : Source[t] # a /\ Target[t] # a
    BY <1>2, ConstantsAssumption DEF Isolation, Isolated, KeepsLocks
  <2>2. Behind(r) \in SUBSET Txn
    BY DEF Behind, TypeOK
  <2>3. SumFunctionOnSet(Effects(a), Behind(r)) = 0
    BY <2>1, <2>2, EffectsSum
  <2>4. dirty[a] = balance[a] /\ balance[a] \in Int
    BY <1>2 DEF Isolation, FreeRowsAreCommitted, TypeOK
  <2> QED  BY <2>3, <2>4
<1> QED  BY <1>1, <1>2

\* The lock of the source.
LEMMA SourceIsolated ==
    ASSUME TypeOK, Isolation, NEW r \in Run, LockSource(r)
    PROVE  Isolation'
<1> DEFINE s == Source[InHand(r)]
<1>1. InHand(r) \in Txn /\ s \in Account /\ InBatch(r)
  BY FirstIsIn, ConstantsAssumption DEF LockSource, InHand, InBatch, TypeOK
<1>2. PICK u \in Account : u = s
  BY <1>1
<1>3. /\ UNCHANGED <<balance, dirty, batch, left>>
      /\ holder[u] \in {NoRun, r} /\ holder' = [holder EXCEPT ![u] = r]
      /\ newDebit' = [newDebit EXCEPT ![r] = dirty[u] - Amount[InHand(r)] - Fee[InHand(r)]]
      /\ pc' = [pc EXCEPT ![r] = "lockTarget"]
  BY <1>2 DEF LockSource, Lock, BalanceForUpdate, GoTo, tableVars
<1>4. holder'[u] = r /\ \A a \in Account \ {u} : holder'[a] = holder[a]
  BY <1>3 DEF TypeOK
<1>5. InHand(r)' = InHand(r) /\ Behind(r)' = Behind(r) /\ pc'[r] = "lockTarget"
  BY <1>3 DEF InHand, Behind, TypeOK
<1>6. KeepsLocks(r)'
  <2>1. \A t \in Behind(r) : /\ t \in Txn /\ Source[t] \in Account /\ Target[t] \in Account
                             /\ holder[Source[t]] = r /\ holder[Target[t]] = r
    BY <1>1, ConstantsAssumption DEF Isolation, Isolated, KeepsLocks, Behind, TypeOK
  <2> QED  BY <1>4, <1>5, <2>1 DEF KeepsLocks
<1>7. SeesItsOwn(r)'
  <2> SUFFICES ASSUME NEW a \in Account, holder'[a] = r
               PROVE  dirty[a] = balance[a] + SumFunctionOnSet(Effects(a), Behind(r))
    BY <1>3, <1>5 DEF SeesItsOwn, InBatch, Effects
  <2>1. holder[a] \in {NoRun, r}
    BY <1>3, <1>4
  <2> QED  BY <1>1, <2>1, NewLock
<1>8. DebitIsFresh(r)'
  <2>1. newDebit'[r] = dirty[u] - Amount[InHand(r)] - Fee[InHand(r)]
    BY <1>3 DEF TypeOK
  <2> QED  BY <1>2, <1>3, <1>4, <1>5, <2>1 DEF DebitIsFresh
<1>9. ASSUME NEW q \in Run \ {r} PROVE Isolated(q)'
  <2>1. pc'[q] = pc[q] /\ newDebit'[q] = newDebit[q]
    BY <1>3, <1>9 DEF TypeOK
  <2>2. \A a \in Account : holder'[a] = q <=> holder[a] = q
    BY <1>3, <1>4, <1>9, ConstantsAssumption
  <2> QED  BY <1>3, <2>1, <2>2, OthersIsolated
<1>10. FreeRowsAreCommitted'
  BY <1>3, <1>4, ConstantsAssumption DEF Isolation, FreeRowsAreCommitted
<1> QED  BY <1>6, <1>7, <1>8, <1>9, <1>10 DEF Isolation, Isolated

\* The lock of the target and both updates.
LEMMA TargetIsolated ==
    ASSUME TypeOK, Isolation, NEW r \in Run, \A t \in Txn : Source[t] # Target[t],
           LockTarget(r), ~Fail(r)
    PROVE  Isolation'
<1>1. PICK t \in Txn : t = InHand(r) /\ t \in left[r]
  BY FirstIsIn DEF LockTarget, InHand, TypeOK
<1>2. PICK s \in Account : s = Source[t]
  BY ConstantsAssumption
<1>3. PICK d \in Account : d = Target[t]
  BY ConstantsAssumption
<1>4. s # d
  BY <1>2, <1>3
<1>5. /\ UNCHANGED <<balance, batch, newDebit>>
      /\ pc[r] = "lockTarget"
      /\ holder[d] \in {NoRun, r} /\ holder' = [holder EXCEPT ![d] = r]
      /\ dirty' = [dirty EXCEPT ![s] = newDebit[r], ![d] = dirty[d] + Amount[t]]
      /\ left' = [left EXCEPT ![r] = left[r] \ {t}]
      /\ pc' = [pc EXCEPT ![r] = IF left[r] = {t} THEN "commit" ELSE "lockSource"]
  BY <1>1, <1>2, <1>3 DEF LockTarget, Lock, BalanceForUpdate, GoTo, tableVars
<1>6. holder[s] = r /\ newDebit[r] = dirty[s] - Amount[t] - Fee[t] /\ InBatch(r)
  BY <1>1, <1>2, <1>5 DEF Isolation, Isolated, DebitIsFresh, InBatch
<1>7. /\ holder'[d] = r /\ \A a \in Account \ {d} : holder'[a] = holder[a]
      /\ dirty'[s] = newDebit[r] /\ dirty'[d] = dirty[d] + Amount[t]
      /\ \A a \in Account \ {s, d} : dirty'[a] = dirty[a]
  BY <1>4, <1>5 DEF TypeOK
<1>8. /\ Behind(r)' = Behind(r) \cup {t} /\ t \notin Behind(r)
      /\ pc'[r] \in {"lockSource", "commit"}
  <2>1. left'[r] = left[r] \ {t} /\ left[r] \subseteq batch[r] /\ batch'[r] = batch[r]
    BY <1>5 DEF TypeOK
  <2>2. pc'[r] \in {"lockSource", "commit"}
    BY <1>5 DEF TypeOK
  <2> QED  BY <1>1, <2>1, <2>2 DEF Behind
<1>9. KeepsLocks(r)'
  <2>1. \A u \in Behind(r) : /\ u \in Txn /\ Source[u] \in Account /\ Target[u] \in Account
                             /\ holder[Source[u]] = r /\ holder[Target[u]] = r
    BY <1>6, ConstantsAssumption DEF Isolation, Isolated, KeepsLocks, Behind, TypeOK
  <2>2. holder'[s] = r /\ holder'[d] = r
    BY <1>4, <1>6, <1>7
  <2>3. \A u \in Behind(r) : holder'[Source[u]] = r /\ holder'[Target[u]] = r
    BY <1>7, <2>1
  <2> QED  BY <1>2, <1>3, <1>8, <2>2, <2>3 DEF KeepsLocks
<1>10. SeesItsOwn(r)'
  <2> SUFFICES ASSUME NEW a \in Account, holder'[a] = r
               PROVE  dirty'[a] = balance[a] + SumFunctionOnSet(Effects(a), Behind(r) \cup {t})
    BY <1>5, <1>8 DEF SeesItsOwn, InBatch, Effects
  <2>1. dirty[a] = balance[a] + SumFunctionOnSet(Effects(a), Behind(r))
    BY <1>5, <1>6, <1>7, NewLock
  <2>2. /\ SumFunctionOnSet(Effects(a), Behind(r)) \in Int
        /\ SumFunctionOnSet(Effects(a), Behind(r) \cup {t}) =
               Effect(t, a) + SumFunctionOnSet(Effects(a), Behind(r))
    <3>1. Behind(r) \in SUBSET Txn /\ Behind(r) \cup {t} \in SUBSET Txn
      BY DEF Behind, TypeOK
    <3>2. (Behind(r) \cup {t}) \ {t} = Behind(r)
      BY <1>8
    <3> QED  BY <3>1, <3>2, EffectsSum
  <2>3. dirty'[a] = dirty[a] + Effect(t, a)
    <3>1. /\ dirty[a] \in Int /\ Amount[t] \in Int /\ Fee[t] \in Int
          /\ dirty[s] \in Int /\ dirty[d] \in Int
      BY ConstantsAssumption DEF TypeOK
    <3>2. CASE a = s
      <4>1. Effect(t, a) = 0 - (Amount[t] + Fee[t])
        BY <1>2, <1>3, <1>4, <3>2 DEF Effect
      <4> QED  BY <1>6, <1>7, <3>1, <3>2, <4>1
    <3>3. CASE a = d
      <4>1. Effect(t, a) = Amount[t] - 0
        BY <1>2, <1>3, <1>4, <3>3 DEF Effect
      <4> QED  BY <1>7, <3>1, <3>3, <4>1
    <3>4. CASE a \notin {s, d}
      <4>1. Effect(t, a) = 0 - 0
        BY <1>2, <1>3, <3>4 DEF Effect
      <4> QED  BY <1>7, <3>1, <3>4, <4>1
    <3> QED  BY <3>2, <3>3, <3>4
  <2>4. balance[a] \in Int /\ Effect(t, a) \in Int
    BY EffectType DEF TypeOK
  <2> QED  BY <2>1, <2>2, <2>3, <2>4
<1>11. DebitIsFresh(r)'
  BY <1>8 DEF DebitIsFresh
<1>12. ASSUME NEW q \in Run \ {r} PROVE Isolated(q)'
  <2>1. pc'[q] = pc[q] /\ left'[q] = left[q] /\ newDebit'[q] = newDebit[q] /\ batch'[q] = batch[q]
    BY <1>5, <1>12 DEF TypeOK
  <2>2. q # r /\ q # NoRun
    BY <1>12, ConstantsAssumption
  <2>3. ASSUME NEW a \in Account
        PROVE  /\ holder'[a] = q <=> holder[a] = q
               /\ holder[a] = q => dirty'[a] = dirty[a] /\ balance'[a] = balance[a]
    <3>1. CASE a = s
      BY <1>4, <1>6, <1>7, <2>2, <3>1
    <3>2. CASE a = d
      <4>1. holder[a] \in {NoRun, r} /\ holder'[a] = r
        BY <1>5, <1>7, <3>2
      <4> QED  BY <2>2, <4>1
    <3>3. CASE a \notin {s, d}
      BY <1>5, <1>7, <3>3
    <3> QED  BY <3>1, <3>2, <3>3
  <2> QED  BY <2>1, <2>3, OthersIsolated
<1>13. FreeRowsAreCommitted'
  <2> SUFFICES ASSUME NEW a \in Account, holder'[a] = NoRun PROVE dirty'[a] = balance'[a]
    BY DEF FreeRowsAreCommitted
  <2>1. a # s /\ a # d
    BY <1>4, <1>6, <1>7, ConstantsAssumption
  <2>2. holder[a] = NoRun /\ dirty'[a] = dirty[a] /\ balance'[a] = balance[a]
    BY <1>5, <1>7, <2>1
  <2> QED  BY <2>2 DEF Isolation, FreeRowsAreCommitted
<1> QED  BY <1>9, <1>10, <1>11, <1>12, <1>13 DEF Isolation, Isolated

\* Every step keeps runs from each other's updates.
LEMMA IsolationStep ==
    ASSUME TypeOK, Isolation, [Next]_vars, \A t \in Txn : Source[t] # Target[t]
    PROVE  Isolation'
<1>1. ASSUME NEW r \in Run, Query(r) PROVE Isolation'
  BY <1>1, OutsideIsolated DEF Query, GoTo, tableVars, lockVars, TypeOK
<1>2. ASSUME NEW r \in Run, Take(r) PROVE Isolation'
  <2>1. /\ pc[r] = "loop" /\ UNCHANGED <<balance, holder, dirty, newDebit>>
        /\ \A q \in Run \ {r} : pc'[q] = pc[q] /\ batch'[q] = batch[q] /\ left'[q] = left[q]
    BY <1>2 DEF Take, BeginBatch, GoTo, tableVars, lockVars, TypeOK
  <2>2. \/ pc'[r] = "loop"
        \/ pc'[r] = "lockSource" /\ left'[r] = batch'[r]
    BY <1>2 DEF Take, BeginBatch, GoTo, TypeOK
  <2> QED  BY <2>1, <2>2, OutsideIsolated
<1>3. ASSUME NEW r \in Run, Finish(r) PROVE Isolation'
  <2>1. /\ pc[r] = "loop" /\ UNCHANGED <<balance, holder, dirty, newDebit, batch>>
        /\ \A q \in Run \ {r} : pc'[q] = pc[q] /\ left'[q] = left[q]
    BY <1>3 DEF Finish, BeginBatch, GoTo, tableVars, lockVars, TypeOK
  <2>2. \/ pc'[r] = "done"
        \/ pc'[r] = "lockSource" /\ left'[r] = batch'[r]
    BY <1>3 DEF Finish, BeginBatch, GoTo, TypeOK
  <2> QED  BY <2>1, <2>2, OutsideIsolated
<1>4. ASSUME NEW r \in Run, Rollback(r) \/ Apply(r), Return(r),
             \A q \in Run \ {r} : batch'[q] = batch[q]
      PROVE  Isolation'
  <2>1. /\ pc'[r] \in {"start", "loop", "done"}
        /\ \A q \in Run \ {r} : /\ pc'[q] = pc[q] /\ left'[q] = left[q]
                                /\ newDebit'[q] = newDebit[q]
    BY <1>4 DEF Return, GoTo, TypeOK
  <2> QED  BY <1>4, <2>1, EndIsolated
<1>5. ASSUME NEW r \in Run, LockTarget(r) PROVE Isolation'
  <2>1. CASE Fail(r)
    <3>1. Rollback(r)
      <4>1. left'[r] = {} /\ pc[r] = "lockTarget" /\ pc'[r] \in {"loop", "done"}
        BY <1>5, <2>1 DEF LockTarget, Fail, Return, GoTo, TypeOK
      <4>2. Rollback(r) \/ pc' = [pc EXCEPT ![r] = "commit"] \/ pc' = [pc EXCEPT ![r] = "lockSource"]
        BY <1>5 DEF LockTarget, GoTo
      <4> QED  BY <4>1, <4>2 DEF TypeOK
    <3> QED  BY <1>4, <2>1, <3>1 DEF Fail
  <2>2. CASE ~Fail(r)
    BY <1>5, <2>2, TargetIsolated
  <2> QED  BY <2>1, <2>2
<1>6. ASSUME NEW r \in Run, Commit(r) PROVE Isolation'
  BY <1>4, <1>6 DEF Commit, TypeOK
<1>7. ASSUME NEW r \in Run, CommitReplyLost(r) \/ StatementError(r) \/ DeadlockError(r)
      PROVE  Isolation'
  <2>1. \A q \in Run \ {r} : batch'[q] = batch[q]
    BY <1>7 DEF CommitReplyLost, StatementError, DeadlockError, Fail, TypeOK
  <2> QED  BY <1>4, <1>7, <2>1 DEF CommitReplyLost, StatementError, DeadlockError, Fail
<1>8. ASSUME NEW r \in Run, Crash(r) PROVE Isolation'
  <2>1. /\ pc'[r] = "start" /\ UNCHANGED newDebit /\ Rollback(r)
        /\ \A q \in Run \ {r} : pc'[q] = pc[q] /\ batch'[q] = batch[q] /\ left'[q] = left[q]
    BY <1>8 DEF Crash, GoTo, TypeOK
  <2> QED  BY <2>1, EndIsolated
<1>9. CASE UNCHANGED vars
  BY <1>9 DEF vars, tableVars, lockVars, runVars, Isolation, FreeRowsAreCommitted, Isolated,
              KeepsLocks, SeesItsOwn, DebitIsFresh, Behind, InBatch, InHand, Effects
<1> QED
  BY <1>1, <1>2, <1>3, <1>5, <1>6, <1>7, <1>8, <1>9, SourceIsolated DEF Next, Work

\* A batch that is committed changes every balance by the effects of its
\* transactions.
LEMMA ApplyAddsBatch ==
    ASSUME TypeOK, Isolation, NEW r \in Run, pc[r] = "commit", Apply(r), NEW a \in Account
    PROVE  balance'[a] = balance[a] + SumFunctionOnSet(Effects(a), batch[r])
<1>1. InBatch(r) /\ Behind(r) = batch[r]
  BY DEF InBatch, Behind, TypeOK
<1>2. CASE holder[a] = r
  BY <1>1, <1>2 DEF Apply, Isolation, Isolated, SeesItsOwn
<1>3. CASE holder[a] # r
  <2>1. \A t \in batch[r] : Source[t] # a /\ Target[t] # a
    BY <1>1, <1>3 DEF Isolation, Isolated, KeepsLocks
  <2>2. SumFunctionOnSet(Effects(a), batch[r]) = 0
    BY <2>1, EffectsSum DEF TypeOK
  <2>3. balance'[a] = balance[a] /\ balance[a] \in Int
    BY <1>3 DEF Apply, TypeOK
  <2> QED  BY <2>2, <2>3
<1> QED  BY <1>2, <1>3

\* What the applied transactions have made of the balance of a.
Applied(a) == [t \in Txn |-> applied[t] * Effect(t, a)]

\* The invariant of the balances.
BalancesAddUp ==
    \A a \in Account : balance[a] = InitBalance[a] + SumFunctionOnSet(Applied(a), Txn)

\* A batch that is committed is in the sum of the applied transactions.
LEMMA SumTakesBatch ==
    ASSUME TypeOK, NEW r \in Run, Apply(r), NEW a \in Account
    PROVE  /\ SumFunctionOnSet(Applied(a), Txn) \in Int
           /\ SumFunctionOnSet(Applied(a)', Txn) =
                SumFunctionOnSet(Applied(a), Txn) + SumFunctionOnSet(Effects(a), batch[r])
<1> DEFINE part == [t \in Txn |-> IF t \in batch[r] THEN Effect(t, a) ELSE 0]
<1>1. IsFiniteSet(Txn) /\ batch[r] \in SUBSET Txn
  BY ConstantsAssumption DEF TypeOK
<1>2. ASSUME NEW t \in Txn
      PROVE  /\ Applied(a)[t] \in Int /\ part[t] \in Int
             /\ Applied(a)'[t] = Applied(a)[t] + part[t]
             /\ part[t] = IF t \in batch[r] THEN Effects(a)[t] ELSE 0
  <2>1. Effect(t, a) \in Int /\ Effects(a)[t] = Effect(t, a) /\ applied[t] \in Nat
    BY EffectType DEF TypeOK
  <2>2. /\ Applied(a)[t] = applied[t] * Effect(t, a)
        /\ Applied(a)'[t] = applied'[t] * Effect(t, a)
        /\ part[t] = IF t \in batch[r] THEN Effect(t, a) ELSE 0
    BY DEF Applied, Effect
  <2>3. applied'[t] = IF t \in batch[r] THEN applied[t] + 1 ELSE applied[t]
    BY DEF Apply
  <2>4. \A m \in Nat, e \in Int : m * e \in Int /\ (m + 1) * e = m * e + e
    OBVIOUS
  <2>5. /\ applied[t] * Effect(t, a) \in Int
        /\ (applied[t] + 1) * Effect(t, a) = applied[t] * Effect(t, a) + Effect(t, a)
    BY <2>1, <2>4
  <2> QED  BY <2>1, <2>2, <2>3, <2>5
<1> HIDE DEF part
<1>3. SumFunctionOnSet(part, Txn) = SumFunctionOnSet(Effects(a), batch[r])
  BY <1>1, <1>2, SumOfPart
<1>4. SumFunctionOnSet(Applied(a)', Txn) =
          SumFunctionOnSet(Applied(a), Txn) + SumFunctionOnSet(part, Txn)
  BY <1>1, <1>2, SumAdds
<1>5. SumFunctionOnSet(Applied(a), Txn) \in Int
  BY <1>1, <1>2, SumSplit
<1> QED  BY <1>3, <1>4, <1>5

\* Runs neither overwrite each other's updates nor read balances that are later
\* undone: row locks kept to the end of a batch make every balance what the
\* applied transactions make of the first, however runs overlap and fail.
THEOREM BalancesAreTheSum == Spec => []NoLostUpdate
<1> SUFFICES ASSUME \A t \in Txn : Source[t] # Target[t] PROVE Spec => []NoLostUpdate
  <2>1. ASSUME ~ \A t \in Txn : Source[t] # Target[t] PROVE NoLostUpdate
    BY <2>1 DEF NoLostUpdate
  <2>2. CASE ~ \A t \in Txn : Source[t] # Target[t]
    BY <2>1, <2>2, PTL
  <2> QED  BY <2>2
<1>1. Init => Isolation /\ BalancesAddUp
  <2> SUFFICES ASSUME Init PROVE Isolation /\ BalancesAddUp
    OBVIOUS
  <2>1. Isolation
    BY ConstantsAssumption DEF Init, Isolation, FreeRowsAreCommitted, Isolated, KeepsLocks,
                               SeesItsOwn, DebitIsFresh, InBatch
  <2>2. ASSUME NEW a \in Account PROVE balance[a] = InitBalance[a] + SumFunctionOnSet(Applied(a), Txn)
    <3>1. \A t \in Txn : Applied(a)[t] = IF t \in {} THEN Applied(a)[t] ELSE 0
      <4>1. \A e \in Int : 0 * e = 0
        OBVIOUS
      <4> QED  BY <4>1, EffectType DEF Applied, Init
    <3>2. SumFunctionOnSet(Applied(a), Txn) = SumFunctionOnSet(Applied(a), {})
      BY <3>1, SumOfPart, ConstantsAssumption
    <3>3. SumFunctionOnSet(Applied(a), {}) = 0
      BY <3>1, SumSplit, ConstantsAssumption
    <3> QED  BY <3>2, <3>3, ConstantsAssumption DEF Init
  <2> QED  BY <2>1, <2>2 DEF BalancesAddUp
<1>2. TypeOK /\ Isolation /\ BalancesAddUp /\ [Next]_vars => Isolation' /\ BalancesAddUp'
  <2> SUFFICES ASSUME TypeOK, Isolation, BalancesAddUp, [Next]_vars
               PROVE  Isolation' /\ BalancesAddUp'
    OBVIOUS
  <2>1. Isolation'
    BY IsolationStep
  <2>2. CASE UNCHANGED tableVars
    BY <2>1, <2>2 DEF tableVars, BalancesAddUp, Applied, Effect
  <2>3. ASSUME NEW r \in Run, pc[r] = "commit", Apply(r), NEW a \in Account
        PROVE  balance'[a] = InitBalance[a] + SumFunctionOnSet(Applied(a)', Txn)
    <3>1. balance[a] = InitBalance[a] + SumFunctionOnSet(Applied(a), Txn) /\ InitBalance[a] \in Int
      BY ConstantsAssumption DEF BalancesAddUp
    <3>2. SumFunctionOnSet(Effects(a), batch[r]) \in Int
      BY EffectsSum DEF TypeOK
    <3> QED  BY <2>3, <3>1, <3>2, ApplyAddsBatch, SumTakesBatch
  <2>4. UNCHANGED tableVars \/ \E r \in Run : pc[r] = "commit" /\ Apply(r)
    BY DEF Next, Work, Query, Take, Finish, LockSource, LockTarget, Commit,
           CommitReplyLost, StatementError, DeadlockError, Crash, Rollback, vars
  <2> QED  BY <2>1, <2>2, <2>3, <2>4 DEF BalancesAddUp
<1>3. Isolation /\ BalancesAddUp => NoLostUpdate
  BY DEF BalancesAddUp, Applied, NoLostUpdate, SumFunction
<1> QED  BY <1>1, <1>2, <1>3, TypeCorrect, PTL DEF Spec
=============================================================================
