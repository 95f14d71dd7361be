------------------------ MODULE ReconciliationProofs ------------------------
(***************************************************************************)
(* Proofs about Reconciliation, for every set of transactions, lines and   *)
(* runs: the type of the state, that a summary that says PASSED was written *)
(* by a run whose two sides are reconciled, that the reports are those of  *)
(* the summary, and that summaries get no older.                           *)
(***************************************************************************)
EXTENDS Reconciliation, TLAPS

\* The steps before _match_transactions has returned.
Before == {"start", "visa", "mastercard", "ach", "match"}

\* What a run found is what it loaded, compared.
FoundIsMatch ==
    \A r \in Run :
        \/ found[r] \in Match(internal[r], External(r))
        \/ found[r] = Nothing /\ pc[r] \in Before \cup {"error"}

\* The summary is that of a run that has ended and had compared what it loaded.
SummaryIsOfMatch ==
    summary # NoRun =>
        /\ pc[summary] \in Ended
        /\ found[summary] \in Match(internal[summary], External(summary))

\* Before it has compared anything, a run has found nothing.
StillBefore == \A r \in Run : pc[r] \in Before => found[r] = Nothing

IInv == TypeOK /\ StillBefore /\ FoundIsMatch /\ SummaryIsOfMatch

-----------------------------------------------------------------------------

\* What _match_transactions returns has the type of found.
LEMMA MatchType ==
    ASSUME NEW I \in SUBSET Txn, NEW E \in SUBSET Line, NEW f \in Match(I, E)
    PROVE  f \in Found
<1>1. CASE I = {} \/ E = {}
    BY <1>1 DEF Match, Nothing, Found
<1>2. CASE ~(I = {} \/ E = {})
    <2>1. PICK M \in Mismatches(Pairs(I, E)) :
              f = [left |-> LeftOnly(I, E), right |-> RightOnly(I, E),
                   pairs |-> Pairs(I, E), mismatched |-> M, merged |-> TRUE]
        BY <1>2 DEF Match
    <2>2. Pairs(I, E) \subseteq Txn \X Line
        BY DEF Pairs
    <2>3. M \subseteq Txn \X Line
        BY <2>2 DEF Mismatches
    <2>4. LeftOnly(I, E) \subseteq Txn /\ RightOnly(I, E) \subseteq Line
        BY DEF LeftOnly, RightOnly
    <2> QED
        BY <2>1, <2>2, <2>3, <2>4 DEF Found
<1> QED
    BY <1>1, <1>2

\* If nothing is left over on either side and no pair is reported, then the two
\* sides are reconciled, provided no code occurs twice on a side.
LEMMA PassedMatch ==
    ASSUME NEW I \in SUBSET Txn, NEW E \in SUBSET Line, NEW f \in Match(I, E),
           Status(f) = "PASSED", CodesDiffer(I), CodesDiffer(E)
    PROVE  Reconciled(I, E)
<1>1. Discrepancies(f) = {} /\ f.mismatched = {}
    BY DEF Status
<1>2. CASE I = {} \/ E = {}
    <2>1. f.left = I /\ f.right = E
        BY <1>2 DEF Match, Nothing
    <2>2. I = {} /\ E = {}
        BY <1>1, <2>1 DEF Discrepancies
    <2> QED
        BY <2>2 DEF Reconciled
<1>3. CASE ~(I = {} \/ E = {})
    <2>1. PICK M \in Mismatches(Pairs(I, E)) :
              f = [left |-> LeftOnly(I, E), right |-> RightOnly(I, E),
                   pairs |-> Pairs(I, E), mismatched |-> M, merged |-> TRUE]
        BY <1>3 DEF Match
    <2>2. LeftOnly(I, E) = {} /\ RightOnly(I, E) = {} /\ M = {}
        BY <1>1, <2>1 DEF Discrepancies
    <2>3. \A p \in Pairs(I, E) : Difference(p) \in -1 .. 1
        BY <2>2 DEF Mismatches
    <2>4. ASSUME NEW t \in I, NEW l \in E, Code[t] = Code[l]
          PROVE  Agree(t, l)
        <3>1. <<t, l>> \in Pairs(I, E)
            BY <2>4 DEF Pairs
        <3> QED
            BY <2>3, <2>4, <3>1 DEF Difference, Agree
    <2>5. ASSUME NEW t \in I
          PROVE  \E l \in E : Agree(t, l) /\ \A k \in E : Agree(t, k) => k = l
        <3>1. PICK l \in E : Code[t] = Code[l]
            BY <2>2 DEF LeftOnly
        <3>2. \A k \in E : Agree(t, k) => k = l
            BY <3>1 DEF Agree, CodesDiffer
        <3> QED
            BY <2>4, <3>1, <3>2
    <2>6. ASSUME NEW l \in E
          PROVE  \E t \in I : Agree(t, l) /\ \A u \in I : Agree(u, l) => u = t
        <3>1. PICK t \in I : Code[t] = Code[l]
            BY <2>2 DEF RightOnly
        <3>2. \A u \in I : Agree(u, l) => u = t
            BY <3>1 DEF Agree, CodesDiffer
        <3> QED
            BY <2>4, <3>1, <3>2
    <2> QED
        BY <2>5, <2>6 DEF Reconciled
<1> QED
    BY <1>2, <1>3

-----------------------------------------------------------------------------

\* Initially nothing is loaded and there is no summary.
LEMMA InitInv == Init => IInv
BY ConstantsAssumption
    DEF Init, IInv, TypeOK, StillBefore, FoundIsMatch, SummaryIsOfMatch, Before,
        Nothing, Found, Steps, Ended

\* A fault keeps the type of the history.
LEMMA FaultType ==
    ASSUME TypeOK, NEW kind, Fault(kind) \/ NoFault
    PROVE  faults' \in Nat /\ happened' \subseteq Faults \cup {"rerun", "overlap"}
BY DEF TypeOK, Fault, NoFault, faultVars

\* A step of one run to a next step that leaves what was loaded and found.
LEMMA MoveInv ==
    ASSUME IInv, NEW r \in Run, NEW next \in Steps, GoTo(r, next),
           pc[r] \notin Ended,
           next \in Before => pc[r] \in Before,
           pc[r] \in Before => next \in Before \cup {"error"},
           UNCHANGED <<internal, loaded, found, worldVars>>,
           summary' = summary \/ (summary' = r /\ next \in Ended /\ pc[r] \notin Before),
           alerted' \in SUBSET Run,
           reports' \in [{"discrepancies", "mismatches"} -> Run \cup {NoRun}],
           faults' \in Nat, happened' \subseteq Faults \cup {"rerun", "overlap"}
    PROVE  IInv'
<1>1. TypeOK'
    BY DEF IInv, TypeOK, GoTo, worldVars
<1>2. /\ pc' = [pc EXCEPT ![r] = next]
      /\ pc \in [Run -> Steps]
    BY DEF IInv, TypeOK, GoTo
<1>3. \A q \in Run : External(q)' = External(q)
    BY DEF External
<1>4. StillBefore'
    BY <1>2 DEF IInv, StillBefore
<1>5. FoundIsMatch'
    BY <1>2, <1>3 DEF IInv, FoundIsMatch, Before, Ended
<1>6. SummaryIsOfMatch'
    <2>1. CASE summary' = summary
        BY <1>2, <1>3, <2>1 DEF IInv, TypeOK, SummaryIsOfMatch
    <2>2. CASE summary' = r /\ next \in Ended /\ pc[r] \notin Before
        <3>1. found[r] \in Match(internal[r], External(r))
            BY <2>2 DEF IInv, FoundIsMatch, Ended
        <3> QED
            BY <1>2, <1>3, <2>2, <3>1 DEF SummaryIsOfMatch
    <2> QED
        BY <2>1, <2>2
<1> QED
    BY <1>1, <1>4, <1>5, <1>6 DEF IInv

\* A run that loads, before it has matched.
LEMMA LoadInv ==
    ASSUME IInv, NEW r \in Run, NEW next \in Before, GoTo(r, next),
           pc[r] \in Before,
           \A q \in Run : q # r => internal'[q] = internal[q] /\ loaded'[q] = loaded[q],
           internal' \in [Run -> SUBSET Txn], loaded' \in [Run -> SUBSET File],
           UNCHANGED <<found, worldVars, outputVars>>,
           faults' \in Nat, happened' \subseteq Faults \cup {"rerun", "overlap"}
    PROVE  IInv'
<1>1. TypeOK'
    BY DEF IInv, TypeOK, GoTo, worldVars, outputVars, Before, Steps
<1>2. /\ pc' = [pc EXCEPT ![r] = next]
      /\ pc \in [Run -> Steps]
      /\ summary' = summary
      /\ found' = found
    BY DEF IInv, TypeOK, GoTo, outputVars
<1>3. \A q \in Run : q # r => External(q)' = External(q)
    BY DEF External
<1>4. StillBefore'
    BY <1>2 DEF IInv, StillBefore
<1>5. FoundIsMatch'
    <2> SUFFICES ASSUME NEW q \in Run
                 PROVE  \/ found'[q] \in Match(internal'[q], External(q)')
                        \/ found'[q] = Nothing /\ pc'[q] \in Before \cup {"error"}
        BY DEF FoundIsMatch
    <2>1. CASE q = r
        BY <1>2, <2>1 DEF IInv, StillBefore
    <2>2. CASE q # r
        BY <1>2, <1>3, <2>2 DEF IInv, FoundIsMatch
    <2> QED
        BY <2>1, <2>2
<1>6. SummaryIsOfMatch'
    <2> SUFFICES ASSUME summary # NoRun
                 PROVE  /\ pc'[summary] \in Ended
                        /\ found'[summary] \in Match(internal'[summary], External(summary)')
        BY <1>2 DEF SummaryIsOfMatch
    <2>1. summary \in Run /\ pc[summary] \in Ended
        BY DEF IInv, TypeOK, SummaryIsOfMatch
    <2>2. summary # r
        BY <2>1 DEF Before, Ended
    <2> QED
        BY <1>2, <1>3, <2>1, <2>2 DEF IInv, SummaryIsOfMatch
<1> QED
    BY <1>1, <1>4, <1>5, <1>6 DEF IInv

\* An exception leaves what was loaded and found.
LEMMA RaiseInv ==
    ASSUME IInv, NEW r \in Run, Raise(r), pc[r] \notin Ended, UNCHANGED worldVars,
           faults' \in Nat, happened' \subseteq Faults \cup {"rerun", "overlap"}
    PROVE  IInv'
<1>1. /\ "error" \in Steps
      /\ "error" \notin Before
    BY DEF Steps, Ended, Before
<1>2. /\ GoTo(r, "error")
      /\ UNCHANGED <<internal, loaded, found>>
      /\ summary' = summary
      /\ alerted' \in SUBSET Run
      /\ reports' \in [{"discrepancies", "mismatches"} -> Run \cup {NoRun}]
    BY DEF Raise, outputVars, IInv, TypeOK
<1> QED
    BY <1>1, <1>2, MoveInv

\* _load_internal_ledger keeps the invariant.
LEMMA LoadInternalInv ==
    ASSUME IInv, NEW r \in Run, LoadInternal(r)
    PROVE  IInv'
<1>1. internal' \in [Run -> SUBSET Txn]
    BY DEF IInv, TypeOK, LoadInternal
<1>2. \A q \in Run : q # r => internal'[q] = internal[q] /\ loaded'[q] = loaded[q]
    BY DEF IInv, TypeOK, LoadInternal
<1>3. faults' \in Nat /\ happened' \subseteq Faults \cup {"rerun", "overlap"}
    BY DEF IInv, TypeOK, LoadInternal, NoteOthers
<1>4. loaded' \in [Run -> SUBSET File]
    BY DEF IInv, TypeOK, LoadInternal
<1>5. pc[r] \in Before /\ "visa" \in Before
    BY DEF LoadInternal, Before
<1> QED
    BY <1>1, <1>2, <1>3, <1>4, <1>5, LoadInv DEF LoadInternal

\* _load_..._settlement keeps the invariant.
LEMMA LoadFileInv ==
    ASSUME IInv, NEW r \in Run, LoadFile(r)
    PROVE  IInv'
<1>1. pc[r] \in Before /\ After(pc[r]) \in Before
    BY DEF LoadFile, File, After, Before
<1>2. loaded' \in [Run -> SUBSET File]
    BY DEF IInv, TypeOK, LoadFile
<1>3. \A q \in Run : q # r => internal'[q] = internal[q] /\ loaded'[q] = loaded[q]
    BY DEF IInv, TypeOK, LoadFile
<1>4. internal' \in [Run -> SUBSET Txn]
    BY DEF IInv, TypeOK, LoadFile
<1>5. faults' \in Nat /\ happened' \subseteq Faults \cup {"rerun", "overlap"}
    BY FaultType DEF IInv, LoadFile
<1> QED
    BY <1>1, <1>2, <1>3, <1>4, <1>5, LoadInv DEF LoadFile

\* _match_transactions keeps the invariant.
LEMMA MatchInv ==
    ASSUME IInv, NEW r \in Run, MatchTransactions(r)
    PROVE  IInv'
<1>1. faults' \in Nat /\ happened' \subseteq Faults \cup {"rerun", "overlap"}
    BY FaultType DEF IInv, MatchTransactions
<1>2. pc[r] = "match" /\ pc[r] \notin Ended /\ UNCHANGED worldVars
    BY DEF MatchTransactions, Ended
<1>3. CASE Raise(r)
    BY <1>1, <1>2, <1>3, RaiseInv
<1>4. CASE ~Raise(r)
    <2>1. PICK f \in Match(internal[r], External(r)) :
              /\ found' = [found EXCEPT ![r] = f]
              /\ GoTo(r, IF Status(f) = "PASSED" THEN "summary" ELSE "alert")
        BY <1>4 DEF MatchTransactions
    <2>2. UNCHANGED <<internal, loaded, outputVars>>
        BY <1>4 DEF MatchTransactions
    <2>3. internal[r] \in SUBSET Txn /\ External(r) \in SUBSET Line
        BY DEF IInv, TypeOK, External
    <2>4. f \in Found
        BY <2>1, <2>3, MatchType
    <2>5. PICK next \in {"summary", "alert"} : pc' = [pc EXCEPT ![r] = next]
        BY <2>1 DEF GoTo
    <2>6. TypeOK'
        BY <1>1, <1>2, <2>1, <2>2, <2>4, <2>5
            DEF IInv, TypeOK, worldVars, outputVars, Steps
    <2>7. \A q \in Run : External(q)' = External(q)
        BY <2>2 DEF External
    <2>8. pc \in [Run -> Steps] /\ found \in [Run -> Found]
        BY DEF IInv, TypeOK
    <2>9. StillBefore'
        BY <2>1, <2>5, <2>8 DEF IInv, StillBefore, Before
    <2>10. FoundIsMatch'
        BY <2>1, <2>2, <2>5, <2>7, <2>8 DEF IInv, FoundIsMatch
    <2>11. SummaryIsOfMatch'
        <3>1. summary' = summary /\ internal' = internal
            BY <2>2 DEF outputVars
        <3>2. summary # NoRun => summary \in Run /\ summary # r
            BY <1>2 DEF IInv, TypeOK, SummaryIsOfMatch
        <3> QED
            BY <2>1, <2>5, <2>7, <2>8, <3>1, <3>2 DEF IInv, SummaryIsOfMatch
    <2> QED
        BY <2>6, <2>9, <2>10, <2>11 DEF IInv
<1> QED
    BY <1>3, <1>4

\* _alert_finance_team keeps the invariant.
LEMMA AlertInv ==
    ASSUME IInv, NEW r \in Run, AlertFinanceTeam(r)
    PROVE  IInv'
<1>1. faults' \in Nat /\ happened' \subseteq Faults \cup {"rerun", "overlap"}
    BY FaultType DEF IInv, AlertFinanceTeam
<1>2. pc[r] = "alert" /\ pc[r] \notin Ended /\ pc[r] \notin Before /\ UNCHANGED worldVars
    BY DEF AlertFinanceTeam, Ended, Before
<1>3. CASE Raise(r)
    BY <1>1, <1>2, <1>3, RaiseInv
<1>4. CASE ~Raise(r)
    <2>1. /\ GoTo(r, "discrepancies")
          /\ alerted' \in SUBSET Run
          /\ UNCHANGED <<internal, loaded, found>>
          /\ summary' = summary
          /\ reports' \in [{"discrepancies", "mismatches"} -> Run \cup {NoRun}]
        BY <1>4 DEF AlertFinanceTeam, IInv, TypeOK
    <2>2. "discrepancies" \in Steps /\ "discrepancies" \notin Before
        BY DEF Steps, Before
    <2> QED
        BY <1>1, <1>2, <2>1, <2>2, MoveInv
<1> QED
    BY <1>3, <1>4

\* Writing a report keeps the invariant.
LEMMA WriteReportInv ==
    ASSUME IInv, NEW r \in Run, NEW report \in {"discrepancies", "mismatches"},
           NEW table, NEW next \in {"mismatches", "summary"},
           WriteReport(r, report, table, next)
    PROVE  IInv'
<1>1. faults' \in Nat /\ happened' \subseteq Faults \cup {"rerun", "overlap"}
    BY FaultType DEF IInv, WriteReport
<1>2. pc[r] = report /\ pc[r] \notin Ended /\ pc[r] \notin Before /\ UNCHANGED worldVars
    BY DEF WriteReport, Ended, Before
<1>3. CASE Raise(r)
    BY <1>1, <1>2, <1>3, RaiseInv
<1>4. CASE ~Raise(r)
    <2>1. /\ GoTo(r, next)
          /\ alerted' \in SUBSET Run
          /\ UNCHANGED <<internal, loaded, found>>
          /\ summary' = summary
          /\ reports' \in [{"discrepancies", "mismatches"} -> Run \cup {NoRun}]
        BY <1>4 DEF WriteReport, IInv, TypeOK
    <2>2. next \in Steps /\ next \notin Before
        BY DEF Steps, Before
    <2> QED
        BY <1>1, <1>2, <2>1, <2>2, MoveInv
<1> QED
    BY <1>3, <1>4

\* _write_summary keeps the invariant.
LEMMA WriteSummaryInv ==
    ASSUME IInv, NEW r \in Run, WriteSummary(r)
    PROVE  IInv'
<1>1. faults' \in Nat /\ happened' \subseteq Faults \cup {"rerun", "overlap"}
    BY FaultType DEF IInv, WriteSummary
<1>2. pc[r] = "summary" /\ pc[r] \notin Ended /\ pc[r] \notin Before /\ UNCHANGED worldVars
    BY DEF WriteSummary, Ended, Before
<1>3. CASE Raise(r)
    BY <1>1, <1>2, <1>3, RaiseInv
<1>4. CASE ~Raise(r)
    <2>1. PICK next \in Ended : GoTo(r, next)
        BY <1>4 DEF WriteSummary, Ended
    <2>2. /\ alerted' \in SUBSET Run
          /\ UNCHANGED <<internal, loaded, found>>
          /\ summary' = r
          /\ reports' \in [{"discrepancies", "mismatches"} -> Run \cup {NoRun}]
        BY <1>4 DEF WriteSummary, IInv, TypeOK
    <2>3. next \in Steps /\ next \notin Before
        BY DEF Steps, Before, Ended
    <2> QED
        BY <1>1, <1>2, <2>1, <2>2, <2>3, MoveInv
<1> QED
    BY <1>3, <1>4

\* Every step keeps the invariant.
LEMMA StepInv == IInv /\ [Next]_vars => IInv'
<1> SUFFICES ASSUME IInv, [Next]_vars
             PROVE  IInv'
    OBVIOUS
<1>1. ASSUME NEW t \in Txn, Settle(t)
      PROVE  IInv'
    BY <1>1 DEF Settle, IInv, TypeOK, StillBefore, FoundIsMatch, SummaryIsOfMatch,
        External, runVars, outputVars, faultVars
<1>2. ASSUME NEW file \in File, Arrive(file)
      PROVE  IInv'
    BY <1>2 DEF Arrive, IInv, TypeOK, StillBefore, FoundIsMatch, SummaryIsOfMatch,
        External, runVars, outputVars, faultVars
<1>3. ASSUME NEW r \in Run, WriteReports(r)
      PROVE  IInv'
    BY <1>3, WriteReportInv DEF WriteReports
<1>4. ASSUME NEW r \in Run, LoadInternalError(r) \/ Crash(r)
      PROVE  IInv'
    <2>1. Raise(r) /\ pc[r] \notin Ended /\ UNCHANGED worldVars
        BY <1>4 DEF LoadInternalError, Crash, Running, Ended
    <2>2. faults' \in Nat /\ happened' \subseteq Faults \cup {"rerun", "overlap"}
        BY <1>4, FaultType DEF IInv, LoadInternalError, Crash
    <2> QED
        BY <2>1, <2>2, RaiseInv
<1>5. CASE UNCHANGED vars
    BY <1>5 DEF IInv, TypeOK, StillBefore, FoundIsMatch, SummaryIsOfMatch, External,
        vars, worldVars, runVars, outputVars, faultVars
<1> QED
    BY <1>1, <1>2, <1>3, <1>4, <1>5, LoadInternalInv, LoadFileInv, MatchInv, AlertInv,
        WriteSummaryInv DEF Next, Work

-----------------------------------------------------------------------------

\* The invariant is true of every behaviour.
LEMMA InvariantHolds == Spec => []IInv
BY InitInv, StepInv, PTL DEF Spec

\* The state has its type.
THEOREM TypeCorrect == Spec => []TypeOK
<1>1. IInv => TypeOK
    BY DEF IInv
<1> QED
    BY <1>1, InvariantHolds, PTL

\* When the summary of the day says PASSED, what its run had loaded from the
\* database and from the files is reconciled, line by line.
THEOREM PassedReconciled == Spec => []PassedIsReconciled
<1>1. IInv => PassedIsReconciled
    <2> SUFFICES ASSUME IInv, summary # NoRun, Status(found[summary]) = "PASSED",
                        CodesDiffer(internal[summary]), CodesDiffer(External(summary))
                 PROVE  Reconciled(internal[summary], External(summary))
        BY DEF PassedIsReconciled
    <2>1. summary \in Run
        BY DEF IInv, TypeOK
    <2>2. internal[summary] \in SUBSET Txn /\ External(summary) \in SUBSET Line
        BY <2>1 DEF IInv, TypeOK, External
    <2>3. found[summary] \in Match(internal[summary], External(summary))
        BY DEF IInv, SummaryIsOfMatch
    <2> QED
        BY <2>2, <2>3, PassedMatch
<1> QED
    BY <1>1, InvariantHolds, PTL

-----------------------------------------------------------------------------
\* The reports of the summary, and the order of the summaries.

\* r has written nothing yet.
Quiet(r) == r \notin alerted /\ \A d \in {"discrepancies", "mismatches"} : reports[d] # r

HasReport(r, d, table) == reports[d] = r <=> table # {}

\* r has written all that its summary will stand for.
Complete(r) ==
    /\ Status(found[r]) = "FAILED" => r \in alerted
    /\ HasReport(r, "discrepancies", Discrepancies(found[r]))
    /\ HasReport(r, "mismatches", found[r].mismatched)

\* How far r has got with its writing.
Writing(r) ==
    /\ pc[r] \in Before \cup {"alert"} => Quiet(r)
    /\ pc[r] = "discrepancies" =>
          r \in alerted /\ \A d \in {"discrepancies", "mismatches"} : reports[d] # r
    /\ pc[r] = "mismatches" =>
          /\ r \in alerted /\ reports["mismatches"] # r
          /\ HasReport(r, "discrepancies", Discrepancies(found[r]))
    /\ pc[r] = "summary" \/ summary = r => Complete(r)

\* r has written nothing, and writes nothing unless it starts.
Idle(r) == pc[r] \in {"start", "error"} /\ Quiet(r) /\ summary # r

\* What SummaryHasItsReports needs: one run at most writes, in order.
OneWrites == \A r, q \in Run : r = q \/ Idle(r) \/ Idle(q)

OneWritesInOrder == OneWrites /\ \A r \in Run : Writing(r)

OneWritesUntilRerun == "rerun" \notin happened => OneWritesInOrder

\* What SummaryGetsFresher needs: the run under way, if it is the only one, has
\* loaded what the run of the summary had, since transactions stay settled.
NoOlderUnderway ==
    /\ \A r, q \in Run : Running(r) /\ Running(q) => r = q
    /\ summary # NoRun => \A r \in Run : Running(r) => internal[summary] \subseteq internal[r]

OnlySettledLoaded == \A r \in Run : internal[r] \subseteq settled

FresherUntilOverlap == OnlySettledLoaded /\ ("overlap" \notin happened => NoOlderUnderway)

\* What has happened is not forgotten.
LEMMA HappenedGrows == [Next]_vars => happened \subseteq happened'
BY DEF Next, Settle, Arrive, Work, LoadInternal, NoteOthers, LoadFile, MatchTransactions,
       AlertFinanceTeam, WriteReports, WriteReport, WriteSummary, LoadInternalError, Crash,
       Fault, NoFault, faultVars, vars

\* The run of the summary is not at work.
LEMMA SummaryHasEnded ==
    ASSUME IInv, NEW r \in Run, pc[r] \notin Ended
    PROVE  summary # r
BY ConstantsAssumption DEF IInv, SummaryIsOfMatch

\* A run at "start" is idle.
LEMMA StartIsIdle ==
    ASSUME IInv, NEW r \in Run, Writing(r), pc[r] = "start"
    PROVE  Idle(r)
BY SummaryHasEnded DEF Writing, Idle, Before, Ended

\* An idle run that is left alone stays idle, and writes in order.
LEMMA IdleFrame ==
    ASSUME NEW q \in Run, Idle(q), pc'[q] \in {"start", "error"},
           q \in alerted' => q \in alerted, summary' = q => summary = q,
           \A d \in {"discrepancies", "mismatches"} : reports'[d] = q => reports[d] = q
    PROVE  Idle(q)' /\ Writing(q)'
<1>1. Quiet(q)' /\ summary' # q
    BY DEF Idle, Quiet
<1>2. Idle(q)'
    BY <1>1 DEF Idle
<1>3. Writing(q)'
    BY <1>1 DEF Writing
<1> QED
    BY <1>2, <1>3

\* The run that writes takes a step: the others are idle.
LEMMA WriterStep ==
    ASSUME IInv, OneWritesInOrder, NEW r \in Run, pc[r] \notin {"start", "error"},
           NEW next \in Steps, GoTo(r, next), alerted' \subseteq alerted \cup {r},
           \A d \in {"discrepancies", "mismatches"} : reports'[d] \in {reports[d], r},
           summary' \in {summary, r}, Writing(r)'
    PROVE  OneWritesInOrder'
<1>1. ASSUME NEW q \in Run, q # r PROVE Idle(q)' /\ Writing(q)'
    <2>1. Idle(q)
        BY <1>1 DEF OneWritesInOrder, OneWrites, Idle
    <2>2. pc'[q] \in {"start", "error"}
        BY <1>1, <2>1 DEF Idle, GoTo, IInv, TypeOK
    <2> QED
        BY <1>1, <2>1, <2>2, IdleFrame
<1> QED
    BY <1>1 DEF OneWritesInOrder, OneWrites

\* An exception writes nothing.
LEMMA RaiseWrites ==
    ASSUME IInv, OneWritesInOrder, NEW r \in Run, Raise(r), pc[r] \notin Ended
    PROVE  OneWritesInOrder'
<1>1. /\ pc' = [pc EXCEPT ![r] = "error"] /\ pc \in [Run -> Steps]
      /\ UNCHANGED <<found, alerted, reports, summary>> /\ summary # r
    BY SummaryHasEnded DEF Raise, GoTo, outputVars, IInv, TypeOK
<1>2. \A q \in Run : Idle(q) => Idle(q)'
    BY <1>1 DEF Idle, Quiet
<1>3. ASSUME NEW q \in Run PROVE Writing(q)'
    <2>1. CASE q = r
        BY <1>1, <2>1 DEF Writing, Before
    <2>2. CASE q # r
        BY <1>1, <2>2 DEF OneWritesInOrder, Writing, Quiet, HasReport, Complete
    <2> QED
        BY <2>1, <2>2
<1> QED
    BY <1>2, <1>3 DEF OneWritesInOrder, OneWrites

\* A step that leaves every run and its output alone.
LEMMA NothingWritten ==
    ASSUME OneWritesInOrder, UNCHANGED <<pc, found, alerted, reports, summary>>
    PROVE  OneWritesInOrder'
BY DEF OneWritesInOrder, OneWrites, Idle, Writing, Quiet, HasReport, Complete

\* _load_internal_ledger, by the first run.
LEMMA LoadInternalWrites ==
    ASSUME IInv, OneWritesInOrder, NEW r \in Run, LoadInternal(r), "rerun" \notin happened'
    PROVE  OneWritesInOrder'
<1>1. /\ pc[r] = "start" /\ pc' = [pc EXCEPT ![r] = "visa"] /\ pc \in [Run -> Steps]
      /\ UNCHANGED <<found, alerted, reports, summary>>
      /\ \A q \in Run \ {r} : pc[q] = "start"
    BY DEF LoadInternal, NoteOthers, GoTo, outputVars, IInv, TypeOK
<1>2. \A q \in Run : Idle(q)
    BY <1>1, StartIsIdle DEF OneWritesInOrder
<1>3. ASSUME NEW q \in Run, q # r PROVE Idle(q)' /\ Writing(q)'
    BY <1>1, <1>2, <1>3, IdleFrame
<1>4. Writing(r)'
    BY <1>1, <1>2 DEF Idle, Writing, Quiet, Before
<1> QED
    BY <1>3, <1>4 DEF OneWritesInOrder, OneWrites

\* _load_..._settlement writes nothing.
LEMMA LoadFileWrites ==
    ASSUME IInv, OneWritesInOrder, NEW r \in Run, LoadFile(r)
    PROVE  OneWritesInOrder'
<1>1. /\ pc[r] \in File /\ GoTo(r, After(pc[r])) /\ After(pc[r]) \in Steps
      /\ UNCHANGED <<found, alerted, reports, summary>>
      /\ pc'[r] \in Before /\ pc[r] \in Before /\ summary # r
    BY SummaryHasEnded
        DEF LoadFile, File, After, Steps, Before, GoTo, outputVars, IInv, TypeOK, Ended
<1>2. Writing(r)'
    BY <1>1 DEF OneWritesInOrder, Writing, Quiet, Before
<1> QED
    BY <1>1, <1>2, WriterStep DEF File

\* _match_transactions writes nothing, and finds nothing to write if it passes.
LEMMA MatchWrites ==
    ASSUME IInv, OneWritesInOrder, NEW r \in Run, MatchTransactions(r)
    PROVE  OneWritesInOrder'
<1>1. pc[r] = "match" /\ pc[r] \notin Ended /\ summary # r
    BY SummaryHasEnded DEF MatchTransactions, Ended
<1>2. CASE Raise(r)
    BY <1>1, <1>2, RaiseWrites
<1>3. CASE ~Raise(r)
    <2>1. PICK f \in Match(internal[r], External(r)) :
              /\ found' = [found EXCEPT ![r] = f]
              /\ GoTo(r, IF Status(f) = "PASSED" THEN "summary" ELSE "alert")
        BY <1>3 DEF MatchTransactions
    <2>2. UNCHANGED <<alerted, reports, summary>>
        BY <1>3 DEF MatchTransactions, outputVars
    <2>3. found'[r] = f /\ Quiet(r)
        BY <1>1, <2>1 DEF IInv, TypeOK, OneWritesInOrder, Writing, Before
    <2>4. CASE Status(f) = "PASSED"
        <3>1. GoTo(r, "summary") /\ pc'[r] = "summary" /\ "summary" \in Steps
            BY <2>1, <2>4 DEF GoTo, IInv, TypeOK, Steps
        <3>2. Discrepancies(f) = {} /\ f.mismatched = {}
            BY <2>4 DEF Status
        <3>3. Complete(r)'
            BY <2>2, <2>3, <2>4, <3>2 DEF Complete, HasReport, Quiet
        <3>4. Writing(r)'
            BY <3>1, <3>3 DEF Writing, Before
        <3> QED
            BY <1>1, <2>2, <3>1, <3>4, WriterStep
    <2>5. CASE Status(f) # "PASSED"
        <3>1. GoTo(r, "alert") /\ pc'[r] = "alert" /\ "alert" \in Steps
            BY <2>1, <2>5 DEF GoTo, IInv, TypeOK, Steps
        <3>2. Writing(r)'
            BY <1>1, <2>2, <2>3, <3>1 DEF Writing, Quiet
        <3> QED
            BY <1>1, <2>2, <3>1, <3>2, WriterStep
    <2> QED
        BY <2>4, <2>5
<1> QED
    BY <1>2, <1>3

\* _alert_finance_team comes before the reports.
LEMMA AlertWrites ==
    ASSUME IInv, OneWritesInOrder, NEW r \in Run, AlertFinanceTeam(r)
    PROVE  OneWritesInOrder'
<1>1. pc[r] = "alert" /\ pc[r] \notin Ended /\ summary # r
    BY SummaryHasEnded DEF AlertFinanceTeam, Ended
<1>2. CASE Raise(r)
    BY <1>1, <1>2, RaiseWrites
<1>3. CASE ~Raise(r)
    <2>1. /\ GoTo(r, "discrepancies") /\ pc'[r] = "discrepancies" /\ "discrepancies" \in Steps
          /\ alerted' = alerted \cup {r} /\ UNCHANGED <<found, reports, summary>>
        BY <1>3 DEF AlertFinanceTeam, GoTo, IInv, TypeOK, Steps
    <2>2. Writing(r)'
        BY <1>1, <2>1 DEF OneWritesInOrder, Writing, Quiet, Before
    <2> QED
        BY <1>1, <2>1, <2>2, WriterStep
<1> QED
    BY <1>2, <1>3

\* The two reports, one after the other.
LEMMA ReportsWrite ==
    ASSUME IInv, OneWritesInOrder, NEW r \in Run, WriteReports(r)
    PROVE  OneWritesInOrder'
<1> DEFINE D == Discrepancies(found[r])
           M == found[r].mismatched
<1>0. /\ pc[r] \in {"discrepancies", "mismatches"} /\ pc[r] \notin Ended /\ summary # r
      /\ Writing(r)
    BY SummaryHasEnded DEF WriteReports, WriteReport, Ended, OneWritesInOrder
<1>1. CASE Raise(r)
    BY <1>0, <1>1, RaiseWrites
<1>2. ASSUME ~Raise(r), WriteReport(r, "discrepancies", D, "mismatches")
      PROVE  OneWritesInOrder'
    <2>1. /\ GoTo(r, "mismatches") /\ pc'[r] = "mismatches" /\ "mismatches" \in Steps
          /\ pc[r] = "discrepancies" /\ UNCHANGED <<found, alerted, summary>>
          /\ reports' = IF D = {} THEN reports ELSE [reports EXCEPT !["discrepancies"] = r]
        BY <1>2 DEF WriteReport, GoTo, IInv, TypeOK, Steps
    <2>2. /\ reports'["mismatches"] = reports["mismatches"]
          /\ reports'["discrepancies"] = IF D = {} THEN reports["discrepancies"] ELSE r
        BY <2>1 DEF IInv, TypeOK
    <2>3. Writing(r)'
        BY <1>0, <2>1, <2>2 DEF Writing, HasReport, Before
    <2> QED
        BY <1>0, <2>1, <2>2, <2>3, WriterStep
<1>3. ASSUME ~Raise(r), WriteReport(r, "mismatches", M, "summary")
      PROVE  OneWritesInOrder'
    <2>1. /\ GoTo(r, "summary") /\ pc'[r] = "summary" /\ "summary" \in Steps
          /\ pc[r] = "mismatches" /\ UNCHANGED <<found, alerted, summary>>
          /\ reports' = IF M = {} THEN reports ELSE [reports EXCEPT !["mismatches"] = r]
        BY <1>3 DEF WriteReport, GoTo, IInv, TypeOK, Steps
    <2>2. /\ reports'["discrepancies"] = reports["discrepancies"]
          /\ reports'["mismatches"] = IF M = {} THEN reports["mismatches"] ELSE r
        BY <2>1 DEF IInv, TypeOK
    <2>3. Complete(r)'
        BY <1>0, <2>1, <2>2 DEF Writing, Complete, HasReport
    <2>4. Writing(r)'
        BY <2>1, <2>3 DEF Writing, Before
    <2> QED
        BY <1>0, <2>1, <2>2, <2>4, WriterStep
<1> QED
    BY <1>1, <1>2, <1>3 DEF WriteReports

\* _write_summary comes last.
LEMMA SummaryWrites ==
    ASSUME IInv, OneWritesInOrder, NEW r \in Run, WriteSummary(r)
    PROVE  OneWritesInOrder'
<1>1. pc[r] = "summary" /\ pc[r] \notin Ended /\ Complete(r)
    BY DEF WriteSummary, Ended, OneWritesInOrder, Writing
<1>2. CASE Raise(r)
    BY <1>1, <1>2, RaiseWrites
<1>3. CASE ~Raise(r)
    <2>1. PICK next \in Ended : GoTo(r, next)
        BY <1>3 DEF WriteSummary, Ended
    <2>2. summary' = r /\ UNCHANGED <<found, alerted, reports>> /\ next \in Steps
        BY <1>3 DEF WriteSummary, Steps
    <2>3. pc'[r] \in Ended
        BY <2>1 DEF GoTo, IInv, TypeOK
    <2>4. Complete(r)'
        BY <1>1, <2>2 DEF Complete, HasReport
    <2>5. Writing(r)'
        BY <2>3, <2>4 DEF Writing, Before, Ended
    <2> QED
        BY <1>1, <2>1, <2>2, <2>5, WriterStep
<1> QED
    BY <1>2, <1>3

\* Until the day is run again, the summary says what is on S3 and what the
\* finance team has been told, whatever fails between its writes.
THEOREM ReportsOfSummary == Spec => []SummaryHasItsReports
<1>1. Init => OneWritesUntilRerun
    BY ConstantsAssumption
        DEF Init, OneWritesUntilRerun, OneWritesInOrder, OneWrites, Writing, Idle, Quiet, Before
<1>2. IInv /\ OneWritesUntilRerun /\ [Next]_vars => OneWritesUntilRerun'
    <2> SUFFICES ASSUME IInv, OneWritesInOrder, [Next]_vars, "rerun" \notin happened'
                 PROVE  OneWritesInOrder'
        BY HappenedGrows DEF OneWritesUntilRerun
    <2>1. ASSUME NEW t \in Txn, Settle(t) PROVE OneWritesInOrder'
        BY <2>1, NothingWritten DEF Settle, runVars, outputVars
    <2>2. ASSUME NEW file \in File, Arrive(file) PROVE OneWritesInOrder'
        BY <2>2, NothingWritten DEF Arrive, runVars, outputVars
    <2>3. ASSUME NEW r \in Run, LoadInternalError(r) \/ Crash(r) PROVE OneWritesInOrder'
        BY <2>3, RaiseWrites DEF LoadInternalError, Crash, Running, Ended
    <2>4. ASSUME NEW r \in Run, Work(r) PROVE OneWritesInOrder'
        BY <2>4, LoadInternalWrites, LoadFileWrites, MatchWrites, AlertWrites, ReportsWrite,
            SummaryWrites DEF Work
    <2>5. CASE UNCHANGED vars
        BY <2>5, NothingWritten DEF vars, runVars, outputVars
    <2> QED
        BY <2>1, <2>2, <2>3, <2>4, <2>5 DEF Next
<1>3. IInv /\ OneWritesUntilRerun => SummaryHasItsReports
    <2> SUFFICES ASSUME IInv, OneWritesInOrder, summary # NoRun
                 PROVE  LET f == found[summary]
                        IN  /\ Status(f) = "FAILED" => summary \in alerted
                            /\ reports["discrepancies"] =
                                  IF Discrepancies(f) = {} THEN NoRun ELSE summary
                            /\ reports["mismatches"] = IF f.mismatched = {} THEN NoRun ELSE summary
        BY DEF OneWritesUntilRerun, SummaryHasItsReports
    <2>1. summary \in Run /\ Complete(summary)
        BY DEF IInv, TypeOK, OneWritesInOrder, Writing
    <2>2. ASSUME NEW d \in {"discrepancies", "mismatches"} PROVE reports[d] \in {summary, NoRun}
        <3>1. ASSUME NEW q \in Run, q # summary PROVE reports[d] # q
            BY <2>1, <3>1 DEF OneWritesInOrder, OneWrites, Idle, Quiet
        <3> QED
            BY <3>1 DEF IInv, TypeOK
    <2> QED
        BY <2>1, <2>2 DEF Complete, HasReport
<1> QED
    BY <1>1, <1>2, <1>3, InvariantHolds, PTL DEF Spec

\* A later summary of the day is not of an earlier state of the table, as long
\* as no two runs are under way at once.
THEOREM SummariesGetFresher == Spec => SummaryGetsFresher
<1>1. Init => FresherUntilOverlap
    BY DEF Init, FresherUntilOverlap, OnlySettledLoaded, NoOlderUnderway, Running
<1>2. IInv /\ FresherUntilOverlap /\ [Next]_vars => FresherUntilOverlap'
    <2> SUFFICES ASSUME IInv, FresherUntilOverlap, [Next]_vars PROVE FresherUntilOverlap'
        OBVIOUS
    <2>1. happened \subseteq happened'
        BY HappenedGrows
    <2>2. ASSUME settled \subseteq settled', UNCHANGED <<internal, summary, pc>>
          PROVE  FresherUntilOverlap'
        BY <2>1, <2>2 DEF FresherUntilOverlap, OnlySettledLoaded, NoOlderUnderway, Running
    <2>3. ASSUME NEW r \in Run, pc[r] # "start" \/ pc'[r] = "error", pc[r] \notin Ended,
                 NEW next, GoTo(r, next), UNCHANGED <<settled, internal>>,
                 summary' = summary \/ (summary' = r /\ next \in Ended /\ pc[r] # "start")
          PROVE  FresherUntilOverlap'
        <3>1. pc' = [pc EXCEPT ![r] = next] /\ pc \in [Run -> Steps]
            BY <2>3 DEF GoTo, IInv, TypeOK
        <3>2. \A q \in Run : Running(q)' => Running(q)
            BY <2>3, <3>1 DEF Running, Ended
        <3>3. OnlySettledLoaded'
            BY <2>3 DEF FresherUntilOverlap, OnlySettledLoaded
        <3>4. ASSUME NoOlderUnderway PROVE NoOlderUnderway'
            <4>1. CASE summary' = summary
                BY <2>3, <3>2, <3>4, <4>1 DEF NoOlderUnderway
            <4>2. CASE summary' = r /\ next \in Ended /\ pc[r] # "start"
                <5>1. Running(r) /\ ~Running(r)'
                    BY <2>3, <3>1, <4>2 DEF Running
                <5>2. \A q \in Run : ~Running(q)'
                    BY <3>2, <3>4, <5>1 DEF NoOlderUnderway
                <5> QED
                    BY <5>2 DEF NoOlderUnderway
            <4> QED
                BY <2>3, <4>1, <4>2
        <3> QED
            BY <2>1, <3>3, <3>4 DEF FresherUntilOverlap
    <2>4. ASSUME NEW t \in Txn, Settle(t) PROVE FresherUntilOverlap'
        BY <2>2, <2>4 DEF Settle, runVars, outputVars
    <2>5. ASSUME NEW file \in File, Arrive(file) PROVE FresherUntilOverlap'
        BY <2>2, <2>5 DEF Arrive, runVars, outputVars
    <2>6. ASSUME NEW r \in Run, Raise(r), pc[r] \notin Ended, UNCHANGED worldVars
          PROVE  FresherUntilOverlap'
        <3>1. pc'[r] = "error"
            BY <2>6 DEF Raise, GoTo, IInv, TypeOK
        <3> QED
            BY <2>3, <2>6, <3>1 DEF Raise, worldVars, outputVars
    <2>7. ASSUME NEW r \in Run, LoadInternal(r) PROVE FresherUntilOverlap'
        <3>1. /\ pc[r] = "start" /\ pc' = [pc EXCEPT ![r] = "visa"]
              /\ internal' = [internal EXCEPT ![r] = settled]
              /\ pc \in [Run -> Steps] /\ internal \in [Run -> SUBSET Txn]
              /\ summary' = summary /\ settled' = settled /\ summary # r
            BY <2>7, SummaryHasEnded
                DEF LoadInternal, GoTo, worldVars, outputVars, IInv, TypeOK, Ended
        <3>2. OnlySettledLoaded'
            BY <3>1 DEF FresherUntilOverlap, OnlySettledLoaded
        <3>3. ASSUME "overlap" \notin happened' PROVE NoOlderUnderway'
            <4>1. \A q \in Run \ {r} : ~Running(q)
                BY <2>7, <3>3 DEF LoadInternal, NoteOthers
            <4>2. \A q \in Run : Running(q)' => q = r
                BY <3>1, <4>1 DEF Running
            <4>3. summary # NoRun => internal'[summary] \subseteq settled
                BY <3>1 DEF IInv, TypeOK, FresherUntilOverlap, OnlySettledLoaded
            <4> QED
                BY <3>1, <4>2, <4>3 DEF NoOlderUnderway
        <3> QED
            BY <3>2, <3>3 DEF FresherUntilOverlap
    <2>8. ASSUME NEW r \in Run, LoadFile(r) PROVE FresherUntilOverlap'
        BY <2>3, <2>8 DEF LoadFile, File, Ended, worldVars, outputVars
    <2>9. ASSUME NEW r \in Run, MatchTransactions(r) PROVE FresherUntilOverlap'
        BY <2>3, <2>6, <2>9 DEF MatchTransactions, Ended, worldVars, outputVars
    <2>10. ASSUME NEW r \in Run, AlertFinanceTeam(r) PROVE FresherUntilOverlap'
        BY <2>3, <2>6, <2>10 DEF AlertFinanceTeam, Ended, worldVars
    <2>11. ASSUME NEW r \in Run, WriteReports(r) PROVE FresherUntilOverlap'
        BY <2>3, <2>6, <2>11 DEF WriteReports, WriteReport, Ended, worldVars
    <2>12. ASSUME NEW r \in Run, WriteSummary(r) PROVE FresherUntilOverlap'
        BY <2>3, <2>6, <2>12 DEF WriteSummary, Ended, worldVars
    <2>13. ASSUME NEW r \in Run, LoadInternalError(r) \/ Crash(r) PROVE FresherUntilOverlap'
        BY <2>6, <2>13 DEF LoadInternalError, Crash, Running, Ended
    <2>14. CASE UNCHANGED vars
        BY <2>2, <2>14 DEF vars, worldVars, runVars, outputVars
    <2> QED
        BY <2>4, <2>5, <2>7, <2>8, <2>9, <2>10, <2>11, <2>12, <2>13, <2>14 DEF Next, Work
<1>3. IInv /\ FresherUntilOverlap /\ [Next]_vars
         => (summary # NoRun /\ "overlap" \notin happened
                => internal[summary] \subseteq internal'[summary'])
    <2> SUFFICES ASSUME IInv, FresherUntilOverlap, [Next]_vars, summary # NoRun,
                        "overlap" \notin happened
                 PROVE  internal[summary] \subseteq internal'[summary']
        OBVIOUS
    <2>1. summary \in Run /\ pc[summary] \in Ended
        BY DEF IInv, TypeOK, SummaryIsOfMatch
    <2>2. CASE UNCHANGED <<internal, summary>>
        BY <2>2
    <2>3. ASSUME NEW r \in Run, LoadInternal(r)
          PROVE  internal[summary] \subseteq internal'[summary']
        BY <2>1, <2>3 DEF LoadInternal, outputVars, IInv, TypeOK, Ended
    <2>4. ASSUME NEW r \in Run, WriteSummary(r)
          PROVE  internal[summary] \subseteq internal'[summary']
        <3>1. internal' = internal /\ summary' \in {summary, r} /\ Running(r)
            BY <2>4 DEF WriteSummary, Raise, outputVars, Running, Ended
        <3> QED
            BY <3>1 DEF FresherUntilOverlap, NoOlderUnderway
    <2> QED
        BY <2>2, <2>3, <2>4 DEF Next, Work, Settle, Arrive, LoadFile, MatchTransactions,
            AlertFinanceTeam, WriteReports, WriteReport, LoadInternalError, Crash, Raise,
            vars, runVars, outputVars
<1> QED
    BY <1>1, <1>2, <1>3, InvariantHolds, PTL DEF Spec, SummaryGetsFresher
=============================================================================
