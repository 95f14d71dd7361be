--------------------------- MODULE Reconciliation ---------------------------
(***************************************************************************)
(* The reconciliation of one day:                                          *)
(* python/reconciliation/reconciliation.py.                                *)
(*                                                                         *)
(* A run loads the settled transactions of the day from the database and   *)
(* the lines of three settlement files from S3, joins them on the          *)
(* authorization code, and compares the amounts of what it joined.  What   *)
(* does not agree is alerted and written to two reports; then the summary  *)
(* of the day is written.  Any exception ends the run.                     *)
(*                                                                         *)
(* Runs of one day may overlap, while transactions are still settled and   *)
(* files arrive.  The join is that of pandas: it is an outer join, and a   *)
(* missing code equals a missing code.  Amounts are whole cents.           *)
(***************************************************************************)
EXTENDS Integers, FiniteSets

CONSTANTS
    Txn,            \* the day's transactions
    Line,           \* lines of the settlement files
    Run,            \* runs of reconcile_daily for this day
    Code,           \* Txn \cup Line -> authorization codes and NoCode
    NoCode,         \* NULL in the table, NaN for a line of the ACH file
    Amount,         \* Txn \cup Line -> Int
    FileOf,         \* Line -> File
    NoRun,          \* there is no such file, or no summary
    Faults,         \* the kinds of fault the environment may inject
    MaxFaults       \* bound: faults in one behaviour

FaultKinds == {"db_error", "reply_lost", "read_error", "s3_error", "crash"}

File == {"visa", "mastercard", "ach"}

ASSUME ConstantsAssumption ==
    /\ FileOf \in [Line -> File]
    /\ \A l \in Line : FileOf[l] = "ach" => Code[l] = NoCode
    /\ Amount \in [Txn \cup Line -> Int]
    /\ NoRun \notin Run
    /\ Faults \subseteq FaultKinds
    /\ MaxFaults \in Nat

VARIABLES
    settled,   \* transactions: those settled so far
    arrived,   \* S3: the files that are there
    pc,        \* per run: the next step
    internal,  \* per run: internal_df
    loaded,    \* per run: the files in dfs
    found,     \* per run: what _match_transactions returned
    alerted,   \* runs that alerted the finance team
    reports,   \* S3: for each report, the run that wrote it last
    summary,   \* reconciliation_summary: the run that wrote the day's row last
    faults,    \* history: number of faults so far
    happened   \* history: their kinds, "rerun" and "overlap"

worldVars  == <<settled, arrived>>
runVars    == <<pc, internal, loaded, found>>
outputVars == <<alerted, reports, summary>>
faultVars  == <<faults, happened>>
vars == <<worldVars, runVars, outputVars, faultVars>>

Ended == {"done", "error"}
Steps == {"start", "visa", "mastercard", "ach", "match", "alert", "discrepancies",
          "mismatches", "summary"} \cup Ended

-----------------------------------------------------------------------------
\* _match_transactions: a pure function of the two tables.

\* external_df
External(r) == {l \in Line : FileOf[l] \in loaded[r]}

\* Mutant: the two tables are passed to the join in the other order.
PairsSwapped(I, E) == {p \in E \X I : Code[p[1]] = Code[p[2]]}

\* The rows of the join found on both sides.
Pairs(I, E) == {p \in I \X E : Code[p[1]] = Code[p[2]]}

\* Mutant: an inner join.
LeftOnlyInner(I, E) == {}

LeftOnly(I, E) == {t \in I : \A l \in E : Code[t] # Code[l]}

RightOnly(I, E) == {l \in E : \A t \in I : Code[t] # Code[l]}

Difference(p) == Amount[p[1]] - Amount[p[2]]

\* The pairs whose amounts differ by more than 0.01.  The floats of two amounts
\* one cent apart differ by a little more than 0.01 or by a little less.
Mismatches(P) ==
    LET certain  == {p \in P : Difference(p) \notin -1 .. 1}
        possible == {p \in P : Difference(p) # 0}
    IN  {M \in SUBSET possible : certain \subseteq M}

Nothing == [left |-> {}, right |-> {}, pairs |-> {}, mismatched |-> {}, merged |-> FALSE]

\* Mutant: the discrepancies are returned without the column of the join.
MatchUntagged(I, E) ==
    IF I = {} \/ E = {}
    THEN {[Nothing EXCEPT !.left = I, !.right = E]}
    ELSE {[left |-> LeftOnly(I, E), right |-> RightOnly(I, E), pairs |-> Pairs(I, E),
           mismatched |-> M, merged |-> FALSE] : M \in Mismatches(Pairs(I, E))}

\* The tables it can return.  If one side is empty, the other is returned as it
\* is, without the column _merge.
Match(I, E) ==
    IF I = {} \/ E = {}
    THEN {[Nothing EXCEPT !.left = I, !.right = E]}
    ELSE {[left |-> LeftOnly(I, E), right |-> RightOnly(I, E), pairs |-> Pairs(I, E),
           mismatched |-> M, merged |-> TRUE] : M \in Mismatches(Pairs(I, E))}

\* The status of what was found, and the two tables that are reported.
Discrepancies(f) == f.left \cup f.right
Status(f) == IF Discrepancies(f) = {} /\ f.mismatched = {} THEN "PASSED" ELSE "FAILED"

-----------------------------------------------------------------------------

Init ==
    /\ settled = {}
    /\ arrived = {}
    /\ pc = [r \in Run |-> "start"]
    /\ internal = [r \in Run |-> {}]
    /\ loaded = [r \in Run |-> {}]
    /\ found = [r \in Run |-> Nothing]
    /\ alerted = {}
    /\ reports = [d \in {"discrepancies", "mismatches"} |-> NoRun]
    /\ summary = NoRun
    /\ faults = 0
    /\ happened = {}

Fault(kind) ==
    /\ kind \in Faults
    /\ faults < MaxFaults
    /\ faults' = faults + 1
    /\ happened' = happened \cup {kind}

NoFault == UNCHANGED faultVars

GoTo(r, step) == pc' = [pc EXCEPT ![r] = step]

\* An exception: reconcile_daily logs it and returns the status ERROR.
Raise(r) == GoTo(r, "error") /\ UNCHANGED <<internal, loaded, found, outputVars>>

-----------------------------------------------------------------------------
\* What surrounds a run.

Settle(t) ==
    /\ t \notin settled
    /\ settled' = settled \cup {t}
    /\ UNCHANGED <<arrived, runVars, outputVars, faultVars>>

\* A file without a line cannot be read and is as good as missing.
Arrive(file) ==
    /\ file \notin arrived
    /\ \E l \in Line : FileOf[l] = file
    /\ arrived' = arrived \cup {file}
    /\ UNCHANGED <<settled, runVars, outputVars, faultVars>>

Running(r) == pc[r] \notin {"start"} \cup Ended

Crash(r) ==
    /\ Running(r)
    /\ Fault("crash")
    /\ Raise(r)
    /\ UNCHANGED worldVars

-----------------------------------------------------------------------------
\* reconcile_daily

\* The run is not the first, or not alone.
NoteOthers(r) ==
    /\ happened' = happened
            \cup (IF \E q \in Run \ {r} : pc[q] # "start" THEN {"rerun"} ELSE {})
            \cup (IF \E q \in Run \ {r} : Running(q) THEN {"overlap"} ELSE {})
    /\ UNCHANGED faults

\* Mutant: only what no earlier run has seen is loaded.
LoadInternalNew(r) ==
    /\ pc[r] = "start"
    /\ internal' = [internal EXCEPT ![r] = settled \ UNION {internal[q] : q \in Run}]
    /\ GoTo(r, "visa")
    /\ NoteOthers(r)
    /\ UNCHANGED <<worldVars, loaded, found, outputVars>>

\* _load_internal_ledger
LoadInternal(r) ==
    /\ pc[r] = "start"
    /\ internal' = [internal EXCEPT ![r] = settled]
    /\ GoTo(r, "visa")
    /\ NoteOthers(r)
    /\ UNCHANGED <<worldVars, loaded, found, outputVars>>

LoadInternalError(r) ==
    /\ pc[r] = "start"
    /\ Fault("db_error")
    /\ Raise(r)
    /\ UNCHANGED worldVars

\* The three _load_..._settlement, one after the other: a file that is not
\* there, or cannot be read, is left out.
After(file) ==
    CASE file = "visa"       -> "mastercard"
      [] file = "mastercard" -> "ach"
      [] file = "ach"        -> "match"

LoadFile(r) ==
    /\ pc[r] \in File
    /\ \/ pc[r] \in arrived /\ loaded' = [loaded EXCEPT ![r] = @ \cup {pc[r]}] /\ NoFault
       \/ pc[r] \notin arrived /\ UNCHANGED loaded /\ NoFault
       \/ pc[r] \in arrived /\ UNCHANGED loaded /\ Fault("read_error")
    /\ GoTo(r, After(pc[r]))
    /\ UNCHANGED <<worldVars, internal, found, outputVars>>

\* The ACH file has no authorization codes; alone, it leaves nothing to join on.
Joinable(r) == internal[r] = {} \/ External(r) = {} \/ loaded[r] # {"ach"}

\* _match_transactions and the status that follows from it.
MatchTransactions(r) ==
    /\ pc[r] = "match"
    /\ \/ ~Joinable(r) /\ Raise(r)
       \/ /\ Joinable(r)
          /\ \E f \in Match(internal[r], External(r)) :
                /\ found' = [found EXCEPT ![r] = f]
                /\ GoTo(r, IF Status(f) = "PASSED" THEN "summary" ELSE "alert")
          /\ UNCHANGED <<internal, loaded, outputVars>>
    /\ NoFault
    /\ UNCHANGED worldVars

\* _alert_finance_team counts by _merge, a column that is there after a join.
AlertFinanceTeam(r) ==
    /\ pc[r] = "alert"
    /\ \/ ~found[r].merged /\ Raise(r)
       \/ /\ found[r].merged
          /\ alerted' = alerted \cup {r}
          /\ GoTo(r, "discrepancies")
          /\ UNCHANGED <<internal, loaded, found, reports, summary>>
    /\ NoFault
    /\ UNCHANGED worldVars

\* _write_discrepancy_report: one of its two files, if there is anything to put
\* in it; otherwise the file of an earlier run stays.
WriteReport(r, report, table, next) ==
    /\ pc[r] = report
    /\ \/ /\ reports' = IF table = {} THEN reports ELSE [reports EXCEPT ![report] = r]
          /\ GoTo(r, next)
          /\ NoFault
          /\ UNCHANGED <<internal, loaded, found, alerted, summary>>
       \/ table # {} /\ Fault("s3_error") /\ Raise(r)
    /\ UNCHANGED worldVars

\* Mutant: of the two tables only one is written.
WriteReportsOnce(r) ==
    \/ WriteReport(r, "discrepancies", Discrepancies(found[r]), "summary")
    \/ WriteReport(r, "mismatches", found[r].mismatched, "summary")

WriteReports(r) ==
    \/ WriteReport(r, "discrepancies", Discrepancies(found[r]), "mismatches")
    \/ WriteReport(r, "mismatches", found[r].mismatched, "summary")

\* _write_summary inserts the day's row or, ON CONFLICT (date), updates it.
WriteSummary(r) ==
    /\ pc[r] = "summary"
    /\ \/ /\ summary' = r
          /\ GoTo(r, "done")
          /\ NoFault
          /\ UNCHANGED <<internal, loaded, found, alerted, reports>>
       \/ /\ summary' = r
          /\ GoTo(r, "error")
          /\ Fault("reply_lost")
          /\ UNCHANGED <<internal, loaded, found, alerted, reports>>
       \/ Fault("db_error") /\ Raise(r)
    /\ UNCHANGED worldVars

-----------------------------------------------------------------------------

Work(r) ==
    \/ LoadInternal(r) \/ LoadFile(r) \/ MatchTransactions(r)
    \/ AlertFinanceTeam(r) \/ WriteReports(r) \/ WriteSummary(r)

Next ==
    \/ \E t \in Txn : Settle(t)
    \/ \E file \in File : Arrive(file)
    \/ \E r \in Run : Work(r) \/ LoadInternalError(r) \/ Crash(r)

Spec == Init /\ [][Next]_vars

\* A run that has begun goes on.
FairSpec == Spec /\ \A r \in Run : WF_vars(pc[r] # "start" /\ Work(r))

-----------------------------------------------------------------------------
\* Properties.

\* The type of the state.
Found == [left : SUBSET Txn, right : SUBSET Line, pairs : SUBSET (Txn \X Line),
          mismatched : SUBSET (Txn \X Line), merged : BOOLEAN]

TypeOK ==
    /\ settled \in SUBSET Txn /\ arrived \in SUBSET File
    /\ pc \in [Run -> Steps]
    /\ internal \in [Run -> SUBSET Txn] /\ loaded \in [Run -> SUBSET File]
    /\ found \in [Run -> Found]
    /\ alerted \in SUBSET Run
    /\ reports \in [{"discrepancies", "mismatches"} -> Run \cup {NoRun}]
    /\ summary \in Run \cup {NoRun}
    /\ faults \in Nat /\ happened \subseteq Faults \cup {"rerun", "overlap"}

\* No two rows of a table have one code.
CodesDiffer(S) == \A x, y \in S : Code[x] = Code[y] => x = y

\* What it is to reconcile: every transaction has its one line and every line
\* its one transaction, with the same code and amounts at most a cent apart.
Agree(t, l) == Code[t] = Code[l] /\ Amount[t] - Amount[l] \in -1 .. 1

Reconciled(I, E) ==
    /\ \A t \in I : \E l \in E : Agree(t, l) /\ \A k \in E : Agree(t, k) => k = l
    /\ \A l \in E : \E t \in I : Agree(t, l) /\ \A u \in I : Agree(u, l) => u = t

\* When the summary says PASSED, what its run had loaded is reconciled, line by
\* line, provided no code occurs twice on a side.
PassedIsReconciled ==
    summary # NoRun /\ Status(found[summary]) = "PASSED"
        /\ CodesDiffer(internal[summary]) /\ CodesDiffer(External(summary))
        => Reconciled(internal[summary], External(summary))

\* The reports are those of the summary: a FAILED one has been alerted and what
\* it counts is on S3, a PASSED one has none beside it; until the day is run
\* again.
SummaryHasItsReports ==
    summary # NoRun /\ "rerun" \notin happened =>
        LET f == found[summary]
        IN  /\ Status(f) = "FAILED" => summary \in alerted
            /\ reports["discrepancies"] = IF Discrepancies(f) = {} THEN NoRun ELSE summary
            /\ reports["mismatches"] = IF f.mismatched = {} THEN NoRun ELSE summary

\* The day's row is only replaced by one of a run that saw at least the same
\* transactions, unless runs overlap.
SummaryGetsFresher ==
    [][summary # NoRun /\ "overlap" \notin happened
          => internal[summary] \subseteq internal'[summary']]_vars

\* A run that found transactions and lines with codes, or nothing at all, ends
\* with a summary of the day, unless a fault stops it.
SidesFilled(r) ==
    \/ internal[r] = {} /\ External(r) = {}
    \/ internal[r] # {} /\ External(r) # {} /\ loaded[r] # {"ach"}

EveryRunSummarised ==
    \A r \in Run : (pc[r] = "match" /\ SidesFilled(r)) ~> (pc[r] = "done" \/ faults > 0)
=============================================================================
