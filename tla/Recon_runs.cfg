SPECIFICATION FairSpec
CONSTANTS
    t1 = t1
    t2 = t2
    l1 = l1
    l2 = l2
    r1 = r1
    r2 = r2
    NoCode = NoCode
    NoRun = NoRun
    Txn = {t1, t2}
    Line = {l1, l2}
    Run = {r1, r2}
    Code <- Codes
    Amount <- Amounts
    FileOf <- Files
    Faults <- AllFaults
    MaxFaults = 1

\* The runs end.
CHECK_DEADLOCK FALSE
INVARIANTS
    TypeOK
    PassedIsReconciled
    SummaryHasItsReports
PROPERTIES
    SummaryGetsFresher
    EveryRunSummarised
