SPECIFICATION FairSpec
CONSTANTS
    t1 = t1
    t2 = t2
    t3 = t3
    a1 = a1
    a2 = a2
    a3 = a3
    r1 = r1
    r2 = r2
    NoRun = NoRun
    Txn = {t1, t2, t3}
    Account = {a1, a2}
    Run = {r1, r2}
    Source <- CrossSource
    Target <- CrossTarget
    Amount <- CrossAmount
    Fee <- CrossFee
    AuthorizedAt <- Order
    InitBalance <- Medium
    Floor <- Zero
    BatchSize = 2
    Faults = {"db_error", "reply_lost", "crash"}
    MaxFaults = 3
\* The runs end.
CHECK_DEADLOCK FALSE
INVARIANTS
    TypeOK
    SettledTogether
    NothingDropped
    NoLostUpdate
    AppliedOnceUnlessOverlapping
PROPERTY
    EveryRunEnds
