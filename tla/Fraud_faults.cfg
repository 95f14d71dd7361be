SPECIFICATION FairSpec
CONSTANTS
    t1 = t1
    t2 = t2
    r1 = r1
    r2 = r2
    Malformed = Malformed
    NoOwner = NoOwner
    Tx = {t1, t2}
    Replica = {r1, r2}
    Amount <- Amounts
    Category <- Categories
    Draws <- SomeDraws
    Faults <- AllFaults
    MaxFaults = 2
    MaxLog = 3

\* The topic may be read to its end.
CHECK_DEADLOCK FALSE
INVARIANTS
    TypeOK
    DecisionFitsRisk
    DecidedOnceUnlessRedelivered
    CommittedIsDecidedIfProduced
PROPERTIES
    EveryTransactionDecided
