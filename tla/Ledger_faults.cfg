SPECIFICATION FairSpec
CONSTANTS
    t1 = t1
    t2 = t2
    r1 = r1
    r2 = r2
    Malformed = Malformed
    NoOwner = NoOwner
    Tx = {t1, t2}
    Replica = {r1, r2}
    Refused <- CreditRefused
    FlushSize = 2
    ChanCap = 1
    Faults <- AllFaults
    MaxFaults = 3
    MaxLog = 3

\* The topic may be read to its end.
CHECK_DEADLOCK FALSE
INVARIANTS
    TypeOK
    DoubleEntry
    CommittedIsPostedIfWritable
PROPERTIES
    PromiseSpec
    EveryTransactionPosted
