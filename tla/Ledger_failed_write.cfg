SPECIFICATION Spec
CONSTANTS
    t1 = t1
    t2 = t2
    r1 = r1
    r2 = r2
    Malformed = Malformed
    NoOwner = NoOwner
    Tx = {t1, t2}
    Replica = {r1, r2}
    Refused <- AllAccepted
    FlushSize = 2
    ChanCap = 1
    Faults = {"db_error"}
    MaxFaults = 1
    MaxLog = 2

\* The topic may be read to its end.
CHECK_DEADLOCK FALSE
INVARIANT
    CommittedIsPosted
