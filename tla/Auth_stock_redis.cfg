SPECIFICATION Spec
CONSTANTS
    t1 = t1
    t2 = t2
    t3 = t3
    a1 = a1
    a2 = a2
    r1 = r1
    r2 = r2
    NoKey = NoKey
    Malformed = Malformed
    NoOwner = NoOwner
    Tx = {t1, t2, t3}
    Account = {a1, a2}
    Replica = {r1, r2}
    SourceOf <- Sources
    TotalAmount <- Amounts
    InitBalance <- Balances
    DecrByFloat = FALSE
    Faults = {}
    MaxFaults = 0
    MaxLog = 2
    MaxRetries = 1

\* The topic may be read to its end.
CHECK_DEADLOCK FALSE
INVARIANT
    HoldErrorNeedsFault
