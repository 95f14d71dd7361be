SPECIFICATION FairSpec
CONSTANTS
    n1 = n1
    n2 = n2
    r1 = r1
    r2 = r2
    Malformed = Malformed
    NoOwner = NoOwner
    Note = {n1, n2}
    Replica = {r1, r2}
    Key <- OneKey
    Faults <- AllFaults
    MaxFaults = 2
    MaxLog = 3

\* The outbox may be read to its end.
CHECK_DEADLOCK FALSE
INVARIANTS
    TypeOK
    ResultFitsSend
    SentOnceUnlessRedelivered
    CommittedHasResultIfProduced
PROPERTIES
    EveryNotificationAnswered
