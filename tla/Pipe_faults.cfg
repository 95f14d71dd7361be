SPECIFICATION PipeFairSpec
CONSTANTS
    pay = pay
    gift = gift
    acc = acc
    f1 = f1
    u1 = u1
    l1 = l1
    Malformed = Malformed
    NoOwner = NoOwner
    NoKey = NoKey
    Request = {pay, gift}
    Bound = {pay, gift}
    Transfer = {}
    WithTarget = {pay}
    InEnum = {pay}
    SchemasDir = "loaded"
    MaxAttempts <- Attempts
    Account = {acc}
    Source <- Sources
    Amount <- Amounts
    Category <- Categories
    Draws <- SomeDraws
    InitBalance <- Balances
    FraudPod = {f1}
    AuthPod = {u1}
    LedgerPod = {l1}
    FlushSize = 2
    ChanCap = 1
    MaxRetries = 0
    Faults <- GatewayKinds
    FraudFaults <- FraudKinds
    AuthFaults <- AuthKinds
    LedgerFaults <- LedgerKinds
    MaxFaults = 1

\* The clients may be done.
CHECK_DEADLOCK FALSE
INVARIANTS
    LedgerWithinHolds
    PaidOnceUnlessInDoubt
PROPERTIES
    LifeSpec
    AcceptedEnds
