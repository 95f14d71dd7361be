SPECIFICATION FairSpec
CONSTANTS
    Unset = Unset
    NotANumber = NotANumber
    Files <- SomeFiles
    Environments <- Envs
    Threshold = 3
    Faults <- AllFaults
    MaxFaults = 3
INVARIANTS
    KilledOnlyIfUnreachable
PROPERTIES
    ProbedIsReady
