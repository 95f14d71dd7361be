SPECIFICATION FairSpec
CONSTANTS
    Unset = Unset
    NotANumber = NotANumber
    Files <- SomeFiles
    Environments <- Envs
    Threshold = 3
    Faults = {}
    MaxFaults = 0
PROPERTIES
    DeployedIsReady
