CONSTANTS
    Pods = {p1}
    Containers = {c1, c2}
    SlurmInitContainer = setup
    StreamContainers = {c1}
    Options <- AllOptions
SPECIFICATION Spec
INVARIANTS
    TypeOK
    OneStreamPerContainer
    DoneMeansComplete
    SuccessIsExplained
    CancelRemoves
    NoPodIsMissed
PROPERTIES
    KeepsContract
    EndIsNotLost
