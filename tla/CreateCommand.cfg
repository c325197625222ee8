CONSTANTS
    SlurmChildren = 2
    Options <- AllRequests
SPECIFICATION Spec
INVARIANTS
    DryRunPersistsNothing
    PrefixOfObjects
    SuccessMeansCreated
PROPERTIES
    ChildrenFollowRoot
