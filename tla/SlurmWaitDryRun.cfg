CONSTANTS
    Pods = {p1}
    Containers = {c1}
    SlurmInitContainer = setup
    StreamContainers = {}
    Options <- AllOptions
SPECIFICATION Spec
INVARIANT
    DryRunSendsNoDelete
