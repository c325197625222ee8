CONSTANTS
    Pods = {p1}
    Containers = {c1}
    SlurmInitContainer = setup
    StreamContainers = {}
    Options <- LiveOptions
SPECIFICATION FairSpec
PROPERTIES
    EndOfJobEndsWait
    TimeoutEndsWait
    StartedPodIsStreamed
