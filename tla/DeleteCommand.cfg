CONSTANTS
    Clients = {u, v}
    Names = {"a", "b", "r", "p"}
    KindOf <- MCKindOf
    Labels = {"None", "Job", "Slurm"}
    NoProfile = "None"
    Starts <- MCStarts
    Requests <- MCRequests
    MaxGen <- MCMaxGen
SPECIFICATION Spec
INVARIANTS
    DeletesOnlyItsMode
    NothingSkipped
    SuccessMeansGone
    CascadeHonoured
SYMMETRY ClientSymmetry
