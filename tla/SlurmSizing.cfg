CONSTANTS
    Half = 8
    Inputs <- AllInputs
SPECIFICATION Spec
INVARIANTS
    TypeOK
    SizesAgree
    RunsEveryTask
    TellsWhatIsRequested
    PanicsOnlyOnBadInput
