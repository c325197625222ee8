SPECIFICATION Spec
CONSTANTS
    Half = 8
    Minute = 2
    HoursPerDay = 2
    Memory = 20
    Embedded <- MCEmbedded
    Mentioned <- MCMentioned
    Assignments <- MCAssign
    Semicolons <- MCSemi
    Options <- MCOptions
    Inline <- MCInline
    HelpOptions <- MCHelp
    Takes <- MCTakes
    Inputs <- MCInputs
INVARIANTS
    Precedence
    ArrayAsWritten
    TimeAsWritten
    ScriptAsWritten
    NoSlurmCommandLeft
