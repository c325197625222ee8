CONSTANTS
    RemoveObject = {TRUE, FALSE}
    Raw = {TRUE, FALSE}
    AllocatesTTY = {TRUE, FALSE}
SPECIFICATION Spec
INVARIANT
    NoWriteToNilErrOut
