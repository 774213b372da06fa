SPECIFICATION Spec
CONSTANTS
    Path = {f1, f2}
    NoFile = NoFile
    Absent = Absent
    Text <- MCText
    Empty = "empty"
    Blank <- MCBlank
    Damaged = "damaged"
    Tidy <- MCTidy
    Stamp <- MCStamp
    ExternalText = {"a"}
    OptionSet <- MCOptionSet
SYMMETRY Symmetry
PROPERTY RevertKeepsFile
CHECK_DEADLOCK FALSE
