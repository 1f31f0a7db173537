SPECIFICATION Spec
CONSTANTS
    Char = {"a", "b"}
    Nul = "NUL"
    Width = 6
    Sizes = {0, 1, 2, 3}
    Rooms = {TRUE, FALSE}
    MaxSize = 6
    MaxLength = 4
INVARIANT
    TypeOK
PROPERTIES
    OverrunsOnlyAtTheBrim
    FillsUpOnlyByChar
    KeepsItsText
CHECK_DEADLOCK FALSE
