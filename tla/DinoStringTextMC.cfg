SPECIFICATION Spec
CONSTANTS
    Char = {"a", "b"}
    Nul = "NUL"
    Width = 6
    Sizes = {2}
    Rooms = {TRUE}
    MaxSize = 4
    MaxLength = 3
INVARIANT
    IsRegularCString
CHECK_DEADLOCK FALSE
