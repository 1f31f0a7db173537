SPECIFICATION Spec
CONSTANTS
    Key = {"a", "b", "c"}
    Text = {"x", " x ", "  "}
    Blank = {"  "}
    Trim <- MCTrim
    Capacity = 2
    Hash <- MCHash
    MaxJoined = 2
INVARIANT
    FirstValueOnly
CHECK_DEADLOCK FALSE
