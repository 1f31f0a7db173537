SPECIFICATION Spec
CONSTANTS
    Key = {"a", "b", "c"}
    Text = {"x", " x ", "  "}
    Blank = {"  "}
    Trim <- MCTrim
    Capacity = 2
    Hash <- MCHash
    MaxJoined = 2
INVARIANTS
    TypeOK
    KeysStoredOnce
    NothingLeftAfterDelete
PROPERTY
    ImplementsParams
CHECK_DEADLOCK FALSE
