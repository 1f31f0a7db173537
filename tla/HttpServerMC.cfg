SPECIFICATION Spec
CONSTANTS
    c1 = c1
    c2 = c2
    NoClient = NoClient
    Client = {c1, c2}
    Script <- MCScripts
    Site <- MCSite
    ParamSegment = {":p"}
    StarSegment = {"*"}
    Backlog = 2
    Signals = 1
INVARIANTS
    TypeOK
    AnswerIsForOwnRequest
    ClosedMeansAnswered
    ResetOnlyIfOverlong
PROPERTY
    ServesInTurn
CHECK_DEADLOCK FALSE
SYMMETRY MCSymmetry
