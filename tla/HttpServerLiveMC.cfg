SPECIFICATION Spec
CONSTANTS
    c1 = c1
    c2 = c2
    NoClient = NoClient
    Client = {c1, c2}
    Script <- MCLiveScripts
    Site <- MCSite
    ParamSegment = {":p"}
    StarSegment = {"*"}
    Backlog = 1
    Signals = 2
INVARIANTS
    ListenerClosedOnShutdown
    EndsOnlyByShutdown
PROPERTY
    QueuedIsServed
CHECK_DEADLOCK FALSE
