SPECIFICATION Spec
CONSTANTS
    ParamSegment = {":p", ":q"}
    StarSegment = {"*"}
    Method = {"get", "post"}
    Name <- MCNames
    Path <- MCPaths
    Url <- MCUrls
    Given <- MCGiven
    MaxLines = 3
INVARIANTS
    TypeOK
    TableIsLongestAdmissiblePrefix
    ReachableUnlessHidden
    
PROPERTY
    DispatchStable
CHECK_DEADLOCK FALSE
