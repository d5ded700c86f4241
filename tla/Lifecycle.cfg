\* Two requests, with the MCP endpoint.
SPECIFICATION FairSpec
CONSTANTS
    q1 = q1  q2 = q2
    Requests = {q1, q2}
    McpEnabled = TRUE
INVARIANTS
    NothingMeetsAClosedPart
    NothingLeftBehind
PROPERTIES
    GracefulStop
    FailureStopsServing
