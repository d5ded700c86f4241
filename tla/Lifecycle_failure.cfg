\* One request; the port of a server is taken, or Accept fails.
SPECIFICATION FairSpec
CONSTANTS
    q1 = q1  q2 = q2
    Requests = {q1}
    McpEnabled = FALSE
PROPERTIES
    FailureEndsProcess
