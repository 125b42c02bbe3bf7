SPECIFICATION Spec
CONSTANTS
    Workers = {w1, w2}
    Convs = {c1}
    FileAgents = {"codex"}
    PipeAgents = {}
    EchoAgents = {"hermes"}
    Backend = "codex"
    UserPreferences = TRUE
    Inputs <- MCInputs
    MinInterval = 1
    Permits = 1
    MaxMsgs = 3
    MaxTime = 2
    MaxFaults = 1
CHECK_DEADLOCK FALSE
INVARIANTS
    RepliesAreRight
    AgentCallsSpaced
    ConfirmedSwitchSticks
    NoLeftovers
PROPERTIES
    EveryMessageEnds
