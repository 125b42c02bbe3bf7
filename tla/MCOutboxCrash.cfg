\* Crashes and replays, every statement succeeds.
CONSTANTS
    Ids = {m1, m2}
    NoId = NoId
    MaxRetries = 2
    BatchSize = 1
    MaxCrashes = 1
    MaxFaults = 0
    MaxReplays = 1
SPECIFICATION FairSpec
PROPERTIES
    ImplementsStateMachine
    EverySubmissionSettles
