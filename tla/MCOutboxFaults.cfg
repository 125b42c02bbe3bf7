\* Crashes, failed statements and replays together.
CONSTANTS
    Ids = {m1, m2}
    NoId = NoId
    MaxRetries = 2
    BatchSize = 2
    MaxCrashes = 1
    MaxFaults = 1
    MaxReplays = 1
SPECIFICATION Spec
SYMMETRY Symmetry
INVARIANTS
    QuietDeadLetterIsReplayable
    SentWasDelivered
    AttemptsBounded
    DeliveriesBounded
    AuditTruthful
    FullBudgetBeforeDeadLetter
