SPECIFICATION Spec
CONSTANTS
    RowIds <- MCRowIds
    MaxRetries = 2
    Scripts <- MCScripts
    MaxLines = 3
    QueueSize = 1
    SendChannels = {"wechat"}
    Configs <- MCConfigs
    Apps = {0, 2, 3}
    MessageIds = {m1}
    WeChat = TRUE
    MaxEvents = 4
CHECK_DEADLOCK FALSE
INVARIANTS
    RowsAreTrue
    RepliesLeaveByTheirAccount
    AnswersAreRight
PROPERTIES
    RequestIsAnswered
