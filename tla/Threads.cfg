SPECIFICATION ThreadsSpec
CONSTANTS
    None = None
    Workers = {w1, w2, w3}
    QueueCapacity = 1
    MaxPermits = 1
    MaxConnections = 3
    Configs <- TwoConfigs
    MaxRestarts = 1
    MaxUpdates = 1
    MaxMotionFailures = 1
    AlertCapacity = 2
    MaxAlerts = 3
    MaxViewer = 2
    MaxFormats = 1
    MaxActionFailures = 1
INVARIANTS
    ThreadsAreConsistent
    PermitsAreKept
PROPERTIES
    ActiveIsEarned
    MotionIsShown
    MotionEndsItsOwn
    MotionRecordingsEnd
    ServerFinishes
CHECK_DEADLOCK FALSE
