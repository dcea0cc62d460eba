SPECIFICATION CardsSpec
CONSTANTS
    RestoreCuts = 3
    RestoreFaults = 2
    HostFailures = 2
    PathCount = 3
    Needed = {2, 3}
    QuarantineCuts = 2
    QuarantineFaults = 2
    UserChanges = 1
INVARIANTS
    RestoreIsSafe
    RetryIsAdmitted
    QuarantineKeepsFiles
PROPERTIES
    CardWorkSettles
CHECK_DEADLOCK FALSE
