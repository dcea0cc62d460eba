SPECIFICATION Spec
CONSTANTS
    Capacity = 1
    Levels = {"ON", "OFF"}
    None = None
    Saved = {"off", "motion"}
    Found = {"nohost", "motion"}
    MaxSaves = 2
    MaxShutdowns = 1
    MaxFailures = 1
    MaxPosts = 1
    MaxFlips = 1
    Budgets <- AllAtOnce
INVARIANTS
    ServiceIsConsistent
    WakeupIsNotLost
CHECK_DEADLOCK FALSE
