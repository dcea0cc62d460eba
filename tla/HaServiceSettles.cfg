SPECIFICATION FairSpec
CONSTANTS
    Capacity = 1
    Levels = {"ON", "OFF"}
    None = None
    Saved = {"off", "motion"}
    Found = {"quiet", "invalid"}
    MaxSaves = 2
    MaxShutdowns = 1
    MaxFailures = 1
    MaxPosts = 1
    MaxFlips = 1
    Budgets <- SavesOrFaults
PROPERTIES
    SettingsTakeEffect
    JoinsReturn
    MotionIsPublished
CHECK_DEADLOCK FALSE
