SPECIFICATION FairSpec
CONSTANTS
    Builds = {b1, b2}
    Creds = {c1}
    Preserving = {b2}
    DataAction <- Actions
    None = None
    Torn = Torn
    KernelBlocks = 3
    ActivationBlocks = 1
    KernelPayload = 2
    SystemBlocks = 2
    SystemPayload = 1
    DataBlocks = 1
    MaxCuts = 1
    MaxFaults = 1
    MaxStagings = 3
INVARIANTS
    CutsNeverStrand
    FlashIsAttributable
PROPERTIES
    EventuallyInstalled
    OnlyInitializeWritesData
