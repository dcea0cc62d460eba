SPECIFICATION Spec
CONSTANTS
    Builds = {b1, b2}
    Creds = {c1, c2}
    Preserving = {}
    DataAction <- Actions
    None = None
    Torn = Torn
    KernelBlocks = 4
    ActivationBlocks = 2
    KernelPayload = 3
    SystemBlocks = 1
    SystemPayload = 1
    DataBlocks = 1
    MaxCuts = 2
    MaxFaults = 1
    MaxStagings = 2
SYMMETRY TupleSymmetry
INVARIANTS
    RetryInv
    InstallIsSafe
    CutsNeverStrand
PROPERTIES
    BackupIsNeverReplaced
