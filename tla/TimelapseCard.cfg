SPECIFICATION FairSpec
CONSTANTS
    Images = {i1}
    None = None
    Policies <- RetentionPolicies
    NFields = 1
    MaxSaves = 2
    MaxPrivacy = 0
    MaxUserSets = 0
    MaxPauses = 1
    MaxFaults = 1
    MaxCuts = 0
INVARIANTS
    PolicyIsConsistent
PROPERTIES
    PausesAsPromised
    TimelapseSettles
