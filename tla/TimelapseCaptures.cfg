SPECIFICATION Spec
CONSTANTS
    Images = {i1}
    None = None
    Policies <- PresetPolicies
    NFields = 2
    MaxSaves = 0
    MaxPrivacy = 2
    MaxUserSets = 1
    MaxPauses = 0
    MaxFaults = 1
    MaxCuts = 1
INVARIANT ListedIsPrivate
INVARIANT OutputsAreTheUsers
