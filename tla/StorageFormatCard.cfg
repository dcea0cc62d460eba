SPECIFICATION Spec
CONSTANTS
    NChannels = 2
    Clients = {k1, k2}
    None = None
    Autostart <- OneStarts
    MaxFormats = 1
    MaxReads = 1
    MaxSets = 0
    MaxFaults = 1
SYMMETRY ClientSymmetry
INVARIANTS
    FormatIsSafe
