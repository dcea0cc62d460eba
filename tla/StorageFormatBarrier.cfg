SPECIFICATION Spec
CONSTANTS
    NChannels = 1
    Clients = {k1}
    None = None
    Autostart <- OneStarts
    MaxFormats = 1
    MaxReads = 0
    MaxSets = 0
    MaxFaults = 0
INVARIANT BarrierHolds
