SPECIFICATION Spec
CONSTANTS
    NChannels = 1
    Clients = {k1}
    None = None
    Autostart <- OneStarts
    MaxFormats = 1
    MaxReads = 1
    MaxSets = 1
    MaxFaults = 1
INVARIANTS
    RecordersComeBack
PROPERTIES
    FormatsEnd
    RecordersSeeTheCard
