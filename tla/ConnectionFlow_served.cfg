CONSTANTS
    d1 = d1
    d2 = d2
    c1 = c1
    c2 = c2
    None = None
    Devices = {d1, d2}
    Conns = {c1}
    MaxGen <- OneGenEach
    MaxCloses = 1
    Remembered = {}
    Roaming = {}
SPECIFICATION FairSpec
CHECK_DEADLOCK FALSE
PROPERTIES
    ResetSparesStreams
    FreshRequestServed
