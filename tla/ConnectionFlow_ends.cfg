CONSTANTS
    d1 = d1
    d2 = d2
    c1 = c1
    c2 = c2
    None = None
    Devices = {d1}
    Conns = {c1}
    MaxGen <- ThreeGens
    MaxCloses = 1
    Remembered = {d1}
    Roaming = {}
SPECIFICATION DispatcherFairSpec
CHECK_DEADLOCK FALSE
PROPERTIES
    ShutdownCompletes
    AttemptSettles
    ClosedLinkRetired
