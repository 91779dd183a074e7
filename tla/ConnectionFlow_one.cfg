CONSTANTS
    d1 = d1
    d2 = d2
    c1 = c1
    c2 = c2
    None = None
    Devices = {d1}
    Conns = {c1, c2}
    MaxGen <- ThreeGens
    MaxCloses = 2
    Remembered = {d1}
    Roaming = {d1}
SPECIFICATION Spec
CHECK_DEADLOCK FALSE
SYMMETRY ConnSymmetry
INVARIANTS
    NoOrphanSession
    SingleLiveChain
    NoLostWake
    RemoteEndPausesReconnect
PROPERTIES
    ResetsAreBounded
    StreamEndsByIntent
    CommitsAreCurrent
    ImplementsCloseChain
