SPECIFICATION Spec
CONSTANTS
    DEVICE = 6
    CAPSULE = 5
    FIDO = 18
    PIN = 18
    KEYED = 6
    DETACH = 2
    WRITE = 1
    RENAME = 1
    START = 60
    STOP = 18
INVARIANTS
    TimeoutIsHandled
    KilledOnlyAtTheKey
    StopIsHeeded
