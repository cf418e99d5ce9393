SPECIFICATION FairSpec
CONSTANTS
    Digits = {k0, k1, k2}
    MaxPin = 2
    MinPin = 1
    QueueSize = 2
    Timeout = 1
    Nul = Nul
INVARIANTS
    TypeOK
    ReturnsWhatWasMeant
    NulTerminated
    LeavesTerminalClean
    TypeAheadIsRefused
PROPERTIES
    ReaderReturns
