CONSTANTS
    w1 = w1
    w2 = w2
    Pids <- MCPids
    Watchers <- MCWatchers
    MaxChans <- MCMaxChans
    MaxInc <- MCMaxInc
    ReceiveCap <- MCReceiveCap

SPECIFICATION Spec
SYMMETRY WatcherSymmetry

INVARIANT TypeOK
INVARIANT RegistryInv
INVARIANT SignalSound
INVARIANT WatcherBound
INVARIANT NoPanic
PROPERTY OracleSpec

CHECK_DEADLOCK FALSE
