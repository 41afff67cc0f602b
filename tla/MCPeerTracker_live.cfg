CONSTANTS
    w1 = w1
    w2 = w2
    Pids <- MCPids
    Watchers <- MCOneWatcher
    MaxChans <- MCMaxChans
    MaxInc <- MCMaxInc
    ReceiveCap <- MCReceiveCap

SPECIFICATION FairSpec

PROPERTY ExitEventuallySignalled
PROPERTY ShutdownCompletes

CHECK_DEADLOCK FALSE
