CONSTANTS
    k1 = k1
    k2 = k2
    v1 = v1
    v2 = v2
    c1 = c1
    c2 = c2
    NoValue = NoValue
    Keys <- MCKeys
    Values <- MCValues
    Clients <- MCClients
    MaxTime <- MCMaxTime
    GCInterval <- MCGCInterval

SPECIFICATION Spec

INVARIANT TypeOK
PROPERTY ContractSpec

CHECK_DEADLOCK FALSE
