CONSTANTS
    k1 = k1
    k2 = k2
    p1 = p1
    p2 = p2
    td1 = td1
    NoFile = NoFile
    BadHCL = BadHCL
    NoTD = NoTD
    Keys <- MCKeys
    Paths <- MCPaths
    TrustDomains <- MCTrustDomains
    MaxWrites <- MCMaxWrites
    MaxConfigures <- MCMaxConfigures

SPECIFICATION Spec
PROPERTY MintUsesConfiguredTD
CHECK_DEADLOCK FALSE
