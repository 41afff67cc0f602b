CONSTANTS
    a1 = a1
    r1 = r1
    r2 = r2
    NoNode = NoNode
    Ids <- MCIds
    Refreshers <- MCRefreshers
    MaxVer <- MCMaxVer
    MaxTime <- MCMaxTime

SPECIFICATION Spec
INVARIANT FetchReflectsCompletedRefresh
CHECK_DEADLOCK FALSE
