CONSTANTS
    s1 = s1
    NoID = NoID
    BadSel = BadSel
    Ids <- MCIds
    Sels <- MCSels
    TtlHalf <- MCTtlHalf
    TtlFlags <- MCTtlFlags
    PageSize <- MCPageSize
    MaxOps <- MCMaxOps
    MaxCreates <- MCMaxCreates

SPECIFICATION Spec
INVARIANT ShowListsStableTemplates
INVARIANT CreatedTtlsAsGiven
INVARIANT CreatedTtlsInRange
CHECK_DEADLOCK FALSE
