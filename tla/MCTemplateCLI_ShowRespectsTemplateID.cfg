CONSTANTS
    s1 = s1
    NoID = NoID
    BadSel = BadSel
    Ids <- MCIds
    Sels <- MCSels
    TtlHalf <- MCTtlHalf
    TtlFlags <- MCTtlFlags
    PageSize <- MCPageSize
    MaxOps <- MCMaxOps
    MaxCreates <- MCMaxCreates

SPECIFICATION Spec
INVARIANT ShowRespectsTemplateID
CHECK_DEADLOCK FALSE
