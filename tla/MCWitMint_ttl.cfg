CONSTANTS
    DurationHalf <- MCDurationHalf
    Second <- MCSecond
    TtlHalf <- MCTtlHalf
    Lifetimes <- MCLifetimes

SPECIFICATION Spec
INVARIANT NonNegativeTtlIsCeiling
CHECK_DEADLOCK FALSE
