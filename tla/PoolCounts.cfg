CONSTANTS
    Contexts = {c1, c2, c3, c4}
    Reserved = {c1, c3}
    Above = {c4}
    Below = {c3}
    NoContext = NoContext
    Workers = {w1, w2}
    Ctl = Ctl
    InitialRefs <- MCInitialRefs
SPECIFICATION Spec
SYMMETRY PoolSymmetry
CONSTRAINT BelowIsBounded
INVARIANTS
    TypeOK
    RefsAreExact
    FreeContextsAreIdle
    OneOperationOfAContext
    NoContextLeaks
CHECK_DEADLOCK FALSE
