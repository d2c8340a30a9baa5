CONSTANTS
    r1 = r1
    r2 = r2
    r3 = r3
    f1 = f1
    NoReplica = NoReplica
    Replica <- MCReplica
    Faulty <- MCFaulty
    NFaulty = 1
    MaxBlocks = 4
    MaxStaleness = 1
    PacemakerWaits = FALSE
SYMMETRY Symmetry
VIEW MCViewPrune
SPECIFICATION Spec
CHECK_DEADLOCK FALSE
INVARIANT NoPrunedRead
