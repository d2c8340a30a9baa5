CONSTANTS
    r1 = r1
    r2 = r2
    r3 = r3
    f1 = f1
    NoReplica = NoReplica
    Replica <- MCReplica
    Faulty <- MCFaulty
    NFaulty = 1
    MaxBlocks = 5
    MaxStaleness = 1
    PacemakerWaits = FALSE
SYMMETRY Symmetry
VIEW MCView
SPECIFICATION Spec
CHECK_DEADLOCK FALSE
INVARIANT UniqueQCPerHeight
INVARIANT DecidedChain
INVARIANT NoSafetyBreach
PROPERTY MonotoneState
