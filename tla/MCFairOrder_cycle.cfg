\* The comparator of fair_finalize on merged proposals.
CONSTANTS
    GammaNum = 1
    GammaDen = 2
    Cmd <- MCCmd
    NReplicas = 3
SPECIFICATION Spec
\* The proposal is merged and finalized once; the last state is final.
CHECK_DEADLOCK FALSE

INVARIANT ComparatorIsStrictWeakOrder
