\* fair_propose merge and fair_finalize over every choice of three fronts.
CONSTANTS
    GammaNum = 1
    GammaDen = 2
    Cmd <- MCCmd
    NReplicas = 3
SPECIFICATION Spec
\* The proposal is merged and finalized once; the last state is final.
CHECK_DEADLOCK FALSE
INVARIANT TypeOK
INVARIANT MergeUnion
