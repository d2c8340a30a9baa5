\* fair_finalize against the weight order of spec 4.5 B.
CONSTANTS
    GammaNum = 1
    GammaDen = 2
    Cmd <- MCCmd
    NReplicas = 3
SPECIFICATION Spec
\* The proposal is merged and finalized once; the last state is final.
CHECK_DEADLOCK FALSE

INVARIANT WeightOrderRespected
