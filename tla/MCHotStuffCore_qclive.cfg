\* Liveness of the qc_waiting and hqc_update_waiting promises, and the type
\* invariant over the full state.  No symmetry and no view: both are unsound
\* for liveness checking, and the view of the other runs drops variables
\* TypeOK reads.  One block: a waiter registered before, between and after
\* the votes of that block (two blocks take more than 15 minutes).
CONSTANTS
    r1 = r1
    r2 = r2
    r3 = r3
    f1 = f1
    NoReplica = NoReplica
    Replica <- MCReplica
    Faulty <- MCFaulty
    NFaulty = 1
    MaxBlocks = 1
    MaxStaleness = 1
    PacemakerWaits = TRUE
SPECIFICATION FairSpec
CHECK_DEADLOCK FALSE
INVARIANT TypeOK
PROPERTY QcWaiterResolved
PROPERTY HqcWaiterResolved
