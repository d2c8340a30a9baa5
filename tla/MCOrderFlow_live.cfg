\* Liveness of the ordering flow under the leader's fairness.  No symmetry
\* reduction: it is unsound for liveness checking.
CONSTANTS
    c1 = c1
    c2 = c2
    c3 = c3
    Cmd = {c1, c2}
    N = 3
    NFaulty = 1
    MaxBatch = 2
SPECIFICATION FairSpec
\* Once the clients stop sending, the flow stops.
CHECK_DEADLOCK FALSE
PROPERTY EventuallyDecided
