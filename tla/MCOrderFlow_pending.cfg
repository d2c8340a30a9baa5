\* Front staleness pruning against re-proposing pending commands.
CONSTANTS
    c1 = c1
    c2 = c2
    c3 = c3
    Cmd <- MCCmd
    N = 3
    NFaulty = 1
    MaxBatch = 2
SYMMETRY CmdSymmetry
SPECIFICATION Spec
\* Every replica eventually runs out of new commands and the leader out of
\* messages: the flow stops, as the system does without new client input.
CHECK_DEADLOCK FALSE
INVARIANT PendingDisjoint
