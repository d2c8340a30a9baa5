\* A true result of on_receive_local_order against the commands it leaves
\* at the fronts.  FrontsDecidedAtRest is a state invariant, so symmetry
\* over the commands is sound here.
CONSTANTS
    c1 = c1
    c2 = c2
    c3 = c3
    Cmd <- MCCmd
    N = 3
    NFaulty = 1
    MaxBatch = 2
SYMMETRY CmdSymmetry
SPECIFICATION Spec
\* Once the clients stop sending, the flow stops.
CHECK_DEADLOCK FALSE
INVARIANT FrontsDecidedAtRest
