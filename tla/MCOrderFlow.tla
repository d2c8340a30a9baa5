---------------------------- MODULE MCOrderFlow ----------------------------
(* OrderFlow for TLC: replicas, faults and batch size come from the cfg  *)
(* (three replicas, nmajority 2); three commands that are model values.  *)
EXTENDS OrderFlow, TLC

CONSTANTS c1, c2, c3

MCCmd == {c1, c2, c3}

\* Commands are only compared for equality, so they are interchangeable.
CmdSymmetry == Permutations(MCCmd)
=============================================================================
