---------------------------- MODULE MCFairOrder ----------------------------
(* FairOrder for TLC: three contributors (the n_majority of four replicas *)
(* with one fault) and three commands, gamma = 1/2 as in spec scenario S2. *)
EXTENDS FairOrder

MCCmd == 1..3
=============================================================================
