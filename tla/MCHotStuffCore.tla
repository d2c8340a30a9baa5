--------------------------- MODULE MCHotStuffCore ---------------------------
(* Model-checking instance of HotStuffCore: four replicas, one of them    *)
(* Byzantine (n = 3f + 1, f = 1, nmajority = 3).                          *)
EXTENDS HotStuffCore

CONSTANTS r1, r2, r3, f1

MCReplica == {r1, r2, r3}
MCFaulty == {f1}

Symmetry == Permutations(MCReplica)

\* delivered and tails only record what the caller fetched, and qcWaiting and
\* hqcWaiting what the pacemaker waits for; nothing the core decides reads them, so
\* states that differ only there are merged.  Sound for every property
\* that does not read them.  pruned is merged too: what it changes is a
\* null qc_ref of a decided block, read only where update returns for the
\* decided block anyway, and the reads NoPrunedRead (run core_prune, with
\* pruned in the view) shows never happen.
MCView == <<blocks, proposals, votes, hqc, bLock, bExec, vheight, decided,
            voted, fatal>>

\* The view of the prune run: pruned kept, qcWaiting merged.
MCViewPrune == <<blocks, proposals, votes, hqc, bLock, bExec, vheight,
                 decided, voted, fatal, pruned>>
=============================================================================
