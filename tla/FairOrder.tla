----------------------------- MODULE FairOrder -----------------------------
(***************************************************************************)
(* The two fair-ordering procedures of src/src/consensus.cpp as operators: *)
(*                                                                         *)
(*  - FairPropose: the merge of HotStuffCore::fair_propose, which turns    *)
(*    the front local order of every contributing replica into the orders  *)
(*    map of a proposal;                                                   *)
(*  - FairFinalize: HotStuffCore::fair_finalize, which turns the orders    *)
(*    map of a committed block into its final command order.               *)
(*                                                                         *)
(* A command hash (uint256_t) is a natural number, compared with < as the  *)
(* code compares hashes.  The fairness parameter gamma is the rational     *)
(* GammaNum / GammaDen; weights are scaled by GammaDen^L (L the longest    *)
(* local order) so that they are integers and compare as the doubles of    *)
(* the code do whenever those are exact (gamma = 1/2 and short orders).    *)
(***************************************************************************)
EXTENDS Integers, Sequences, FiniteSets, SequencesExt, FiniteSetsExt

CONSTANTS GammaNum, GammaDen

ASSUME GammaNum \in Nat \ {0} /\ GammaDen \in Nat /\ GammaNum < GammaDen

\* The commands of a sequence, and of every sequence of an orders map.
CmdsOf(orders) == UNION {ToSet(orders[o]) : o \in DOMAIN orders}

-----------------------------------------------------------------------------
(* fair_propose, merge part.  fronts[i] is get_ordered_hash_vector of the *)
(* i-th replica of get_ordered_hash_replia_vector(); the result maps the  *)
(* same positions to the merged orders.                                    *)

\* Plausible coding error: the snapshot `vc` of replica 0's order taken
\* once before the loop instead of once per replica.
MUT_ExtendFirst(acc, fronts, i) ==
    LET RECURSIVE Go(_, _)
        Go(a, k) == IF k > Len(fronts) THEN a
                    ELSE Go(a \o SelectSeq(fronts[k], LAMBDA c : c \notin ToSet(fronts[1])), k + 1)
    IN Go(acc, i)

\* First loop: for i = 1.., append to orders[replicas[0]] every command of
\* replica i that is missing from the copy vc of orders[replicas[0]] taken
\* at the start of iteration i (in the command order of replica i).
RECURSIVE ExtendFirst(_, _, _)
ExtendFirst(acc, fronts, i) ==
    IF i > Len(fronts) THEN acc
    ELSE ExtendFirst(acc \o SelectSeq(fronts[i], LAMBDA c : c \notin ToSet(acc)),
                     fronts, i + 1)

\* Second loop: every other replica gets the commands of the extended
\* orders[replicas[0]] it lacks, appended in that order.
FairPropose(fronts) ==
    IF fronts = <<>> THEN <<>>
    ELSE LET first == ExtendFirst(fronts[1], fronts, 2)
         IN [i \in 1..Len(fronts) |->
                IF i = 1 THEN first
                ELSE fronts[i] \o SelectSeq(first, LAMBDA c : c \notin ToSet(fronts[i]))]

-----------------------------------------------------------------------------
(* fair_finalize(blk).                                                     *)

\* The longest order of the map.
MaxLen(orders) == Max({Len(orders[o]) : o \in DOMAIN orders} \cup {0})

\* cmd_weight[cmd] of the code times GammaDen^L: the sum, over the replicas,
\* of (1 - gamma^i) for the 1-based position i of cmd in their order.
Weight(orders, c) ==
    LET L == MaxLen(orders)
        at == {<<o, i>> \in (DOMAIN orders) \X (1..L) :
                    i <= Len(orders[o]) /\ orders[o][i] = c}
    IN MapThenSumSet(LAMBDA oi : GammaDen^L - GammaNum^oi[2] * GammaDen^(L - oi[2]), at)

\* weight_count[a][b]: the replicas that order a before b, counting the
\* positions below len = the length of the first order of the map (all
\* orders have that length, see FinalizeInput).
Before(orders, a, b) ==
    Cardinality({o \in DOMAIN orders :
        \E i, j \in 1..Len(orders[o]) : i < j /\ orders[o][i] = a /\ orders[o][j] = b})

\* The comparator of the second std::sort.
Precedes(orders, a, b) ==
    IF Before(orders, a, b) = Before(orders, b, a)
    THEN a < b
    ELSE Before(orders, a, b) > Before(orders, b, a)

\* What std::sort requires of its comparator on the sorted range: a strict
\* weak ordering.  Precedes relates every two distinct commands one way
\* (the hash breaks ties), so this is irreflexivity and transitivity.
IsStrictWeakOrder(orders) ==
    LET C == CmdsOf(orders)
    IN  /\ \A a \in C : ~Precedes(orders, a, a)
        /\ \A a, b, c \in C :
              Precedes(orders, a, b) /\ Precedes(orders, b, c) => Precedes(orders, a, c)

\* The duplicate-free sequences holding exactly the commands of the map.
Arrangements(orders) == SetToSeqs(CmdsOf(orders))

\* The results fair_finalize can return.  The first std::sort (by weight)
\* only fixes the arrangement the second one starts from.  When Precedes is
\* a strict weak ordering the second sort has exactly one result whatever
\* that arrangement is; when it is not, the behaviour of std::sort is
\* undefined and any arrangement may come out.
FairFinalize(orders) ==
    IF IsStrictWeakOrder(orders)
    THEN {s \in Arrangements(orders) :
            \A i, j \in 1..Len(s) : i < j => Precedes(orders, s[i], s[j])}
    ELSE Arrangements(orders)

\* fair_finalize indexes every order up to the length of the first one:
\* it is only defined on maps whose orders all have one length.
FinalizeInput(orders) ==
    \A o1, o2 \in DOMAIN orders : Len(orders[o1]) = Len(orders[o2])

-----------------------------------------------------------------------------
(* A proposal's life through both procedures: the leader merges the fronts *)
(* of NReplicas contributors over the commands Cmd, and a replica that     *)
(* commits the proposal finalizes its orders.                               *)

CONSTANTS Cmd, NReplicas

\* A front batch: the unproposed commands of one on_local_order call, each
\* once, in the order the replica saw them.
Batches == {s \in UNION {[1..k -> Cmd] : k \in 1..Cardinality(Cmd)} : IsInjective(s)}

VARIABLES fronts, orders, final

foVars == <<fronts, orders, final>>

Init ==
    /\ fronts \in [1..NReplicas -> Batches]
    /\ orders = <<>>
    /\ final = <<>>

\* HotStuffCore::fair_propose, merge part.
Propose ==
    /\ orders = <<>>
    /\ orders' = FairPropose(fronts)
    /\ UNCHANGED <<fronts, final>>

\* HotStuffCore::fair_finalize on the committed proposal.
Finalize ==
    /\ orders # <<>>
    /\ final = <<>>
    /\ final' \in FairFinalize(orders)
    /\ UNCHANGED <<fronts, orders>>

Next == Propose \/ Finalize

Spec == Init /\ [][Next]_foVars

-----------------------------------------------------------------------------
TypeOK ==
    /\ fronts \in [1..NReplicas -> Batches]
    /\ orders \in {<<>>} \cup [1..NReplicas -> BoundedSeq(Cmd, Cardinality(Cmd))]
    /\ final \in BoundedSeq(Cmd, Cardinality(Cmd))

\* P6, merge union (fair_propose): every order of a proposal is a duplicate-
\* free arrangement of all the commands the contributors sent, and starts
\* with the contributor's own front, so fair_finalize reads every order
\* within bounds.
MergeUnion ==
    orders # <<>> =>
        \A i \in DOMAIN orders :
            /\ IsInjective(orders[i])
            /\ ToSet(orders[i]) = UNION {ToSet(fronts[k]) : k \in DOMAIN fronts}
            /\ IsPrefix(fronts[i], orders[i])

\* std::sort in fair_finalize requires its comparator to be a strict weak
\* ordering of the commands of every proposal it is given.
ComparatorIsStrictWeakOrder ==
    orders # <<>> => IsStrictWeakOrder(orders)

\* Spec 4.5 B step 1 and scenario S2: a command of lower weight comes earlier
\* in the final order; the pairwise comparison only breaks ties.  Stated
\* where the comparator is valid, so that it is about the code's defined
\* behaviour.
WeightOrderRespected ==
    final # <<>> /\ IsStrictWeakOrder(orders) =>
        \A i, j \in 1..Len(final) :
            i < j => Weight(orders, final[i]) <= Weight(orders, final[j])

=============================================================================
