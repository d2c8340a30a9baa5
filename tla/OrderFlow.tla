----------------------------- MODULE OrderFlow -----------------------------
(***************************************************************************)
(* The flow of commands through the leader's ordering caches:              *)
(*                                                                         *)
(*   on_local_order (every replica)  --LocalOrder-->  on_receive_local_order *)
(*   (leader: add_local_order, front staleness pruning)  -->  on_propose   *)
(*   with fair_propose's orders  -->  commit in update (decide, remove     *)
(*   from proposed_cmds).                                                  *)
(*                                                                         *)
(* src/src/consensus.cpp 102-228, 540-634, 637-789, 853-860.  The caches   *)
(* are EntityStorage's, which is not part of src/: their operations are   *)
(* modelled from spec 3 and 4.2 (marked "spec" below).  Consensus itself   *)
(* is abstracted: the leader's proposals commit one by one in the order    *)
(* they were made (its chain), which is what HotStuffCore's DecidedChain   *)
(* shows for one branch.  A proposal is the set of its commands: by        *)
(* FairOrder's MergeUnion every order of the merged map holds exactly the  *)
(* union of the merged fronts.                                             *)
(***************************************************************************)
EXTENDS Integers, Sequences, FiniteSets, SequencesExt, FiniteSetsExt

CONSTANTS
    N,          \* number of replicas; ReplicaIDs 0..N-1
    NFaulty,    \* nfaulty passed to on_init
    Cmd,        \* command hashes
    MaxBatch    \* longest batch one on_local_order call sends

ReplicaID == 0..N - 1

\* on_init: config.nmajority = config.nreplicas - nfaulty.
NMajority == N - NFaulty

\* The LocalOrder batches a replica can send: non-empty, each command once.
Batches(cs) == {s \in UNION {[1..k -> cs] : k \in 1..MaxBatch} : IsInjective(s)}

VARIABLES
    sent,       \* sent[r]: the commands replica r has put in a local order
    chan,       \* chan[r]: LocalOrder messages from r in transit (FIFO)
    queue,      \* queue[r]: local_order_cache of the leader, a queue of batches
    proposed,   \* proposed_cmds of the leader
    ready,      \* last result of on_receive_local_order, not yet acted on
    pending,    \* proposals (command sets) not yet committed, oldest first
    decided,    \* decided[c]: Finality records emitted for command c
    received,   \* history: the commands the leader received
    promised    \* history: the commands at a contributor's front when
                \* on_receive_local_order returned true

ofVars == <<sent, chan, queue, proposed, ready, pending, decided, received, promised>>

-----------------------------------------------------------------------------
(* EntityStorage operations (spec).                                        *)

\* get_ordered_hash_replia_vector: the replicas with a batch in the cache,
\* in ID order.
Contributors(q) == {r \in ReplicaID : q[r] # <<>>}

\* get_local_order_cache_size.
CacheSize(q) == Cardinality(Contributors(q))

\* get_ordered_hash_vector(r): the front batch of r.
FrontBatch(q, r) == IF q[r] = <<>> THEN <<>> ELSE Head(q[r])

\* add_local_order(r, cmds): a new batch at the back of r's queue.
AddLocalOrder(q, r, cmds) == [q EXCEPT ![r] = Append(@, cmds)]

-----------------------------------------------------------------------------
(* on_receive_local_order, front staleness pruning for one replica: keep  *)
(* the unproposed commands of the front batch; if some were proposed,     *)
(* clear_front_ordered_hash and, unless none is left,                     *)
(* add_ordered_hash_to_front(unproposed).                                 *)

\* Plausible coding error: the test is_cmd_proposed without its negation,
\* so the proposed commands are the ones kept.
MUT_PruneFront(qr, prop) ==
    LET unproposed == SelectSeq(Head(qr), LAMBDA c : c \in prop)
    IN  CASE Len(unproposed) = Len(Head(qr)) -> qr
          [] unproposed = <<>>                -> Tail(qr)
          [] OTHER                            -> <<unproposed>> \o Tail(qr)

\* Plausible coding error: add_ordered_hash_to_front without the test that
\* something is left, which puts an empty batch at the front.
MUT_PruneFrontEmpty(qr, prop) ==
    LET unproposed == SelectSeq(Head(qr), LAMBDA c : c \notin prop)
    IN  IF Len(unproposed) = Len(Head(qr)) THEN qr ELSE <<unproposed>> \o Tail(qr)

PruneFront(qr, prop) ==
    LET unproposed == SelectSeq(Head(qr), LAMBDA c : c \notin prop)
    IN  CASE Len(unproposed) = Len(Head(qr)) -> qr
          [] unproposed = <<>>                -> Tail(qr)
          [] OTHER                            -> <<unproposed>> \o Tail(qr)

\* The loop over get_ordered_hash_replia_vector(): each contributor's
\* front is pruned once.
PruneFronts(q, prop) ==
    [r \in ReplicaID |-> IF q[r] = <<>> THEN q[r] ELSE PruneFront(q[r], prop)]

\* The result of on_receive_local_order: q1 is the cache after
\* add_local_order, q2 after the pruning.
Ready(q1, q2) == CacheSize(q1) >= NMajority /\ CacheSize(q2) >= NMajority

-----------------------------------------------------------------------------
Init ==
    /\ sent = [r \in ReplicaID |-> {}]
    /\ chan = [r \in ReplicaID |-> <<>>]
    /\ queue = [r \in ReplicaID |-> <<>>]
    /\ proposed = {}
    /\ ready = FALSE
    /\ pending = <<>>
    /\ decided = [c \in Cmd |-> 0]
    /\ received = {}
    /\ promised = {}

(* on_local_order(proposer, order) at replica r with a non-empty order of *)
(* commands r has not ordered before: update_local_order_seen (a cache    *)
(* nothing in the core reads) and do_send_local_order to the leader.  An  *)
(* empty order, and so reorder(), returns without sending: no action.     *)
LocalOrder(r, cmds) ==
    /\ ToSet(cmds) \cap sent[r] = {}
    /\ sent' = [sent EXCEPT ![r] = @ \cup ToSet(cmds)]
    /\ chan' = [chan EXCEPT ![r] = Append(@, cmds)]
    /\ UNCHANGED <<queue, proposed, ready, pending, decided, received, promised>>

\* The commands of fair_propose()'s orders: the union of the contributors'
\* fronts (every merged order holds exactly that set).
ProposalCmds(q) == UNION {ToSet(FrontBatch(q, r)) : r \in Contributors(q)}

(* on_receive_local_order at the leader for the next message from r:      *)
(* add_local_order; once nmajority replicas have batches, prune every      *)
(* front and return whether nmajority replicas still have batches.  The    *)
(* result tells the pacemaker it may propose.                              *)
ReceiveLocalOrder(r) ==
    LET q1 == AddLocalOrder(queue, r, Head(chan[r]))
        q2 == IF CacheSize(q1) >= NMajority THEN PruneFronts(q1, proposed) ELSE q1
    IN
    /\ chan[r] # <<>>
    /\ chan' = [chan EXCEPT ![r] = Tail(@)]
    /\ queue' = q2
    /\ ready' = Ready(q1, q2)
    /\ received' = received \cup ToSet(Head(chan[r]))
    /\ promised' = IF Ready(q1, q2) THEN promised \cup ProposalCmds(q2) ELSE promised
    /\ UNCHANGED <<sent, proposed, pending, decided>>

(* The pacemaker, told by on_receive_local_order that it may, calls        *)
(* fair_propose() (merge the fronts, clear_front_ordered_hash for every    *)
(* contributor) and on_propose with the result; the block's commands       *)
(* become proposed_cmds (spec: "a proposal has been issued").              *)
Propose ==
    /\ ready
    /\ ready' = FALSE
    /\ pending' = Append(pending, ProposalCmds(queue))
    /\ proposed' = proposed \cup ProposalCmds(queue)
    /\ queue' = [r \in ReplicaID |-> IF queue[r] = <<>> THEN <<>> ELSE Tail(queue[r])]
    /\ UNCHANGED <<sent, chan, decided, received, promised>>

(* update commits the oldest proposal: fair_finalize gives its commands    *)
(* in some order, and for each one do_decide(Finality(...)),               *)
(* remove_local_order_seen_execute_level and remove_from_proposed_cmds_cache. *)
Commit ==
    /\ pending # <<>>
    /\ decided' = [c \in Cmd |-> IF c \in Head(pending) THEN decided[c] + 1 ELSE decided[c]]
    /\ proposed' = proposed \ Head(pending)
    /\ pending' = Tail(pending)
    /\ UNCHANGED <<sent, chan, queue, ready, received, promised>>

Next ==
    \/ \E r \in ReplicaID : \E cmds \in Batches(Cmd) : LocalOrder(r, cmds)
    \/ \E r \in ReplicaID : ReceiveLocalOrder(r)
    \/ Propose
    \/ Commit

Spec == Init /\ [][Next]_ofVars

(* Fairness.  Replicas order commands when their clients send them: no     *)
(* LocalOrder is ever required to happen.  What must happen is the         *)
(* leader's part: a LocalOrder message in its channel is eventually        *)
(* delivered and handled (the network is reliable between correct         *)
(* replicas), the pacemaker acts on a true result of                       *)
(* on_receive_local_order, and a pending proposal is eventually committed  *)
(* (the leader's chain makes progress).                                    *)
Fairness ==
    /\ \A r \in ReplicaID : WF_ofVars(ReceiveLocalOrder(r))
    /\ WF_ofVars(Propose)
    /\ WF_ofVars(Commit)

FairSpec == Spec /\ Fairness

-----------------------------------------------------------------------------
TypeOK ==
    /\ sent \in [ReplicaID -> SUBSET Cmd]
    /\ chan \in [ReplicaID -> Seq(Batches(Cmd))]
    /\ queue \in [ReplicaID -> Seq(Batches(Cmd))]
    /\ proposed \subseteq Cmd
    /\ ready \in BOOLEAN
    /\ pending \in Seq(SUBSET Cmd)
    /\ decided \in [Cmd -> 0..N]
    /\ received \subseteq Cmd
    /\ promised \subseteq Cmd

\* The commands somewhere in the leader's local-order cache.
CachedCmds == UNION {ToSet(b) : b \in UNION {ToSet(queue[r]) : r \in ReplicaID}}

\* No command the leader received disappears: the front pruning of
\* on_receive_local_order drops a command only while a proposal that
\* holds it is pending, and fair_propose clears only the fronts it merged.
NoCommandLost ==
    \A c \in received :
        \/ c \in CachedCmds
        \/ \E i \in 1..Len(pending) : c \in pending[i]
        \/ decided[c] > 0

\* Front staleness pruning "avoids re-proposing": no command is in two
\* proposals that are both waiting for commit.
PendingDisjoint ==
    \A i, j \in 1..Len(pending) : i < j => pending[i] \cap pending[j] = {}

\* Every command is decided at most once: one Finality record per command.
DecidedOnce ==
    \A c \in Cmd : decided[c] <= 1

\* The leader has nothing left to do: no local order in transit, no true
\* result for the pacemaker to act on, no proposal waiting for commit.
LeaderIdle ==
    /\ \A r \in ReplicaID : chan[r] = <<>>
    /\ ~ready
    /\ pending = <<>>

\* What a true result of on_receive_local_order promises (spec 4.8: the
\* signal that the pacemaker may call on_propose): every command then at a
\* contributor's front is decided by the time the leader has nothing left
\* to do.  Under Fairness a state that breaks this can stutter forever
\* (no leader action is enabled and clients need not send), so it is where
\* every counterexample to "a front command of a true result is eventually
\* decided" ends; checking it there is an invariant.
FrontsDecidedAtRest ==
    LeaderIdle => \A c \in promised : decided[c] > 0

\* The ordering layer turns the replicas' local orders into a finalized
\* order (spec 1): a command that every replica has put in a local order is
\* eventually decided, however the batches interleave in the leader's cache
\* and even if the clients then send nothing more.
EventuallyDecided ==
    \A c \in Cmd : (\A r \in ReplicaID : c \in sent[r]) ~> decided[c] > 0

=============================================================================
