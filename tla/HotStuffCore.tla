--------------------------- MODULE HotStuffCore ---------------------------
(***************************************************************************)
(* The HotStuff safety state machine of src/src/consensus.cpp (class       *)
(* HotStuffCore), run by every honest replica, together with the network  *)
(* that carries proposals and votes between them.                         *)
(*                                                                         *)
(* A block is named by a natural number (its position in creation order); *)
(* block 0 is the genesis block b0.  The content a leader puts into a     *)
(* block (canonical parent, the QC it carries, its height) is global and  *)
(* immutable, as a content-addressed block is.  What a replica keeps about *)
(* a block (delivered, decision, voted) is per replica, as every replica  *)
(* has its own Block objects in its own EntityStorage.                    *)
(*                                                                         *)
(* A quorum certificate is abstracted to the block it certifies: every QC *)
(* the code passes around (hqc.second, blk->qc, self_qc) certifies the    *)
(* block it is paired with.  Whether enough votes stand behind it is      *)
(* checked separately (QCValid below).                                     *)
(*                                                                         *)
(* Faulty replicas only vote, and may vote for every block at any time,   *)
(* which over-approximates what a Byzantine voter can send.               *)
(***************************************************************************)
EXTENDS Integers, FiniteSets, TLC


CONSTANTS
    Replica,     \* honest replicas running HotStuffCore
    Faulty,      \* Byzantine replicas: they vote for anything
    NFaulty,     \* the nfaulty argument of on_init
    MaxBlocks,   \* bound on the number of blocks ever proposed
    MaxStaleness,\* bound on the staleness argument of prune
    PacemakerWaits, \* whether the pacemaker calls async_qc_finish/async_hqc_update
    NoReplica    \* model value: the proposer of b0

ASSUME Replica \cap Faulty = {} /\ NoReplica \notin Replica \cup Faulty
ASSUME NFaulty \in Nat /\ MaxBlocks \in Nat \ {0}

AllReplicas == Replica \cup Faulty

\* on_init: config.nmajority = config.nreplicas - nfaulty
NMajority == Cardinality(AllReplicas) - NFaulty

B0 == 0
BlockId == 0..MaxBlocks

\* A null block_t (a qc_ref cut by prune).
NoBlock == -1

\* Outcome of the exceptions the core throws; a throw ends the replica.
\* PrunedRead stands for the undefined behaviour of reading parents[0] of a
\* block whose parents prune has cleared.
Fatal == {"none", "HeightRegression", "SafetyBreached", "PrunedRead"}

VARIABLES
    blocks,     \* block id -> [parent, qcref, height, proposer]
    proposals,  \* blocks broadcast by do_broadcast_proposal
    votes,      \* <<voter, block>> sent by do_vote to the block's proposer
    delivered,  \* replica -> blocks with blk->delivered = true
    tails,      \* replica -> HotStuffCore::tails
    hqc,        \* replica -> hqc.first (hqc.second certifies it)
    bLock,      \* replica -> b_lock
    bExec,      \* replica -> b_exec
    vheight,    \* replica -> vheight
    decided,    \* replica -> blocks with blk->decision = 1
    voted,      \* replica -> block -> blk->voted
    fatal,      \* replica -> the exception that stopped it, if any
    qcWaiting,  \* replica -> blocks with a promise in qc_waiting
    pruned,     \* replica -> blocks whose qc_ref and parents prune cleared
    hqcWaiting  \* replica -> a promise of async_hqc_update is pending

vars == <<blocks, proposals, votes, delivered, tails, hqc, bLock, bExec,
          vheight, decided, voted, fatal, qcWaiting, pruned, hqcWaiting>>

Parent(b) == blocks[b].parent
QcRef(b) == blocks[b].qcref
Height(b) == blocks[b].height

\* blk->qc_ref as replica r sees it: null once r has pruned blk.
QcRefAt(r, b) == IF b \in pruned[r] THEN NoBlock ELSE QcRef(b)

\* b0 = new Block(true, 1): delivered, decided, height 1; on_init makes
\* b0->qc certify b0 itself (b0->qc_ref = b0).
Genesis == [parent |-> B0, qcref |-> B0, height |-> 1, proposer |-> NoReplica]

\* The loops `for (b = blk; b->height > h; b = b->parents[0])` of update
\* and on_receive_proposal: the block the walk stops at, and the blocks it
\* passes.
RECURSIVE WalkTo(_, _)
WalkTo(b, h) == IF Height(b) > h THEN WalkTo(Parent(b), h) ELSE b

RECURSIVE WalkChain(_, _)
WalkChain(b, h) == IF Height(b) > h THEN {b} \cup WalkChain(Parent(b), h) ELSE {}

RECURSIVE Ancestors(_)
Ancestors(b) == IF b = B0 THEN {B0} ELSE {b} \cup Ancestors(Parent(b))

Extends(b, a) == a \in Ancestors(b)

-----------------------------------------------------------------------------
(* Each MUT_ operator below is a plausible coding error in the definition *)
(* that follows it; substituting it must make some checked property fail. *)

\* update_hqc without its height test
MUT_UpdateHqc(cur, b) == b

\* update_hqc(_hqc, qc): replace hqc only by a strictly higher block.
UpdateHqc(cur, b) == IF Height(b) > Height(cur) THEN b ELSE cur

\* commit only blk, not the gap between b_exec and blk
MUT_CommitQueue(blk, exec) == {blk}

\* The commit_queue of update: blk and its ancestors above b_exec.
CommitQueue(blk, exec) == WalkChain(blk, Height(exec))

\* the decision flag ignored, as if update ran on fresh Block copies
MUT_Decided(dec, b) == FALSE

\* `blk->decision`, read by the three early returns of update.
Decided(dec, b) == b \in dec

(* HotStuffCore::update(nblk), three-step variant (HOTSTUFF_TWO_STEP      *)
(* undefined), as the effect on replica r's state.  It reads nblk only    *)
(* through nblk->qc_ref (and nblk->qc, which certifies it), so it takes    *)
(* blk2 = nblk->qc_ref as r sees it.  Each early return of the code is one *)
(* branch, in the code's order; a read of parents[0] of a pruned block is  *)
(* the fault PrunedRead.                                                   *)
Update(r, blk2) ==
    LET blk1 == QcRefAt(r, blk2)
        blk  == QcRefAt(r, blk1)
        h    == Height(bExec[r])
        st   == [hqc |-> hqc[r], lock |-> bLock[r], exec |-> bExec[r],
                 decided |-> decided[r], fault |-> "none"]
        s1   == [st EXCEPT !.hqc = UpdateHqc(hqc[r], blk2)]
        s2   == [s1 EXCEPT !.lock = IF Height(blk1) > Height(bLock[r]) THEN blk1 ELSE @]
    IN  IF blk2 = NoBlock \/ Decided(decided[r], blk2) THEN st
        ELSE IF blk1 = NoBlock \/ Decided(decided[r], blk1) THEN s1
        ELSE IF blk = NoBlock \/ Decided(decided[r], blk) THEN s2
        \* commit requires direct parents: reads blk2->parents[0], blk1->parents[0]
        ELSE IF {blk2, blk1} \cap pruned[r] # {} THEN [s2 EXCEPT !.fault = "PrunedRead"]
        ELSE IF Parent(blk2) # blk1 \/ Parent(blk1) # blk THEN s2
        \* the commit walk reads parents[0] of every block above b_exec
        ELSE IF WalkChain(blk, h) \cap pruned[r] # {} THEN [s2 EXCEPT !.fault = "PrunedRead"]
        ELSE IF WalkTo(blk, h) # bExec[r] THEN [s2 EXCEPT !.fault = "SafetyBreached"]
        \* commit every block of the queue, oldest first; b_exec = blk
        ELSE [s2 EXCEPT !.exec = blk, !.decided = @ \cup CommitQueue(blk, bExec[r])]

\* the vheight test of on_receive_proposal dropped
MUT_Opinion(bnew, h, qc, p, lock, vh) ==
    \/ qc # NoBlock /\ Height(qc) > Height(lock)
    \/ IF h > Height(lock) THEN WalkTo(p, Height(lock)) = lock ELSE bnew = lock

\* The opinion of on_receive_proposal about bnew (height h, qc_ref qc,
\* parents[0] p), given the b_lock after update(bnew) and the vheight.
Opinion(bnew, h, qc, p, lock, vh) ==
    /\ h > vh
    /\ \/ qc # NoBlock /\ Height(qc) > Height(lock)  \* liveness condition
       \/ IF h > Height(lock)                         \* safety condition
            THEN WalkTo(p, Height(lock)) = lock
            ELSE bnew = lock

\* Plausible coding error: update_hqc moves hqc without calling
\* on_hqc_update.
MUT_OnHqcUpdate(r, new) == hqcWaiting[r]

\* Whether a promise of async_hqc_update is pending at r after hqc moves
\* to new: update_hqc calls on_hqc_update exactly when it replaces hqc,
\* which resolves hqc_update_waiting and installs a fresh promise.
OnHqcUpdate(r, new) == IF new # hqc[r] THEN FALSE ELSE hqcWaiting[r]

\* Apply the result u of Update to replica r.
ApplyUpdate(r, u) ==
    /\ hqc' = [hqc EXCEPT ![r] = u.hqc]
    /\ hqcWaiting' = [hqcWaiting EXCEPT ![r] = OnHqcUpdate(r, u.hqc)]
    /\ bLock' = [bLock EXCEPT ![r] = u.lock]
    /\ bExec' = [bExec EXCEPT ![r] = u.exec]
    /\ decided' = [decided EXCEPT ![r] = u.decided]

Live(r) == fatal[r] = "none"

\* The safety-rule walk of on_receive_proposal reads parents[0] of bnew and
\* of every block above b_lock on its branch; true if one was pruned.  (A
\* pruned bnew is decided, so not above b_lock: only p's branch matters.)
OpinionReadsPruned(r, h, qc, p, lock, vh) ==
    /\ h > vh
    /\ ~(qc # NoBlock /\ Height(qc) > Height(lock))
    /\ h > Height(lock)
    /\ WalkChain(p, Height(lock)) \cap pruned[r] # {}

\* on_qc_finish(blk) at r: resolve the promise waiting for blk's QC, if
\* any, and erase it from qc_waiting.
OnQcFinish(r, b) == [qcWaiting EXCEPT ![r] = @ \ {b}]

-----------------------------------------------------------------------------
Init ==
    /\ blocks = (B0 :> Genesis)
    /\ proposals = {}
    /\ votes = {}
    /\ delivered = [r \in Replica |-> {B0}]
    /\ tails = [r \in Replica |-> {B0}]
    /\ hqc = [r \in Replica |-> B0]
    /\ bLock = [r \in Replica |-> B0]
    /\ bExec = [r \in Replica |-> B0]
    /\ vheight = [r \in Replica |-> 0]
    /\ decided = [r \in Replica |-> {B0}]
    \* add_replica inserts every replica into b0->voted
    /\ voted = [r \in Replica |-> [b \in BlockId |-> IF b = B0 THEN AllReplicas ELSE {}]]
    /\ fatal = [r \in Replica |-> "none"]
    /\ qcWaiting = [r \in Replica |-> {}]
    /\ pruned = [r \in Replica |-> {}]
    /\ hqcWaiting = [r \in Replica |-> FALSE]

(* on_deliver_blk for the blocks in bs at replica r, oldest first: each  *)
(* becomes delivered and replaces its parent in tails.  A second delivery *)
(* only warns and returns false, so delivered blocks are left out.        *)
\* Plausible coding error: on_deliver_blk without `blk->delivered = true`,
\* so the block enters tails but is never marked delivered.
MUT_DeliverAll(r, bs) ==
    /\ UNCHANGED delivered
    /\ tails' = [tails EXCEPT ![r] = (@ \cup bs) \ {Parent(x) : x \in bs}]

DeliverAll(r, bs) ==
    /\ delivered' = [delivered EXCEPT ![r] = @ \cup bs]
    /\ tails' = [tails EXCEPT ![r] = (@ \cup bs) \ {Parent(x) : x \in bs}]

\* The blocks the caller fetches and delivers before it hands a proposal
\* for b to the core: b, its parents and its QC's block, recursively.
RECURSIVE Closure(_)
Closure(b) == IF b = B0 THEN {B0} ELSE {b} \cup Closure(Parent(b)) \cup Closure(QcRef(b))

(* on_propose(orders, parents) at replica r.  parents[0] = p is chosen   *)
(* by the pacemaker, which is not in src/; the model fixes it to r's hqc *)
(* block, a restriction that keeps five blocks in reach (so qc_ref is     *)
(* always the parent).  Create bnew carrying hqc,                          *)
(* deliver it, update(bnew), check its height against vheight, self-      *)
(* receive the proposal (vote to itself) and broadcast it.                *)
Propose(r, p) ==
    LET n == Cardinality(DOMAIN blocks)
        u == Update(r, hqc[r])
    IN
    /\ Live(r)
    /\ n <= MaxBlocks
    /\ p = hqc[r]
    /\ blocks' = blocks @@ (n :> [parent |-> p, qcref |-> hqc[r],
                                  height |-> Height(p) + 1, proposer |-> r])
    /\ delivered' = [delivered EXCEPT ![r] = @ \cup {n}]
    \* tails.erase(parents), then on_deliver_blk(bnew)
    /\ tails' = [tails EXCEPT ![r] = (@ \ {p}) \cup {n}]
    /\ ApplyUpdate(r, u)
    /\ CASE u.fault # "none" ->
              /\ fatal' = [fatal EXCEPT ![r] = u.fault]
              /\ UNCHANGED <<proposals, votes, vheight>>
         [] u.fault = "none" /\ Height(p) + 1 <= vheight[r] ->
              /\ fatal' = [fatal EXCEPT ![r] = "HeightRegression"]
              /\ UNCHANGED <<proposals, votes, vheight>>
         [] u.fault = "none" /\ Height(p) + 1 > vheight[r]
              /\ OpinionReadsPruned(r, Height(p) + 1, hqc[r], p, u.lock, vheight[r]) ->
              /\ fatal' = [fatal EXCEPT ![r] = "PrunedRead"]
              /\ UNCHANGED <<proposals, votes, vheight>>
         [] OTHER ->
              \* self proposal: no second update, opinion on the new block
              LET op == Opinion(n, Height(p) + 1, hqc[r], p, u.lock, vheight[r])
              IN  /\ vheight' = [vheight EXCEPT ![r] = IF op THEN Height(p) + 1 ELSE @]
                  /\ votes' = IF op THEN votes \cup {<<r, n>>} ELSE votes
                  /\ proposals' = proposals \cup {n}
                  /\ UNCHANGED fatal
    /\ UNCHANGED <<voted, qcWaiting, pruned>>

(* A proposal of another replica arrives at r: the caller delivers the    *)
(* block and whatever it still lacks of its ancestry (on_deliver_blk),    *)
(* then calls on_receive_proposal(prop): update(bnew), decide the opinion, *)
(* and vote to the proposer.                                               *)
ReceiveProposal(r, b) ==
    LET qc == QcRefAt(r, b)
        u  == Update(r, qc)
        op == Opinion(b, Height(b), qc, Parent(b), u.lock, vheight[r])
    IN
    /\ Live(r)
    /\ b \in proposals
    /\ blocks[b].proposer # r
    /\ DeliverAll(r, Closure(b) \ delivered[r])
    /\ ApplyUpdate(r, u)
    /\ CASE u.fault # "none" ->
              /\ fatal' = [fatal EXCEPT ![r] = u.fault]
              /\ UNCHANGED <<votes, vheight, qcWaiting>>
         [] u.fault = "none"
              /\ OpinionReadsPruned(r, Height(b), qc, Parent(b), u.lock, vheight[r]) ->
              /\ fatal' = [fatal EXCEPT ![r] = "PrunedRead"]
              /\ UNCHANGED <<votes, vheight, qcWaiting>>
         [] OTHER ->
              /\ vheight' = [vheight EXCEPT ![r] = IF op THEN Height(b) ELSE @]
              /\ votes' = IF op THEN votes \cup {<<r, b>>} ELSE votes
              \* on_qc_finish(bnew->qc_ref), unless qc_ref is null
              /\ qcWaiting' = OnQcFinish(r, qc)
              /\ UNCHANGED fatal
    /\ UNCHANGED <<blocks, proposals, voted, pruned>>

\* Votes of faulty replicas: any block, at any time.
FaultyVotes == Faulty \X (DOMAIN blocks \ {B0})

\* Plausible coding error: the quorum compared with > instead of ==, so
\* that the QC of a block is never computed.
MUT_CompletesQuorum(qsize) == qsize + 1 > NMajority

\* The test of on_receive_vote after a new voter was added: the QC is
\* computed when the count reaches nmajority.
CompletesQuorum(qsize) == qsize + 1 = NMajority

(* on_receive_vote(vote) at replica r for a delivered block: drop it if  *)
(* the block already has a quorum or the voter already voted (stuttering);*)
(* otherwise add the voter, and on reaching nmajority compute the QC and  *)
(* update_hqc(blk, qc).                                                    *)
ReceiveVote(r, v, b) ==
    LET qsize == Cardinality(voted[r][b])
    IN
    /\ Live(r)
    \* get_delivered_blk(vote.blk_hash) throws unless b was delivered at r
    /\ b \in delivered[r]
    \* correct replicas send their vote to the proposer (do_vote).  A faulty
    \* vote sent elsewhere makes the receiver create self_qc lazily, but one
    \* voter never reaches nmajority there and nothing reads that set: only
    \* votes at the proposer are kept.
    /\ <<v, b>> \in votes \cup FaultyVotes
    /\ blocks[b].proposer = r
    /\ qsize < NMajority
    /\ v \notin voted[r][b]
    /\ voted' = [voted EXCEPT ![r][b] = @ \cup {v}]
    \* on reaching nmajority: update_hqc(blk, qc), then on_qc_finish(blk)
    /\ hqc' = IF CompletesQuorum(qsize)
                THEN [hqc EXCEPT ![r] = UpdateHqc(@, b)]
                ELSE hqc
    /\ qcWaiting' = IF CompletesQuorum(qsize)
                      THEN OnQcFinish(r, b)
                      ELSE qcWaiting
    /\ hqcWaiting' = IF CompletesQuorum(qsize)
                       THEN [hqcWaiting EXCEPT ![r] = OnHqcUpdate(r, UpdateHqc(hqc[r], b))]
                       ELSE hqcWaiting
    /\ UNCHANGED <<blocks, proposals, votes, delivered, tails, bLock, bExec,
                   vheight, decided, fatal, pruned>>

\* The test of async_qc_finish: blk already has nmajority votes at r.
QcReady(r, b) == Cardinality(voted[r][b]) >= NMajority

(* async_qc_finish(blk), called by the pacemaker at r with a block it     *)
(* holds: a block with a quorum gets an already resolved promise (no      *)
(* state change); otherwise the promise of qc_waiting[blk], inserted if   *)
(* there is none yet.                                                     *)
AsyncQcFinish(r, b) ==
    /\ Live(r)
    /\ b \in delivered[r]
    /\ ~QcReady(r, b)
    /\ b \notin qcWaiting[r]
    /\ qcWaiting' = [qcWaiting EXCEPT ![r] = @ \cup {b}]
    /\ UNCHANGED <<blocks, proposals, votes, delivered, tails, hqc, bLock, bExec,
                   vheight, decided, voted, fatal, pruned, hqcWaiting>>

(* async_hqc_update() at r, called by the pacemaker: a continuation on    *)
(* hqc_update_waiting, resolved with hqc.first by the next on_hqc_update. *)
(* A second call chains onto the same pending promise (no state change).  *)
AsyncHqcUpdate(r) ==
    /\ Live(r)
    /\ ~hqcWaiting[r]
    /\ hqcWaiting' = [hqcWaiting EXCEPT ![r] = TRUE]
    /\ UNCHANGED <<blocks, proposals, votes, delivered, tails, hqc, bLock, bExec,
                   vheight, decided, voted, fatal, qcWaiting, pruned>>

\* The first loop of prune(staleness): skip staleness blocks back from
\* b_exec along parents[0]; prune returns if it meets a block without
\* parents (b0, or a block an earlier prune cut).
RECURSIVE PruneStart(_, _, _)
PruneStart(r, b, k) ==
    IF k = 0 THEN b
    ELSE IF b = B0 \/ b \in pruned[r] THEN NoBlock
    ELSE PruneStart(r, Parent(b), k - 1)

\* Plausible coding error: the staleness counted back from the highest
\* QC block instead of from b_exec.
MUT_Prune(r, k) ==
    LET start == PruneStart(r, hqc[r], k)
    IN  /\ Live(r)
        /\ start # NoBlock
        /\ pruned' = [pruned EXCEPT ![r] = @ \cup Ancestors(start)]
        /\ UNCHANGED <<blocks, proposals, votes, delivered, tails, hqc, bLock,
                       bExec, vheight, decided, voted, fatal, qcWaiting,
                       hqcWaiting>>

(* prune(staleness) at r, called by the layer above the core: from the    *)
(* start block, the depth-first loop nulls qc_ref and pops every parent,  *)
(* down to the blocks that have none left (b0, or blocks already cut), and *)
(* asks storage to release them.  Every block on the way is an ancestor of *)
(* start, as every block has one parent.  (b0's qc_ref is nulled only when *)
(* b0 is start; nothing reads qc_ref of the decided b0 either way.)  The   *)
(* release is storage behaviour; the core keeps its references.           *)
Prune(r, k) ==
    LET start == PruneStart(r, bExec[r], k)
    IN  /\ Live(r)
        /\ start # NoBlock
        /\ pruned' = [pruned EXCEPT ![r] = @ \cup Ancestors(start)]
        /\ UNCHANGED <<blocks, proposals, votes, delivered, tails, hqc, bLock,
                       bExec, vheight, decided, voted, fatal, qcWaiting,
                       hqcWaiting>>

Next ==
    \/ \E r \in Replica : Propose(r, hqc[r])
    \/ \E r \in Replica, b \in BlockId : ReceiveProposal(r, b)
    \/ \E r \in Replica, v \in AllReplicas, b \in BlockId : ReceiveVote(r, v, b)
    \/ PacemakerWaits /\ \E r \in Replica, b \in BlockId : AsyncQcFinish(r, b)
    \/ \E r \in Replica, k \in 0..MaxStaleness : Prune(r, k)
    \/ PacemakerWaits /\ \E r \in Replica : AsyncHqcUpdate(r)

Spec == Init /\ [][Next]_vars

(* Fairness: the network eventually delivers every vote a correct replica  *)
(* sent to the proposer (reliable links, spec 5).  Nothing is assumed of    *)
(* faulty voters, the pacemaker (proposals, async_qc_finish, prune) or the *)
(* order in which proposals arrive.                                        *)
CoreFairness ==
    \A r, v \in Replica : \A b \in BlockId : WF_vars(ReceiveVote(r, v, b))

FairSpec == Spec /\ CoreFairness

-----------------------------------------------------------------------------
BlockRec == [parent : BlockId, qcref : BlockId, height : 1..MaxBlocks + 1,
             proposer : Replica \cup {NoReplica}]

TypeOK ==
    /\ DOMAIN blocks \subseteq BlockId
    /\ \A b \in DOMAIN blocks : blocks[b] \in BlockRec
    /\ proposals \subseteq DOMAIN blocks
    /\ votes \subseteq Replica \X DOMAIN blocks
    /\ \A r \in Replica :
        /\ delivered[r] \subseteq DOMAIN blocks
        /\ tails[r] \subseteq delivered[r]
        /\ {hqc[r], bLock[r], bExec[r]} \subseteq delivered[r]
        /\ decided[r] \subseteq delivered[r]
        /\ vheight[r] \in 0..MaxBlocks + 1
        /\ voted[r] \in [BlockId -> SUBSET AllReplicas]
        /\ fatal[r] \in Fatal
        /\ qcWaiting[r] \subseteq delivered[r]
        /\ pruned[r] \subseteq delivered[r]
        /\ hqcWaiting[r] \in BOOLEAN

-----------------------------------------------------------------------------
(* Safety properties.                                                      *)

\* The QCs that exist: hqc of every replica, the QC every block carries,
\* and every self_qc a proposer computed on reaching nmajority votes.
FormedQC ==
    {hqc[r] : r \in Replica} \cup {QcRef(b) : b \in DOMAIN blocks}
    \cup {b \in DOMAIN blocks : \E r \in Replica : Cardinality(voted[r][b]) >= NMajority}

\* P4/P8 together: no two different blocks of the same height both get a
\* quorum certificate.  It rests on every honest replica voting at most
\* once per height (the vheight test of on_receive_proposal) and on
\* on_receive_vote computing the QC only at nmajority distinct voters.
UniqueQCPerHeight ==
    \A c1, c2 \in FormedQC : Height(c1) = Height(c2) => c1 = c2

\* P3: the blocks a replica has marked committed are exactly b_exec and its
\* ancestors: the commit loop of update commits the whole gap between the
\* old b_exec and the new one, also when proposals were missed or arrive
\* out of order.
DecidedChain ==
    \A r \in Replica : decided[r] = Ancestors(bExec[r])

\* The commit walk of update never throws "safety breached": a replica
\* never finds the block it is about to commit off the branch of b_exec,
\* whatever order (or how many times) proposals reach it.
NoSafetyBreach ==
    \A r \in Replica : fatal[r] # "SafetyBreached"

\* P2: any two committed blocks, at the same or at different replicas,
\* lie on one branch.
CommitSafety ==
    \A r1, r2 \in Replica : \A b1 \in decided[r1], b2 \in decided[r2] :
        Extends(b1, b2) \/ Extends(b2, b1)

\* Scenario S5 as progress: once nmajority correct replicas have voted for
\* a block, a promise of async_qc_finish waiting for it at its proposer is
\* eventually resolved by on_receive_vote, unless that replica has stopped.
QcWaiterResolved ==
    \A r \in Replica : \A b \in BlockId :
        (/\ b \in qcWaiting[r]
         /\ blocks[b].proposer = r
         /\ Cardinality({v \in Replica : <<v, b>> \in votes}) >= NMajority)
            ~> (b \notin qcWaiting[r] \/ fatal[r] # "none")

\* The pacemaker's wait on async_hqc_update ends: once nmajority correct
\* replicas have voted for a block a replica proposed, higher than its
\* current hqc, a pending hqc_update_waiting promise there is eventually
\* resolved, by the update_hqc of on_receive_vote or by an earlier move of
\* hqc in update, unless that replica has stopped.
HqcWaiterResolved ==
    \A r \in Replica : \A b \in BlockId :
        (/\ hqcWaiting[r]
         /\ b \in DOMAIN blocks
         /\ blocks[b].proposer = r
         /\ Height(b) > Height(hqc[r])
         /\ Cardinality({v \in Replica : <<v, b>> \in votes}) >= NMajority)
            ~> (~hqcWaiting[r] \/ fatal[r] # "none")

\* The comment of update, "decided blk could possible be incomplete due to
\* pruning": whatever staleness prune is called with and whenever, no
\* handler ever reads parents[0] of a block prune has cut (an undefined
\* read); every read of a cut qc_ref is a null test that returns early.
NoPrunedRead ==
    \A r \in Replica : fatal[r] # "PrunedRead"

\* P1: no step lowers hqc, b_lock, b_exec or vheight at any replica.
MonotoneState ==
    [][\A r \in Replica :
        /\ Height(hqc'[r]) >= Height(hqc[r])
        /\ Height(bLock'[r]) >= Height(bLock[r])
        /\ Height(bExec'[r]) >= Height(bExec[r])
        /\ vheight'[r] >= vheight[r]]_vars

=============================================================================
