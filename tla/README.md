# TLA+ models of the fair HotStuff core (Alkane)

The models cover the replica state machine in `src/src/consensus.cpp`, with its class declaration in
`src/unnamed/part_001`. This is a HotStuff core, with libhotstuff's three-chain commit rule, extended by a
fairness layer:

- replicas send their *local orders* of client commands to the leader;
- the leader merges them into the `orders` map of a proposal (`fair_propose`);
- each replica turns a committed block's orders into a final command order (`fair_finalize`).

## 1. Inventory

**ConsensusCore** (`HotStuffCore`, consensus.cpp 40-537, 863-990)

- *State.* Each replica holds:
  - `hqc`, the highest block with a QC;
  - `b_lock`, `b_exec` and `vheight`;
  - `tails`;
  - per block: `delivered`, `decision`, `voted` and `self_qc`;
  - the configuration (`nmajority = nreplicas - nfaulty`).
- *Operations:*
  - `on_deliver_blk` records delivery and updates the tails.
  - `update` is the three-chain rule. It updates hqc and the lock, then commits oldest first through `fair_finalize`.
  - `on_propose` creates a block on `hqc`, delivers and updates it, and throws `HeightRegression` if its height is not above `vheight`. The throw comes *after* the state has changed.
  - `on_receive_proposal` applies `update`, then the vote rule (see below).
  - `on_receive_vote` collects partial certificates. It computes the QC when the count reaches `nmajority`.
  - `prune(staleness)` nulls `qc_ref` and clears `parents` of the `staleness`-th ancestor of `b_exec` and of everything below it.
  - The async waiters (`qc_waiting`) are resolved by `on_qc_finish`.
- *Vote rule.* The replica votes only if the height is above `vheight`, and one of two rules holds:
  - liveness rule: `qc_ref` is higher than `b_lock`;
  - safety rule: the block extends `b_lock`.
- *Properties:*
  - P1: hqc, b_lock, b_exec and vheight never go down;
  - P2: committed blocks never conflict;
  - P3: decided blocks are closed under ancestry;
  - at most one QC per height;
  - no "safety breached" throw.

**ReplicaConfig / on_init / add_replica** set the majority size and the genesis block. The genesis block counts as voted by every replica.

**FairOrdering** (consensus.cpp 255-334, 637-789):

- *`fair_propose`* extends the first contributor's order with every command of the others, then extends every other order with the commands of the first one's order. It then clears every contributor's front batch.
- *`fair_finalize`* works in two steps:
  1. It computes weights Σ(1-γ^rank) and sorts by them.
  2. It sorts *again* with a pairwise-majority comparator, where the hash breaks ties.
- *Properties:*
  - P6: every merged order is an arrangement of the same command set;
  - P5: the result is determined;
  - the spec (4.5 B) says lower weight comes earlier.

**Ordering caches** (consensus.cpp 540-634, 853-860)

- `on_local_order` records the commands in `seen_propose_level` and sends the order unchanged. An empty order is not sent.
- `on_receive_local_order` stores the batch in the leader's cache. Once `nmajority` replicas have batches, it filters each front batch against `proposed_cmds` and reports whether a proposal may be made.
- `reorder` calls `on_local_order` with an empty order, so it sends nothing.
- Commit removes commands from `proposed_cmds`.
- The caches themselves live in `EntityStorage`, which is not under `src/`.

**Messages** (Proposal, Vote, LocalOrder, Finality; part_001 198-435) are serialisable structs. **MergeOrder** (part_000) is a container nothing calls.

## 2. Modules

| module | models | state ↔ code |
|---|---|---|
| `HotStuffCore` | ConsensusCore, ReplicaConfig | see below |
| `MCHotStuffCore` | TLC instance | 3 correct replicas plus 1 faulty replica, symmetry over the correct ones |
| `FairOrder` | `fair_propose` merge, `fair_finalize` | operators `FairPropose`, `FairFinalize`, plus a two-step harness |
| `MCFairOrder` | TLC instance | commands `1..3`, 3 contributors, γ = 1/2 |
| `OrderFlow` | ordering caches, `fair_propose`'s clearing, commit's cache updates | see below |
| `MCOrderFlow` | TLC instance | 3 replicas (`nmajority` 2), commands as model values, symmetry over commands |

### `HotStuffCore`

**Blocks.** A block is a number. `blocks[n]` records the block's parent (`parents[0]`), its `qcref` (`qc_ref`), its height and its proposer. A QC is represented by the block it certifies.

**Per-replica variables.** `hqc`, `bLock`, `bExec`, `vheight`, `delivered`, `tails` and `decided` are per-replica maps of the C++ members. `decided` holds the blocks whose `decision` is 1. `voted[r][b]` is `b->voted` at the proposer `r`.

**Messages.** The `proposals` and `votes` sets are the messages ever sent. A message can be received any number of times and in any order: the network may duplicate and reorder, and losing a message is the same as never receiving it.

**Exceptions.** `fatal[r]` records an exception that escaped a handler (`HeightRegression`, `SafetyBreached`). It also records `PrunedRead`: a read of `parents[0]` of a block that `prune` emptied, which is undefined behaviour in the code. Such a replica takes no further steps.

**Pruning.** `pruned[r]` is the set of blocks whose `qc_ref` and `parents` `prune` cleared at `r`. `QcRefAt(r, b)` is `b->qc_ref` as `r` sees it: `NoBlock` (nullptr) once `b` is pruned. `update` and the vote rule read `qc_ref` only through it, so every null check of the code is an early return of the model.

**Actions:**

- `Propose(r, p)` is `on_propose`, including `on_deliver_blk` and `update(bnew)`, the height check, and the self-vote through `on_receive_proposal`.
- `ReceiveProposal(r, b)` delivers the missing ancestors (the caller's part) and then runs `on_receive_proposal`.
- `ReceiveVote(r, v, b)` is `on_receive_vote`. On reaching `nmajority` it runs `update_hqc` and then `on_qc_finish(blk)` (`OnQcFinish`).
- `AsyncQcFinish(r, b)` is the pacemaker calling `async_qc_finish(blk)` for a block `r` holds. A block with a quorum (`QcReady`) gets an already resolved promise, which changes nothing; otherwise `b` joins `qcWaiting[r]` (`qc_waiting`) unless it is there already. The pacemaker is outside `src/`, so the model lets it call at any time for any delivered block.
- `AsyncHqcUpdate(r)` is the pacemaker calling `async_hqc_update()`: `hqcWaiting[r]` becomes true (a pending `hqc_update_waiting` promise). A second call chains onto the same promise and changes nothing. `OnHqcUpdate` is the `on_hqc_update()` that `update_hqc` calls exactly when it moves hqc. It runs wherever hqc moves: in `ApplyUpdate` (the update of a proposal, including the paths that then throw) and in `ReceiveVote` on reaching the quorum.
- `ReceiveProposal` also runs `on_qc_finish(bnew->qc_ref)`; `Propose` does not, as the code skips it for a self proposal.
- `Prune(r, k)` is `prune(k)`. `PruneStart` is its first loop: it walks `k` parents back from `b_exec`, and returns without effect at a block with no parents (b0, or a block already cut). The second loop clears the start block and all its ancestors, so `pruned[r]` gains `Ancestors(start)`. The caller is outside `src/`, so the model lets it prune with staleness `0..MaxStaleness` at any time.

**Operators.** `Update` is `update` as one value, with every early return an arm of an `IF` chain in the code's order. An arm that would follow a cleared `parents[0]` (of `blk2`, `blk1`, or a block of the commit walk) sets the fault `PrunedRead`. `OpinionReadsPruned` is the same test for the safety-rule walk of the vote rule. The commit walk (`WalkTo`/`CommitQueue`) and the `safety breached` check are part of it. `Opinion` is the vote rule.

**No refinement.** An abstract committed-log specification is not part of the project. Within the block bound TLC can reach, every replica commits along one branch. A log refinement there says no more than `DecidedChain`, and the same mutant breaks both. It becomes worth stating with `CommitSafety`, once a fork is reachable (see the plan).

**Assumptions:**

- *The parent of a new block is the proposer's current `hqc`.* `on_propose` takes `parents` from its caller, the pacemaker, which is not in `src/`. The model fixes `parents[0]` to the proposer's hqc block, so `qc_ref` is always the parent. This is a restriction of the model, not a property of any code in this repository. Letting the proposer pick any delivered parent made 5 blocks take more than 15 minutes.
- *Delivery of missing ancestors.* `on_receive_proposal` assumes that its caller has delivered the proposal's ancestors. `ReceiveProposal` delivers them (`Closure`) before running the handler. That is the caller's behaviour, taken from the spec.
- *Faulty replicas only send votes,* for any block at any time. A Byzantine proposer would need signatures the model does not have.
- *Votes are kept only at the block's proposer.* Correct replicas send their votes there (`do_vote(prop.proposer, …)`). The code would also accept a faulty vote at another replica and create `self_qc` lazily. However, a single voter never reaches `nmajority` there, and nothing reads that set.
- *`fair_finalize` is assumed to return a non-empty order.* HotStuffCore abstracts it as "the block commits"; FairOrder checks it separately.

### `FairOrder`

**`FairPropose(fronts)`** follows the merge.

- `ExtendFirst` is the first loop. The snapshot `vc` is taken once per iteration.
- The second loop is a `SelectSeq` of the first replica's final order.

**`FairFinalize(orders)`** is the *set* of results the code can produce.

- It is a single sorted arrangement when the comparator `Precedes` is a strict weak ordering.
- It is any arrangement otherwise. This is undefined behaviour of `std::sort`.
- The first, weight-based sort only fixes the arrangement the second sort starts from. It therefore affects nothing when the comparator is valid, and `Weight` is used by the property that states the spec's claim.
- Weights are scaled by `GammaDen^L`, which makes them exact integers.
- As written, the comparator lambda at line 297 does not compile: it captures nothing and a `;` is missing. The model takes its evident meaning.

### `OrderFlow`

**Variables:**

- `chan[r]` holds the LocalOrder messages from `r` that are in transit. Delivery is FIFO per sender, and may be delayed indefinitely.
- `queue[r]` is the leader's `local_order_cache`. It is modelled from the spec, because `EntityStorage` is not in `src/`.
- `proposed` is `proposed_cmds`.
- `ready` is the last result of `on_receive_local_order`. The pacemaker proposes only on a true result (spec 4.8).
- `pending` holds the leader's proposals that are not yet committed, oldest first.
- `decided[c]` counts the Finality records emitted for command `c`.

**Actions:**

- `LocalOrder(r, cmds)` is `on_local_order` with a non-empty order of commands new to `r`. An empty order, and therefore `reorder`, returns before sending anything.
- `ReceiveLocalOrder(r)` is `on_receive_local_order`: `add_local_order`, then the front staleness pruning (`PruneFront`, once per contributor), then the result (`Ready`).
- `Propose` is `fair_propose` plus `on_propose`:
  - the proposal holds the union of the fronts;
  - every contributor's front is cleared;
  - the commands become `proposed_cmds`.
- `Commit` is the commit loop of `update` for the oldest proposal: decide its commands and remove them from `proposed_cmds`.

**Fairness** (`FairSpec == Spec /\ Fairness`). Weak fairness is assumed for `ReceiveLocalOrder(r)` for every `r`, for `Propose` and for `Commit`, but never for `LocalOrder`. See section 4.

**Assumptions.** These come from the spec, because the code is not in `src/`:

- The cache is a FIFO *queue of batches* per replica, one batch per `add_local_order`.
- A command enters `proposed_cmds` when it is proposed.

**Abstractions:**

- A proposal is reduced to its command set. This is justified by `MergeUnion`.
- Consensus is reduced to "the leader's proposals commit in order". `HotStuffCore`'s `DecidedChain` shows that for one branch.
- `seen_propose_level` and `seen_execute_level` are written but never read by the core, so they are left out.

## 3. Runs

| run | cfg | expect | checks |
|---|---|---|---|
| `core_safety` | `MCHotStuffCore.cfg` | pass | `UniqueQCPerHeight`, `DecidedChain`, `NoSafetyBreach`, `MonotoneState` |
| `fair_merge` | `MCFairOrder_merge.cfg` | pass | `TypeOK`, `MergeUnion` |
| `finalize_cycle` | `MCFairOrder_cycle.cfg` | violation | `ComparatorIsStrictWeakOrder` |
| `finalize_weight` | `MCFairOrder_weight.cfg` | violation | `WeightOrderRespected` |
| `order_flow` | `MCOrderFlow.cfg` | pass | `TypeOK`, `NoCommandLost` |
| `order_pending` | `MCOrderFlow_pending.cfg` | violation | `PendingDisjoint` |
| `order_decided` | `MCOrderFlow_decided.cfg` | violation | `DecidedOnce` |
| `order_fronts` | `MCOrderFlow_fronts.cfg` | violation | `FrontsDecidedAtRest` |
| `order_starvation` | `MCOrderFlow_live.cfg` | violation | `EventuallyDecided` |
| `core_prune` | `MCHotStuffCore_prune.cfg` | pass | `NoPrunedRead` |
| `qc_liveness` | `MCHotStuffCore_qclive.cfg` | pass | `TypeOK`, `QcWaiterResolved`, `HqcWaiterResolved` |

### `core_safety`

**Bounds.** 4 replicas (`nmajority` 3), one of them faulty, and `MaxBlocks = 5` (genesis plus 5). About 257k distinct states, about 1m40 with two workers.

**What the bounds cover:**
- two conflicting blocks at one height;
- a three-chain commit of more than one block;
- a Byzantine vote completing a QC;
- the `HeightRegression` throw.

**What it does not cover.** Committing two conflicting blocks would need about 8 blocks, which is out of reach here. `CommitSafety` is therefore defined but not yet in a run (see the plan).

**Type invariant.** `TypeOK` is not checked here: the view drops variables it reads. It is checked in `qc_liveness`, which has no view.

**Model settings:**
- `CHECK_DEADLOCK FALSE`: when the block bound is reached, or every replica has halted, nothing more happens, and an idle replica is a legal state of the code.
- `VIEW` drops `delivered` and `tails`. They only affect future behaviour through `DeliverAll`, which recomputes them from `blocks`. It also drops `qcWaiting` and `hqcWaiting`, which no other variable depends on, and `pruned` (see `core_prune` for why that is sound).
- The cfg sets `PacemakerWaits = FALSE`, which leaves out `AsyncQcFinish` and `AsyncHqcUpdate`. These pacemaker calls write only the two waiter variables. Left in, they split view-equal states into copies that symmetry, which TLC applies to the full state, no longer merges: 489k states instead of 257k. `qc_liveness` sets `PacemakerWaits = TRUE` and checks them. `core_prune` sets it to `FALSE` as well.
- `SYMMETRY` permutes the correct replicas. They are interchangeable model values.

### `fair_merge`

Covers all 3375 choices of three non-empty duplicate-free front batches over three commands.

`MergeUnion` is spec P6, strengthened: every merged order starts with its contributor's own batch and has no duplicates. This is also why `fair_finalize` never reads past the end of an order: all the orders have one length.

### `finalize_cycle` (violation)

Fronts `[1]`, `[2,3]`, `[3]` merge to `[1,2,3]`, `[2,3,1]`, `[3,1,2]`. That is a Condorcet cycle, so the comparator is not transitive and `std::sort`'s behaviour is undefined. The spec's determinism requirement and P5 are therefore not ensured by the code.

### `finalize_weight` (violation)

Orders `[1,2,3]`, `[1,2,3]`, `[3,1,2]` give weights 1.75, 2.375 and 2.25. The code outputs `[1,2,3]`, so 3 follows 2 although it weighs less. This contradicts spec 4.5 B step 1 and S2, while matching its step 3: the spec disagrees with itself.

### `order_flow`

**Bounds.** 3 replicas with `nfaulty` 1, so `nmajority` is 2. 3 commands, and batches of up to 2 commands. This gives 614k distinct states in about 40 s.

The bounds are the smallest that still allow:
- a late batch;
- a front that is wholly proposed and then cleared;
- a front that is partly proposed and then rewritten;
- proposals that overlap with commits.

**What it shows:**
- The pruning and the merge never drop a command that is not in a pending or decided proposal (`NoCommandLost`).

`CHECK_DEADLOCK FALSE`: once every replica has ordered every command and every message is handled, nothing more can happen. The system behaves the same way without new client input.

### `order_pending` (violation)

Replica 1 sends `[c1]` and then `[c2]`. It is late: by the time its batches reach the leader, `{c1,c2}` has been proposed and is still pending.

1. The pruning clears replica 1's wholly-proposed front `[c1]`.
2. The next batch `[c2]` becomes the front. It is not pruned, because each front is pruned once per call.
3. The next proposal contains `c2` again.

The spec says the pruning exists "to avoid re-proposing".

### `order_decided` (violation)

1. `c1` is proposed and committed. Commit removes it from `proposed_cmds`, as spec 4.6 asks.
2. Then a slow replica's `[c1]` arrives.
3. It passes the pruning, is merged, and `c1` is decided a second time.

### `core_prune`

The replicas of `core_safety` with `MaxBlocks = 4` and `MaxStaleness = 1`, and a view that keeps `pruned` (about 266k distinct states, about 1 minute). Five blocks with `pruned` in the view take more than 20 minutes. With four blocks, prune(0) and prune(1) run before, between and after commits, and late or duplicated proposals whose `qc_ref` chain reaches a pruned block still arrive.

`NoPrunedRead`: no handler ever follows a `parents[0]` that `prune` cleared. Each such read in the code is preceded by a `decision` check or a null `qc_ref`, or it walks only blocks above `b_exec` or `b_lock`. Pruning from `hqc` instead of `b_exec` (the mutant) breaks it.

`core_safety` also drops `pruned` from its view. This is sound because of `NoPrunedRead`: the only thing `pruned` changes is a null `qc_ref` of a decided block, and `update` returns for a decided block at that same point anyway.

### `qc_liveness`

`QcWaiterResolved` (scenario S5 as liveness): a waiter in `qc_waiting` at a block's proposer is eventually resolved, or the proposer halts, once `nmajority` replicas have sent votes for the block. The fairness is `CoreFairness`, weak fairness of `ReceiveVote` for each vote.

Liveness is checked without symmetry and without a view, since both are unsound for it. `HqcWaiterResolved`: a pending `async_hqc_update` promise at a block's proposer is eventually resolved, or the proposer halts, once `nmajority` replicas have sent votes for a block higher than its hqc.

`TypeOK`, the type invariant of the whole core state, is checked here because this run has no view. A `DeliverAll` that adds a block to `tails` without marking it delivered (the mutant) breaks it.

That limits the run to `MaxBlocks = 1` (about 33k distinct states, about 75 s). Two blocks take more than 15 minutes. One block is enough to cover a waiter registered before the first vote, between votes, and (through `QcReady`) after the quorum.

A quorum test that fires only past `nmajority` (the mutant) leaves the qc waiter forever. An `update_hqc` that moves hqc without `on_hqc_update` leaves the hqc waiter forever. At one block, hqc moves only through `on_receive_vote`, so the `update` path of `OnHqcUpdate` is exercised by the safety runs but not checked by this property. A waiter at a replica that is not the proposer is not covered: nothing but a later proposal resolves it (hazard :947).

### `order_fronts` (violation)

Spec 4.8 says a true result of `on_receive_local_order` tells the pacemaker that the fronts it reports can be proposed. `promised` records the commands at a contributor's front whenever the result is true. `FrontsDecidedAtRest` states that at a state where the leader is idle (`LeaderIdle`: no LocalOrder in transit, no true result outstanding, no proposal pending), every promised command has been decided. Under the fairness of section 4, every fair behaviour of `OrderFlow` reaches such a state, so the invariant is the liveness claim "a reported front is eventually decided" evaluated where the flow comes to rest. Stating it as an invariant lets symmetry over commands apply (25 s). The liveness form at 3 commands needed more than 4.5 minutes.

With three commands, TLC finds this trace:

1. Replica 0 sends `[c1]`, `[c2]`, `[c3]`; replica 1 sends `[c1]`, `[c3]`; replica 2 sends `[c3]`.
2. The leader proposes `{c1,c3}`.
3. Receiving replica 0's `[c2]` pops replica 1's proposed `[c1]`; replica 1's `[c3]` becomes its front, and it is not pruned in that call. The result is true, and `c2` is promised.
4. Receiving replica 0's `[c3]` prunes replica 1's `[c3]`. Now only one contributor remains, the result is false, and no proposal follows.
5. `{c1,c3}` commits, and `c2` stays at replica 0's front with nothing to propose it.

The code's result is recomputed on every receipt, so a true result can be withdrawn by the next message. Two commands cannot show this: it needs a second proposed command to survive one pruning.

### `order_starvation` (violation)

All three replicas send `[c2]` and then `[c1]`.

1. The leader reports ready after the `[c2]` fronts, and `{c2}` is proposed and committed.
2. The three `[c1]` batches are now at the fronts. No further message arrives, so nothing tells the pacemaker to propose.
3. `c1`, ordered by every replica, is never decided.

`reorder` would be the natural place to re-trigger this, but it is a TODO that sends an empty order, which `on_local_order` drops.

### Mutants

Every property of a passing run is broken by a plausible bug in the code it is about:

| mutant | breaks |
|---|---|
| vote rule without `height > vheight` | `UniqueQCPerHeight` |
| `update_hqc` without the height test | `MonotoneState` |
| commit of `blk` alone instead of the whole queue | `DecidedChain` |
| ignoring `decision` in `update` | `NoSafetyBreach` |
| a single `vc` snapshot before the merge loop | `MergeUnion`, `TypeOK` (FairOrder) |
| `on_deliver_blk` without `blk->delivered = true` | `TypeOK` (HotStuffCore) |
| `is_cmd_proposed` without its negation in the pruning | `NoCommandLost` |
| `add_ordered_hash_to_front` without the emptiness test | `TypeOK` (OrderFlow) |
| `prune` starting from `hqc` instead of `b_exec` | `NoPrunedRead` |
| `on_receive_vote`'s quorum test `qsize + 1 > nmajority` | `QcWaiterResolved` |
| `update_hqc` moving hqc without `on_hqc_update` | `HqcWaiterResolved` |

## 4. Fairness and liveness

The consensus core itself is driven by a pacemaker and a network outside the repository, so `HotStuffCore`'s safety properties are checked without any fairness condition.

The liveness properties of the core, `QcWaiterResolved` and `HqcWaiterResolved`, assume only `CoreFairness`: a vote that was sent is eventually delivered to and handled by its recipient. The network between correct replicas is reliable, and `on_receive_vote` has no guard that could disable a pending vote forever, other than the recipient halting. No fairness is assumed for proposals, pruning or the pacemaker's waiters.

`OrderFlow` assumes weak fairness for three things, following the spec's data flow (1, 4.8):

- **`ReceiveLocalOrder(r)`**: a LocalOrder in transit to the leader is eventually handled. The network between correct replicas is reliable, and messages are processed FIFO per source (spec 5).
- **`Propose`**: the pacemaker acts on a true result of `on_receive_local_order`.
- **`Commit`**: the leader's proposals eventually commit, which is consensus making progress.

**`LocalOrder` is not fair.** Clients may stop sending at any time, and both runs include behaviours in which they stop. The fairness is per action, not `WF_ofVars(Next)`, so that the environment is never forced to act.

Under this fairness, every behaviour reaches a state where the leader is idle. Neither liveness claim holds:

- `EventuallyDecided` fails (see `order_starvation`);
- a front reported ready is not always decided (see `order_fronts`).

## 5. Plan (next sittings, most important first)

1. **`CommitSafety` across replicas** needs about 8 blocks. It would need a restricted configuration (two competing proposers, no faulty votes) to reach two three-chains on different branches. At that bound, an abstract committed-log specification checked by refinement would say more than `DecidedChain`.
2. **The empty-orders proposal** (line 118), from a pacemaker that proposes without a ready result. This needs a pacemaker model, and fair_finalize composed into the commit.
3. **Composition of `OrderFlow` with `FairOrder`**: proposals carrying merged orders, and commits finalizing them. The aim is to check that every replica finalizes one order per block.
4. **`QcWaiterResolved` and `HqcWaiterResolved` at two or more blocks**: this needs a liveness-preserving reduction; without symmetry, two blocks take more than 15 minutes.
5. **`async_wait_proposal` / `async_wait_receive_proposal`**: only worth modelling together with a pacemaker that consumes them.

## 6. Not modelled

**Storage release in `prune`.** `try_release_blk` is EntityStorage code outside `src/`. The model records what `prune` does to the blocks' pointers, but not the freeing of blocks. If storage freed a block that a late proposal still refers to, `get_delivered_blk` would throw. That is storage behaviour.

**`propose_waiting` and `receive_proposal_waiting`** (`async_wait_proposal`, `async_wait_receive_proposal`) are not modelled. Each is a single promise that `on_propose` and `on_receive_proposal` swap out and resolve on their success path, and the core never reads it. A boolean per replica for each would multiply the state of the view-less liveness run by 64, and no property tells them apart from the handlers' success. `hqc_update_waiting` is modelled (`hqcWaiting`).

**The stale `qc_waiting` waiter at a non-proposer.** A `qc_waiting` waiter registered at a non-proposer *after* the proposal carrying its QC was handled is never resolved. That behaviour is reachable in the model but not checked (`QcWaiterResolved` covers the proposer only), because whether it matters depends on which blocks the pacemaker waits on. It is recorded as a hazard.

- Cryptography: QCs are sets of voters, and signatures are trusted.
- Serialization and logging.
- The commented-out Themis graph code.
- `MergeOrder` (part_000), which nothing calls.
- The two-step HotStuff build (`HOTSTUFF_TWO_STEP`).
- The empty `orders` map of a proposal made without a ready result (line 118). Only a pacemaker outside `src/` proposes that way (see the plan).
