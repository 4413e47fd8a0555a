# TLA+ models of the Banyan consensus replica

This directory holds TLA+ models of the two safety engines of `src/protocol` (Banyan and ICC), the replica driver and network that run them, and the TLC configurations that check them. Banyan is an ICC-style BFT protocol with a fast path: rank −1 notarization shares.

## The system

A replica (`src/replica/replica.go`) runs three goroutines that matter here:

* **Event loop** (`Replica.Start`). It takes every inbound block, notarization share and finalization share from `eventChan`. These are fed by `node.recv`/`node.handle` and the `Handle*` methods. It runs the matching handler of the **safety engine** (`src/protocol/banyan.go` or `icc_actually.go`, chosen by `--algorithm`) to completion. The first event also sends the start signal.
* **Driver** (`ListenLocalEvent`). It waits for the start signal, then for either a new height from the **pacemaker** (`src/local_timeout`) or its rank timer. It proposes when `Rotation.IsLeader` says it leads (height, rank). `proposeBlock` broadcasts the block and calls `ProcessBlock` on the driver goroutine itself.
* **Committed-block consumer** (measurement only).

Two more goroutines of `src/node/node.go` feed it. `node.handle` calls `HandleBlock` and the share handlers, which push onto `eventChan`. `node.txn` calls `handleQuery` for status queries from the HTTP server. `handleQuery` also sends the start signal, so whichever of `handleQuery` and the event loop comes first starts the driver. Nothing locks the safety engine, so the driver's `ProcessBlock` on its own proposal runs concurrently with the event loop's handlers.

The safety engine keeps:

* the block store;
* the notarization bag, `NSharesBagBanyan`, with a per-height counter of rank −1 shares;
* the finalization bag, `FSharesBag`;
* the head (highest notarized block);
* per-height vote bookkeeping: `sentNRank`, `sentNSharesNo`, `sentNShareId`, `sentFShare`;
* the notarized and finalized sets;
* the last shipped block and the ship queue.

The handlers call each other:

* `ProcessBlock` echoes a new block, stores it, and votes: rank −1 on a first vote for a rank-0 block, otherwise only for a lower rank than its earlier vote.
* `ProcessNotarizationShare`, on notarization, moves the head, calls `LocalTimeout.HeightIncreased(h+1)`, and sends a finalization share if its single vote at h was for this block. On the fast-path threshold, it finalizes.
* `ProcessFinalizationShare` finalizes on more than 2n/3 shares.
* Finalization calls `TryToShip`. It commits a block whose parent is the last shipped block, then retries the ship queue.

**ICC** (`icc_actually.go`) has the same handlers with three differences: it votes for every valid block above its head, whatever its rank, with no rank −1 share; it notarizes with the plain `NSharesBag` (more than 2n/3 voters); and it drops a share for an already notarized block at once. `TryToShip` is the same code in both.

Replicas with ids above n − ByzNo are Byzantine, and their socket is silent (`socket.Send` drops everything). The spec claims tolerance of f malicious replicas, so the model also lets a Byzantine replica send rival blocks in a leader's name. `ProcessBlock` only logs a signature that does not verify, so a forged block is accepted like a real one.

## Inventory

| Component | Source | Module | Status |
|---|---|---|---|
| Banyan safety engine | `protocol/banyan.go` | `Banyan`, `Shipping`, `BanyanSystem` | modelled |
| ICC safety engine | `protocol/icc_actually.go` | `Icc`, `Shipping`, `IccSystem` | modelled |
| Share aggregators | `blockchain/notarization.go`, `finalization.go` | `ShareBags` | modelled |
| Block store | store package not in repo | `Shipping` (set of blocks, `Commit`) | partly |
| Pacemaker | `local_timeout/local_timeout.go` | `LocalTimeout` | modelled |
| Replica driver | `replica/replica.go`, `node/node.go` | `ReplicaNet` (`Receive`, `Boot`, `NewHeight`, `Timeout`, `ProposeIfLeader`); `StartSignal`; `ProposalRace` | partly (measurement and status text left out) |
| Election | `election/rotation.go` | `Rotation`, `Election` | partly (the Static election has no caller) |
| Transport | `socket/socket.go`, `node/node.go` | `ReplicaNet` (`net`, `Apply`), `Messages` | partly |
| View-based replica (HotStuff/Streamlet) | `replica/replica_view.go`, … | `StartSignalView` | partly: its goroutines around `startSignal`. The pacemaker and the engines are not in the repository |
| HTTP status, server, config, messages | `node/http.go`, `server/`, `init.go`, `message/` | none | not modelled: I/O only |

`PROJECT.json` lists the hazards: what is hard to test in this code, each at the line where it bites, with the properties that cover it or the reason none does yet.

## Modules

The modules follow the code's layering: an engine is a set of pure operators on one replica's state; `ReplicaNet` runs N copies of any engine; a `*System` module plugs one engine into `ReplicaNet`; an `MC_*` module gives the constants values.

* **`Messages`**: the block, notarization-share and finalization-share messages.
* **`ShareBags`** models the aggregators as values. `NBagAdd` is the insertion into `NSharesBagBanyan`; `NBagNotarized` and `NBagFastFinalized` are the two flags its `Add` returns, both computed on the bag after insertion; the fast flag counts insertions per height, as the code does. `NSharesBagAdd`/`NSharesBagBuilt` are ICC's plain bag, `FBagAdd`/`FBagBuilt` the finalization bag, with integer division.
* **`LocalTimeout`**: `HeightIncreased`, on the fields `curHeight` and `newHeightChan` of the replica record.
* **`Shipping`**: `TryToShip`, the ship-queue loop and `CommitBlock`, the same code in both engines.
* **`Banyan`** and **`Icc`**: the engines. `InitReplica` is the constructor; `ProcessBlock`, `ProcessNotarizationShare`, `ProcessFinalizationShare` and `MakeProposal` are operators from replica state to replica state, composed exactly as the code calls them. Broadcasts collect in the record's `out`. `IsNoOp` says which messages the state already makes no-ops.
* **`ReplicaNet`** takes the engine's operators as constant parameters and models N replicas.
  * State:
    * `rep[r]` is one replica's engine, store, bags and pacemaker.
    * `drv[r]` is its driver: started, height, rank.
    * `net[r][p]` is the FIFO link from p to r.
    * `sent` is the history of everything broadcast, read only by properties.
  * Actions:
    * `Receive(r, p)` is one event-loop iteration; `Apply` appends the handler's broadcasts to the outgoing links.
    * `Boot(r)` is the start signal followed by the first `proposeIfLeader`.
    * `NewHeight(r)` handles a new-height signal.
    * `Timeout(r)` is a rank-timer firing.
    * `Equivocate(z, r)`: Byzantine replica z sends r a block in the name of the leader of some (height, rank), with a payload from `RivalPayloads`. `ProcessBlock` runs on it.
    * `BoundsReached` is stuttering once everything within the bounds is done.
  * It also holds the properties both engines promise, and the refinement mapping to `CommitLog`.
* **`CommitLog`** is the abstract specification of the committed output: each replica's log only grows, is a chain from genesis with increasing heights, and is a prefix of one decided sequence `chain`. `ReplicaNet` instantiates it with `log ← committed` per replica and `chain ←` the longest committed log, and checks `CommitLogRefined == CL!Spec` as a property.
* **`BanyanSystem`** and **`IccSystem`** plug an engine into `ReplicaNet` (`INSTANCE ReplicaNet`, every parameter substituted by the engine's operator of the same name) and add the engine's type invariant and `FinalizationJustified`.
* **`Rotation`** holds `IsLeader` and `FindLeaderFor` as operators, with Go's truncating `%` (`GoRem`).
* **`Election`** walks the driver's (height, rank) pairs, as `ListenLocalEvent` produces them: a timer firing raises the rank, and a new-height signal jumps to any higher height with rank 0. At each pair it checks the rotation against `FindLeaderFor` and against the specification's formula.
* **`MC_Banyan`**, **`MC_Icc`** instantiate the model for TLC: N = 4, f = 1, p = 1 (the spec's scenarios), rank bounds per height, the silent set, and the Byzantine senders of rival blocks (`MC_Equivocators` = {1}, the leader of (1, 0); `MC_Forger` = {4}, a non-leader).
* **`StartSignal`** models the goroutines of one replica around `startSignal`: `node.handle` (`HandleTakeEvent`, `HandlePush`), `node.txn` (`TxnTakeQuery`, `Reply`), the event loop (`LoopTake`, `LoopProcess`), and the driver's single receive on `start`. `startSignal` is three steps per caller: `StartLoad` (the `isStarted.Load` check), `StartStore`, and `StartSend`. `StartSend` is an unbuffered send, so it needs the waiting driver. Messages are counted, not told apart.
* **`StartSignalView`** models the same goroutines of the view-based replica (`replica_view.go`). It takes the shared steps from `StartSignal` through a named instance (`SS == INSTANCE StartSignal`), because `ReplicaView.startSignal`, `handleQuery` and `Start` are the same code as Replica's. It adds two differences:
  * `HandleVote` and `HandleTmo` return early on a vote or timeout below the pacemaker's view (`HandleDropStale`, up to `Stale` of them).
  * The started driver takes each view the pacemaker enters (`DriverTakeView`) and pushes it onto `eventChan` (`DriverPushView`).

  The pacemaker implementation is absent, so the number of views is a constant. The timer branch's `ProcessLocalTmo` runs an absent engine and is left out.
* **`ProposalRace`** models one Banyan replica at one height while two goroutines run `ProcessBlock` at once: the driver on its own rank-1 proposal, and the event loop on the rank-0 leader's block. The unsynchronised map accesses are a data race. Their outcomes are modelled as the interleavings of the statements of the vote decision. `sentNSharesNo[h] += 1` is split into `CountRead` and `CountWrite`. `LoopNotarize` is the event loop's `ProcessNotarizationShare` on the share that completes a quorum. Go may also abort on a concurrent map write; that outcome ends the behaviour and is left out.

### Abstractions, and why they are sound

* A block id is the block record `[height, rank, proposer, prev, payload]`. Honest leaders propose once per (height, rank), so their payload is written 0. Only rival blocks from `Equivocate` carry other payloads (1, 2).
* Signatures of honest replicas always verify. A forged block's failed check is only logged by `ProcessBlock`. So the verification branches never drop anything.
* **Redundant messages are dropped from inboxes.** A message that the receiver's state already makes a no-op is removed from its inbox (`IsNoOp`): a stored block, a share for a finalized block, a non-fast share for a notarized block (any share for a notarized block in ICC). These conditions only become true and never false again, so the message would be a no-op whenever it was received.
* **Silent replicas are left out.** Nothing a silent replica does reaches another replica, so its state is omitted.
* **Start signals.** Every replica has its start signal (the status query that starts an experiment). Only the leader of (1, 0) still has to take it (`Boot`).
* **Timer firings are merged.** A timer firing that makes the replica leader of nothing changes only the driver's rank. It is merged into the next firing that proposes.
* **Rank bounds.** Ranks are bounded per height (`MaxRank[h]`), and heights above `MaxHeight` are not opened.
* **Ship-queue order.** The ship-queue loop picks the next ready block with CHOOSE, where Go uses map order. At most one block is ever ready: its parent must be the last shipped block, and finalized blocks do not fork (`NoForkAmongFinalized`).

## Runs

| Run | cfg | Expect | Shows |
|---|---|---|---|
| `safety_h2` | `MC_Banyan_h2r1.cfg` | pass, 248,751 states, about 2 min | Banyan, 3 active + 1 silent replica, heights 1–2, one rank escalation at height 1: `NoForkAmongFinalized`; `FinalizedExcludesOtherNotarized` (a block finalized anywhere is the only notarized block of its height anywhere); `FinalizationJustified` (more than 2n/3 finalization-share voters or n − p rank −1 voters in the history); `CommitLogRefined` (the committed outputs implement `CommitLog`) |
| `icc_safety_h2` | `MC_Icc_h2r1.cfg` | pass, 243,820 states, about 2 min | ICC under the same bounds, where a replica may vote for both height-1 blocks: the same four safety properties; here `FinalizationJustified` also says every finalization-share sender voted for no other block at that height |
| `election_walk` | `MC_Election.cfg` | pass, 120 states | n = 4, heights 1–12, ranks 0–9: `LeaderAgrees` (IsLeader accepts exactly the replica `FindLeaderFor` and spec §6 name) |
| `banyan_live`, `icc_live` | `MC_Banyan_live.cfg`, `MC_Icc_live.cfg` | pass, 11,762 and 17,814 states | one silent replica, heights 1–2, no timeouts, under `FairSpec`: `AllCommitEveryHeight`, every active replica eventually commits a block at both heights |
| `icc_forged` | `MC_Icc_equivocate.cfg` | pass, 10,567 states | ICC at height 1. Replica 1 is the honest leader; replica 4 forges rival rank-0 blocks in replica 1's name. Both rivals can be notarized at one replica, yet `FinalizedExcludesOtherNotarized` and `FinalizationJustified` hold |
| `shipqueue` | `MC_Banyan_shipqueue.cfg` | violation | `FinalizedTracked`: a finalized block is committed or queued (spec §3, §4.3 step 2) |
| `icc_shipping` | `MC_Icc_shipping.cfg` | violation | `ShippingCompleteness` (spec §8.6): a finalized block whose ancestors are all stored is eventually committed |
| `banyan_equivocate` | `MC_Banyan_equivocate.cfg` | violation | `NoForkAmongFinalized`, when the leader of (1, 0) is Byzantine and sends rival rank-0 blocks |
| `start_signal` | `StartSignal.cfg` | violation | `AllHandled`: every event is eventually processed and every query answered |
| `start_signal_view` | `StartSignalView.cfg` | violation | `AllHandledView`: every event not dropped as stale, and every view, is eventually processed, and every query answered |
| `proposal_race` | `ProposalRace.cfg` | violation | `FShareOnlyAfterSingleVote`: a replica that sent a finalization share at a height sent notarization shares only for that block |

**Finding (`shipqueue`).** In `TryToShip` (`banyan.go:154`) the `else` branch queues only blocks that are not in the store. Take a stored block whose parent has not shipped. It is dropped: neither committed nor queued.

TLC's trace:

1. The leader of (1, 0) is slow, so rank 1 takes height 1.
2. A replica receives the height-2 block and votes for it with rank −1 before it has notarized height 1. `ProcessBlock` allows this whenever `headHeight < h`.
3. All three rank −1 shares reach it, so it fast-finalizes the height-2 block.
4. The height-1 block's finalization shares arrive later. Height 1 ships, but nothing retries height 2.

That replica's committed output stops for good, against spec §8.6 (shipping completeness).

**Finding (`icc_shipping`).** ICC's `TryToShip` (`icc_actually.go:124`) also ships a block only when its parent is the last shipped block, and nothing ever commits an unfinalized ancestor. TLC's trace: replica 2 receives its own rank-1 proposal for height 1 before the rank-0 block is notarized, so it votes for both and sends no finalization share at height 1. The rank-0 block then has two finalization shares of the three it needs, and height 1 is never finalized. All three replicas finalize the height-2 block built on it and store both blocks, yet nothing is committed. Spec §8.6 says such a block is eventually committed. `ShippingCompleteness` is stated over the final state (`BoundsReached`): every step adds to a store, a bag or a counter or removes a message, so every behaviour in which enabled steps keep being taken ends there.

**Finding (`banyan_equivocate`).** `NSharesBagBanyan.Add` (`notarization.go:137`) counts rank −1 shares per height, not per block, and reports fast finalization for the block of whichever share reaches n − p.

TLC's trace (n = 4, f = p = 1):

1. The Byzantine leader, replica 1, sends block A to replicas 2 and 3 and a rival A′ to replica 4.
2. Each honest replica sends a rank −1 share for the block it got.
3. Replica 2 counts A, A′, A, and fast-finalizes A.
4. Replica 3 counts A, A, A′, and fast-finalizes A′, which only one replica voted for.
5. Both replicas commit their block, so honest replicas commit different blocks at height 1.

A single Byzantine replica forks Banyan, against the tolerance of f malicious replicas in spec §1 and the rationale of spec §4.1. The code has `TODO: handle multiple blocks of the same rank` at `notarization.go:105`. The forgery that `icc_forged` uses (replica 4 signing in replica 1's name) has the same effect on Banyan, because the bad signature is only logged. ICC has no fast path and stays safe in both cases.

**Finding (`start_signal`).** `startSignal` (`replica.go:232-237`) loads `isStarted`, stores it, and then sends on the unbuffered `start` channel. `ListenLocalEvent` receives from that channel once. TLC's trace:

1. `node.txn` takes a status query, and the event loop takes a block.
2. Both load `false`, both store `true`, and both send.
3. The event loop's send completes, and `node.txn` blocks forever: no query is answered again.

The symmetric order blocks the event loop, and then the replica stops handling messages.

**Finding (`start_signal_view`).** `ReplicaView.startSignal` (`replica_view.go:247-253`) is the same code, and `handleQuery` of an honest replica calls it. TLC's trace:

1. `node.txn` and the event loop both load `false`, and `node.txn`'s send completes.
2. The started driver takes a view from the pacemaker and pushes it onto `eventChan`.
3. The event loop blocks forever on `r.start <- true`.

That view, and every later block, vote and timeout, is never processed.

**Finding (`proposal_race`).** `proposeBlock` (`replica.go:185`) calls `ProcessBlock` on the driver goroutine while the event loop runs the engine's handlers. TLC's trace:

1. The driver, on its own rank-1 proposal, and the event loop, on the rank-0 block, both pass the vote decision.
2. Both read `sentNSharesNo[h] = 0`, both write 1, and both send a notarization share.
3. The rank-0 block is then notarized. `sentNSharesNo[h] = 1` and `sentNShareId[h]` is that block, so the replica also sends a finalization share.

This is the double vote plus finalization share that spec §4.1 step 5 rules out, and that `FinalizedExcludesOtherNotarized` rests on.

**Bounds.** Three active replicas are the least for which f = 1 leaves a quorum. Notarization then needs all three, so any fork at one height needs every replica to vote twice. Rank 1 at height 1 is the least that produces two blocks at a height, double votes, and an escalated height that the next height builds on. All of these occur in the `safety_h2` state space: double votes, height-2 commits, and finalized-but-unshipped blocks. Heights 2 × ranks (1, 1), and three heights, exceed two million states. The liveness runs use no timeouts: with rank 1 at height 1 both engines can stall, which the two violation runs show.

**Mutants.** Each property of a passing run is broken by a plausible slip in the code it covers:

* Banyan's `Vote` storing the share's rank in `sentNRank` breaks `TypeOK`; ICC's `Vote` indexing its bookkeeping by the pacemaker's height breaks ICC's `TypeOK`.
* `TryToShip` without the parent check breaks `CommitLogRefined` in both engines.
* `MakeProposal` building on the last shipped block instead of the head breaks `NoForkAmongFinalized` in both engines.
* Banyan's `ShouldVote` without the rank rule, and ICC's finalization-share rule without the one-share check, break `FinalizedExcludesOtherNotarized`.
* A fast-path threshold one short (Banyan), and a finalization quorum of at least instead of more than 2n/3 (ICC), break `FinalizationJustified`.
* `HeightIncreased` recording the height without signalling the driver breaks `AllCommitEveryHeight`.
* `IsLeader` comparing with `id` instead of `id - 1` breaks `LeaderAgrees`.
* In `icc_forged`, the same finalization-share and finalization-quorum slips break its two properties. `NoForkAmongFinalized` is not checked there: at one height with three honest voters, no single slip breaks it.

## Fairness

`FairSpec` adds weak fairness of `Next`. The code justifies that every enabled step eventually happens: the event loop drains its channel, the driver's timer is always re-armed, and the socket delivers every message (TCP, no loss). Fairness of `Next` as a whole suffices here, rather than fairness per link and per replica: every step adds to a store, a bag or a counter, or removes a message, so no behaviour cycles. A behaviour that stops taking steps while one is enabled is the only one `WF_vars(Next)` excludes, and it is also the only unfair one. Per-link fairness makes TLC about 100 times slower on this model.

`StartSignal` assumes weak fairness per goroutine (`node.handle`, `node.txn`, the event loop, and each caller's `startSignal` steps). Go's scheduler preempts, so a goroutine that can run eventually does. The violation is not an artefact of unfairness: in the counterexample the blocked goroutine's send is never enabled again.

`StartSignalView` assumes the same, plus weak fairness of the driver goroutine.

`ProposalRace` is checked for safety only.

## Plan

1. **Byzantine shares**: duplicated rank −1 shares, and shares sent without the block. These would exercise the ship-queue path that honest FIFO runs never reach.
2. **Stale `headId`** in `MakeProposal` (`banyan.go:237`). With three active replicas and one silent, a proposal at height 2 on a height-2 head is reachable. Its harm needs four honest replicas.

   A simulated behaviour (`tlc -simulate -depth 60 -seed 1` on the four-honest model with ranks (0, 1) at height 2) reaches it in 35 steps:
   1. Replica 3 times out and proposes (2, 1), which replica 2 notarizes.
   2. Replica 2, the leader of (2, 0), reads its queued new-height signal late and proposes (2, 0) on head (2, 1).
   3. The other replicas' re-votes notarize that block.

   Nothing is finalized on it, so no checked property is at stake. Breadth-first search at that size does not finish.

## Not modelled

* Cryptography, payloads and timestamps.
* Latency measurement and the status endpoint.
* Dialling and retries in the transport.
* The view-based replica's consensus: `pacemaker.NewPacemaker` and the HotStuff and Streamlet engines that `NewReplicaView` constructs are absent from the repository. Only its goroutines are modelled (`StartSignalView`).
* Its Byzantine mode (silence): the replica drops every event and drains view events, which leaves no state to check.
* `blockchain_view/block.go`, `node/http.go` and `server/server.go`: block construction and hashing, the HTTP status endpoint, and process start-up are I/O and formatting.
