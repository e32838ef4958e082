# Zebra with Crosslink: TLA+ models and proofs

Zebra is a Zcash full node. This repository adds Crosslink to it: a
Byzantine-fault-tolerant (BFT) protocol whose decisions finalize blocks of the
proof-of-work (PoW) chain. This directory models the parts of the node whose
correctness depends on the order of steps, checks them with TLC, and proves the
central properties with TLAPS. `PROJECT.json` maps every definition to the lines
it models, and lists the hazards that the properties are about.

## The system

| part | modules | hard behaviour |
|---|---|---|
| non-finalized chain and state (`zebra-state/.../chain.rs`, `non_finalized_state.rs`) | `Chain`, `NonFinalizedState` | chains that compare equal or become empty, forks at the fork limit, side chains after a finalization |
| block write task, finalized state (`write.rs`, `finalized_state.rs`) | `BlockWriter` | one database commit per block inside a loop, crashes between them, trees stored only when they change |
| Crosslink service (`zebra-crosslink/src/lib.rs`) | `CrosslinkTFL` | awaits between reads, reorganizations and decisions between the reads of a proposal |
| finality queries (`lib.rs`, `zebra-rpc/src/methods.rs`) | `FinalityQueries` | two states read in turn, a message sent between a look and a wait |
| roster and rewards (`lib.rs`) | `Roster` | rounding, rewards paid once per final block |
| state service (`service.rs`, `queued_blocks.rs`, `pending_utxos.rs`) | `StateQueue` | blocks out of order, retries, the hand-over from checkpoints to full verification |
| checkpoint verifier (`zebra-consensus/src/checkpoint.rs`) | `CheckpointVerifier` | side chains, refused blocks, resets, callers that give up |
| batch and fallback services (`tower-batch-control`, `tower-fallback`, `ed25519.rs`) | `BatchVerifier` | a timer racing a size limit, permits of callers that give up, a worker that stops |
| peer connection (`zebra-network/src/peer`) | `PeerConnection` | late, partial and unrelated answers, aborted tasks, a peer that does not read |
| mempool, chain tip channel (`zebrad/.../mempool`, `chain_tip.rs`) | `Mempool` | tips that change while transactions are verified, evictions |
| syncer, gossiped blocks (`zebrad/.../sync`, `inbound`) | `Syncer` | restarts, lookahead limits, blocks that can never be verified |

PoW blocks come from the syncer and from gossip. The checkpoint verifier and the
full verifiers, which share the batch services, pass them to the state service,
which queues them for the block write task. The Crosslink service asks the state
for headers to propose, and asks the write task to finalize what its BFT engine
decides. The write task publishes its chains in watch channels, from which the
readers, the chain tip and through it the mempool learn of them.

Interacting parts are composed where the interaction is the hazard: `CrosslinkTFL`
runs the Crosslink service on the PoW state, `FinalityQueries` runs queries on both,
`StateQueue` has the write task as the service sees it, `Mempool` has the tip channel,
and `Syncer` has the verifiers and the state as far as they decide whether a block
is committed, waits or fails.

## Modules

* `FinalityLog` is the abstract specification of finality: every replica keeps a
  set of final blocks that only grows, all replicas together keep one chain, and
  what is confirmed is stored. `BlockWriter` implements it as one replica that
  crashes, `CrosslinkTFL` as one replica per node; both are checked and proved.
* `Chain` describes the block tree by constants (parent, height, work, order of
  hashes, size of the note commitment tree) and a chain by the set of its blocks.
* `NonFinalizedState` gives the operations on the chain set as operators from
  the old set to the new one.
* `BlockWriter` is the block write task: its variables are the locals of
  `WriteBlockWorkerTask::run`, the database, the two watch channels and the
  answers it has sent. Every message handler is one action, except that the
  finalization loops take one step per block: each block is a database commit of
  its own, which readers see and after which the node may stop. A failing
  `expect`, `assert` or `unreachable` moves to the phase `panicked`. `Restart`
  starts the task again on its database.
* `CrosslinkTFL` is the Crosslink service of several nodes. Each node has a PoW
  state of its own, built from the operators of `NonFinalizedState`, with every
  loop of the block write task as one step (`BlockWriter` has the single
  steps). An await in the code is a point where the PoW state can change, so
  `propose_new_bft_block` takes three steps and
  `new_decided_bft_block_from_malachite` two; the mutex that the second holds is
  the variable `deciding`. A failed assertion puts the node into `panicked`.
* `FinalityQueries` extends it with the calls that ask about finality or wait
  for it, one step per read.
* `Roster` is the list of finalizers with its rewards and staking commands, for
  nodes that apply the same final blocks (`RosterInputsAgree` in `CrosslinkTFL` says
  they do). Voting power has a width, `U64`.
* `StateQueue` is the state service up to the channels of the write task. A call
  reads the database several times while the write task runs; `pc` is where it is
  between two reads. `sent` hashes, UTXO requests and the reset channel are there.
* `CheckpointVerifier` is the service, the tasks that commit what it verified and
  the futures of its callers, which run concurrently. The syncer makes a request again
  whenever it failed or timed out, without a bound, one at a time for a block; other
  callers make theirs once.
* `BatchVerifier` is the path of a signature: permit, channel, worker, batch, and
  the second try on its own. One action of the worker is one turn of its biased
  select.
* `PeerConnection` is the client, the connection task and the heartbeat task of one
  peer. `loop` is where the connection task waits; it can be aborted there.
* `Mempool` is `poll_ready` with its reads of the tip channel, the storage with its
  eviction and rejection lists, and the download tasks.
* `Syncer` is `ChainSync::sync` as a sequence of steps between its awaits, with
  its download tasks. Answers of peers are sequences of hashes taken from their
  chains, possibly with an unrelated hash, or nothing. A verification ends when the
  block can be committed, when it times out, or when it is cancelled.
* `MC...` modules hold the instances for TLC, `...Proofs` modules the theorems.

The BFT engine, tenderlink, is not in the repository. The models assume of it
what the closures in `lib.rs` rely on: it decides at most one proposal per BFT
height, only one that a quorum validated; it calls the closures of a node one at a
time and in BFT order; and it hands a decided block to a node only after that node
validated it. The definitions that say so, and those for remote peers, are marked
external in `PROJECT.json`.

Operators that `PROJECT.json` lists as mutants are deliberate mistakes. They
confirm that the properties notice them, and nothing else refers to them.

## Runs

| run | states | what it shows |
|---|---|---|
| `writer_safety` | 524,432 | chains sit on the finalized tip, the Crosslink loop stops at its request, readers always see one chain, trees can be found, an invalidation reaches every fork; finality is a log that only grows, through crashes; without operator requests nothing panics; a finalization that starts is answered |
| `tfl_agreement` | 456,177 | nodes that see forks in different orders finalize one chain and give the roster the same blocks once; each decision is for a higher block than the one before |
| `tfl_progress` | 24,980 | finality catches up with the tip, every node applies every decision |
| `query_calls` | 76,688 | an answer about a block is final, and a call that waits for a block misses no message |
| `roster_stake` | 4,316 | stake is exactly what rewards and commands say, the reward assertion holds |
| `batch_calls` | 74,070 | callers get the answer of their own item, permits are conserved, and nobody waits forever while the worker works |
| `state_queue` | 1,585,148 | the maps of the queue agree, every request is answered or still held, whatever is ready is sent in chain order, refused checkpoints do not stop the service, UTXO requests miss no block |
| `checkpoint_calls` | 918,050 | only the checkpointed chain is verified, whole ranges at a time, no caller is forgotten, and a syncer that repeats what failed or timed out completes, unless the verifier stays out of sync with the state |
| `peer_requests` | 174,578 | every request gets an answer that fits it, and gets it in time |
| `mempool_requests` | 108,754 | the caches of the pool agree, templates are valid for the tip, requests are answered |
| `mempool_same_height` | violated | a transaction that was verified against one tip enters the pool of another tip of the same height |
| `sync_blocks` | 245,006 | handles and tasks agree, with its limits the syncer never waits for a result that cannot come, and in the end it is close to the tip and says so |

`mempool_same_height` states what a comment of the code says; `PROJECT.json` quotes it.

### Bounds

* `writer_safety`: a checkpoint, a chain of five, forks at two depths, a block `d2`
  that outweighs all but the longest chain, and a block `x3` that breaks a contextual
  rule; four leaves, a fork limit of 3 and a reorg limit of 1, so that both
  finalization loops run, on either side of a fork, and the fork limit is met.
  One rejected and one invalidated block are remembered, so both maps overflow. Two
  operator requests and one crash reach every panic and crash inside both loops.
* Crosslink runs: two nodes, of which one can decide alone, so that the other learns of
  decisions late. The tree has a chain of three and a lower fork that outweighs its
  beginning, so there are reorganizations, also to a lower tip, and two decisions. Sigma is 1: a second
  decision needs a chain of three. A larger sigma adds one behaviour, decisions that go
  back to the genesis block (`RewardedOnce` in the table below). `tfl_agreement` switches the service on at height 3 and has one
  operator request. The reorg limit is out of reach: if PoW finalizes one fork by
  depth while BFT decides another, nodes conflict, and the code has no answer to it
  but the size of `MAX_BLOCK_REORG_HEIGHT`. The query run has one node.
* `roster_stake`: three finalizers, a reward that does not divide evenly, three blocks,
  two commands.
* `batch_calls`: four items, one bad and one heavy, room for two batches and a queue for one, so
  batches are filled, over-filled, timed out and delayed.
* `state_queue`: two checkpoint blocks, two forks above them, one bad block, and second
  requests for three blocks.
* `checkpoint_calls`: two checkpoints two blocks apart, three rivals at a height whose limit is two, a
  refused copy of one block from another peer, two requests of the syncer for the block
  at the second checkpoint, and three requests that may time out. Requests
  are repeated without a bound; the run needs no other bound, since a request has one
  task and one future.
* `peer_requests`: a block request for two hashes, a transaction request for one whose caller may
  give up, and a request for addresses, with a cache of one; the heartbeat's ping stands for
  the requests that one message answers.
* `mempool_requests`: a transaction, one that depends on it, one that conflicts with
  that one, a cost limit that holds two, room for two downloads, and a chain with one fork.
* `sync_blocks`: six blocks, a checkpoint at height 3, a peer on a fork below it, two
  answers per fanout, lookahead limits of 3 and 2, and two surprises. A surprise is an
  answer other than the best peer's, a failed download, a timeout that did not have to
  be, or a gossiped block. Two are enough for both answers of a fanout to mislead, and
  for a failure after a misleading answer.

In all runs but `sync_blocks` the inputs are used up in the end, so deadlock is
not checked. The syncer runs forever, and its deadlock is checked.

### Further disagreements

The modules also state the properties below. Each one says what a comment, a message
or an assertion of the repository says, and does not hold. They are not part of the
runs; to see a counterexample, check the property alone, with the constants of the run
named and the changes given. Those marked *live* need the run's specification with
fairness.

| property | instance | what TLC finds |
|---|---|---|
| `ChainTipsAreUnique` | `writer_safety` | invalidating a block leaves two equal chains, whose comparison panics: "Chain tip block hashes are always unique" (`chain.rs:2354`) |
| `ChainsHaveABlock` | `writer_safety` | `finalize()` can leave a chain without blocks: "Non-finalized chains must have at least one block to be valid" (`chain.rs:1245`) |
| `ChannelsUpdatedAfterCommit` | `writer_safety` | an operator request with no chain in memory panics (`write.rs:404`): "must commit at least one block before updating channels" (`write.rs:96`) |
| `FinalizeForgetsInvalidated` | `writer_safety` | invalidated blocks at the finalized height are kept: "Remove all invalidated_blocks at or below the finalized height" (`non_finalized_state.rs:232`) |
| `TreesStoredOnlyIfChanged` | `writer_safety` | an unchanged tree is stored again after a Crosslink finalization: "only if they have changed" (`shielded.rs:578`) |
| `BestChainWithinReorgLimit` | `writer_safety` | an invalidation or a Crosslink finalization can leave a best chain over the limit: "the maximum length of the best non-finalized chain" (`constants.rs:17`) |
| `OnlyInvalidatedAreBarred` | `writer_safety` | siblings of an invalidated block are refused: "block hash {block_hash} was previously invalidated" (`error.rs:71`) |
| `DecidedValidates` | `tfl_agreement`, fork limit 1 | a fork dropped at the limit makes a decided block fail the validation it is asserted to pass (`lib.rs:537`) |
| `DecidedIsFinalized` | `tfl_agreement`, fork limit 1 | if the fork is dropped after the assertion, the error is only logged (`lib.rs:590`): "PoW finalized hash should now match ours" (`lib.rs:586`) |
| `RewardedOnce` | `tfl_agreement`, the tree of `LongBlock`, genesis 0, one node, sigma 3, reorg limit 9, no request | a candidate leaves the best chain between two reads, the headers then start at the genesis block (`find.rs`), and after this decision a block is rewarded twice: "skip repeated boundary blocks" (`lib.rs:635`) |
| `CandidateExists` | `tfl_agreement` | a reorganization to a lower tip between two awaits of a proposal panics (`lib.rs:420`), where the code says "TODO: improve error handling" |
| `SigmaBlocksAtop` | `tfl_agreement` | the final block has one confirmation less than "At least this many PoW blocks must be atop" says (`zebra-crosslink/src/chain.rs:205`) |
| `FinalizedTxIsInChain` | `query_calls` | a transaction of a losing fork is reported as finalized: "it is in the best chain" (`zebra-state/src/crosslink.rs:17`) |
| `SetFinalityTriggers` | `query_calls`, no proposer, `is_regtest`, one request; live | setting finality does not wake the calls that wait for it: "easiest to trigger by manually calling" (`methods.rs:462`) |
| `RewardIsExact` | `roster_stake`, `U64` 16, values `LargeValues` | voting powers past u64 wrap the total (`lib.rs:672`): "this should always *exactly* apportion the entire reward" (`lib.rs:645`) |
| `ViewsAgree` | `roster_stake` | rosters depend on the order of peers in the configuration: "everyone has exactly the same view" (`lib.rs:763`) |
| `KeysAreValid` | `mempool_requests`, expiries `MCExpiryTogether` | two removals of one pass can name a transaction twice: `.expect("invalid transaction key")` (`verified_set.rs`) |
| `MinedDependenciesAreCleared` | `mempool_requests` | a block skipped in the tip channel leaves its transactions as dependencies (`clear_mined_dependencies`) |
| `HandlesHaveATask` | `mempool_requests` | a download that times out keeps its handle: "so we can remove the cancel handle on failure as well as on success" (`mempool/downloads.rs`) |
| `ResetCatchesUp` | `checkpoint_calls` | the verifier stays behind the state until the next call: "reset its progress back to the state tip" (`checkpoint.rs`) |
| `SyncNeverStalls` | `checkpoint_calls`; live | a tip that was read while verified blocks were on their way sets the verifier back for good: it waits for blocks that the state has and the syncer no longer asks for; same comment |
| `SendersAreUsed` | `peer_requests` | a task aborted while it sends drops a sender: "`tx.send()` must be called before dropping `tx`" (`client.rs`) |
| `ShutdownUpdatesTheBook` | `peer_requests` | a heartbeat task aborted before it sees the cancel signal: "every error/shutdown must update the address book state" (`handshake.rs`) |
| `FailureDrainsRequests` | `batch_calls`; live | a failed worker need not be polled again: "the run() loop will drain all pending requests" (`worker.rs:330`) |
| `SentBatchesAreInHeightOrder` | `state_queue` | descendants are sent in another order: "each batch is in increasing height order" (`queued_blocks.rs:232`) |
| `PruneLeavesNothingBelow` | `state_queue` | dequeueing forgets a whole height, so pruning misses blocks: "Remove all queued blocks whose height is less than or equal" (`queued_blocks.rs:127`) |
| `QueueWithinLookahead` | `sync_blocks` | extra requests go past the limit: "the syncer queue is limited to the lookahead_limit" (`sync/downloads.rs:51`) |
| deadlock | `sync_blocks`, `full_verify_concurrency_limit` 1 | half of the limit is 0, and the syncer waits for a task that does not exist: "downloads is nonempty" (`sync.rs:632`) |

Two comments of the syncer disagree with their code without a consequence that the
models show: `sync.rs:1080` on the limit near the last checkpoint, and
`sync/downloads.rs:594` on what `cancel_all` leaves behind.

### Fairness

* `BlockWriter`: the task is a thread of its own, and inside its loops it waits for
  nothing, so the loop steps have weak fairness. Nothing is assumed about messages.
* `CrosslinkTFL`: blocks reach every node (gossip and the syncer), calls that started
  go on (tokio runs every ready task), and the engine keeps asking for proposals.
  Validations and decisions have strong fairness, because they take turns with the
  proposals of the same node. `SetFinality` and `Activate` are never forced.
  `FinalityQueries` adds that a query which is not waiting for a message goes on.
* `BatchVerifier`: the worker task, its timer, the batches on their threads and the
  second tries go on. Callers may stop anywhere.
* `CheckpointVerifier`: the syncer asks, again and again, for each block above the tip of
  the state, its requests time out (`BLOCK_VERIFY_TIMEOUT`), and the tasks that commit
  and reset go on. Nothing is assumed of other callers. A request that fails is no
  excuse: `SyncCompletes` says that the last checkpoint is committed. Its premise
  `[]<>InSync`, that the verifier does not stay out of sync with the state, is needed
  because of `SyncNeverStalls` above; it is not fairness, and the run has behaviours
  on both sides of it.
* `PeerConnection`: tokio polls the tasks and fires their timers, sending and a request of
  the peer have timeouts, and the peer set polls its clients. Nothing is assumed of
  the peer, of closing the sink, or of the turn of a request.
* `Mempool`: something polls the service, and its tasks go on. A result is taken with strong
  fairness: `poll_ready` takes results in any order, and each poll can take one.
* `Syncer`: its steps, arriving blocks and the verifiers go on. A verification that can never
  end times out: strong fairness, because the block may be wanted again meanwhile.
* `StateQueue` and `Roster` have safety properties only.

## Proofs

The theorems hold for every block tree, every limit, any number of nodes, requests and
restarts. Each proof module has one inductive invariant, `IInv`, which is kept by every
action (one lemma per action) and which implies the properties.

* **`ChainProofs`** has the facts about chains: roots and tips, what push, pop, fork and
  join do to a run of blocks, that a run without gaps has as many blocks as heights, that
  a finite set of chains has a best one, and that what a node reads is one chain
  (`ViewOK`: a database that is a path, and chains above its tip). Sums of work are compared by looking at
  a least counterexample, because the prover has no induction over data.
* **`BlockWriterProofs`**. The conjuncts of `IInv` need each other: chains stay on the
  finalized tip only because the loops finalize a root that all kept chains share; the
  Crosslink loop stops at the requested block only because every kept chain contains
  that block and has no gaps; a reconsidered chain is well formed only because the
  invalidated blocks form a run above their root. `TreesInv` adds that the previous
  tree of a loop, which may be stale, is the tree of some finalized block, and trees only
  grow along the chain. `ReadersInv` adds that the loops finalize the chain that was
  published as the best before they began: taking the same root from every chain keeps
  their order. `PanicsInv` adds that, before an operator's request, no chain is empty or
  a part of another one. `WriterRefinesLog` is the refinement of `FinalityLog`.
* **`CrosslinkTFLProofs`**. `FinalityIsMonotonic` holds at all limits. What a node reads
  is always one chain, also after a fork is dropped or blocks are finalized by depth
  (`BaseInv`), so the headers of a proposal follow its candidate or start at genesis.
  A proposal in progress has a candidate above every block that its node has seen
  decided, because no decision is applied to a node between its reads, and a proposal
  for the next BFT height was made by a node that had seen all decisions (`ForwardInv`).
  The other theorems have the hypothesis `CommitsOnlyAdd`: committing
  a block neither finalizes past the reorg limit nor drops a fork. Without it they are
  false, since PoW may finalize one fork by depth while BFT decides another, and a
  dropped fork takes a decided block away (see `DecidedIsFinalized` above). The
  constants of `tfl_agreement` make it true, and those of a node keep it true as long as
  finality is less than `MAX_BLOCK_REORG_HEIGHT` behind and there are no more than
  `MAX_NON_FINALIZED_CHAIN_FORKS` forks. The argument: each node applies a prefix of the
  same decisions, and its database ends in the highest block that its decisions
  finalize. Of two nodes, the one that has applied more decisions has the tip of the
  other in its database, and a database is the path from its tip to genesis, so one is
  a prefix of the other. For `RostersAgree` the broadcast blocks are a function of the
  decisions, although each node reads them from its own best chain.
  `AnswersStayFinal` adds the queries of `FinalityQueries`, if no operator sets finality
  (`MaxRequests = 0`: a request may name a block that is never final). Under the mutex
  the final block is stored: it is the one of the last decision (`LatestInv`), or before
  the first one the genesis block, since the best chain is within the reorg limit. A
  query compares a block below a stored one (`QueryInv`), and there the best chain is
  the database; later steps only add to the database.
  `NodesImplementFinalityLog` is the refinement of `FinalityLog`.
* **`CheckpointVerifierProofs`**. The central notion is coverage: a height is covered if
  the state has passed it, its block is on its way to the state, or corrupt data for it
  or for a block below it was refused. All heights up to the progress are covered, and a reset only takes the progress back to
  a tip. That a backward walk from a checkpoint finds the chain of expected hashes, and
  that no assertion fails on the way, is shown by looking at the highest height where
  it would not. `ChainAssumption` says that the checkpoint list is of one chain.
* **`StateQueueProofs`**. The channel to the write task in the checkpoint phase is a part
  that is too high to be written, after a block that failed, and a part that continues
  the tip and ends in the last block sent, or a reset is on its way (`ChannelInv`).
  Whatever has left the block queue is settled, sent or below the tip, with all its
  ancestors (`ClosedInv`); so the channel has blocks in chain order, and what remains
  in the queue has a parent that was not sent, unless the service is about to send it
  (`ReadyInv`). `RouterAssumption` says that blocks up to the last checkpoint go to the
  checkpoint verifier only.
* **`SyncerProofs`**. A task and its cancel handle come and go together in every step, so
  `HandlesMatchTasks` is inductive once the types of what peers answer are known: the
  answers pass through recursive functions (`InsertAll`, `AddResponses`), whose types
  follow from two lemmas, that such a function exists (`RecursionExists`) and that what
  each step keeps holds everywhere (`RecursionStays`). For `DownloadsNonempty`, the
  syncer pauses only with at least half of the limit in flight (`PausedHasTasks`), and
  what is in flight is a task. `AwaitedDownloadsExist` holds for every limit that the
  configuration allows: `SyncerAssumption` asks for a full verification limit of at least 1
  (`MIN_CONCURRENCY_LIMIT`) and a checkpoint limit above 1
  (`MIN_CHECKPOINT_CONCURRENCY_LIMIT`). Half of a limit of 1 is 0, so the property
  excepts the syncer that waits past the lookahead limit with a full verification
  limit of 1 (the deadlock in the table above).
* **`BatchVerifierProofs`**. A batch that is being filled leaves room for its own flush
  (`RoomForFlush`), which is why a timer may flush without looking at the limit.
* **`PeerConnectionProofs`**. A request without an answer is in the channel or is being
  handled, and the event loop has a request exactly where it handles one.

Assumptions are those on the constants, named where they are declared: `TreeAssumption`,
`WorkAssumption`, `NoteTreeAssumption`, `ForksAssumption`, `WriterAssumption`,
`CrosslinkAssumption`, `QueriesAssumption`, `CheckpointAssumption`, `ChainAssumption`, `QueueAssumption`,
`RouterAssumption`, `BatchAssumption`, `SyncerAssumption` and those of `PeerConnection`. TLC evaluates
them on the instances of the runs.

Only model-checked:

* all liveness properties, since the prover does not reason about fairness and ENABLED;
* `RewardedOnce`, which does not hold for every sigma (see the table above);
* the properties of `Mempool`: they rest on `AllDependents`, that the last level of a
  recursion holds every indirect dependent, which is an induction over data;
* `StakeIsAccounted` and `RewardNeverPanics` of `Roster`, which are about sums over the
  roster: they are folds, and are only true where a total does not wrap.

## Not modelled

The contents of blocks, contextual rules (one set, `ContextuallyInvalid`, stands for the
blocks that break one), the database's column families and format upgrades, metrics and
logs. Of the Crosslink service: signatures and hashes of BFT blocks (a BFT block is
named by its height), restarts (nothing of its state is stored, and the engine's
recovery is not in the repository), the streaming placeholders and the test-only feeds.
Of the syncer: the responses of a fanout read the state once, where the code reads it for
each hash; a gossiped block that is already queued in a verifier, and a download of one
that is on its way to the state, wait for the first one instead of replacing it or failing
at once with an error that is ignored. Of the mempool: the read of the nullifiers and
anchors of the best chain that follows the verification, so the model accepts more.
`PROJECT.json` lists the other parts with status `not_modelled` and the reason, and
says for each part that is `partly` modelled what is left out.
