------------------------------- MODULE Syncer -------------------------------
(***************************************************************************)
(* zebrad/src/components/sync.rs and sync/downloads.rs: the chain syncer,  *)
(* its download tasks, and the verifier and state behind them.             *)
(*                                                                         *)
(* The syncer asks FANOUT peers for hashes after the ones it knows, queues *)
(* their blocks for download up to the lookahead limit, and extends its    *)
(* tips.  An error that should_restart_sync does not ignore, or a timeout, *)
(* cancels all downloads, and the syncer starts again after a delay.       *)
(*                                                                         *)
(* Peers follow the chains in PeerChain.  A peer other than the best one,  *)
(* no answer, an answer with an unrelated hash, a failed download, a       *)
(* timeout of something that could go on, and a gossiped block are         *)
(* surprises.  Their number is bounded by MaxSurprises.                    *)
(***************************************************************************)
EXTENDS Integers, Sequences, FiniteSets, FiniteSetsExt

CONSTANTS
    Block,
    Genesis,
    Parent,
    Height,
    PeerChain,        \* what peers follow above genesis, as sequences
    BestPeer,         \* the one with the most work
    Checkpoint,       \* the heights of the checkpoints
    FANOUT,
    MAX_TIPS_RESPONSE_HASH_COUNT,
    checkpoint_verify_concurrency_limit,
    full_verify_concurrency_limit,
    VERIFICATION_PIPELINE_SCALING_MULTIPLIER,
    VERIFICATION_PIPELINE_DROP_LIMIT,
    MAX_BLOCK_REORG_HEIGHT,
    MIN_DIST_FROM_TIP,
    MAX_RECENT_LENGTHS,
    MaxSurprises

ASSUME SyncerAssumption ==
    /\ Genesis \in Block /\ IsFiniteSet(Block)
    /\ Parent \in [Block -> Block] /\ Height \in [Block -> Nat]
    /\ PeerChain \subseteq Seq(Block) /\ BestPeer \in PeerChain
    /\ Checkpoint \subseteq Nat /\ IsFiniteSet(Checkpoint) /\ 0 \in Checkpoint
    /\ {FANOUT, MAX_TIPS_RESPONSE_HASH_COUNT, MIN_DIST_FROM_TIP, MAX_RECENT_LENGTHS,
        checkpoint_verify_concurrency_limit, full_verify_concurrency_limit} \subseteq Nat \ {0}
    /\ checkpoint_verify_concurrency_limit > 1       \* MIN_CHECKPOINT_CONCURRENCY_LIMIT
    /\ {VERIFICATION_PIPELINE_SCALING_MULTIPLIER, VERIFICATION_PIPELINE_DROP_LIMIT,
        MAX_BLOCK_REORG_HEIGHT, MaxSurprises} \subseteq Nat

VARIABLES
    sync,             \* where ChainSync::sync is
    locator,          \* the tip in the block locator, while it is used
    prospective_tips,
    old_tips,         \* the tips that extend_tips has not asked about
    download_set,     \* the hashes that obtain_tips or extend_tips has collected
    extra_hashes,
    recent_syncs,
    pending,          \* the task of each hash
    cancel_handles,
    past_lookahead_limit,
    queued,           \* blocks that wait in the verifiers and the state
    state,            \* committed blocks
    surprises

syncer == <<sync, locator, prospective_tips, old_tips, download_set, extra_hashes, recent_syncs>>
downloads == <<pending, cancel_handles, past_lookahead_limit>>
vars == <<syncer, downloads, queued, state, surprises>>

max_checkpoint_height == CHOOSE h \in Checkpoint : \A i \in Checkpoint : i <= h

\* What a task returns: whether the syncer goes on (should_restart_sync).
Results == {"ok", "ignored", "restart"}

CheckedTip == [tip : Block, expected_next : Block]

TypeOK ==
    /\ sync \in {"genesis", "genesis_wait", "start", "obtain", "check", "poll", "pause", "await",
                 "extend", "sleep"}
    /\ locator \in Block /\ prospective_tips \cup old_tips \subseteq CheckedTip
    /\ download_set \in Seq(Block) /\ extra_hashes \in Seq(Block) /\ recent_syncs \in Seq(Nat)
    /\ pending \in [Block -> {"none", "download", "verify"} \cup Results]
    /\ cancel_handles \subseteq Block /\ past_lookahead_limit \in BOOLEAN
    /\ queued \subseteq Block /\ state \subseteq Block
    /\ surprises \in 0 .. MaxSurprises

Init ==
    /\ sync = "genesis" /\ locator = Genesis
    /\ prospective_tips = {} /\ old_tips = {} /\ download_set = <<>> /\ extra_hashes = <<>>
    /\ recent_syncs = <<>>
    /\ pending = [b \in Block |-> "none"] /\ cancel_handles = {}
    /\ past_lookahead_limit = FALSE
    /\ queued = {} /\ state = {}
    /\ surprises = 0

-----------------------------------------------------------------------------
\* The best tip.  An empty state counts as height 0, as in lookahead_limit: the
\* only block it is asked about then is genesis, which is below every limit.
Tip ==
    IF state = {} THEN Genesis
    ELSE CHOOSE b \in state : \A c \in state : Height[c] <= Height[b]

Tasks == {b \in Block : pending[b] # "none"}

in_flight == Cardinality(Tasks)

lookahead_limit(new_hashes) ==
    LET verified_height == Height[Tip]
    IN  IF verified_height >= max_checkpoint_height THEN full_verify_concurrency_limit
        ELSE IF verified_height + new_hashes >= max_checkpoint_height
             THEN full_verify_concurrency_limit
                    + (verified_height + new_hashes - max_checkpoint_height)
             ELSE checkpoint_verify_concurrency_limit

Surprise(n) == surprises + n <= MaxSurprises /\ surprises' = surprises + n

-----------------------------------------------------------------------------
(* The download tasks, and what they call.                                 *)

\* The limit that Downloads is made with.
LookaheadLimit ==
    IF checkpoint_verify_concurrency_limit > full_verify_concurrency_limit
    THEN checkpoint_verify_concurrency_limit ELSE full_verify_concurrency_limit

\* How far above the tip a block pauses new downloads.
LookaheadPause == LookaheadLimit + LookaheadLimit * VERIFICATION_PIPELINE_SCALING_MULTIPLIER

AboveLookahead(b) == Height[b] > Height[Tip] + LookaheadPause

\* The watched value after a block arrived.
PastLookaheadLimit(b) ==
    IF AboveLookahead(b) THEN TRUE
    ELSE past_lookahead_limit /\ Height[b] > Height[Tip] + LookaheadPause \div 2

TaskEnds(b, result) == pending' = [pending EXCEPT ![b] = result]

\* The network has no answer: NotFound is ignored, other errors are not.
DownloadFails(b, result) ==
    /\ pending[b] = "download" /\ result \in {"ignored", "restart"}
    /\ TaskEnds(b, result) /\ Surprise(1)
    /\ UNCHANGED <<syncer, cancel_handles, past_lookahead_limit, queued, state>>

\* The block arrives.  It is dropped if it is too far from the tip, and goes to
\* the verifier otherwise, which ignores a block that it knows.
BlockArrives(b) ==
    /\ pending[b] = "download"
    /\ IF Height[b] > Height[Tip] + VERIFICATION_PIPELINE_DROP_LIMIT
       THEN TaskEnds(b, "restart") /\ UNCHANGED <<past_lookahead_limit, queued>>
       ELSE /\ past_lookahead_limit' = PastLookaheadLimit(b)
            /\ IF Height[b] < Height[Tip] - MAX_BLOCK_REORG_HEIGHT \/ b \in state
               THEN TaskEnds(b, "ignored") /\ UNCHANGED queued
               ELSE TaskEnds(b, "verify") /\ queued' = queued \cup {b}
    /\ UNCHANGED <<syncer, cancel_handles, state, surprises>>

\* What must be in the verifiers before a block can be committed: its ancestors
\* and, up to the last checkpoint, its whole checkpoint range.
Ancestors[b \in Block] == IF b = Genesis THEN {b} ELSE {b} \cup Ancestors[Parent[b]]

CheckpointRange(b) ==
    LET below == {h \in Checkpoint : h < Height[b]}
        above == {h \in Checkpoint : h >= Height[b]}
    IN  {c \in Range(BestPeer) : /\ \A h \in below : Height[c] > h
                                 /\ above # {} /\ \A h \in above : Height[c] <= h}

Needed == [b \in Block |-> Ancestors[b] \cup CheckpointRange(b)]

Needs(b) == Needed[b] \ state

\* Up to the last checkpoint there is one chain.
Checkpointed(b) == Height[b] > max_checkpoint_height \/ b \in {Genesis} \cup Range(BestPeer)

CanCommit(b) ==
    /\ b = Genesis \/ Parent[b] \in state
    /\ Checkpointed(b) /\ Needs(b) \subseteq queued

VerifierCommits(b) ==
    /\ b \in queued /\ queued' = queued \ {b} /\ state' = state \cup {b}
    /\ CanCommit(b)
    /\ pending' = [pending EXCEPT ![b] = IF @ = "verify" THEN "ok" ELSE @]
    /\ UNCHANGED <<syncer, cancel_handles, past_lookahead_limit, surprises>>

\* A verification that is dropped is only forgotten by the full verifier, and
\* only as long as it has not passed the block on to the state.
Forgettable(b) == pending[b] = "verify" /\ Height[b] > max_checkpoint_height

PausedByHeight ==
    \E limit \in {lookahead_limit(Len(extra_hashes))} : in_flight >= limit \/ past_lookahead_limit

\* New downloads wait while there are too many, or while half as many have run
\* ahead of the state.
Paused ==
    \E limit \in {lookahead_limit(Len(extra_hashes))} :
        \/ in_flight >= limit
        \/ in_flight >= limit \div 2 /\ past_lookahead_limit

\* A block whose ancestors, or checkpoint range, are neither here nor on their
\* way: only BLOCK_VERIFY_TIMEOUT ends the wait for it.
Overdue(b) ==
    /\ pending[b] = "verify"
    /\ \E c \in Needs(b) :
        \/ ~Checkpointed(c)
        \/ /\ c \notin queued /\ pending[c] # "download"
           /\ \/ c \notin Range(extra_hashes) \cup Range(download_set)
              \/ sync = "await" \/ (sync = "pause" /\ Paused)

\* BLOCK_VERIFY_TIMEOUT, or FINAL_CHECKPOINT_BLOCK_VERIFY_TIMEOUT.
VerifyTimesOut(b) ==
    /\ pending[b] = "verify" /\ TaskEnds(b, "restart")
    /\ IF Overdue(b) THEN UNCHANGED surprises ELSE Surprise(1)
    /\ \/ UNCHANGED queued
       \/ Forgettable(b) /\ queued' = queued \ {b}
    /\ UNCHANGED <<syncer, cancel_handles, past_lookahead_limit, state>>

\* The inbound service gives a gossiped block to the verifiers.
Gossip(b) ==
    /\ b \notin state \cup queued
    /\ Height[b] <= (IF state = {} THEN full_verify_concurrency_limit - 1
                    ELSE Height[Tip] + full_verify_concurrency_limit)
    /\ Height[b] >= Height[Tip] - MAX_BLOCK_REORG_HEIGHT
    /\ queued' = queued \cup {b} /\ Surprise(1)
    /\ UNCHANGED <<syncer, downloads, state>>

-----------------------------------------------------------------------------
\* The place of the first of some blocks in a list, or 0.
FirstIn(hashes, blocks) ==
    LET places == {i \in 1 .. Len(hashes) : hashes[i] \in blocks}
    IN  IF places = {} THEN 0 ELSE Min(places)

\* Downloads::download_and_verify for each of the hashes, until one is a
\* duplicate.
QueueDownloads(hashes) ==
    /\ pending' = [b \in Block |-> IF b \in Range(hashes) THEN "download" ELSE pending[b]]
    /\ cancel_handles' = cancel_handles \cup Range(hashes)

\* request_blocks and handle_hash_response.  After a duplicate the other hashes,
\* and the extra ones, are dropped.
RequestBlocks(hashes) ==
    \E limit \in {lookahead_limit(Len(hashes))} :
    LET now == SubSeq(hashes, 1, IF Len(hashes) > limit THEN limit ELSE Len(hashes))
        dup == FirstIn(now, cancel_handles)
    IN  /\ QueueDownloads(IF dup = 0 THEN now ELSE SubSeq(now, 1, dup - 1))
        /\ extra_hashes' = IF dup = 0 THEN SubSeq(hashes, Len(now) + 1, Len(hashes)) ELSE <<>>

\* Downloads::cancel_all, after an error.  A task whose block has just arrived
\* can still set the watched value afterwards.
CancelAll ==
    /\ pending' = [b \in Block |-> "none"] /\ cancel_handles' = {}
    /\ \/ past_lookahead_limit' = FALSE
       \/ /\ \E b \in Block : pending[b] = "download" /\ AboveLookahead(b)
          /\ ~past_lookahead_limit /\ past_lookahead_limit' = TRUE
    /\ \E forgotten \in SUBSET {b \in Block : Forgettable(b)} : queued' = queued \ forgotten

\* try_to_sync returns an error.
Restart ==
    /\ CancelAll
    /\ sync' = "sleep" /\ locator' = Genesis
    /\ old_tips' = {} /\ download_set' = <<>> /\ extra_hashes' = <<>>

\* The condition of the loop in try_to_sync.
Continue ==
    sync' = IF prospective_tips' = {} /\ extra_hashes' = <<>> THEN "sleep" ELSE "poll"

-----------------------------------------------------------------------------
(* request_genesis.                                                        *)

RequestGenesis ==
    /\ sync = "genesis" /\ Genesis \notin state
    /\ IF Genesis \in cancel_handles THEN UNCHANGED <<pending, cancel_handles>>
       ELSE QueueDownloads(<<Genesis>>)
    /\ sync' = "genesis_wait"
    /\ UNCHANGED <<locator, prospective_tips, old_tips, download_set, extra_hashes, recent_syncs,
                   past_lookahead_limit, queued, state, surprises>>

PollNextOfSuccess(b) ==
    /\ pending[b] \in Results
    /\ pending' = [pending EXCEPT ![b] = "none"]
    /\ cancel_handles' = IF pending[b] = "ok" THEN cancel_handles \ {b} ELSE cancel_handles

\* Downloads::poll_next takes the result of a task.
PollNext(b) ==
    /\ pending[b] \in Results
    /\ pending' = [pending EXCEPT ![b] = "none"]
    /\ cancel_handles' = cancel_handles \ {b}

GenesisResponse(b) ==
    /\ sync = "genesis_wait" /\ PollNext(b)
    /\ sync' = "genesis"
    /\ UNCHANGED <<locator, prospective_tips, old_tips, download_set, extra_hashes, recent_syncs,
                   past_lookahead_limit, queued, state, surprises>>

\* The attempt times out.  Its download goes on.
GenesisTimesOut ==
    /\ sync = "genesis_wait" /\ Surprise(1)
    /\ sync' = "genesis"
    /\ UNCHANGED <<locator, prospective_tips, old_tips, download_set, extra_hashes, recent_syncs,
                   downloads, queued, state>>

GenesisIsKnown ==
    /\ sync = "genesis" /\ Genesis \in state
    /\ sync' = "start"
    /\ UNCHANGED <<locator, prospective_tips, old_tips, download_set, extra_hashes, recent_syncs,
                   downloads, queued, state, surprises>>

-----------------------------------------------------------------------------
(* What peers answer to FindBlocks.                                        *)

\* The hashes a peer has after a known block, or after genesis.
After(chain, known) ==
    LET i == FirstIn(chain, {known})
        last == i + MAX_TIPS_RESPONSE_HASH_COUNT
    IN  SubSeq(chain, i + 1, IF last < Len(chain) THEN last ELSE Len(chain))

\* zcashd sometimes adds an unrelated hash, for instance of its tip.
SurprisingAnswers(known) ==
    LET best == After(BestPeer, known)
        tip == (<<Genesis>> \o BestPeer)[Len(BestPeer) + 1]
    IN  {<<>>, <<tip>> \o best, Append(best, tip)}
            \cup {After(chain, known) : chain \in PeerChain \ {BestPeer}}

\* The answers to a fanout, in the order in which they arrive.
Answers(known, surprising) ==
    {rs \in [1 .. FANOUT -> {After(BestPeer, known)} \cup SurprisingAnswers(known)] :
        \A i \in 1 .. FANOUT :
            IF i \in surprising THEN rs[i] \in SurprisingAnswers(known)
            ELSE rs[i] = After(BestPeer, known)}

\* IndexSet::insert: a hash that is in the set keeps its place.
Insert(hashes, b) == IF b \in Range(hashes) THEN hashes ELSE Append(hashes, b)

\* IndexSet::extend.
InsertAll(hashes, more) ==
    LET after[i \in 0 .. Len(more)] ==
            IF i = 0 THEN hashes ELSE Insert(after[i - 1], more[i])
    IN  after[Len(more)]

\* Both obtain_tips and extend_tips use the last two of the unknown hashes as a
\* tip, and download all of them.  A response that extends one block is dropped.
AddHashes(found, unknown) ==
    LET n == Len(unknown)
    IN  IF n < 2 THEN found
        ELSE [hashes |-> InsertAll(found.hashes, unknown),
              tips   |-> IF unknown[n] \in Range(found.hashes) THEN found.tips
                         ELSE {t \in found.tips : t.expected_next \notin Range(unknown)}
                                \cup {[tip |-> unknown[n - 1], expected_next |-> unknown[n]]}]

\* The responses of a fanout, one after the other.
AddResponses(found, unknown) ==
    LET after[i \in 0 .. FANOUT] ==
            IF i = 0 THEN found ELSE AddHashes(after[i - 1], unknown[i])
    IN  after[FANOUT]

\* Every list loses its last hash.
WithoutLast(hashes) == SubSeq(hashes, 1, Len(hashes) - 1)

\* obtain_tips: what follows the first hash that is not in the state.
UnknownHashes(hashes) ==
    LET list == WithoutLast(hashes)
        first == FirstIn(list, Block \ state)
    IN  IF first = 0 THEN <<>> ELSE SubSeq(list, first, Len(list))

\* extend_tips: what follows the expected hash, in the first or second place.
HashesAfter(hashes, expected_next) ==
    IF Len(hashes) >= 1 /\ hashes[1] = expected_next
    THEN WithoutLast(Tail(hashes))
    ELSE IF Len(hashes) >= 2 /\ hashes[2] = expected_next
         THEN WithoutLast(SubSeq(hashes, 3, Len(hashes)))
         ELSE <<>>

PushLengthLast(length) ==
    recent_syncs' = SubSeq(Append(recent_syncs, length), 1,
                           IF Len(recent_syncs) < MAX_RECENT_LENGTHS
                           THEN Len(recent_syncs) + 1 ELSE MAX_RECENT_LENGTHS)

\* RecentSyncLengths::update.
PushLength(length) ==
    recent_syncs' = SubSeq(<<length>> \o recent_syncs, 1,
                           IF Len(recent_syncs) < MAX_RECENT_LENGTHS
                           THEN Len(recent_syncs) + 1 ELSE MAX_RECENT_LENGTHS)

-----------------------------------------------------------------------------
(* obtain_tips reads the state three times.                                *)

ObtainTips ==
    /\ sync = "start"
    /\ sync' = "obtain" /\ locator' = Tip /\ prospective_tips' = {}
    /\ UNCHANGED <<old_tips, download_set, extra_hashes, recent_syncs, downloads, queued, state,
                   surprises>>

ObtainTipsResponses ==
    /\ sync = "obtain" /\ sync' = "check"
    /\ \E surprising \in SUBSET (1 .. FANOUT) :
        /\ Surprise(Cardinality(surprising))
        /\ \E rs \in Answers(locator, surprising) :
           \E unknown \in {[i \in 1 .. FANOUT |-> UnknownHashes(rs[i])]} :
           \E found \in {AddResponses([hashes |-> <<>>, tips |-> {}], unknown)} :
            download_set' = found.hashes /\ prospective_tips' = found.tips
    /\ locator' = Genesis
    /\ UNCHANGED <<old_tips, extra_hashes, recent_syncs, downloads, queued, state>>

\* "queued download of hash behind our chain tip" is an error.
ObtainTipsRequests ==
    /\ sync = "check"
    /\ IF Range(download_set) \cap state # {}
       THEN Restart /\ UNCHANGED <<prospective_tips, recent_syncs>>
       ELSE /\ PushLength(Len(download_set))
            /\ RequestBlocks(download_set)
            /\ download_set' = <<>> /\ UNCHANGED prospective_tips
            /\ Continue
            /\ UNCHANGED <<locator, old_tips, past_lookahead_limit, queued>>
    /\ UNCHANGED <<state, surprises>>

-----------------------------------------------------------------------------
(* try_to_sync_once.                                                       *)

\* handle_block_response: after an error that is not ignored, start again.
HandleResponse(b, next) ==
    /\ IF pending[b] = "restart" THEN Restart
       ELSE /\ PollNext(b)
            /\ sync' = next
            /\ UNCHANGED <<locator, old_tips, download_set, extra_hashes,
                           past_lookahead_limit, queued>>
    /\ UNCHANGED <<prospective_tips, recent_syncs, state, surprises>>

\* Take the results that are ready.
PollReady(b) == sync = "poll" /\ pending[b] \in Results /\ HandleResponse(b, "poll")

EndPoll ==
    /\ sync = "poll" /\ sync' = "pause"
    /\ \A b \in Block : pending[b] \notin Results
    /\ UNCHANGED <<locator, prospective_tips, old_tips, download_set, extra_hashes, recent_syncs,
                   downloads, queued, state, surprises>>

\* Wait for the next result, and only then look at the limits again.
PauseDownloads ==
    /\ sync = "pause" /\ sync' = "await"
    /\ Paused
    /\ UNCHANGED <<locator, prospective_tips, old_tips, download_set, extra_hashes, recent_syncs,
                   downloads, queued, state, surprises>>

AwaitPending(b) == sync = "await" /\ pending[b] \in Results /\ HandleResponse(b, "pause")

RequestExtra ==
    /\ sync = "pause" /\ ~Paused /\ extra_hashes # <<>>
    /\ RequestBlocks(extra_hashes)
    /\ UNCHANGED prospective_tips /\ Continue
    /\ UNCHANGED <<locator, old_tips, download_set, recent_syncs, past_lookahead_limit, queued,
                   state, surprises>>

\* extend_tips takes the tips, and asks a fanout about each of them.
ExtendTips ==
    /\ sync = "pause" /\ sync' = "extend"
    /\ ~Paused /\ extra_hashes = <<>>
    /\ old_tips' = prospective_tips /\ prospective_tips' = {}
    /\ UNCHANGED <<locator, download_set, extra_hashes, recent_syncs, downloads, queued, state,
                   surprises>>

ExtendTipsResponses(t) ==
    /\ sync = "extend" /\ t \in old_tips /\ UNCHANGED sync
    /\ old_tips' = old_tips \ {t}
    /\ \E surprising \in SUBSET (1 .. FANOUT) :
        /\ Surprise(Cardinality(surprising))
        /\ \E rs \in Answers(t.tip, surprising) :
           \E unknown \in {[i \in 1 .. FANOUT |-> HashesAfter(rs[i], t.expected_next)]} :
           \E found \in {AddResponses([hashes |-> download_set, tips |-> prospective_tips],
                                      unknown)} :
            download_set' = found.hashes /\ prospective_tips' = found.tips
    /\ UNCHANGED <<locator, extra_hashes, recent_syncs, downloads, queued, state>>

ExtendTipsRequests ==
    /\ sync = "extend" /\ old_tips = {}
    /\ PushLength(Len(download_set))
    /\ RequestBlocks(download_set)
    /\ download_set' = <<>> /\ UNCHANGED prospective_tips
    /\ Continue
    /\ UNCHANGED <<locator, old_tips, past_lookahead_limit, queued, state, surprises>>

\* try_to_sync, or one of its steps, times out.
SyncTimesOut ==
    /\ sync \in {"obtain", "check", "poll", "pause", "await", "extend"}
    /\ Surprise(1) /\ Restart
    /\ UNCHANGED <<prospective_tips, recent_syncs, state>>

\* SYNC_RESTART_DELAY.
WakeUp ==
    /\ sync = "sleep"
    /\ sync' = "start"
    /\ UNCHANGED <<locator, prospective_tips, old_tips, download_set, extra_hashes, recent_syncs,
                   downloads, queued, state, surprises>>

-----------------------------------------------------------------------------
GenesisSteps ==
    RequestGenesis \/ GenesisIsKnown \/ \E b \in Block : GenesisResponse(b)

SyncSteps ==
    \/ ObtainTips \/ ObtainTipsResponses \/ ObtainTipsRequests
    \/ \E b \in Block : PollReady(b) \/ AwaitPending(b)
    \/ EndPoll \/ PauseDownloads \/ RequestExtra
    \/ ExtendTips \/ ExtendTipsRequests \/ \E t \in old_tips : ExtendTipsResponses(t)
    \/ WakeUp

TaskSteps(b) == BlockArrives(b) \/ VerifierCommits(b) \/ VerifyTimesOut(b)

Next ==
    \/ GenesisSteps \/ GenesisTimesOut \/ SyncSteps \/ SyncTimesOut
    \/ \E b \in Block :
        \/ TaskSteps(b) \/ Gossip(b)
        \/ \E result \in Results : DownloadFails(b, result)

Spec == Init /\ [][Next]_vars

\* The syncer goes on, blocks arrive, what can be committed is committed, and the
\* timer of a verification runs until the task ends, whatever the syncer does
\* in between.
Fairness ==
    /\ WF_vars(GenesisSteps \/ SyncSteps)
    /\ WF_vars(\E b \in Block : BlockArrives(b))
    /\ WF_vars(\E b \in Block : VerifierCommits(b))
    /\ SF_vars(\E b \in Block : VerifyTimesOut(b) /\ Overdue(b))

FairSpec == Spec /\ Fairness

-----------------------------------------------------------------------------
\* cancel_handles holds the hashes of the tasks in pending: a hash that stayed
\* behind, after a failed task or after cancel_all, would make the next request of
\* its block a duplicate, and a task without one could not be cancelled.
HandlesMatchTasks == TypeOK /\ cancel_handles = Tasks

\* Where the syncer waits for the next result there is a task: the stream of an
\* empty Downloads ends, and expect("downloads is nonempty") would panic.  The one
\* exception is a full verify limit of 1, MIN_CONCURRENCY_LIMIT: half of it is 0,
\* so a block that ran ahead of the state pauses the syncer without a task.
DownloadsNonempty ==
    sync \in {"genesis_wait", "await"} /\ Tasks = {} =>
        sync = "await" /\ past_lookahead_limit /\ full_verify_concurrency_limit = 1

\* "the syncer queue is limited to the lookahead_limit" (downloads.rs).
QueueWithinLookahead == in_flight <= LookaheadLimit

\* SyncStatus::is_close_to_tip.
IsCloseToTip ==
    /\ recent_syncs # <<>>
    /\ SumFunction(recent_syncs) \div Len(recent_syncs) < MIN_DIST_FROM_TIP

\* After the surprises stop the state follows the best chain, and the status says
\* so.  The last two blocks are left to the inbound service: every list of hashes
\* loses its last one, and a response that extends one block is dropped.
SyncCatchesUp == <>[](Height[Tip] + 2 >= Len(BestPeer) /\ IsCloseToTip)
=============================================================================
