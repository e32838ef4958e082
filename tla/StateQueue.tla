----------------------------- MODULE StateQueue -----------------------------
(***************************************************************************)
(* zebra-state/src/service.rs, service/queued_blocks.rs and                *)
(* service/pending_utxos.rs: the state service queues blocks until their   *)
(* parents arrive, sends them in chain order to the block write task, and  *)
(* keeps what it has sent until that is finalized.                         *)
(*                                                                         *)
(* A call of CommitSemanticallyVerifiedBlock reads the database several    *)
(* times while the write task runs.  It is split where the write task can  *)
(* be seen to run in between: pc is where the service is.  The write task  *)
(* is reduced to what it shows the service; BlockWriter has the rest.      *)
(* Every block creates one output, which stands for its UTXOs.             *)
(***************************************************************************)
EXTENDS Integers, Sequences, FiniteSets, FiniteSetsExt

CONSTANTS
    Block, Genesis, Parent, Height,
    Checkpoints,    \* the blocks that are checkpoint verified
    Invalid,        \* the blocks that contextual validation rejects
    full_verifier_utxo_lookahead,
    Awaited,        \* the blocks whose outputs are asked for
    MaxRequests     \* bound: requests to commit each block

ASSUME QueueAssumption ==
    /\ Genesis \in Block /\ Checkpoints \subseteq Block \ {Genesis}
    /\ {"idle", "handover", "send", "prune"} \cap Block = {}
    /\ Parent \in [Block -> Block] /\ Height \in [Block -> Nat]
    /\ Height[Genesis] = 0
    /\ \A b \in Block \ {Genesis} : Height[b] = Height[Parent[b]] + 1
    /\ \A a, b \in Checkpoints : Height[a] = Height[b] => a = b
    /\ \A b \in Checkpoints : Parent[b] \in Checkpoints \cup {Genesis}
    /\ Invalid \subseteq Block \ Checkpoints /\ Awaited \subseteq Block
    /\ full_verifier_utxo_lookahead \in Nat /\ MaxRequests \in [Block -> Nat]

\* The verifier router (zebra-consensus/src/router.rs) sends blocks above the last
\* checkpoint, and no others, to full verification.
ASSUME RouterAssumption ==
    \A c \in Checkpoints : \A b \in Block \ ({Genesis} \cup Checkpoints) : Height[c] < Height[b]

VARIABLES
    pc, work,                 \* the step of the service, and its new_parents
    blocks,                   \* QueuedBlocks.blocks
    by_parent, by_height,     \* its indexes
    f_queue,                  \* finalized_state_queued_blocks: is the data authentic?
    f_open,                   \* block_write_sender.finalized.is_some()
    last_sent,                \* finalized_block_write_last_sent_hash
    sent, curr_buf, bufs,     \* SentHashes
    utxo,                     \* AwaitUtxo calls
    f_chan, n_chan, resets,   \* the channels to and from the write task
    writer, tip, db, chains, errors,
    asked, answered,          \* requests to commit, and their answers
    dropped                   \* the state service is gone

queueVars == <<blocks, by_parent, by_height>>
sentVars == <<sent, curr_buf, bufs>>
finalizedVars == <<f_queue, f_open, last_sent>>
writerVars == <<writer, tip, db, chains, errors>>
vars == <<pc, work, queueVars, finalizedVars, sentVars, utxo, f_chan, n_chan, resets,
          writerVars, asked, answered, dropped>>

Heights == {Height[b] : b \in Block}

TypeOK ==
    /\ pc \in {"idle", "handover", "send", "prune"} \cup Block
    /\ work \in Seq(Block)
    /\ blocks \subseteq Block
    /\ by_parent \in [Block -> SUBSET Block] /\ by_height \in [Heights -> SUBSET Block]
    /\ DOMAIN f_queue \subseteq Checkpoints /\ f_queue \in [DOMAIN f_queue -> BOOLEAN]
    /\ f_open \in BOOLEAN /\ last_sent \in Block
    /\ sent \subseteq Block /\ curr_buf \in Seq(Block) /\ bufs \subseteq Seq(Block) \ {<<>>}
    /\ utxo \in [Awaited -> {"none", "reading", "waiting", "answered"}]
    /\ f_chan \in Seq(Block \X BOOLEAN) /\ n_chan \in Seq(Block) /\ resets \in Seq(Block)
    /\ writer \in {"checkpoint", "blocks", "exited"}
    /\ tip \in Block /\ db \subseteq Block /\ chains \subseteq Block /\ errors \subseteq Block
    /\ asked \in [Block -> Nat] /\ answered \in [Block -> Nat]
    /\ dropped \in BOOLEAN

Init ==
    /\ pc = "idle" /\ work = <<>>
    /\ blocks = {} /\ by_parent = [b \in Block |-> {}] /\ by_height = [h \in Heights |-> {}]
    /\ f_queue = <<>> /\ f_open = TRUE /\ last_sent = Genesis
    /\ sent = {} /\ curr_buf = <<>> /\ bufs = {}
    /\ utxo = [b \in Awaited |-> "none"]
    /\ f_chan = <<>> /\ n_chan = <<>> /\ resets = <<>>
    /\ writer = "checkpoint" /\ tip = Genesis /\ db = {Genesis} /\ chains = {} /\ errors = {}
    /\ asked = [b \in Block |-> 0] /\ answered = [b \in Block |-> 0]
    /\ dropped = FALSE

-----------------------------------------------------------------------------
\* One request is answered for each block of a set.
Answer(bs) == [b \in Block |-> answered[b] + IF b \in bs THEN 1 ELSE 0]

\* The requests that a channel of blocks carries.
InChannel(b, chan) == Cardinality({i \in DOMAIN chan : chan[i] = b})

BlocksOf(chan) == [i \in DOMAIN chan |-> chan[i][1]]

Last(s) == s[Len(s)]
Front(s) == SubSeq(s, 1, Len(s) - 1)

\* The orders in which a hash set can be iterated.
Orders(S) == Injection(1 .. Cardinality(S), S)

\* A call arrives.  PendingUtxos::check_against_ordered answers who waits for the
\* outputs of the block.
Arrives(b) ==
    /\ pc = "idle" /\ ~dropped
    /\ asked[b] < MaxRequests[b]
    /\ asked' = [asked EXCEPT ![b] = @ + 1]
    /\ utxo' = [w \in Awaited |-> IF w = b /\ utxo[w] \in {"reading", "waiting"}
                                  THEN "answered" ELSE utxo[w]]

-----------------------------------------------------------------------------
(***************************************************************************)
(* CommitCheckpointVerifiedBlock.                                          *)
(***************************************************************************)
\* The number of queued blocks that follow a sent block without a gap.
RunLength(queue, last) ==
    Max({n \in 0 .. Cardinality(DOMAIN queue) :
            \A i \in 1 .. n : \E b \in DOMAIN queue : Height[b] = Height[last] + i})

\* These blocks, lowest first.
ReadyRun(queue, last) ==
    [i \in 1 .. RunLength(queue, last) |->
        CHOOSE b \in DOMAIN queue : Height[b] = Height[last] + i]

\* drain_finalized_queue_and_commit: one reset is taken, then the blocks that
\* follow the last one that was sent are sent.
DrainFinalizedQueueAndCommit(queue) ==
    LET last == IF resets = <<>> THEN last_sent ELSE Head(resets)
        run  == ReadyRun(queue, last)
    IN  /\ f_queue' = [b \in DOMAIN queue \ Range(run) |-> queue[b]]
        /\ f_chan' = f_chan \o [i \in DOMAIN run |-> <<run[i], queue[run[i]]>>]
        /\ last_sent' = IF run = <<>> THEN last ELSE Last(run)
        /\ resets' = IF resets = <<>> THEN <<>> ELSE Tail(resets)

\* Mutant: only blocks that were sent are remembered.
AddNothing(b) == UNCHANGED <<sent, curr_buf>>

\* SentHashes::add_finalized, for blocks close to the final checkpoint.
AddFinalized(b) ==
    IF Height[b] >= full_verifier_utxo_lookahead
    THEN sent' = sent \cup {b} /\ curr_buf' = Append(curr_buf, b)
    ELSE UNCHANGED <<sent, curr_buf>>

\* queue_and_commit_to_finalized_state.  The queue is keyed by the previous block,
\* which has one checkpoint verified child: an older request for it is answered.
QueueAndCommitToFinalizedState(b, authentic) ==
    /\ b \in Checkpoints /\ Arrives(b)
    /\ AddFinalized(b)
    /\ IF f_open
       THEN /\ answered' = Answer({b} \cap DOMAIN f_queue)
            /\ DrainFinalizedQueueAndCommit(
                   [x \in DOMAIN f_queue \cup {b} |-> IF x = b THEN authentic ELSE f_queue[x]])
       ELSE /\ answered' = Answer({b})
            /\ UNCHANGED <<f_queue, f_chan, last_sent, resets>>
    /\ UNCHANGED <<pc, work, queueVars, f_open, bufs, n_chan, writerVars, dropped>>

-----------------------------------------------------------------------------
(***************************************************************************)
(* CommitSemanticallyVerifiedBlock.                                        *)
(***************************************************************************)
\* QueuedBlocks::queue.
Queue(b) ==
    /\ blocks' = blocks \cup {b}
    /\ by_parent' = [by_parent EXCEPT ![Parent[b]] = @ \cup {b}]
    /\ by_height' = [by_height EXCEPT ![Height[b]] = @ \cup {b}]

\* queue_and_commit_to_non_finalized_state, as far as the queue: a block that was
\* sent, or whose height is finalized, is refused; a block that is queued gets the
\* new request, and its old one is answered.
QueueAndCommitToNonFinalizedState(b) ==
    /\ b \in Block \ ({Genesis} \cup Checkpoints) /\ Arrives(b)
    /\ IF b \in sent \/ Height[b] <= Height[tip]
       THEN answered' = Answer({b}) /\ UNCHANGED <<pc, queueVars>>
       ELSE /\ answered' = Answer({b} \cap blocks)
            /\ IF b \in blocks THEN UNCHANGED queueVars ELSE Queue(b)
            /\ pc' = b
    /\ UNCHANGED <<work, finalizedVars, sentVars, f_chan, n_chan, resets, writerVars, dropped>>

\* can_fork_chain_at.  SentHashes answer once the last checkpoint is behind.
CanForkChainAt(b) == (~f_open /\ b \in sent) \/ b = tip

\* The last checkpoint has been sent and written, and a child of it is queued.
CheckpointsAreDone == f_open /\ by_parent[last_sent] # {} /\ tip = last_sent

\* The write task is told to go on to semantically verified blocks.
HandOver ==
    /\ pc \in Block /\ CheckpointsAreDone
    /\ f_open' = FALSE
    /\ sent' = {} /\ curr_buf' = <<>> /\ bufs' = {}
    /\ answered' = Answer(DOMAIN f_queue) /\ f_queue' = <<>>
    /\ work' = <<last_sent>> /\ pc' = "handover"
    /\ UNCHANGED <<queueVars, last_sent, utxo, f_chan, n_chan, resets, writerVars, asked, dropped>>

\* The block, and what is queued on its parent, is sent if its parent is there.
SendIfReady ==
    /\ pc \in Block /\ ~CheckpointsAreDone
    /\ IF CanForkChainAt(Parent[pc]) /\ ~f_open
       THEN work' = <<Parent[pc]>> /\ pc' = "send"
       ELSE pc' = "idle" /\ UNCHANGED work
    /\ UNCHANGED <<queueVars, finalizedVars, sentVars, utxo, f_chan, n_chan, resets,
                   writerVars, asked, answered, dropped>>

\* Mutant: a dequeued block stays in the index by height.
DequeueKeepsHeight(parent) ==
    /\ blocks' = blocks \ by_parent[parent]
    /\ by_parent' = [by_parent EXCEPT ![parent] = {}]
    /\ UNCHANGED by_height

\* QueuedBlocks::dequeue_children.  The index by height loses every block of the
\* children's height.
DequeueChildren(parent) ==
    LET gone == {Height[c] : c \in by_parent[parent]}
    IN  /\ blocks' = blocks \ by_parent[parent]
        /\ by_parent' = [by_parent EXCEPT ![parent] = {}]
        /\ by_height' = [h \in Heights |-> IF h \in gone THEN {} ELSE by_height[h]]

\* Mutant: the children of the blocks that are sent are not looked for.
SendReadyOneLevel ==
    /\ pc \in {"send", "handover"} /\ work # <<>>
    /\ DequeueChildren(Last(work))
    /\ \E children \in Orders(by_parent[Last(work)]) :
          /\ sent' = sent \cup Range(children)
          /\ curr_buf' = curr_buf \o children
          /\ n_chan' = n_chan \o children
          /\ work' = Front(work)
    /\ UNCHANGED <<pc, finalizedVars, bufs, utxo, f_chan, resets, writerVars,
                   asked, answered, dropped>>

\* send_ready_non_finalized_queued: new_parents is a stack, and the children of
\* one parent come in the order of a hash set.
SendReadyNonFinalizedQueued ==
    /\ pc \in {"send", "handover"} /\ work # <<>>
    /\ DequeueChildren(Last(work))
    /\ \E children \in Orders(by_parent[Last(work)]) :
          /\ sent' = sent \cup Range(children)
          /\ curr_buf' = curr_buf \o children
          /\ n_chan' = n_chan \o children
          /\ work' = Front(work) \o children
    /\ UNCHANGED <<pc, finalizedVars, bufs, utxo, f_chan, resets, writerVars,
                   asked, answered, dropped>>

\* finish_batch, after which every call but the one that hands over prunes.
FinishBatch ==
    /\ pc \in {"send", "handover"} /\ work = <<>>
    /\ bufs' = IF curr_buf = <<>> THEN bufs ELSE bufs \cup {curr_buf}
    /\ curr_buf' = <<>>
    /\ pc' = IF pc = "send" THEN "prune" ELSE "idle"
    /\ UNCHANGED <<work, queueVars, finalizedVars, sent, utxo, f_chan, n_chan, resets,
                   writerVars, asked, answered, dropped>>

\* What is left of a batch: its blocks from the first one above the bound.
PruneBatch(buf, bound) ==
    LET high == {i \in DOMAIN buf : Height[buf[i]] > bound}
    IN  IF high = {} THEN <<>> ELSE SubSeq(buf, Min(high), Len(buf))

\* bufs.retain_mut.
Retain(bound) == {PruneBatch(buf, bound) : buf \in bufs} \ {<<>>}

\* Mutant: blocks up to the tip are forgotten, and not answered.
PruneSilently ==
    LET bound   == Height[tip]
        expired == UNION {by_height[h] : h \in {x \in Heights : x <= bound}}
        left    == Retain(bound)
    IN  /\ pc = "prune" /\ pc' = "idle"
        /\ blocks' = blocks \ expired
        /\ by_parent' = [p \in Block |-> by_parent[p] \ expired]
        /\ by_height' = [h \in Heights |-> IF h <= bound THEN {} ELSE by_height[h]]
        /\ bufs' = left
        /\ sent' = sent \cap UNION {Range(buf) : buf \in left}
        /\ UNCHANGED <<work, finalizedVars, curr_buf, utxo, f_chan, n_chan, resets,
                       writerVars, asked, answered, dropped>>

\* QueuedBlocks::prune_by_height and SentHashes::prune_by_height, up to the tip
\* that is finalized by now.
PruneByHeight ==
    LET bound   == Height[tip]
        expired == UNION {by_height[h] : h \in {x \in Heights : x <= bound}}
        left    == Retain(bound)
    IN  /\ pc = "prune" /\ pc' = "idle"
        /\ blocks' = blocks \ expired
        /\ by_parent' = [p \in Block |-> by_parent[p] \ expired]
        /\ by_height' = [h \in Heights |-> IF h <= bound THEN {} ELSE by_height[h]]
        /\ answered' = Answer(expired)
        /\ bufs' = left
        /\ sent' = sent \cap UNION {Range(buf) : buf \in left}
        /\ UNCHANGED <<work, finalizedVars, curr_buf, utxo, f_chan, n_chan, resets,
                       writerVars, asked, dropped>>

-----------------------------------------------------------------------------
(***************************************************************************)
(* AwaitUtxo, and the end of the service.                                  *)
(***************************************************************************)
\* The call is registered, then answered from the queued and the sent blocks.
AwaitUtxo(b) ==
    /\ pc = "idle" /\ ~dropped /\ utxo[b] = "none"
    /\ utxo' = [utxo EXCEPT ![b] = IF b \in blocks \cup sent THEN "answered" ELSE "reading"]
    /\ UNCHANGED <<pc, work, queueVars, finalizedVars, sentVars, f_chan, n_chan, resets,
                   writerVars, asked, answered, dropped>>

\* AnyChainUtxo: otherwise the chains and the database are read, concurrently.
ReadUtxo(b) ==
    /\ utxo[b] = "reading"
    /\ utxo' = [utxo EXCEPT ![b] = IF b \in chains \cup db THEN "answered" ELSE "waiting"]
    /\ UNCHANGED <<pc, work, queueVars, finalizedVars, sentVars, f_chan, n_chan, resets,
                   writerVars, asked, answered, dropped>>

\* The caller gives up, and may ask again.  PendingUtxos::prune forgets it.
AwaitTimesOut(b) ==
    /\ utxo[b] = "waiting"
    /\ utxo' = [utxo EXCEPT ![b] = "none"]
    /\ UNCHANGED <<pc, work, queueVars, finalizedVars, sentVars, f_chan, n_chan, resets,
                   writerVars, asked, answered, dropped>>

\* Drop: the channels are closed and both queues are answered.
DropState ==
    /\ pc = "idle" /\ ~dropped
    /\ dropped' = TRUE /\ f_open' = FALSE
    /\ answered' = Answer(DOMAIN f_queue \cup blocks)
    /\ f_queue' = <<>> /\ blocks' = {}
    /\ by_parent' = [b \in Block |-> {}] /\ by_height' = [h \in Heights |-> {}]
    /\ UNCHANGED <<pc, work, last_sent, sentVars, utxo, f_chan, n_chan, resets, writerVars, asked>>

-----------------------------------------------------------------------------
(***************************************************************************)
(* The block write task.                                                   *)
(***************************************************************************)
serviceVars == <<pc, work, queueVars, finalizedVars, sentVars, utxo, asked, dropped>>

Ancestors[b \in Block] == IF b = Genesis THEN {} ELSE {Parent[b]} \cup Ancestors[Parent[b]]

\* Mutant: a failed block does not reset the service.
WriteFinalizedNoReset ==
    /\ writer = "checkpoint" /\ f_chan # <<>> /\ ~dropped
    /\ LET b == Head(f_chan)[1]  authentic == Head(f_chan)[2]
       IN  IF Height[b] = Height[tip] + 1 /\ authentic
           THEN tip' = b /\ db' = db \cup {b} ELSE UNCHANGED <<tip, db>>
    /\ answered' = Answer({Head(f_chan)[1]}) /\ f_chan' = Tail(f_chan)
    /\ UNCHANGED <<serviceVars, n_chan, resets, writer, chains, errors>>

\* A checkpoint verified block: the wrong height is dropped, which ends its request,
\* and a block that fails resets the service to the tip.
WriteFinalized ==
    /\ writer = "checkpoint" /\ f_chan # <<>> /\ ~dropped
    /\ LET b == Head(f_chan)[1]  authentic == Head(f_chan)[2]
       IN  IF Height[b] = Height[tip] + 1
           THEN IF authentic
                THEN tip' = b /\ db' = db \cup {b} /\ UNCHANGED resets
                ELSE resets' = Append(resets, tip) /\ UNCHANGED <<tip, db>>
           ELSE UNCHANGED <<tip, db, resets>>
    /\ answered' = Answer({Head(f_chan)[1]}) /\ f_chan' = Tail(f_chan)
    /\ UNCHANGED <<serviceVars, n_chan, writer, chains, errors>>

\* The finalized channel is closed and empty.
StartBlocks ==
    /\ writer = "checkpoint" /\ f_chan = <<>> /\ ~f_open /\ ~dropped
    /\ writer' = "blocks"
    /\ UNCHANGED <<serviceVars, f_chan, n_chan, resets, tip, db, chains, errors, answered>>

\* The task sees that the reset channel is closed, and drops what it was sent.
WriterExits ==
    /\ writer = "checkpoint" /\ dropped
    /\ writer' = "exited"
    /\ answered' = [b \in Block |-> answered[b] + InChannel(b, n_chan)
                        + InChannel(b, BlocksOf(f_chan))]
    /\ f_chan' = <<>> /\ n_chan' = <<>>
    /\ UNCHANGED <<serviceVars, resets, tip, db, chains, errors>>

\* A semantically verified block is committed on its parent, or rejected with its
\* descendants.
WriteBlock ==
    /\ writer = "blocks" /\ n_chan # <<>>
    /\ LET b == Head(n_chan)
       IN  IF Parent[b] \notin errors /\ b \notin Invalid /\ Parent[b] \in chains \cup {tip}
           THEN chains' = chains \cup {b} /\ UNCHANGED errors
           ELSE errors' = errors \cup {b} /\ UNCHANGED chains
    /\ answered' = Answer({Head(n_chan)}) /\ n_chan' = Tail(n_chan)
    /\ UNCHANGED <<serviceVars, f_chan, resets, writer, tip, db>>

\* A block is finalized, by the reorg limit or by Crosslink.
Finalize(c) ==
    /\ writer = "blocks" /\ c \in chains /\ Parent[c] = tip
    /\ tip' = c /\ db' = db \cup {c}
    /\ chains' = {x \in chains : c \in Ancestors[x]}
    /\ UNCHANGED <<serviceVars, f_chan, n_chan, resets, writer, errors, answered>>

-----------------------------------------------------------------------------
Service ==
    \/ \E b \in Block : \/ \E authentic \in BOOLEAN : QueueAndCommitToFinalizedState(b, authentic)
                        \/ QueueAndCommitToNonFinalizedState(b)
    \/ HandOver \/ SendIfReady \/ SendReadyNonFinalizedQueued \/ FinishBatch \/ PruneByHeight
    \/ DropState

Writer == WriteFinalized \/ StartBlocks \/ WriterExits \/ WriteBlock

Next ==
    \/ Service \/ Writer
    \/ \E c \in Block : Finalize(c)
    \/ \E b \in Awaited : AwaitUtxo(b) \/ ReadUtxo(b) \/ AwaitTimesOut(b)

Spec == Init /\ [][Next]_vars

-----------------------------------------------------------------------------
(***************************************************************************)
(* Properties.                                                             *)
(***************************************************************************)
\* The index by parent is exact, and the index by height holds queued blocks only:
\* the expects and assertions of dequeue_children and prune_by_height hold.
QueueIndexesAgree ==
    /\ TypeOK
    /\ \A p \in Block : by_parent[p] = {b \in blocks : Parent[b] = p}
    /\ \A h \in Heights : by_height[h] \subseteq {b \in blocks : Height[b] = h}

\* Every request to commit a block is answered once, or its sender is in exactly
\* one queue or channel: replacing, refusing, pruning, resetting, handing over and
\* dropping the state lose none and answer none twice.
RequestsAreAccounted ==
    \A b \in Block :
        asked[b] - answered[b] =
            Cardinality({b} \cap blocks) + Cardinality({b} \cap DOMAIN f_queue)
            + InChannel(b, n_chan) + InChannel(b, BlocksOf(f_chan))

\* A queued block is sent when its parent can be forked at: no earlier, or the write
\* task would reject it and all its descendants, and no later, once full
\* verification has started, although the tip moves while the service works.
SentWhenReady ==
    /\ \A i \in DOMAIN n_chan :
        /\ Ancestors[n_chan[i]] \cap blocks = {}
        /\ \A j \in DOMAIN n_chan : n_chan[j] \in Ancestors[n_chan[i]] => j < i
    /\ pc = "idle" /\ ~f_open /\ ~dropped =>
        \A b \in blocks : CanForkChainAt(Parent[b]) => Height[b] <= Height[tip]

\* After any number of failed blocks, dropped descendants and repeated requests,
\* either a reset is on its way to the service, one at a time, or all blocks
\* between the tip and the last one that was sent are in the channel.  After the
\* hand over none of what is left in the channel is written any more: full
\* verification builds on the tip that the service saw.
CheckpointsDoNotStall ==
    writer = "checkpoint" /\ ~dropped =>
        /\ ~f_open => \A i \in DOMAIN f_chan : Height[f_chan[i][1]] # Height[tip] + 1
        /\ Len(resets) <= 1
        /\ resets = <<>> =>
             /\ Height[tip] <= Height[last_sent]
             /\ \A h \in Height[tip] + 1 .. Height[last_sent] :
                  \E i \in DOMAIN f_chan : Height[f_chan[i][1]] = h

\* A call of AwaitUtxo that is left waiting waits for a block that has not arrived:
\* the exception are checkpoint blocks far below the last checkpoint, which may
\* have been in their queue.
UtxoWaitersAreNotMissed ==
    \A b \in Awaited :
        utxo[b] = "waiting" /\ b \in blocks \cup sent \cup chains \cup db
            => b \in Checkpoints /\ Height[b] < full_verifier_utxo_lookahead

\* queued_blocks.rs:232: "A list of previously sent block batches, each batch is
\* in increasing height order."
SentBatchesAreInHeightOrder ==
    \A buf \in bufs : \A i, j \in DOMAIN buf : i < j => Height[buf[i]] <= Height[buf[j]]

\* queued_blocks.rs:127: "Remove all queued blocks whose height is less than or
\* equal to the given `finalized_tip_height`."
PruneLeavesNothingBelow ==
    [][pc = "prune" /\ pc' = "idle" => \A b \in blocks' : Height[b] > Height[tip]]_vars
=============================================================================
