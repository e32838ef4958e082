------------------------- MODULE CheckpointVerifier -------------------------
(***************************************************************************)
(* zebra-consensus/src/checkpoint.rs: the service that verifies blocks by  *)
(* walking back from a checkpoint hash, with the tasks that commit what it *)
(* verified and the futures of its callers.                                *)
(*                                                                         *)
(* A call is one step: it may reset the progress, queues the block and     *)
(* processes the queue.  The task of a request then commits its block to   *)
(* the state, and the future of a request that failed reads the tip of the *)
(* state and sends it back to the verifier.  These run concurrently, and a *)
(* caller may drop its future at any time.  The syncer makes a request     *)
(* again when it failed or timed out; other callers make theirs once.      *)
(***************************************************************************)
EXTENDS Integers, Sequences, FiniteSets, FiniteSetsExt

CONSTANTS
    NONE,
    Block,            \* blocks that pass the checks of check_block
    Parent,           \* previous_block_hash; the parent of genesis is NONE
    Height,           \* coinbase height
    Checkpoint,       \* checkpoint_list: from heights to blocks
    Request,          \* calls of the service, each for one block
    Of,               \* the block of a request
    Corrupt,          \* requests whose block the state refuses
    Syncer,           \* requests of the syncer
    Impatient,        \* requests whose caller may give up
    InitialTip,       \* tip of the state when the verifier starts, or NONE
    MAX_QUEUED_BLOCKS_PER_HEIGHT

MaxHeight == Max(DOMAIN Checkpoint)

ASSUME CheckpointAssumption ==
    /\ NONE \notin Block /\ NONE \notin Nat
    /\ Height \in [Block -> Nat] /\ Parent \in [Block -> Block \cup {NONE}]
    /\ \A b \in Block : IF Height[b] = 0 THEN Parent[b] = NONE
                        ELSE Parent[b] \in Block /\ Height[b] = Height[Parent[b]] + 1
    /\ DOMAIN Checkpoint \subseteq Nat /\ 0 \in DOMAIN Checkpoint
    /\ IsFiniteSet(DOMAIN Checkpoint)
    /\ \A h \in DOMAIN Checkpoint : Checkpoint[h] \in Block /\ Height[Checkpoint[h]] = h
    /\ Of \in [Request -> Block] /\ Corrupt \cup Syncer \cup Impatient \subseteq Request
    /\ Corrupt \cap Syncer = {}   \* corrupt data is downloaded once
    /\ InitialTip \in Block \cup {NONE}
    /\ MAX_QUEUED_BLOCKS_PER_HEIGHT \in Nat \ {0}

VARIABLES
    progress,         \* verifier_progress
    initial_tip_hash,
    queued,           \* the requests whose block is queued at each height
    resets,           \* tips in the reset channel
    task,             \* where the task of each request is
    future,           \* where the future of each request is
    tip,              \* tip of the state
    service           \* whether the service runs, was dropped, or failed an assertion

verifier == <<progress, initial_tip_hash, queued, service>>
vars == <<verifier, resets, task, future, tip>>

Heights == 0 .. MaxHeight
TipHeight(b) == IF b = NONE THEN -1 ELSE Height[b]

\* enum Progress.  BeforeGenesis is below every height.
Progress(kind, height) == [kind |-> kind, height |-> height]
BeforeGenesis == Progress("BeforeGenesis", -1)
FinalCheckpoint == Progress("FinalCheckpoint", MaxHeight)

\* "none": the service did not accept the request, or has not seen it.
\* "waiting": for the verifier.  "committing": for the state.
Tasks == {"none", "waiting", "committing", "ok", "err"}

\* "none": no future, the request may be made.  "read": the tip was read and is
\* not sent yet.  "over": failed or dropped, and not made again.
Futures == {"none", "pending", "read", "ok", "over"}

TypeOK ==
    /\ progress.height \in Heights \cup {-1}
    /\ progress.kind \in {"BeforeGenesis", "InitialTip", "PreviousCheckpoint", "FinalCheckpoint"}
    /\ progress.kind = "InitialTip" => initial_tip_hash # NONE
    /\ initial_tip_hash \in Block \cup {NONE}
    /\ \A h \in Heights :
        /\ queued[h] \subseteq Request
        /\ Cardinality(queued[h]) <= MAX_QUEUED_BLOCKS_PER_HEIGHT
        /\ \A r \in queued[h] : Height[Of[r]] = h
    /\ task \in [Request -> Tasks]
    /\ \A r \in Request : future[r].at \in Futures /\ future[r].tip \in Block \cup {NONE}
    /\ tip \in Block \cup {NONE} /\ service \in {"running", "dropped", "panicked"}

-----------------------------------------------------------------------------
\* progress_from_tip
ProgressFromTip(t) ==
    IF t = NONE THEN BeforeGenesis
    ELSE IF Height[t] >= MaxHeight THEN FinalCheckpoint
    ELSE Progress("InitialTip", Height[t])

HashFromTip(t) == IF t = NONE \/ Height[t] >= MaxHeight THEN NONE ELSE t

Init ==
    /\ progress = ProgressFromTip(InitialTip) /\ initial_tip_hash = HashFromTip(InitialTip)
    /\ queued = [h \in Heights |-> {}] /\ service = "running"
    /\ resets = <<>>
    /\ task = [r \in Request |-> "none"]
    /\ future = [r \in Request |-> [at |-> "none", tip |-> NONE]]
    /\ tip = InitialTip

\* previous_checkpoint_hash
PreviousHash(p, hash) ==
    CASE p.kind = "InitialTip" -> hash
      [] p.kind = "PreviousCheckpoint" -> Checkpoint[p.height]
      [] OTHER -> NONE

\* Mutant: the range excludes the last continuous block.
ReachedExclusive(p, q) ==
    {h \in DOMAIN Checkpoint :
        h > p.height /\ \A k \in (p.height + 1) .. (h + 1) : k \in Heights /\ q[k] # {}}

\* The checkpoints that the queued blocks reach without a gap.
Reached(p, q) ==
    {h \in DOMAIN Checkpoint : h > p.height /\ \A k \in (p.height + 1) .. h : q[k] # {}}

\* target_checkpoint_height: the highest of them.
TargetCheckpointHeight(p, q) == IF Reached(p, q) = {} THEN NONE ELSE Max(Reached(p, q))

\* expected_hash at each height, walking back from a target checkpoint.
ExpectedHash ==
    [target \in DOMAIN Checkpoint |->
        LET expected[h \in 0 .. target] ==
                IF h = target THEN Checkpoint[target] ELSE Parent[expected[h + 1]]
        IN  [h \in 0 .. target |-> expected[h]]]

\* The checkpoints are blocks of one chain, and so is the tip of the state, as far
\* as there are checkpoints.
ASSUME ChainAssumption ==
    /\ \A h \in DOMAIN Checkpoint : ExpectedHash[MaxHeight][h] = Checkpoint[h]
    /\ InitialTip # NONE /\ Height[InitialTip] <= MaxHeight =>
        ExpectedHash[MaxHeight][Height[InitialTip]] = InitialTip

\* Mutant: any block that has a child at the next height is taken.
MatchesAnyChild(rs, hash) == {r \in rs : Height[Of[r]] = Height[hash]}

\* The queued requests that process_height keeps at a height.
Matches(rs, hash) == {r \in rs : Of[r] = hash}

\* update_progress
UpdateProgress(target) ==
    IF target = MaxHeight THEN FinalCheckpoint ELSE Progress("PreviousCheckpoint", target)

\* The heights of a range at which no queued block continues the walk.
Misses(p, q, target) ==
    {h \in (p.height + 1) .. target : Matches(q[h], ExpectedHash[target][h]) = {}}

\* The blocks that match at these heights, and the ones that do not.
Kept(q, target, heights) == UNION {Matches(q[h], ExpectedHash[target][h]) : h \in heights}
SideChain(q, target, heights) == (UNION {q[h] : h \in heights}) \ Kept(q, target, heights)

\* The assertions of process_height, and of process_checkpoint_range for its
\* outcome: the progress and the queue after it.
AssertionFails(p, hash, q, target, walked, next, rest) ==
    \/ \E h \in walked :
        \/ h \in DOMAIN Checkpoint /\ Checkpoint[h] # ExpectedHash[target][h]
        \/ Cardinality(Matches(q[h], ExpectedHash[target][h])) > 1
    \/ /\ next # p
       /\ \/ Parent[ExpectedHash[target][p.height + 1]] # PreviousHash(p, hash)
          \/ next.kind # "FinalCheckpoint" /\ TargetCheckpointHeight(next, rest) # NONE
    \/ /\ next = p
       /\ TargetCheckpointHeight(p, rest) # NONE
       /\ TargetCheckpointHeight(p, rest) >= target

\* How the tasks of these requests go on.
Answer(ok, err) ==
    [t \in Request |-> IF t \in ok THEN "committing" ELSE IF t \in err THEN "err" ELSE task[t]]

\* process_checkpoint_range, with the queue q and the older duplicate that the
\* new request r replaced in it.  The walk stops at the highest height without a
\* matching block; the blocks that matched above it go back to the queue.
ProcessCheckpointRange(p, hash, q, r, older) ==
    IF TargetCheckpointHeight(p, q) = NONE
    THEN /\ progress' = p /\ initial_tip_hash' = hash /\ queued' = q
         /\ task' = [Answer({}, older) EXCEPT ![r] = "waiting"]
         /\ UNCHANGED service
    ELSE \E target \in {TargetCheckpointHeight(p, q)} : \E misses \in {Misses(p, q, target)} :
         \E walked \in {(IF misses = {} THEN p.height + 1 ELSE Max(misses)) .. target} :
         \E ok \in {IF misses = {} THEN Kept(q, target, walked) ELSE {}} :
         \E err \in {SideChain(q, target, walked) \cup older} :
         \E next \in {IF misses = {} THEN UpdateProgress(target) ELSE p} :
            /\ progress' = next
            /\ initial_tip_hash' = IF next.kind = "PreviousCheckpoint" THEN NONE ELSE hash
            /\ queued' = [h \in Heights |-> q[h] \ (ok \cup err)]
            /\ task' = IF r \in ok \cup err THEN Answer(ok, err)
                       ELSE [Answer(ok, err) EXCEPT ![r] = "waiting"]
            /\ service' = IF AssertionFails(p, hash, q, target, walked, next, queued')
                          THEN "panicked" ELSE "running"

-----------------------------------------------------------------------------
\* check_height
CheckHeight(p, h) == p.kind # "FinalCheckpoint" /\ h <= MaxHeight /\ h > p.height

\* queue_block: a newer request for the same block replaces the older one.  When
\* r itself is repeated, nobody is left to see that its older task fails.
Older(q, r) == Matches(q[Height[Of[r]]], Of[r]) \ {r}

\* Mutant: the older request stays in the queue.
QueueBlockKeepsOlder(q, r, older) == [q EXCEPT ![Height[Of[r]]] = @ \cup {r}]

QueueBlock(q, r, older) == [q EXCEPT ![Height[Of[r]]] = (@ \ older) \cup {r}]

QueuedLimit(q, r) ==
    LET h == Height[Of[r]]
    IN  Matches(q[h], Of[r]) = {} /\ Cardinality(q[h]) >= MAX_QUEUED_BLOCKS_PER_HEIGHT

\* The future of a request that failed or was dropped.
Over(r) == [at |-> IF r \in Syncer THEN "none" ELSE "over", tip |-> NONE]

\* The syncer has one future for a block at a time.
MayCall(r) ==
    /\ future[r].at = "none" /\ task[r] \notin {"committing", "ok"}
    /\ r \in Syncer => \A t \in Syncer : Of[t] = Of[r] => future[t].at \notin {"pending", "read"}

\* Service::call.  One reset is taken from the channel, whatever its age.
Call(r) ==
    /\ MayCall(r) /\ service = "running"
    /\ resets' = IF resets = <<>> THEN <<>> ELSE Tail(resets)
    /\ UNCHANGED tip
    /\ \E p \in {IF resets = <<>> THEN progress ELSE ProgressFromTip(Head(resets))} :
       \E hash \in {IF resets = <<>> THEN initial_tip_hash ELSE HashFromTip(Head(resets))} :
        IF ~CheckHeight(p, Height[Of[r]]) \/ QueuedLimit(queued, r)
        THEN /\ progress' = p /\ initial_tip_hash' = hash
             /\ future' = [future EXCEPT ![r] = Over(r)]
             /\ UNCHANGED <<queued, service, task>>
        ELSE /\ future' = [future EXCEPT ![r].at = "pending"]
             /\ \E older \in {Older(queued, r)} :
                ProcessCheckpointRange(p, hash, QueueBlock(queued, r, older), r, older)

\* Drop: the requests in the queue fail.
DropVerifier ==
    /\ service = "running" /\ service' = "dropped"
    /\ queued' = [h \in Heights |-> {}]
    /\ task' = [t \in Request |-> IF t \in UNION {queued[h] : h \in Heights} THEN "err" ELSE task[t]]
    /\ UNCHANGED <<progress, initial_tip_hash, resets, future, tip>>

-----------------------------------------------------------------------------
(* The task of a request, and the state it commits to.                      *)

\* The state commits a block whose parent is its tip.
Commit(r) ==
    /\ task[r] = "committing" /\ r \notin Corrupt
    /\ Parent[Of[r]] = tip
    /\ tip' = Of[r]
    /\ task' = [task EXCEPT ![r] = "ok"]
    /\ future' = IF future[r].at = "pending" THEN [future EXCEPT ![r].at = "ok"] ELSE future
    /\ UNCHANGED <<verifier, resets>>

\* The state refuses the block, and with it the blocks that it sent behind it.
CommitRefused(r) ==
    /\ task[r] = "committing" /\ r \in Corrupt
    /\ Parent[Of[r]] = tip
    /\ \E behind \in SUBSET {t \in Request : task[t] = "committing" /\ Height[Of[t]] > Height[Of[r]]} :
        task' = [t \in Request |-> IF t \in behind \cup {r} THEN "err" ELSE task[t]]
    /\ UNCHANGED <<verifier, resets, future, tip>>

\* A repeated block replaces an older one with the same parent in the queue of
\* the state, and fails once the state has finished with checkpoints.
CommitRepeated(r) ==
    /\ task[r] = "committing"
    /\ \/ \E t \in Request \ {r} : task[t] = "committing" /\ Parent[Of[t]] = Parent[Of[r]]
       \/ tip # NONE /\ Height[tip] = MaxHeight
    /\ task' = [task EXCEPT ![r] = "err"]
    /\ UNCHANGED <<verifier, resets, future, tip>>

-----------------------------------------------------------------------------
(* The future of a request.                                                 *)

\* The request failed: the tip of the state is read.
ReadTip(r) ==
    /\ task[r] = "err" /\ future[r].at = "pending"
    /\ future' = [future EXCEPT ![r] = [at |-> "read", tip |-> tip]]
    /\ UNCHANGED <<verifier, resets, task, tip>>

\* Then it is sent to the verifier.
SendReset(r) ==
    /\ future[r].at = "read"
    /\ resets' = Append(resets, future[r].tip)
    /\ future' = [future EXCEPT ![r] = Over(r)]
    /\ UNCHANGED <<verifier, task, tip>>

\* Mutant: the task is cancelled.
DropFutureCancels(r) ==
    /\ r \in Impatient /\ future[r].at \in {"pending", "read"}
    /\ future' = [future EXCEPT ![r] = Over(r)]
    /\ task' = IF task[r] = "committing" THEN [task EXCEPT ![r] = "none"] ELSE task
    /\ UNCHANGED <<verifier, resets, tip>>

\* The caller times out.  The task of the request goes on.
DropFuture(r) ==
    /\ r \in Impatient /\ future[r].at \in {"pending", "read"}
    /\ future' = [future EXCEPT ![r] = Over(r)]
    /\ UNCHANGED <<verifier, resets, task, tip>>

-----------------------------------------------------------------------------
Next ==
    \/ DropVerifier
    \/ \E r \in Request :
        \/ Call(r) \/ Commit(r) \/ CommitRefused(r) \/ CommitRepeated(r)
        \/ ReadTip(r) \/ SendReset(r) \/ DropFuture(r)

Spec == Init /\ [][Next]_vars

\* The syncer asks for every block that the state does not have, again after a
\* failure or its timeout, and the runtime polls tasks and futures.
FairSpec ==
    /\ Spec
    /\ \A b \in Block :
        WF_vars(\E r \in Syncer : Of[r] = b /\ Height[b] > TipHeight(tip) /\ Call(r))
    /\ \A r \in Syncer : WF_vars(DropFuture(r))
    /\ WF_vars(\E r \in Request : Commit(r) \/ CommitRefused(r))
    /\ WF_vars(\E r \in Request : ReadTip(r) \/ SendReset(r))

-----------------------------------------------------------------------------
\* Only blocks on the chain of the checkpoints are verified or committed, and no
\* assertion of process_height and process_checkpoint_range fails, whatever side
\* chains were queued and whatever progress a late reset leaves behind.
VerifiedIsOnCheckpointChain ==
    /\ TypeOK /\ service # "panicked"
    /\ \A r \in Request : task[r] \in {"committing", "ok"} =>
        ExpectedHash[MaxHeight][Height[Of[r]]] = Of[r]

\* Every task that waits has its sender in the queue, in one place, and every
\* sender in the queue has a task that waits, through replaced and repeated
\* requests ("CheckpointVerifier does not leave dangling receivers").
NoDanglingReceivers ==
    /\ \A r \in Request : task[r] = "waiting" => r \in queued[Height[Of[r]]]
    /\ \A h \in Heights : \A r \in queued[h] : task[r] = "waiting"
    /\ \A h \in Heights : \A r, t \in queued[h] : Of[r] = Of[t] => r = t

\* A checkpoint range is committed as a whole, even if callers gave up: the parent
\* of a verified block is in the state or on its way to it, unless the state
\* refused corrupt data for the parent or for a block below it.
RangesAreWhole ==
    \A r \in Request : task[r] = "committing" =>
        \/ Parent[Of[r]] = NONE \/ TipHeight(tip) >= Height[Parent[Of[r]]]
        \/ \E t \in Request : Of[t] = Parent[Of[r]] /\ task[t] = "committing"
        \/ \E t \in Corrupt : Height[Of[t]] <= Height[Parent[Of[r]]] /\ task[t] = "err"

\* The verifier has passed the blocks that are in the state or on their way to it,
\* and no others.
InSync ==
    0 .. progress.height =
        {h \in Heights : \/ h <= TipHeight(tip)
                         \/ \E r \in Request : task[r] = "committing" /\ Height[Of[r]] = h}

\* The last checkpoint is committed, or the verifier is gone.
Completed == TipHeight(tip) = MaxHeight \/ service # "running"

\* A syncer that asks again for what failed or timed out completes the sync, unless
\* the verifier stays out of sync with the state for good: blocks that were
\* refused, side chains, a full queue and resets only delay it, also a reset that
\* is taken by a call that fails and does not process the queue.
SyncCompletes == []<>InSync => <>Completed

\* The same without exception: violated, a reset to a tip that was read while
\* verified blocks were on their way makes the verifier wait for blocks that the
\* state has, and the syncer does not ask for these.
SyncNeverStalls == <>Completed

\* "reset its progress back to the state tip": once nothing is under way, the
\* verifier is not behind the state.
ResetCatchesUp ==
    /\ resets = <<>>
    /\ \A r \in Request : task[r] # "committing" /\ future[r].at # "read"
                         /\ (task[r] = "err" => future[r].at # "pending")
    => progress.height >= TipHeight(tip)
=============================================================================
