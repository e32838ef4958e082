------------------------------ MODULE Mempool ------------------------------
(***************************************************************************)
(* zebrad/src/components/mempool: the pool of verified transactions, the   *)
(* tasks that download and verify them, and the watch channel of           *)
(* zebra-state/src/service/chain_tip.rs through which the mempool learns   *)
(* of the best chain.                                                      *)
(*                                                                         *)
(* All work on the pool happens in poll_ready, which runs while the state  *)
(* moves the tip and the tasks read it: `phase` is where poll_ready is     *)
(* between two reads of the channel.                                       *)
(*                                                                         *)
(* A transaction creates one output, named after it.  What it spends       *)
(* stands for its outpoints and its nullifiers.                            *)
(***************************************************************************)
EXTENDS Integers, FiniteSets, FiniteSetsExt

CONSTANTS
    NONE,
    Tx,               \* transactions that can be queued for the mempool
    Spends,           \* what each transaction spends
    Expiry,           \* its expiry height
    Cost,             \* its cost
    Slow,             \* transactions whose download can fail or time out
    Coin,             \* outputs of the chain below the first tip
    Block,
    Genesis,
    Parent,
    BlockSpends,      \* what the transactions of a block outside Tx spend
    Mined,            \* the transactions of Tx in a block
    NextTip,          \* the tips that can follow a tip
    Activation,       \* network upgrade activation heights
    TX_COST_LIMIT,
    MAX_INBOUND_CONCURRENCY

ASSUME MempoolAssumption ==
    /\ Tx \cap Coin = {} /\ Slow \subseteq Tx /\ NONE \notin Block
    /\ Spends \in [Tx -> SUBSET (Tx \cup Coin)] 
    /\ Expiry \in [Tx -> Nat] /\ Cost \in [Tx -> Nat \ {0}]
    /\ Genesis \in Block /\ Parent \in [Block \ {Genesis} -> Block]
    /\ BlockSpends \in [Block -> SUBSET Coin] /\ Mined \in [Block -> SUBSET Tx]
    /\ NextTip \in [Block -> SUBSET Block] /\ Activation \subseteq Nat
    /\ TX_COST_LIMIT \in Nat \ {0} /\ MAX_INBOUND_CONCURRENCY \in Nat \ {0}

VARIABLES
    tip,              \* the block in the watch channel, the tip of the best chain
    close,            \* SyncStatus::is_close_to_tip
    last_change_hash, \* of the mempool's ChainTipChange
    phase,            \* where poll_ready is
    tip_action,       \* its TipAction
    best_tip_height,  \* the height it read
    enabled,          \* ActiveState::Enabled
    last_seen_tip_hash,
    pool,             \* Storage
    task,             \* the download and verify task of each transaction
    cancel_handles,
    waiting           \* transactions whose Queue request is not answered

poll == <<phase, tip_action, best_tip_height>>
downloads == <<task, cancel_handles, waiting>>
vars == <<tip, close, last_change_hash, poll, enabled, last_seen_tip_hash, pool, downloads>>

-----------------------------------------------------------------------------
(* The chains. *)

Ancestors[b \in Block] == IF b = Genesis THEN {b} ELSE {b} \cup Ancestors[Parent[b]]
Height == [b \in Block |-> Cardinality(Ancestors[b]) - 1]
InChain == [b \in Block |-> UNION {Mined[a] : a \in Ancestors[b]}]

\* The unspent outputs, and the nullifiers not revealed, on the chain of a tip.
Unspent == [b \in Block |->
    (Coin \cup InChain[b])
      \ (UNION {Spends[t] : t \in InChain[b]} \cup UNION {BlockSpends[a] : a \in Ancestors[b]})]

-----------------------------------------------------------------------------
(* Storage: the verified set, its caches and dependencies, and rejections. *)
(* An operation on the pool gives the set of the pools it can leave.       *)

EmptyPool ==
    [verified |-> {}, spent_outpoints |-> {}, created_outputs |-> {},
     dependencies |-> [t \in {} |-> {}], dependents |-> [t \in Tx |-> {}],
     tip_rejected |-> {}, chain_rejected |-> {}, panic |-> NONE]

\* The first panic ends the process.
Panic(p, why) == [p EXCEPT !.panic = IF @ = NONE THEN why ELSE @]

\* Storage::rejection_error.
Rejected(p) == p.tip_rejected \cup {r[2] : r \in p.chain_rejected}

\* EvictionList::insert asserts that the transaction is not in the list.
RejectChain(pools, reason, ts) ==
    {IF \E t \in ts : <<reason, t>> \in p.chain_rejected
     THEN Panic(p, "already evicted")
     ELSE [p EXCEPT !.chain_rejected = @ \cup {<<reason, t>> : t \in ts}] : p \in pools}

\* TransactionDependencies::remove_all: the direct and indirect dependents.
AllDependents(p, t) ==
    LET level[n \in 0 .. Cardinality(Tx)] ==
          IF n = 0 THEN p.dependents[t]
          ELSE UNION {{d} \cup p.dependents[d] : d \in level[n - 1]}
    IN  level[Cardinality(Tx)]

\* What VerifiedSet::remove takes out: its dependents, then the transaction.
WithDependents(p, t) == {t} \cup AllDependents(p, t)

\* Mutant: the outputs of the removed transactions stay in the caches.
RemoveOutputsNone(p, ts) == p

\* VerifiedSet::remove_outputs.
RemoveOutputs(p, ts) ==
    [p EXCEPT !.created_outputs = @ \ ts,
              !.spent_outpoints = @ \ UNION {Spends[t] : t \in ts}]

\* VerifiedSet::remove_all_that, with remove: "invalid transaction key" when it
\* meets a transaction that is no longer in the set, whatever the order of keys.
RemoveAllThat(p, keys) ==
    {IF \/ ~(gone \subseteq p.verified)
        \/ \E k, l \in keys : k # l /\ WithDependents(p, k) \cap WithDependents(p, l) # {}
     THEN Panic(p, "invalid transaction key")
     ELSE [RemoveOutputs(p, gone)
             EXCEPT !.verified = @ \ gone,
                    !.dependents = [t \in Tx |-> IF t \in gone THEN {} ELSE @[t]],
                    !.dependencies = [t \in DOMAIN @ \ gone |-> @[t]]]
       : gone \in {UNION {WithDependents(p, k) : k \in keys}}}

\* TransactionDependencies::add.
AddDependencies(p, t, missing) ==
    [p EXCEPT !.dependents = [d \in Tx |-> IF d \in missing THEN @[d] \cup {t} ELSE @[d]],
              !.dependencies = IF missing = {} THEN @
                               ELSE [d \in DOMAIN @ \cup {t} |->
                                       IF d = t THEN missing ELSE @[d]]]

\* VerifiedSet::insert: has_spend_conflicts, then the outputs found in the
\* mempool must still be there.
CanInsert(p, t, missing) ==
    /\ Spends[t] \cap p.spent_outpoints = {}
    /\ missing \subseteq p.created_outputs

InsertVerified(p, t, missing) ==
    [AddDependencies(p, t, missing)
       EXCEPT !.verified = @ \cup {t}, !.created_outputs = @ \cup {t},
              !.spent_outpoints = @ \cup Spends[t]]

TotalCost(p) == MapThenSumSet(LAMBDA t : Cost[t], p.verified)

\* VerifiedSet::evict_one picks any transaction; Storage rejects only that one.
EvictOne(p) ==
    UNION {RejectChain(RemoveAllThat(p, {v}), "RandomlyEvicted", {v}) : v \in p.verified}

\* The pools that the evictions of Storage::insert can leave.
Evict(p) ==
    LET round[n \in 0 .. Cardinality(Tx)] ==
          IF n = 0 THEN {p}
          ELSE UNION {IF q.panic = NONE /\ TotalCost(q) > TX_COST_LIMIT
                      THEN EvictOne(q) ELSE {q} : q \in round[n - 1]}
    IN  round[Cardinality(Tx)]

\* Storage::insert: the pools it can leave.
Insert(p, t, missing) ==
    IF t \in Rejected(p) \/ t \in p.verified THEN {p}
    ELSE IF CanInsert(p, t, missing) THEN Evict(InsertVerified(p, t, missing))
    ELSE {[p EXCEPT !.tip_rejected = @ \cup {t}]}

\* TransactionDependencies::clear_mined_dependencies.  The loop removes a
\* dependent's own id from its dependencies, so they stay as they were.
ClearMinedDependencies(p, mined) ==
    [p EXCEPT !.dependents = [t \in Tx |-> IF t \in mined THEN {} ELSE @[t]],
              !.dependencies =
                [t \in DOMAIN @ |->
                   IF \E m \in mined : t \in p.dependents[m] THEN @[t] \ {t} ELSE @[t]]]

\* reject_and_remove_same_effects: first the mined transactions.
RemoveMined(p, b) ==
    RejectChain(RemoveAllThat(p, Mined[b] \cap p.verified), "Mined", Mined[b])

DuplicateSpends(p, b) ==
    {t \in p.verified :
       Spends[t] \cap (BlockSpends[b] \cup UNION {Spends[m] : m \in Mined[b]}) # {}}

\* Then what spends the same as a transaction of the block.
RemoveDuplicateSpends(p, b) ==
    RejectChain(RemoveAllThat(p, DuplicateSpends(p, b)), "DuplicateSpend", DuplicateSpends(p, b))

\* Storage::clear_tip_rejections.
ClearTipRejections(p) == [p EXCEPT !.tip_rejected = {}]

Expired(p, height) == {t \in p.verified : height >= Expiry[t]}

\* Storage::remove_expired_transactions.
RemoveExpired(p, height) ==
    RejectChain(RemoveAllThat(p, Expired(p, height)), "Expired", Expired(p, height))

-----------------------------------------------------------------------------
(* Downloads: one task per transaction. *)

Task(st, height, missing) == [st |-> st, height |-> height, missing |-> missing]
NoTask == Task("none", 0, {})
Running == {"queued", "checked", "verifying", "awaiting"}
Done == {"verified", "invalid", "dropped", "elapsed"}
Pending(tasks) == {t \in Tx : tasks[t].st # "none"}

NoAction == <<"None", Genesis>>

TypeOK ==
    /\ tip \in Block /\ close \in BOOLEAN /\ enabled \in BOOLEAN
    /\ last_change_hash \in Block \cup {NONE} /\ last_seen_tip_hash \in Block \cup {NONE}
    /\ phase \in {"idle", "started", "taking"}
    /\ tip_action \in {"None", "Grow", "Reset"} \X Block
    /\ best_tip_height \in Nat
    /\ pool.verified \subseteq Tx /\ (pool.panic = NONE => TotalCost(pool) <= TX_COST_LIMIT)
    /\ DOMAIN pool.dependencies \subseteq pool.verified
    /\ \A t \in Tx : task[t].st \in Running \cup Done \cup {"none"}
    /\ Cardinality(Pending(task)) <= MAX_INBOUND_CONCURRENCY
    /\ cancel_handles \subseteq Tx
    /\ waiting \subseteq Pending(task)

Init ==
    /\ tip = Genesis /\ close = FALSE /\ last_change_hash = NONE
    /\ phase = "idle" /\ tip_action = NoAction /\ best_tip_height = 0
    /\ enabled = FALSE /\ last_seen_tip_hash = NONE /\ pool = EmptyPool
    /\ task = [t \in Tx |-> NoTask] /\ cancel_handles = {} /\ waiting = {}

\* download_if_needed_and_verify: AlreadyQueued and FullQueue otherwise.
CanQueue(tasks, handles, t) ==
    /\ t \notin handles
    /\ Cardinality(Pending(tasks)) < MAX_INBOUND_CONCURRENCY

Queued(t) == [task EXCEPT ![t] = Task("queued", 0, {})]

\* The Queue request, with should_download_or_verify.
Queue(t) ==
    /\ phase = "idle" /\ enabled
    /\ t \notin pool.verified \cup Rejected(pool)
    /\ CanQueue(task, cancel_handles, t)
    /\ task' = Queued(t)
    /\ cancel_handles' = cancel_handles \cup {t}
    /\ waiting' = waiting \cup {t}
    /\ UNCHANGED <<tip, close, last_change_hash, poll, enabled, last_seen_tip_hash, pool>>

Steps(t, next) ==
    /\ task' = [task EXCEPT ![t] = next]
    /\ UNCHANGED <<tip, close, last_change_hash, poll, enabled, last_seen_tip_hash, pool,
                   cancel_handles>>

\* The task ends with an error, and answers the request.
Fails(t, st) == Steps(t, Task(st, 0, {})) /\ waiting' = waiting \ {t}

\* transaction_in_best_chain.
CheckState(t) ==
    /\ task[t].st = "queued"
    /\ \/ t \in InChain[tip] /\ Fails(t, "dropped")
       \/ t \notin InChain[tip] /\ Steps(t, Task("checked", 0, {})) /\ UNCHANGED waiting

\* The state answers zs::Request::Tip, and the transaction is downloaded.
ReadTip(t) ==
    /\ task[t].st = "checked"
    /\ Steps(t, Task("verifying", Height[tip], {})) /\ UNCHANGED waiting

DownloadFails(t) == t \in Slow /\ task[t].st = "verifying" /\ Fails(t, "dropped")

\* The verifier's quick checks, then spent_utxos looks for the inputs in the
\* best chain of that moment, and asks the mempool for the others.
ReadUtxos(t) ==
    /\ task[t].st = "verifying"
    /\ \/ Expiry[t] <= task[t].height /\ Fails(t, "invalid")
       \/ /\ Expiry[t] > task[t].height
          /\ Steps(t, Task("awaiting", task[t].height, Spends[t] \ Unspent[tip]))
          /\ UNCHANGED waiting

\* The mempool answers the AwaitOutput requests.
Verified(t) ==
    /\ task[t].st = "awaiting"
    /\ task[t].missing # {} => enabled /\ task[t].missing \subseteq pool.created_outputs
    /\ Steps(t, [task[t] EXCEPT !.st = "verified"]) /\ UNCHANGED waiting

\* AwaitOutput times out, or the mempool is not active.
InputNotFound(t) ==
    /\ task[t].st = "awaiting"
    /\ task[t].missing # {} /\ ~(enabled /\ task[t].missing \subseteq pool.created_outputs)
    /\ Fails(t, "invalid")

\* RATE_LIMIT_DELAY is over.
Elapses(t) == t \in Slow /\ task[t].st \in Running /\ Fails(t, "elapsed")

-----------------------------------------------------------------------------
(* Mempool::poll_ready. *)

\* ChainTipChange::last_tip_change and action.
LastTipChange ==
    IF tip = last_change_hash THEN NoAction
    ELSE IF tip # Genesis /\ Parent[tip] = last_change_hash /\ Height[tip] \notin Activation
    THEN <<"Grow", tip>> ELSE <<"Reset", tip>>

\* The state is dropped: cancel_all ends the tasks, and Storage is cleared.
NewState(retries) ==
    /\ pool' = EmptyPool
    /\ task' = [t \in Tx |-> IF t \in retries THEN Task("queued", 0, {}) ELSE NoTask]
    /\ cancel_handles' = retries
    /\ waiting' = {}

\* update_state disables the mempool.
PollDisables ==
    /\ enabled /\ ~close
    /\ enabled' = FALSE /\ last_seen_tip_hash' = NONE
    /\ NewState({})
    /\ UNCHANGED poll

\* The mempool stays disabled, without a tip or far from it.
PollDisabled ==
    /\ ~enabled /\ (close => LastTipChange = NoAction)
    /\ UNCHANGED <<enabled, last_seen_tip_hash, pool, downloads, poll>>

\* update_state enables the mempool, which goes on with the same tip action.
PollEnables ==
    /\ ~enabled /\ close /\ LastTipChange # NoAction
    /\ enabled' = TRUE /\ last_seen_tip_hash' = tip
    /\ NewState({})
    /\ phase' = "started" /\ tip_action' = LastTipChange /\ UNCHANGED best_tip_height

\* A reset verifies again what was valid or pending, as far as it can be queued.
PollResets ==
    /\ enabled /\ close /\ LastTipChange = <<"Reset", tip>>
    /\ last_seen_tip_hash' = tip
    /\ \E retries \in SUBSET (pool.verified \cup cancel_handles) :
         /\ Cardinality(retries) <= MAX_INBOUND_CONCURRENCY
         /\ \/ retries = pool.verified \cup cancel_handles
            \/ Cardinality(retries) = MAX_INBOUND_CONCURRENCY
         /\ NewState(retries)
    /\ UNCHANGED <<enabled, poll>>

PollContinues ==
    /\ enabled /\ close /\ LastTipChange # <<"Reset", tip>>
    /\ phase' = "started" /\ tip_action' = LastTipChange
    /\ UNCHANGED <<best_tip_height, enabled, last_seen_tip_hash, pool, downloads>>

\* Mutant: poll_ready does its work only after a change of the tip.
PollStartOnChange ==
    /\ phase = "idle" /\ tip # last_change_hash
    /\ last_change_hash' = tip
    /\ PollDisables \/ PollDisabled \/ PollEnables \/ PollResets \/ PollContinues
    /\ UNCHANGED <<tip, close>>

\* poll_ready, up to the read of best_tip_height.
PollStart ==
    /\ phase = "idle"
    /\ last_change_hash' = tip
    /\ PollDisables \/ PollDisabled \/ PollEnables \/ PollResets \/ PollContinues
    /\ UNCHANGED <<tip, close>>

\* best_tip_height reads the channel again.
PollHeight ==
    /\ phase = "started"
    /\ best_tip_height' = Height[tip] /\ phase' = "taking"
    /\ UNCHANGED <<tip, close, last_change_hash, tip_action, enabled, last_seen_tip_hash,
                   pool, downloads>>

\* Mutant: a result is stored whatever the height it was verified for.
TakeVerifiedAnyHeight(t) ==
    /\ task[t].st = "verified"
    /\ pool' \in Insert(pool, t, task[t].missing)
    /\ task' = [task EXCEPT ![t] = NoTask]
    /\ cancel_handles' = cancel_handles \ {t}
    /\ waiting' = waiting \ {t}

\* A verified transaction is stored, or queued again if the tip height differs.
TakeVerified(t) ==
    /\ task[t].st = "verified"
    /\ \/ /\ task[t].height = best_tip_height
          /\ pool' \in Insert(pool, t, task[t].missing)
          /\ task' = [task EXCEPT ![t] = NoTask]
          /\ cancel_handles' = cancel_handles \ {t}
          /\ waiting' = waiting \ {t}
       \/ /\ task[t].height # best_tip_height
          /\ task' = Queued(t)
          /\ cancel_handles' = cancel_handles \cup {t}
          /\ UNCHANGED <<pool, waiting>>

\* reject_if_needed; after a timeout, poll_next leaves the cancel handle.
TakeFailed(t) ==
    /\ task[t].st \in {"invalid", "dropped", "elapsed"}
    /\ pool' = IF task[t].st = "invalid" THEN [pool EXCEPT !.tip_rejected = @ \cup {t}] ELSE pool
    /\ task' = [task EXCEPT ![t] = NoTask]
    /\ cancel_handles' = IF task[t].st = "elapsed" THEN cancel_handles ELSE cancel_handles \ {t}
    /\ UNCHANGED waiting

TakeResult(t) ==
    /\ phase = "taking"
    /\ TakeVerified(t) \/ TakeFailed(t)
    /\ UNCHANGED <<tip, close, last_change_hash, poll, enabled, last_seen_tip_hash>>

\* Downloads::cancel: a running task ends, a result stays.
Cancel(mined) ==
    LET running == {t \in cancel_handles \cap mined : task[t].st \in Running} IN
    /\ task' = [t \in Tx |-> IF t \in running THEN Task("dropped", 0, {}) ELSE task[t]]
    /\ cancel_handles' = cancel_handles \ mined
    /\ waiting' = waiting \ running

\* Downloads::cancel, clear_mined_dependencies, reject_and_remove_same_effects
\* and clear_tip_rejections, before the expired transactions are removed.
Grow(b) ==
    /\ Cancel(Mined[b])
    /\ last_seen_tip_hash' = b
    /\ \E p \in RemoveMined(ClearMinedDependencies(pool, Mined[b]), b) :
       \E q \in RemoveDuplicateSpends(p, b) :
         pool' \in RemoveExpired(ClearTipRejections(q), best_tip_height)

\* poll_next has given its last result, though more can come in from now on.  The
\* block of a Grow is applied, and expired transactions go.
PollEnd ==
    /\ phase = "taking"
    /\ \/ tip_action[1] = "Grow" /\ Grow(tip_action[2])
       \/ /\ tip_action[1] # "Grow"
          /\ pool' \in RemoveExpired(pool, best_tip_height)
          /\ UNCHANGED <<last_seen_tip_hash, downloads>>
    /\ phase' = "idle" /\ tip_action' = NoAction /\ best_tip_height' = 0
    /\ UNCHANGED <<tip, close, last_change_hash, enabled>>

-----------------------------------------------------------------------------
(* The state sends a new tip, and the syncer its progress. *)

MoveTip ==
    /\ tip' \in NextTip[tip]
    /\ UNCHANGED <<close, last_change_hash, poll, enabled, last_seen_tip_hash, pool, downloads>>

SyncStatus ==
    /\ close' = ~close
    /\ UNCHANGED <<tip, last_change_hash, poll, enabled, last_seen_tip_hash, pool, downloads>>

TaskStep(t) ==
    CheckState(t) \/ ReadTip(t) \/ ReadUtxos(t) \/ Verified(t) \/ InputNotFound(t)

\* The steps of poll_ready, which the queue checker calls again and again.
PollStep == PollStart \/ PollHeight \/ PollEnd \/ \E t \in Tx : TakeResult(t)

Next ==
    /\ pool.panic = NONE
    /\ \/ PollStep \/ MoveTip \/ SyncStatus
       \/ \E t \in Tx : TaskStep(t) \/ Queue(t) \/ DownloadFails(t) \/ Elapses(t)

Spec == Init /\ [][Next]_vars

\* The queue checker polls every RATE_LIMIT_DELAY, and the services that
\* a task asks answer or time out.  poll_next gives the results in the order they came.
FairSpec ==
    /\ Spec
    /\ WF_vars(pool.panic = NONE /\ (PollStart \/ PollHeight \/ PollEnd))
    /\ \A t \in Tx : /\ SF_vars(pool.panic = NONE /\ TakeResult(t))
                     /\ WF_vars(pool.panic = NONE /\ TaskStep(t))

-----------------------------------------------------------------------------
(* Properties. *)

\* The caches hold what the verified transactions spend and create, and no two
\* of them spend the same, through every removal, eviction and insertion, and "an
\* already-evicted transaction should not be evicted again" (EvictionList::insert).
CachesAgree ==
    /\ TypeOK /\ pool.panic # "already evicted"
    /\ pool.panic = NONE =>
      /\ pool.created_outputs = pool.verified
      /\ pool.spent_outpoints = UNION {Spends[t] : t \in pool.verified}
      /\ \A t, u \in pool.verified : t # u => Spends[t] \cap Spends[u] = {}

\* FullTransactions gives the transactions of a block template, with the tip
\* they are for.  When that is the tip of the best chain, none of them is in the
\* chain or expired, and what each spends is unspent in the chain or created by
\* another one that has it as a dependent: although they were verified against the tips of other moments.
TemplateIsValid ==
    pool.panic = NONE /\ enabled /\ phase = "idle" /\ last_seen_tip_hash = tip =>
      \A t \in pool.verified :
         /\ t \notin InChain[tip] /\ Expiry[t] > Height[tip]
         /\ \A o \in Spends[t] \ Unspent[tip] : o \in pool.verified /\ t \in pool.dependents[o]

\* Whoever queues a transaction gets an answer, through resets, new blocks and
\* verifications that have to be done again, unless the process panics.
RequestsAreAnswered == \A t \in Tx : (t \in waiting) ~> (t \notin waiting \/ pool.panic # NONE)

\* remove: `.expect("invalid transaction key")`.
KeysAreValid == pool.panic # "invalid transaction key"

\* clear_mined_dependencies "removes the mined transaction ids from the
\* dependencies of their dependents".
MinedDependenciesAreCleared ==
    pool.panic = NONE /\ phase = "idle" =>
      \A t \in DOMAIN pool.dependencies :
         \A d \in pool.dependencies[t] : <<"Mined", d>> \notin pool.chain_rejected

\* Downloads: "Tack the hash onto the error so we can remove the cancel handle on
\* failure as well as on success".
HandlesHaveATask == cancel_handles \subseteq Pending(task)
=============================================================================
