--------------------------- MODULE BatchVerifier ----------------------------
(***************************************************************************)
(* tower-batch-control, tower-fallback and the ed25519 verifier of         *)
(* zebra-consensus: requests wait for a permit, are sent to one worker     *)
(* task, are verified in batches, and are verified again one by one when   *)
(* their batch fails.                                                      *)
(*                                                                         *)
(* One action of the worker is one turn of its biased select loop.  The    *)
(* global VERIFIER keeps a Batch alive, so the channel is closed only by   *)
(* the worker.  The ed25519 verifier never fails as a service;             *)
(* InnerMayFail lets the wrapped service fail, as the worker allows.       *)
(***************************************************************************)
EXTENDS Integers, Sequences, FiniteSets, FiniteSetsExt

CONSTANTS
    Request,                    \* the items to verify
    Valid,                      \* the ones with a valid signature
    Weight,                     \* RequestWeight::request_weight
    max_items_weight_in_batch,
    max_concurrent_batches,
    QUEUE_BATCH_LIMIT,
    InnerMayFail

ASSUME BatchAssumption ==
    /\ IsFiniteSet(Request) /\ Valid \subseteq Request
    /\ Weight \in [Request -> Nat \ {0}]
    /\ max_items_weight_in_batch \in Nat \ {0}
    /\ max_concurrent_batches \in Nat \ {0}
    /\ QUEUE_BATCH_LIMIT \in Nat \ {0}
    /\ InnerMayFail \in BOOLEAN

VARIABLES
    item,      \* where each request is
    permits,   \* permits left in the semaphore
    rx,        \* messages sent to the worker
    open,      \* rx and the semaphore are open
    pending,   \* requests in the current batch
    timer,     \* pending_batch_timer
    running,   \* flushed batches in the thread pool
    verified,  \* flushed batches with a result the worker has not seen
    failed,    \* Worker.failed, and the error handle
    worker

vars == <<item, permits, rx, open, pending, timer, running, verified, failed, worker>>

\* A future that is dropped by its caller is "cancelled"; one that is told that
\* the verifier was dropped without flushing is "panicked".
Answered == {"ok", "err", "refused", "cancelled", "panicked"}

States == {"idle", "ready", "queued", "batched", "fallback"} \cup Answered

\* The bound of the semaphore.
Capacity ==
    max_items_weight_in_batch
        * Min({Max({max_concurrent_batches, 1}), QUEUE_BATCH_LIMIT})

TypeOK ==
    /\ item \in [Request -> States]
    /\ permits \in 0 .. Capacity /\ open \in BOOLEAN
    /\ rx \in Seq(Request)
    /\ pending \subseteq Request
    /\ timer \in {"none", "running", "elapsed"}
    /\ running \subseteq SUBSET Request /\ verified \subseteq SUBSET Request
    /\ failed \in BOOLEAN /\ worker \in {"running", "exited"}

Init ==
    /\ item = [r \in Request |-> "idle"]
    /\ permits = Capacity
    /\ rx = <<>> /\ open = TRUE
    /\ pending = {} /\ timer = "none"
    /\ running = {} /\ verified = {}
    /\ failed = FALSE /\ worker = "running"

-----------------------------------------------------------------------------
(***************************************************************************)
(* Callers.                                                                *)
(***************************************************************************)
\* Fallback::poll_ready is the batch's poll_ready: an error of a worker that has
\* closed its channels is returned, otherwise a permit is taken.
PollReady(r) ==
    /\ item[r] = "idle"
    /\ IF worker = "exited" \/ ~open
       THEN item' = [item EXCEPT ![r] = "refused"] /\ UNCHANGED permits
       ELSE /\ permits > 0
            /\ item' = [item EXCEPT ![r] = "ready"]
            /\ permits' = permits - 1
    /\ UNCHANGED <<rx, open, pending, timer, running, verified, failed, worker>>

\* poll_ready again: the permit goes back before another one is asked for, or, if
\* the worker has closed its channels, with the handle of the refused caller.
RepollReady(r) ==
    /\ item[r] = "ready"
    /\ item' = [item EXCEPT ![r] = IF worker = "exited" \/ ~open THEN "refused" ELSE "idle"]
    /\ permits' = permits + 1
    /\ UNCHANGED <<rx, open, pending, timer, running, verified, failed, worker>>

\* call: the permit travels with the message.  If the channel is closed, the
\* response is an error, which Fallback answers with its second service.
Call(r) ==
    /\ item[r] = "ready"
    /\ IF open
       THEN /\ item' = [item EXCEPT ![r] = "queued"]
            /\ rx' = Append(rx, r)
            /\ UNCHANGED permits
       ELSE /\ item' = [item EXCEPT ![r] = "fallback"]
            /\ permits' = permits + 1
            /\ UNCHANGED rx
    /\ UNCHANGED <<open, pending, timer, running, verified, failed, worker>>

\* Mutant: a caller that goes away keeps the permit it has not used.
CancelKeepsPermit(r) ==
    /\ item[r] \in {"ready", "queued", "batched", "fallback"}
    /\ item' = [item EXCEPT ![r] = "cancelled"]
    /\ UNCHANGED <<permits, rx, open, pending, timer, running, verified, failed, worker>>

\* The caller drops its handle or its future.  A message it has sent stays in the
\* channel, and an item in the batch.
Cancel(r) ==
    /\ item[r] \in {"ready", "queued", "batched", "fallback"}
    /\ item' = [item EXCEPT ![r] = "cancelled"]
    /\ permits' = permits + (IF item[r] = "ready" THEN 1 ELSE 0)
    /\ UNCHANGED <<rx, open, pending, timer, running, verified, failed, worker>>

\* Mutant: the error of the batch is the answer.
FallbackKeepsError(r) ==
    /\ item[r] = "fallback"
    /\ item' = [item EXCEPT ![r] = "err"]
    /\ UNCHANGED <<permits, rx, open, pending, timer, running, verified, failed, worker>>

\* Fallback's second service: verify_single_spawning.
Fallback(r) ==
    /\ item[r] = "fallback"
    /\ item' = [item EXCEPT ![r] = IF r \in Valid THEN "ok" ELSE "err"]
    /\ UNCHANGED <<permits, rx, open, pending, timer, running, verified, failed, worker>>

-----------------------------------------------------------------------------
(***************************************************************************)
(* The worker.                                                             *)
(***************************************************************************)
\* The items of a set that still have a caller get a new state.
Tell(rs, state) ==
    [r \in Request |-> IF r \in rs /\ item[r] \in {"queued", "batched"}
                       THEN state ELSE item[r]]

\* The result of a batch reaches its items, and Fallback takes an error.
BatchAnswer(batch) == IF batch \subseteq Valid THEN "ok" ELSE "fallback"

\* pending_items_weight, and when the batch must be flushed.
IsFull(batch) == MapThenSumSet(LAMBDA r : Weight[r], batch) >= max_items_weight_in_batch

\* Worker::failed, which leaves the current batch as it is.
Failed == failed' = TRUE /\ open' = FALSE

\* flush_service on a worker that has not failed: the batch is started, or the
\* wrapped service fails.
FlushService(batch) ==
    \/ /\ running' = running \cup {batch}
       /\ pending' = {} /\ timer' = "none"
       /\ UNCHANGED <<failed, open>>
    \/ /\ InnerMayFail
       /\ Failed /\ timer' = "none"
       /\ pending' = batch /\ UNCHANGED running

\* can_spawn_new_batches.
CanSpawnNewBatches == Cardinality(running \cup verified) < max_concurrent_batches

\* The select loop is biased: results first, then the timer, then messages.
Receives ==
    /\ worker = "running"
    /\ verified = {} /\ timer # "elapsed"
    /\ CanSpawnNewBatches

\* process_req while the wrapped service is ready, then the check of the weight:
\* the first item of a batch starts the timer.
ProcessReq(r) ==
    /\ ~failed
    /\ item' = Tell({r}, "batched")
    /\ IF IsFull(pending \cup {r})
       THEN FlushService(pending \cup {r})
       ELSE /\ pending' = pending \cup {r}
            /\ timer' = IF pending = {} THEN "running" ELSE timer
            /\ UNCHANGED <<running, failed, open>>

\* process_req on a service that fails, or has failed.  The batch keeps its
\* weight, so an empty batch counts as new once more, and starts a timer.
ProcessReqFails(r) ==
    /\ failed \/ InnerMayFail
    /\ item' = Tell({r}, "fallback")
    /\ Failed
    /\ timer' = CASE pending = {} -> "running"
                  [] pending # {} /\ failed -> timer
                  [] OTHER -> "none"
    /\ UNCHANGED <<pending, running>>

\* A message, whose permit is released when it has been processed.
Recv ==
    /\ Receives /\ rx # <<>>
    /\ ProcessReq(Head(rx)) \/ ProcessReqFails(Head(rx))
    /\ rx' = Tail(rx) /\ permits' = permits + 1
    /\ UNCHANGED <<verified, worker>>

\* Mutant: an expired timer flushes a full batch only.
TimerFlushIfFull ==
    /\ worker = "running"
    /\ verified = {} /\ timer = "elapsed"
    /\ ~failed /\ IsFull(pending) /\ FlushService(pending)
    /\ UNCHANGED <<item, permits, rx, verified, worker>>

\* The timer of the batch has expired.  A worker that has failed skips the flush
\* and does not reset the timer, which is then ready again.
TimerFlush ==
    /\ worker = "running"
    /\ verified = {} /\ timer = "elapsed"
    /\ ~failed /\ FlushService(pending)
    /\ UNCHANGED <<item, permits, rx, verified, worker>>

\* A batch has been verified: its flush future sends the result to the items, and
\* ends.  It may report an error of the wrapped service.
BatchResult(batch) ==
    /\ worker = "running" /\ batch \in verified
    /\ verified' = verified \ {batch}
    /\ item' = Tell(batch, BatchAnswer(batch))
    /\ \/ UNCHANGED <<failed, open, timer>>
       \/ InnerMayFail /\ Failed /\ timer' = IF failed THEN timer ELSE "none"
    /\ UNCHANGED <<permits, rx, pending, running, worker>>

\* The channel is closed and empty, and the worker is dropped: batches that run
\* lose their channel, the current batch is flushed by the verifier's own drop.
Exit ==
    /\ Receives /\ ~open /\ rx = <<>>
    /\ worker' = "exited"
    /\ item' = Tell(UNION running, "panicked")
    /\ running' = {pending} \ {{}}
    /\ pending' = {} /\ timer' = "none"
    /\ UNCHANGED <<permits, rx, open, verified, failed>>

-----------------------------------------------------------------------------
\* Time passes.
TimerExpires ==
    /\ timer = "running"
    /\ timer' = "elapsed"
    /\ UNCHANGED <<item, permits, rx, open, pending, running, verified, failed, worker>>

\* The thread pool verifies a batch.  The batch of a dropped verifier sends its
\* result itself.
BatchRuns(batch) ==
    /\ batch \in running
    /\ running' = running \ {batch}
    /\ IF worker = "running"
       THEN verified' = verified \cup {batch} /\ UNCHANGED item
       ELSE item' = Tell(batch, BatchAnswer(batch)) /\ UNCHANGED verified
    /\ UNCHANGED <<permits, rx, open, pending, timer, failed, worker>>

Work == \/ Recv \/ TimerFlush \/ Exit
        \/ \E batch \in verified : BatchResult(batch)

Next ==
    \/ \E r \in Request : \/ PollReady(r) \/ RepollReady(r) \/ Call(r)
                          \/ Cancel(r) \/ Fallback(r)
    \/ Work \/ TimerExpires
    \/ \E batch \in running : BatchRuns(batch)

Spec == Init /\ [][Next]_vars

\* The worker and the futures of callers are polled by tokio whenever they are
\* woken, timers expire, and the thread pool runs what it is given.
FairSpec ==
    /\ Spec
    /\ WF_vars(Work) /\ WF_vars(TimerExpires)
    /\ WF_vars(\E batch \in running : BatchRuns(batch))
    /\ \A r \in Request : WF_vars(Fallback(r))

-----------------------------------------------------------------------------
(***************************************************************************)
(* Properties.                                                             *)
(***************************************************************************)
\* A caller is told whether its own item is valid, whatever items shared its
\* batch and however the worker fails: a failed batch says nothing, Fallback asks
\* again, and a batch that succeeds holds valid items only.
AnswersAreOwn ==
    \A r \in Request : /\ item[r] = "ok" => r \in Valid
                       /\ item[r] = "err" => r \notin Valid

\* Permits are neither lost nor made up: every permit is in the semaphore, with a
\* caller that is ready, or with a message in the channel, also after callers have
\* gone away and after the worker has failed.
PermitsAreConserved ==
    permits + Cardinality({r \in Request : item[r] = "ready"}) + Len(rx) = Capacity

\* At most max_concurrent_batches run, although only receiving a message looks at
\* the limit, and the timer flushes without looking.
ConcurrencyIsBounded == Cardinality(running \cup verified) <= max_concurrent_batches

\* An unfinished batch always has a deadline, so that no item waits for items that
\* may never come.
PendingHasDeadline == pending # {} /\ ~failed => timer # "none"

\* Until the wrapped service fails, a request that was sent is answered.
CallsAreAnswered ==
    \A r \in Request : item[r] = "queued" ~> (item[r] \in Answered \/ failed)

\* worker.rs:330: "By closing the mpsc::Receiver, we know that the run() loop will
\* drain all pending requests."
FailureDrainsRequests == failed ~> rx = <<>>
=============================================================================
