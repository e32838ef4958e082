------------------------ MODULE BatchVerifierProofs -------------------------
(***************************************************************************)
(* The batch worker keeps its limits and gives every caller its own        *)
(* answer, for every set of requests, weights and limits.                  *)
(***************************************************************************)
EXTENDS BatchVerifier, FiniteSetTheorems, TLAPS

\* The callers that hold a permit.
ReadySet(it) == {r \in Request : it[r] = "ready"}

\* A batch that is being filled leaves room for its own flush, and a timer is set
\* for a batch with items only.
RoomForFlush ==
    ~failed => /\ pending # {} => Cardinality(running \cup verified) < max_concurrent_batches
               /\ timer # "none" => pending # {}

\* The inductive invariant.
IInv ==
    /\ TypeOK
    /\ IsFiniteSet(running) /\ IsFiniteSet(verified)
    /\ AnswersAreOwn
    /\ PermitsAreConserved
    /\ ConcurrencyIsBounded
    /\ PendingHasDeadline
    /\ RoomForFlush

-----------------------------------------------------------------------------
\* The semaphore's bound is a natural number.
LEMMA CapacityType == Capacity \in Nat
<1> DEFINE m == Max({max_concurrent_batches, 1})
<1>1. m \in Nat
  <2>1. \E x \in {max_concurrent_batches, 1} :
            \A y \in {max_concurrent_batches, 1} : x >= y
    BY BatchAssumption
  <2> QED BY <2>1, BatchAssumption DEF Max
<1> HIDE DEF m
<1>2. Min({m, QUEUE_BATCH_LIMIT}) \in Nat
  <2>1. \E x \in {m, QUEUE_BATCH_LIMIT} : \A y \in {m, QUEUE_BATCH_LIMIT} : x =< y
    BY <1>1, BatchAssumption
  <2> QED BY <1>1, <2>1, BatchAssumption, Zenon DEF Min
<1>3. \A n \in Nat : max_items_weight_in_batch * n \in Nat
  BY BatchAssumption
<1> QED BY <1>2, <1>3, Zenon DEF Capacity, m

\* One more, or one less, caller is ready.
LEMMA ReadyChanges ==
    ASSUME NEW it \in [Request -> States], NEW r \in Request, NEW s \in States
    PROVE  /\ Cardinality(ReadySet(it)) \in Nat
           /\ it[r] # "ready" /\ s = "ready" =>
                Cardinality(ReadySet([it EXCEPT ![r] = s])) = Cardinality(ReadySet(it)) + 1
           /\ it[r] = "ready" /\ s # "ready" =>
                Cardinality(ReadySet([it EXCEPT ![r] = s])) = Cardinality(ReadySet(it)) - 1
           /\ (it[r] = "ready" <=> s = "ready") =>
                Cardinality(ReadySet([it EXCEPT ![r] = s])) = Cardinality(ReadySet(it))
<1>1. IsFiniteSet(ReadySet(it)) /\ Cardinality(ReadySet(it)) \in Nat
  BY BatchAssumption, FS_Subset, FS_CardinalityType, Zenon DEF ReadySet
<1>2. ASSUME it[r] # "ready", s = "ready"
      PROVE  ReadySet([it EXCEPT ![r] = s]) = ReadySet(it) \cup {r} /\ r \notin ReadySet(it)
  BY <1>2, Zenon DEF ReadySet
<1>3. ASSUME it[r] = "ready", s # "ready"
      PROVE  ReadySet([it EXCEPT ![r] = s]) = ReadySet(it) \ {r} /\ r \in ReadySet(it)
  BY <1>3, Zenon DEF ReadySet
<1>4. ASSUME it[r] = "ready" <=> s = "ready"
      PROVE  ReadySet([it EXCEPT ![r] = s]) = ReadySet(it)
  BY <1>4, Zenon DEF ReadySet
<1>5. /\ Cardinality(ReadySet(it) \cup {r}) =
            IF r \in ReadySet(it) THEN Cardinality(ReadySet(it)) ELSE Cardinality(ReadySet(it)) + 1
      /\ Cardinality(ReadySet(it) \ {r}) =
            IF r \in ReadySet(it) THEN Cardinality(ReadySet(it)) - 1 ELSE Cardinality(ReadySet(it))
  BY <1>1, FS_AddElement, FS_RemoveElement, Zenon
<1> QED BY <1>1, <1>2, <1>3, <1>4, <1>5, Zenon

\* Answers sent by the worker, or by a batch, touch no caller that is ready, and
\* are those of the callers' own items.
LEMMA TellKeeps ==
    ASSUME TypeOK, AnswersAreOwn, NEW rs, NEW s \in {"batched", "fallback", "panicked", "ok"},
           s = "ok" => rs \subseteq Valid
    PROVE  /\ Tell(rs, s) \in [Request -> States]
           /\ ReadySet(Tell(rs, s)) = ReadySet(item)
           /\ \A r \in Request : /\ Tell(rs, s)[r] = "ok" => r \in Valid
                                 /\ Tell(rs, s)[r] = "err" => r \notin Valid
<1>1. Tell(rs, s) \in [Request -> States]
  BY Zenon DEF Tell, TypeOK, States, Answered
<1>2. ReadySet(Tell(rs, s)) = ReadySet(item)
  BY Zenon DEF Tell, ReadySet
<1>3. \A r \in Request : /\ Tell(rs, s)[r] = "ok" => r \in Valid
                         /\ Tell(rs, s)[r] = "err" => r \notin Valid
  BY Zenon DEF Tell, AnswersAreOwn
<1> QED BY <1>1, <1>2, <1>3, Zenon

-----------------------------------------------------------------------------
\* The service starts with no callers and an empty batch.
LEMMA InitIInv == Init => IInv
<1> SUFFICES ASSUME Init PROVE IInv
  BY Zenon
<1> USE DEF Init
<1>1. {r \in Request : item[r] = "ready"} = {}
  BY Zenon
<1>2. IsFiniteSet({}) /\ Cardinality({}) = 0
  BY FS_EmptySet, Zenon
<1>3. running \cup verified = {}
  BY Zenon
<1>4. TypeOK
  <2>1. permits \in 0 .. Capacity
    BY CapacityType
  <2>2. item \in [Request -> States] /\ rx \in Seq(Request)
    BY DEF States, Answered
  <2> QED BY <2>1, <2>2, Zenon DEF TypeOK
<1>5. PermitsAreConserved
  <2>1. Len(rx) = 0
    BY Zenon
  <2>2. Cardinality({r \in Request : item[r] = "ready"}) = 0
    BY <1>1, <1>2, Zenon
  <2>3. permits = Capacity
    BY Zenon
  <2> HIDE DEF Init
  <2> QED BY <2>1, <2>2, <2>3, CapacityType DEF PermitsAreConserved
<1>6. ConcurrencyIsBounded /\ RoomForFlush
  BY <1>2, <1>3, BatchAssumption DEF ConcurrencyIsBounded, RoomForFlush
<1>7. AnswersAreOwn /\ PendingHasDeadline
  BY Zenon DEF AnswersAreOwn, PendingHasDeadline
<1> QED BY <1>2, <1>4, <1>5, <1>6, <1>7, Zenon DEF IInv

\* The invariant in the terms in which the steps below use it.
LEMMA PermitsInTermsOfReady ==
    /\ PermitsAreConserved <=> permits + Cardinality(ReadySet(item)) + Len(rx) = Capacity
    /\ PermitsAreConserved' <=> permits' + Cardinality(ReadySet(item')) + Len(rx') = Capacity
BY Zenon DEF PermitsAreConserved, ReadySet, Capacity

-----------------------------------------------------------------------------
(***************************************************************************)
(* Steps of callers, which leave the worker alone.                         *)
(***************************************************************************)
\* The steps of a caller keep the invariant.
LEMMA CallerSteps ==
    ASSUME IInv, NEW r \in Request,
           PollReady(r) \/ RepollReady(r) \/ Call(r) \/ Cancel(r) \/ Fallback(r)
    PROVE  IInv'
<1> USE DEF IInv
<1>0. /\ UNCHANGED <<open, pending, timer, running, verified, failed, worker>>
      /\ item \in [Request -> States] /\ permits \in 0 .. Capacity /\ rx \in Seq(Request)
      /\ Len(rx) \in Nat
  BY DEF TypeOK, PollReady, RepollReady, Call, Cancel, Fallback
<1>1. /\ IsFiniteSet(running') /\ IsFiniteSet(verified')
      /\ ConcurrencyIsBounded' /\ PendingHasDeadline' /\ RoomForFlush'
  BY <1>0, Zenon DEF ConcurrencyIsBounded, PendingHasDeadline, RoomForFlush
<1>2. PICK s \in States : item' = [item EXCEPT ![r] = s] /\ s \in {"idle", "ready", "queued",
          "fallback", "refused", "cancelled", "ok", "err"}
  BY Zenon DEF PollReady, RepollReady, Call, Cancel, Fallback, States, Answered
<1>3. item' \in [Request -> States]
  BY <1>0, <1>2, Zenon
<1>4. AnswersAreOwn'
  <2>1. item'[r] = "ok" => r \in Valid
    BY <1>0, Zenon DEF PollReady, RepollReady, Call, Cancel, Fallback
  <2>2. item'[r] = "err" => r \notin Valid
    BY <1>0, Zenon DEF PollReady, RepollReady, Call, Cancel, Fallback
  <2>3. \A q \in Request \ {r} : item'[q] = item[q]
    BY <1>0, <1>2, Zenon
  <2> QED BY <2>1, <2>2, <2>3, Zenon DEF AnswersAreOwn
<1>5. rx' \in Seq(Request) /\ Len(rx') \in Nat /\ Len(rx') = Len(rx) + (IF item'[r] = "queued" THEN 1 ELSE 0)
  <2>1. CASE Call(r)
    BY <2>1, <1>0 DEF Call
  <2>2. CASE ~Call(r)
    <3>1. rx' = rx
      BY <2>2, Zenon DEF PollReady, RepollReady, Cancel, Fallback
    <3>2. item'[r] # "queued"
      BY <2>2, <1>0, Zenon DEF PollReady, RepollReady, Cancel, Fallback
    <3> QED BY <3>1, <3>2, <1>0
  <2> QED BY <2>1, <2>2, Zenon
<1> DEFINE c == Cardinality(ReadySet(item))
<1>6. /\ c \in Nat
      /\ item[r] # "ready" /\ s = "ready" => Cardinality(ReadySet(item')) = c + 1
      /\ item[r] = "ready" /\ s # "ready" => Cardinality(ReadySet(item')) = c - 1
      /\ (item[r] = "ready" <=> s = "ready") => Cardinality(ReadySet(item')) = c
  BY <1>0, <1>2, ReadyChanges, Zenon
<1>7. s = item'[r]
  BY <1>0, <1>2, Zenon
<1>8. permits + c + Len(rx) = Capacity
  BY PermitsInTermsOfReady, Zenon
<1>9. /\ permits' \in Int
      /\ permits' >= 0
      /\ permits' + Cardinality(ReadySet(item')) + Len(rx') = Capacity
  <2> HIDE DEF c, IInv
  <2>1. CASE PollReady(r)
    <3>1. CASE s = "refused"
      <4>1. permits' = permits /\ item[r] = "idle"
        BY <2>1, <3>1, <1>0, <1>7, Zenon DEF PollReady
      <4>2. Cardinality(ReadySet(item')) = c /\ Len(rx') = Len(rx)
        BY <3>1, <4>1, <1>0, <1>5, <1>6, <1>7
      <4> QED BY <4>1, <4>2, <1>0, <1>8, CapacityType
    <3>2. CASE s # "refused"
      BY <2>1, <3>2, <1>0, <1>5, <1>6, <1>7, <1>8, CapacityType DEF PollReady
    <3> QED BY <3>1, <3>2, Zenon
  <2>2. CASE RepollReady(r)
    BY <2>2, <1>0, <1>5, <1>6, <1>7, <1>8, CapacityType DEF RepollReady
  <2>3. CASE Call(r)
    BY <2>3, <1>0, <1>5, <1>6, <1>7, <1>8, CapacityType DEF Call
  <2>4. CASE Cancel(r)
    BY <2>4, <1>0, <1>5, <1>6, <1>7, <1>8, CapacityType DEF Cancel
  <2>5. CASE Fallback(r)
    BY <2>5, <1>0, <1>5, <1>6, <1>7, <1>8, CapacityType DEF Fallback
  <2> QED BY <2>1, <2>2, <2>3, <2>4, <2>5, Zenon
<1>10. PermitsAreConserved' /\ permits' \in 0 .. Capacity
  <2>1. Cardinality(ReadySet(item')) \in Nat
    BY <1>3, <1>2, ReadyChanges, Zenon
  <2> QED BY <1>5, <1>9, <2>1, CapacityType, PermitsInTermsOfReady
<1>11. TypeOK'
  BY <1>0, <1>3, <1>5, <1>10, Zenon DEF TypeOK, Capacity
<1> QED BY <1>1, <1>4, <1>10, <1>11, Zenon

-----------------------------------------------------------------------------
(***************************************************************************)
(* Steps of the worker, the timer and the thread pool.                     *)
(***************************************************************************)
\* The part of the invariant about answers and permits, for a step in which the
\* worker tells some callers something, and takes no message or one.
LEMMA WorkerAnswers ==
    ASSUME IInv, NEW rs, NEW s \in {"batched", "fallback", "panicked", "ok"},
           s = "ok" => rs \subseteq Valid,
           item' = Tell(rs, s),
           \/ UNCHANGED <<rx, permits>>
           \/ rx # <<>> /\ rx' = Tail(rx) /\ permits' = permits + 1
    PROVE  /\ AnswersAreOwn' /\ PermitsAreConserved'
           /\ item' \in [Request -> States] /\ permits' \in 0 .. Capacity /\ rx' \in Seq(Request)
<1>0. TypeOK /\ AnswersAreOwn /\ PermitsAreConserved
  BY Zenon DEF IInv
<1>1. /\ item' \in [Request -> States]
      /\ ReadySet(item') = ReadySet(item)
      /\ \A r \in Request : /\ item'[r] = "ok" => r \in Valid
                            /\ item'[r] = "err" => r \notin Valid
  BY <1>0, TellKeeps, Zenon
<1>2. AnswersAreOwn'
  BY <1>1, Zenon DEF AnswersAreOwn
<1>3. Cardinality(ReadySet(item)) \in Nat
  BY <1>0, BatchAssumption, FS_Subset, FS_CardinalityType, Zenon DEF ReadySet
<1>4. /\ rx' \in Seq(Request) /\ Len(rx') \in Nat /\ Len(rx) \in Nat
      /\ permits \in 0 .. Capacity
      /\ permits' \in Int /\ permits' >= 0 /\ permits' + Len(rx') = permits + Len(rx)
  <2>1. rx \in Seq(Request) /\ permits \in 0 .. Capacity
    BY <1>0, Zenon DEF TypeOK
  <2>2. CASE UNCHANGED <<rx, permits>>
    BY <2>1, <2>2, CapacityType
  <2>3. CASE rx # <<>> /\ rx' = Tail(rx) /\ permits' = permits + 1
    BY <2>1, <2>3, CapacityType
  <2> QED BY <2>2, <2>3, Zenon
<1>5. permits + Cardinality(ReadySet(item)) + Len(rx) = Capacity
  BY <1>0, PermitsInTermsOfReady, Zenon
<1>6. permits' + Cardinality(ReadySet(item')) + Len(rx') = Capacity /\ permits' \in 0 .. Capacity
  <2> DEFINE c == Cardinality(ReadySet(item))
  <2>1. Cardinality(ReadySet(item')) = c /\ c \in Nat
    BY <1>1, <1>3, Zenon
  <2> HIDE DEF c
  <2>2. permits + c + Len(rx) = Capacity
    BY <1>5, Zenon DEF c
  <2> QED BY <2>1, <2>2, <1>4, CapacityType
<1> QED BY <1>1, <1>2, <1>4, <1>6, PermitsInTermsOfReady, Zenon

\* Starting a batch in the room there is, and giving up, keep the worker's part.
LEMMA FlushKeeps ==
    ASSUME IInv, NEW batch \in SUBSET Request, FlushService(batch), UNCHANGED verified,
           Cardinality(running \cup verified) < max_concurrent_batches
    PROVE  /\ running' \subseteq SUBSET Request /\ IsFiniteSet(running') /\ IsFiniteSet(verified')
           /\ ConcurrencyIsBounded' /\ PendingHasDeadline' /\ RoomForFlush'
           /\ pending' \subseteq Request /\ timer' = "none"
           /\ failed' \in BOOLEAN /\ open' \in BOOLEAN
<1> USE DEF IInv
<1>0. /\ running \subseteq SUBSET Request /\ IsFiniteSet(running) /\ IsFiniteSet(verified)
      /\ failed \in BOOLEAN /\ open \in BOOLEAN
  BY Zenon DEF TypeOK
<1>1. IsFiniteSet(running \cup verified) /\ Cardinality(running \cup verified) \in Nat
  BY <1>0, FS_Union, FS_CardinalityType, Zenon
<1> DEFINE n == Cardinality(running \cup verified)
<1>2. CASE /\ running' = running \cup {batch}
           /\ pending' = {} /\ timer' = "none"
           /\ UNCHANGED <<failed, open>>
  <2>1. running' \cup verified' = (running \cup verified) \cup {batch}
    BY <1>2, Zenon
  <2>2. Cardinality(running' \cup verified') = IF batch \in running \cup verified THEN n ELSE n + 1
    BY <1>1, <2>1, FS_AddElement, Zenon
  <2>3. IsFiniteSet(running')
    BY <1>0, <1>2, FS_AddElement, Zenon
  <2>4. Cardinality(running' \cup verified') <= max_concurrent_batches
    BY <1>1, <2>2, BatchAssumption
  <2> QED BY <1>0, <1>2, <2>3, <2>4, Zenon
             DEF ConcurrencyIsBounded, PendingHasDeadline, RoomForFlush
<1>3. CASE /\ InnerMayFail
           /\ Failed /\ timer' = "none"
           /\ pending' = batch /\ UNCHANGED running
  BY <1>0, <1>3, Zenon DEF Failed, ConcurrencyIsBounded, PendingHasDeadline, RoomForFlush
<1> QED BY <1>2, <1>3, Zenon DEF FlushService

\* The worker takes a request into the batch.
LEMMA RecvStep == ASSUME IInv, Recv PROVE IInv'
<1> USE DEF IInv
<1>0. /\ TypeOK /\ rx # <<>> /\ rx' = Tail(rx) /\ permits' = permits + 1
      /\ UNCHANGED <<verified, worker>>
      /\ Cardinality(running \cup verified) < max_concurrent_batches
  BY Zenon DEF Recv, Receives, CanSpawnNewBatches
<1> DEFINE r == Head(rx)
<1>1. r \in Request
  BY <1>0 DEF TypeOK
<1>2. PICK s \in {"batched", "fallback"} : item' = Tell({r}, s)
  BY Zenon DEF Recv, ProcessReq, ProcessReqFails
<1>3. /\ AnswersAreOwn' /\ PermitsAreConserved'
      /\ item' \in [Request -> States] /\ permits' \in 0 .. Capacity /\ rx' \in Seq(Request)
  <2>1. s \in {"batched", "fallback", "panicked", "ok"} /\ (s = "ok" => {r} \subseteq Valid)
    BY <1>2, Zenon
  <2> HIDE DEF IInv
  <2> QED BY <1>0, <1>2, <2>1, WorkerAnswers, Zenon
<1>4. /\ running' \subseteq SUBSET Request /\ IsFiniteSet(running') /\ IsFiniteSet(verified')
      /\ ConcurrencyIsBounded' /\ PendingHasDeadline' /\ RoomForFlush'
      /\ pending' \subseteq Request /\ timer' \in {"none", "running", "elapsed"}
      /\ failed' \in BOOLEAN /\ open' \in BOOLEAN
  <2>1. CASE ProcessReq(r) /\ IsFull(pending \cup {r})
    <3>1. FlushService(pending \cup {r}) /\ pending \cup {r} \in SUBSET Request
      BY <1>0, <1>1, <2>1, Zenon DEF ProcessReq, TypeOK
    <3> HIDE DEF IInv, r
    <3> QED BY <1>0, <3>1, FlushKeeps, Zenon
  <2>2. CASE ProcessReq(r) /\ ~IsFull(pending \cup {r})
    <3>1. /\ ~failed /\ pending' = pending \cup {r}
          /\ timer' = IF pending = {} THEN "running" ELSE timer
          /\ UNCHANGED <<running, failed, open>>
      BY <2>2, Zenon DEF ProcessReq
    <3>2. timer' # "none" /\ pending' # {}
      BY <3>1, Zenon DEF PendingHasDeadline
    <3> QED BY <1>0, <1>1, <3>1, <3>2, Zenon
            DEF TypeOK, ConcurrencyIsBounded, PendingHasDeadline, RoomForFlush
  <2>3. CASE ProcessReqFails(r)
    BY <1>0, <2>3, Zenon DEF ProcessReqFails, Failed, TypeOK, ConcurrencyIsBounded,
                      PendingHasDeadline, RoomForFlush
  <2> QED BY <2>1, <2>2, <2>3, Zenon DEF Recv
<1>5. TypeOK'
  BY <1>0, <1>3, <1>4, Zenon DEF TypeOK, Capacity
<1> QED BY <1>3, <1>4, <1>5, Zenon

\* The timer flushes the batch.
LEMMA TimerFlushStep == ASSUME IInv, TimerFlush PROVE IInv'
<1> USE DEF IInv
<1>0. /\ UNCHANGED <<item, permits, rx, verified, worker>>
      /\ ~failed /\ timer = "elapsed" /\ FlushService(pending)
      /\ pending \in SUBSET Request
  BY Zenon DEF TimerFlush, TypeOK
<1>1. Cardinality(running \cup verified) < max_concurrent_batches
  BY <1>0, Zenon DEF RoomForFlush
<1>2. /\ running' \subseteq SUBSET Request /\ IsFiniteSet(running') /\ IsFiniteSet(verified')
      /\ ConcurrencyIsBounded' /\ PendingHasDeadline' /\ RoomForFlush'
      /\ pending' \subseteq Request /\ timer' = "none"
      /\ failed' \in BOOLEAN /\ open' \in BOOLEAN
  <2> HIDE DEF IInv
  <2> QED BY <1>0, <1>1, FlushKeeps, Zenon
<1>3. TypeOK' /\ AnswersAreOwn' /\ PermitsAreConserved'
  BY <1>0, <1>2, Zenon DEF TypeOK, AnswersAreOwn, PermitsAreConserved, Capacity
<1> QED BY <1>2, <1>3, Zenon

\* The result of a batch reaches its callers.
LEMMA BatchResultStep == ASSUME IInv, NEW batch \in verified, BatchResult(batch) PROVE IInv'
<1> USE DEF IInv
<1>0. /\ verified' = verified \ {batch} /\ item' = Tell(batch, BatchAnswer(batch))
      /\ UNCHANGED <<permits, rx, pending, running, worker>>
      /\ TypeOK
  BY Zenon DEF BatchResult
<1>1. /\ AnswersAreOwn' /\ PermitsAreConserved'
      /\ item' \in [Request -> States] /\ permits' \in 0 .. Capacity /\ rx' \in Seq(Request)
  <2>1. /\ BatchAnswer(batch) \in {"batched", "fallback", "panicked", "ok"}
        /\ BatchAnswer(batch) = "ok" => batch \subseteq Valid
    BY Zenon DEF BatchAnswer
  <2> HIDE DEF IInv
  <2> QED BY <1>0, <2>1, WorkerAnswers, Zenon
<1>2. /\ IsFiniteSet(running') /\ IsFiniteSet(verified')
      /\ Cardinality(running' \cup verified') <= Cardinality(running \cup verified)
      /\ Cardinality(running' \cup verified') \in Nat /\ Cardinality(running \cup verified) \in Nat
  <2>1. IsFiniteSet(running \cup verified)
    BY FS_Union, Zenon
  <2>2. running' \cup verified' \in SUBSET (running \cup verified) /\ verified' \in SUBSET verified
    BY <1>0, Zenon
  <2> QED BY <1>0, <2>1, <2>2, FS_Subset, FS_CardinalityType, Zenon
<1>3. ConcurrencyIsBounded'
  BY <1>2, BatchAssumption DEF ConcurrencyIsBounded
<1>4. \/ UNCHANGED <<failed, open, timer>>
      \/ failed' /\ ~open' /\ timer' \in {timer, "none"}
  BY Zenon DEF BatchResult, Failed
<1>5. failed' \in BOOLEAN /\ open' \in BOOLEAN /\ timer' \in {"none", "running", "elapsed"}
  BY <1>4, <1>0, Zenon DEF BatchResult, Failed, TypeOK
<1>6. PendingHasDeadline' /\ RoomForFlush'
  <2>1. CASE UNCHANGED <<failed, open, timer>>
    BY <1>0, <1>2, <2>1, BatchAssumption DEF PendingHasDeadline, RoomForFlush
  <2>2. CASE failed'
    BY <2>2, Zenon DEF PendingHasDeadline, RoomForFlush
  <2> QED BY <1>4, <2>1, <2>2, Zenon
<1>7. TypeOK'
  BY <1>0, <1>1, <1>5, Zenon DEF TypeOK, Capacity
<1> QED BY <1>1, <1>2, <1>3, <1>6, <1>7, Zenon

\* The worker exits and its queue is dropped.
LEMMA ExitStep == ASSUME IInv, Exit PROVE IInv'
<1> USE DEF IInv
<1>0. /\ item' = Tell(UNION running, "panicked") /\ UNCHANGED <<permits, rx>>
      /\ running' = {pending} \ {{}} /\ verified = {} /\ verified' = {}
      /\ pending' = {} /\ timer' = "none" /\ worker' = "exited" /\ UNCHANGED <<open, failed>>
      /\ TypeOK
  BY Zenon DEF Exit, Receives
<1>1. /\ AnswersAreOwn' /\ PermitsAreConserved'
      /\ item' \in [Request -> States] /\ permits' \in 0 .. Capacity /\ rx' \in Seq(Request)
  <2> HIDE DEF IInv
  <2> QED BY <1>0, WorkerAnswers, Zenon
<1>2. /\ IsFiniteSet(running') /\ IsFiniteSet(verified')
      /\ Cardinality(running' \cup verified') <= max_concurrent_batches
  <2>1. IsFiniteSet({pending}) /\ Cardinality({pending}) = 1
    BY FS_Singleton, Zenon
  <2>2. running' \cup verified' \in SUBSET {pending} /\ running' \in SUBSET {pending}
    BY <1>0, Zenon
  <2>3. /\ IsFiniteSet(running' \cup verified') /\ IsFiniteSet(running')
        /\ Cardinality(running' \cup verified') <= 1
    BY <2>1, <2>2, FS_Subset, Zenon
  <2>4. Cardinality(running' \cup verified') \in Nat
    BY <2>3, FS_CardinalityType, Zenon
  <2> QED BY <1>0, <2>3, <2>4, BatchAssumption, FS_EmptySet
<1>3. ConcurrencyIsBounded' /\ PendingHasDeadline' /\ RoomForFlush'
  BY <1>0, <1>2, Zenon DEF ConcurrencyIsBounded, PendingHasDeadline, RoomForFlush
<1>4. TypeOK'
  BY <1>0, <1>1, Zenon DEF TypeOK, Capacity
<1> QED BY <1>1, <1>2, <1>3, <1>4, Zenon

\* The timer runs out.
LEMMA TimerExpiresStep == ASSUME IInv, TimerExpires PROVE IInv'
BY Zenon DEF IInv, TimerExpires, TypeOK, AnswersAreOwn, PermitsAreConserved, ConcurrencyIsBounded,
       PendingHasDeadline, RoomForFlush, Capacity

\* A batch is verified on the thread pool.
LEMMA BatchRunsStep == ASSUME IInv, NEW batch \in running, BatchRuns(batch) PROVE IInv'
<1> USE DEF IInv
<1>0. /\ running' = running \ {batch} /\ TypeOK
      /\ UNCHANGED <<permits, rx, open, pending, timer, failed, worker>>
      /\ verified' \in {verified, verified \cup {batch}}
  BY Zenon DEF BatchRuns
<1>1. /\ AnswersAreOwn' /\ PermitsAreConserved'
      /\ item' \in [Request -> States] /\ permits' \in 0 .. Capacity /\ rx' \in Seq(Request)
  <2>1. CASE worker = "running"
    BY <1>0, <2>1, Zenon DEF BatchRuns, AnswersAreOwn, PermitsAreConserved, TypeOK, Capacity
  <2>2. CASE worker # "running"
    <3>1. /\ BatchAnswer(batch) \in {"batched", "fallback", "panicked", "ok"}
          /\ BatchAnswer(batch) = "ok" => batch \subseteq Valid
      BY Zenon DEF BatchAnswer
    <3>2. item' = Tell(batch, BatchAnswer(batch)) /\ UNCHANGED <<rx, permits>>
      BY <2>2, Zenon DEF BatchRuns
    <3> HIDE DEF IInv
    <3> QED BY <3>1, <3>2, WorkerAnswers, Zenon
  <2> QED BY <2>1, <2>2, Zenon
<1>2. /\ IsFiniteSet(running') /\ IsFiniteSet(verified')
      /\ Cardinality(running' \cup verified') <= Cardinality(running \cup verified)
      /\ Cardinality(running' \cup verified') \in Nat /\ Cardinality(running \cup verified) \in Nat
  <2>1. IsFiniteSet(running \cup verified)
    BY FS_Union, Zenon
  <2>2. /\ running' \cup verified' \in SUBSET (running \cup verified)
        /\ running' \in SUBSET running
    BY <1>0, Zenon
  <2>3. IsFiniteSet(verified')
    BY <1>0, FS_AddElement, Zenon
  <2> QED BY <2>1, <2>2, <2>3, FS_Subset, FS_CardinalityType, Zenon
<1>3. ConcurrencyIsBounded' /\ PendingHasDeadline' /\ RoomForFlush'
  BY <1>0, <1>2, BatchAssumption DEF ConcurrencyIsBounded, PendingHasDeadline, RoomForFlush
<1>4. TypeOK'
  BY <1>0, <1>1 DEF TypeOK, Capacity
<1> QED BY <1>1, <1>2, <1>3, <1>4, Zenon

-----------------------------------------------------------------------------
\* Every step keeps the invariant.
LEMMA NextIInv == ASSUME IInv, [Next]_vars PROVE IInv'
<1>1. CASE UNCHANGED vars
  BY <1>1, Zenon DEF vars, IInv, TypeOK, AnswersAreOwn, PermitsAreConserved, ConcurrencyIsBounded,
              PendingHasDeadline, RoomForFlush, Capacity
<1>2. CASE Next
  <2>1. CASE Work
    BY <2>1, RecvStep, TimerFlushStep, ExitStep, BatchResultStep, Zenon DEF Work
  <2> QED BY <1>2, <2>1, CallerSteps, TimerExpiresStep, BatchRunsStep, Zenon DEF Next
<1> QED BY <1>1, <1>2, Zenon

\* The invariant holds of every behaviour.
LEMMA IInvHolds == Spec => []IInv
BY InitIInv, NextIInv, PTL DEF Spec

\* TypeOK, with permits between zero and the semaphore's bound.
THEOREM BatchTypeOK == Spec => []TypeOK
<1>1. IInv => TypeOK
  BY Zenon DEF IInv
<1> QED BY IInvHolds, <1>1, PTL

\* However requests are batched, cancelled and retried, and whenever the wrapped
\* service fails, every answer is about the caller's own item.
THEOREM CallersGetTheirOwnAnswer == Spec => []AnswersAreOwn
<1>1. IInv => AnswersAreOwn
  BY Zenon DEF IInv
<1> QED BY IInvHolds, <1>1, PTL

\* No permit of the semaphore is lost or made up.
THEOREM NoPermitIsLost == Spec => []PermitsAreConserved
<1>1. IInv => PermitsAreConserved
  BY Zenon DEF IInv
<1> QED BY IInvHolds, <1>1, PTL

\* The limit on concurrent batches holds although a timer flushes without looking
\* at it: RoomForFlush says why.
THEOREM TimersKeepTheLimit == Spec => []ConcurrencyIsBounded
<1>1. IInv => ConcurrencyIsBounded
  BY Zenon DEF IInv
<1> QED BY IInvHolds, <1>1, PTL

\* A batch that is being filled has a deadline.
THEOREM BatchesHaveADeadline == Spec => []PendingHasDeadline
<1>1. IInv => PendingHasDeadline
  BY Zenon DEF IInv
<1> QED BY IInvHolds, <1>1, PTL
=============================================================================
