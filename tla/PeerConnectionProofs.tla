----------------------- MODULE PeerConnectionProofs -------------------------
(***************************************************************************)
(* For every set of requests and hashes: however a connection ends, every  *)
(* request has an answer, an answer covers what was asked for, and what    *)
(* was not delivered is registered.                                        *)
(***************************************************************************)
EXTENDS PeerConnection, TLAPS

Loops == {"awaiting request", "sending", "awaiting response", "driving", "closing", "exited"}
Errors == {"failed", "client dropped", "heartbeat exited"}
Answers == [st : {"ok", "err"}, available : SUBSET Hash, missing : SUBSET Hash]

\* The types that the other parts need.
Types ==
    /\ loop \in Loops
    /\ current \in Requests \cup {NONE}
    /\ handler \subseteq Hash
    /\ finished \in Answers \cup {NONE}
    /\ client_rx \in Seq(Requests)
    /\ closed \in BOOLEAN /\ aborted \in BOOLEAN
    /\ error_slot \in Errors \cup {NONE}
    /\ answer \in [Requests -> AnswerType]
    /\ client \in {"held", "ready", "dropped"}
    /\ registry \subseteq Hash

\* An answer to an inventory request that covers what was asked for.
Covers(r, ans) ==
    /\ ans.available \cup ans.missing = Inventory[r]
    /\ ans.available \cap ans.missing = {}
    /\ ans.available # {}

\* The event loop has a request exactly where it handles one, and a result only
\* for the request it handles.
LoopInv ==
    /\ loop = "awaiting request" => current = NONE
    /\ loop \in {"sending", "awaiting response"} => current # NONE
    /\ loop = "sending" => finished = NONE
    /\ loop = "exited" => current = NONE /\ client_rx = <<>> /\ closed
    /\ current = NONE => handler = {} /\ finished = NONE
    /\ IsInventory(current) => handler \subseteq Inventory[current]
    /\ finished # NONE /\ IsInventory(current) /\ finished.st = "ok" => Covers(current, finished)

\* A request that has no answer is in the channel or is being handled.
PendingIsHeld ==
    \A r \in Requests : answer[r].st = "pending" => r \in Queued \/ r = current

\* While the connection runs, only the end of the client closes the channel.
ClosedByClient == closed /\ loop # "exited" => client = "dropped"

IInv ==
    /\ Types /\ LoopInv /\ PendingIsHeld /\ ClosedByClient
    /\ AnswersMatchRequests /\ UndeliveredIsRegistered /\ EndHasAnError

-----------------------------------------------------------------------------
\* Reply answers the requests of rs that are still waited for, and no others.
LEMMA ReplyKeeps ==
    ASSUME Types, NEW rs, NEW ans \in Answers, Reply(rs, ans)
    PROVE  /\ answer' \in [Requests -> AnswerType]
           /\ \A r \in Requests : /\ r \in rs => answer'[r].st # "pending"
                                  /\ answer'[r].st = "pending" => answer[r].st = "pending"
                                  /\ answer'[r] # answer[r] => r \in rs /\ answer'[r] = ans
<1>1. Answers \subseteq AnswerType
  BY Zenon DEF Answers, AnswerType
<1>2. ans.st # "pending"
  BY Zenon DEF Answers
<1> QED BY <1>1, <1>2, Zenon DEF Reply, Types

\* Send also registers what the answer says is missing.
LEMMA SendKeeps ==
    ASSUME Types, NEW rs, NEW ans \in Answers, Send(rs, ans)
    PROVE  /\ answer' \in [Requests -> AnswerType]
           /\ registry' \subseteq Hash
           /\ \A r \in Requests : /\ r \in rs => answer'[r].st # "pending"
                                  /\ answer'[r].st = "pending" => answer[r].st = "pending"
                                  /\ answer'[r] # answer[r] => r \in rs /\ answer'[r] = ans
           /\ (\A r \in Request : answer[r].st \in {"ok", "err"} =>
                                     MissingIn(r, answer[r]) \subseteq registry)
                => \A r \in Request : answer'[r].st \in {"ok", "err"} =>
                                     MissingIn(r, answer'[r]) \subseteq registry'
<1>1. Reply(rs, ans) /\ registry' = registry \cup UNION {MissingIn(r, ans) : r \in rs}
  BY Zenon DEF Send
<1>2. \A r : MissingIn(r, ans) \subseteq Hash
  BY PeerAssumption, Zenon DEF MissingIn, IsInventory, Answers
<1>3. registry' \subseteq Hash
  BY <1>1, <1>2, Zenon DEF Types
<1>4. \A r \in rs : MissingIn(r, ans) \subseteq registry'
  BY <1>1, Zenon
<1>5. registry \subseteq registry'
  BY <1>1, Zenon
<1>6. ASSUME \A r \in Request : answer[r].st \in {"ok", "err"} => MissingIn(r, answer[r]) \subseteq registry,
             NEW r \in Request, answer'[r].st \in {"ok", "err"}
      PROVE  MissingIn(r, answer'[r]) \subseteq registry'
  <2>1. CASE answer'[r] = answer[r]
    BY <2>1, <1>5, <1>6, Zenon
  <2>2. CASE answer'[r] # answer[r]
    <3>1. r \in rs /\ answer'[r] = ans
      BY <1>1, <2>2, ReplyKeeps, Zenon DEF Requests
    <3> QED BY <3>1, <1>4, Zenon
  <2> QED BY <2>1, <2>2, Zenon
<1> QED BY <1>1, <1>3, <1>6, ReplyKeeps, Zenon

\* The requests in the channel after one more is sent or one is received.
LEMMA ChannelSets ==
    ASSUME Types
    PROVE  /\ \A r \in Requests : client_rx' = Append(client_rx, r) =>
                 client_rx' \in Seq(Requests) /\ Queued' = Queued \cup {r}
           /\ client_rx # <<>> /\ client_rx' = Tail(client_rx) =>
                 /\ client_rx' \in Seq(Requests) /\ Head(client_rx) \in Requests
                 /\ Queued = Queued' \cup {Head(client_rx)}
           /\ client_rx' = <<>> => client_rx' \in Seq(Requests)
           /\ UNCHANGED client_rx => Queued' = Queued
           /\ Queued \subseteq Requests
<1> USE DEF Types, Queued
<1>1. ASSUME NEW r \in Requests, client_rx' = Append(client_rx, r)
      PROVE  client_rx' \in Seq(Requests) /\ Queued' = Queued \cup {r}
  <2>1. /\ client_rx' \in Seq(Requests) /\ Len(client_rx') = Len(client_rx) + 1
        /\ \A i \in 1 .. Len(client_rx) : client_rx'[i] = client_rx[i]
        /\ client_rx'[Len(client_rx) + 1] = r
    BY <1>1
  <2>2. DOMAIN client_rx' = 1 .. (Len(client_rx) + 1) /\ DOMAIN client_rx = 1 .. Len(client_rx)
    BY <2>1
  <2>3. DOMAIN client_rx' = DOMAIN client_rx \cup {Len(client_rx) + 1}
    BY <2>2
  <2> QED BY <2>1, <2>2, <2>3
<1>2. ASSUME client_rx # <<>>, client_rx' = Tail(client_rx)
      PROVE  /\ client_rx' \in Seq(Requests) /\ Head(client_rx) \in Requests
             /\ Queued = Queued' \cup {Head(client_rx)}
  <2>1. /\ client_rx' \in Seq(Requests) /\ Len(client_rx') = Len(client_rx) - 1
        /\ Len(client_rx) >= 1
        /\ \A i \in 1 .. Len(client_rx') : client_rx'[i] = client_rx[i + 1]
        /\ Head(client_rx) = client_rx[1]
    BY <1>2
  <2>2. DOMAIN client_rx' = 1 .. Len(client_rx') /\ DOMAIN client_rx = 1 .. Len(client_rx)
    BY <2>1
  <2>3. Queued \subseteq Queued' \cup {Head(client_rx)}
    <3>1. SUFFICES ASSUME NEW i \in DOMAIN client_rx
                   PROVE  client_rx[i] \in Queued' \cup {Head(client_rx)}
      BY Zenon
    <3>2. CASE i = 1
      BY <3>2, <2>1, Zenon
    <3>3. CASE i # 1
      <4>1. i - 1 \in 1 .. Len(client_rx') /\ client_rx'[i - 1] = client_rx[i]
        BY <3>3, <2>1, <2>2
      <4> QED BY <4>1, <2>2, Zenon
    <3> QED BY <3>2, <3>3, Zenon
  <2>4. Queued' \cup {Head(client_rx)} \subseteq Queued
    <3>1. \A i \in DOMAIN client_rx' : i + 1 \in DOMAIN client_rx /\ client_rx'[i] = client_rx[i + 1]
      BY <2>1, <2>2
    <3>2. 1 \in DOMAIN client_rx /\ Head(client_rx) = client_rx[1]
      BY <2>1, <2>2
    <3> QED BY <3>1, <3>2
  <2>5. Head(client_rx) \in Requests
    BY <2>1
  <2> QED BY <2>1, <2>3, <2>4, <2>5, Zenon
<1>3. client_rx' = <<>> => client_rx' \in Seq(Requests)
  OBVIOUS
<1>4. UNCHANGED client_rx => Queued' = Queued
  BY Zenon
<1>5. Queued \subseteq Requests
  OBVIOUS
<1> QED BY <1>1, <1>2, <1>3, <1>4, <1>5, Zenon

-----------------------------------------------------------------------------
(* Answers and changes of them. *)

\* What an answer can be.
LEMMA AnswerTypes ==
    /\ Answers \subseteq AnswerType /\ NONE \notin Answers
    /\ Nil \in Answers /\ Nil.st = "ok"
    /\ Err \in Answers /\ Err.st = "err"
    /\ Pending \in AnswerType /\ Pending.st = "pending"
    /\ \A S, T \in SUBSET Hash : Answer("ok", S, T) \in Answers
<1>1. Answers \subseteq AnswerType
  BY Zenon DEF Answers, AnswerType
<1>2. NONE \notin Answers
  BY <1>1, NoneAssumption, Zenon
<1> QED BY <1>1, <1>2, Zenon DEF Answers, AnswerType, Answer, Nil, Err, Pending

\* One request gets an answer, or becomes pending.
LEMMA SetAnswer ==
    ASSUME Types, NEW r \in Requests, NEW a \in AnswerType,
           answer' = [answer EXCEPT ![r] = a]
    PROVE  /\ answer' \in [Requests -> AnswerType] /\ answer'[r] = a
           /\ \A q \in Requests : q # r => answer'[q] = answer[q]
BY Zenon DEF Types

\* A caller gives up.
LEMMA CancelAnswer ==
    ASSUME Types, NEW r \in Requests, answer' = [answer EXCEPT ![r].st = "cancelled"]
    PROVE  /\ answer' \in [Requests -> AnswerType] /\ answer'[r].st = "cancelled"
           /\ \A q \in Requests : q # r => answer'[q] = answer[q]
<1>1. answer[r] \in AnswerType
  BY Zenon DEF Types
<1>2. /\ [answer[r] EXCEPT !.st = "cancelled"] \in AnswerType
      /\ [answer[r] EXCEPT !.st = "cancelled"].st = "cancelled"
  BY <1>1, Zenon DEF AnswerType
<1>3. answer' = [answer EXCEPT ![r] = [answer[r] EXCEPT !.st = "cancelled"]]
  BY <1>1, Zenon DEF Types
<1> QED BY <1>2, <1>3, SetAnswer, Zenon

\* The task of the heartbeat returns.
LEMMA ExitCancels ==
    ASSUME Types, Exit
    PROVE  /\ answer' \in [Requests -> AnswerType]
           /\ \A q \in Requests : answer'[q] # answer[q] => answer'[q].st = "cancelled"
<1>1. CASE answer["ping"].st = "pending"
  BY <1>1, CancelAnswer, Zenon DEF Exit, Requests
<1>2. CASE answer["ping"].st # "pending"
  BY <1>2, Zenon DEF Exit, Types
<1> QED BY <1>1, <1>2, Zenon

\* A step after which no request has a new answer.
LEMMA NoNewAnswer ==
    ASSUME IInv, registry \subseteq registry', loop' = loop,
           \A q \in Request : answer'[q].st \in {"ok", "err"} =>
               answer'[q] = answer[q]
    PROVE  AnswersMatchRequests' /\ UndeliveredIsRegistered'
<1>1. AnswersMatchRequests'
  BY AnswerTypes, Zenon DEF IInv, AnswersMatchRequests
<1>2. UndeliveredIsRegistered'
  BY AnswerTypes, Zenon DEF IInv, UndeliveredIsRegistered, MissingIn
<1> QED BY <1>1, <1>2, Zenon

\* The connection starts idle, with no request.
LEMMA InitIInv == Init => IInv
<1> SUFFICES ASSUME Init PROVE IInv
  BY Zenon
<1>1. Types
  <2>1. \A r \in Requests : Answer("none", {}, {}) \in AnswerType
    BY Zenon DEF Answer, AnswerType
  <2>2. answer \in [Requests -> AnswerType]
    BY <2>1, Zenon DEF Init
  <2>3. client_rx = <<>>
    BY Zenon DEF Init
  <2>4. client_rx \in Seq(Requests)
    BY <2>3
  <2> QED BY <2>2, <2>4, Zenon DEF Types, Init, Loops
<1>2. LoopInv
  BY PeerAssumption, Zenon DEF Init, LoopInv, IsInventory
<1>3. PendingIsHeld /\ AnswersMatchRequests /\ UndeliveredIsRegistered
  BY Zenon DEF Init, PendingIsHeld, AnswersMatchRequests, UndeliveredIsRegistered, Answer, Requests
<1>4. ClosedByClient /\ EndHasAnError
  BY Zenon DEF Init, ClosedByClient, EndHasAnError
<1> QED BY <1>1, <1>2, <1>3, <1>4, Zenon DEF IInv

-----------------------------------------------------------------------------
(* Steps of the client and of the callers. *)

\* poll_ready, and dropping the client.
LEMMA PollKeeps ==
    ASSUME IInv, PollReady \/ PollReadyFails \/ DropClient
    PROVE  IInv'
<1> USE DEF IInv
<1>0. UNCHANGED <<loop, current, handler, finished, client_rx, answer, registry>>
  BY Zenon DEF PollReady, PollReadyFails, DropClient, connection
<1>1. /\ client' \in {"held", "ready", "dropped"} /\ aborted' \in BOOLEAN /\ closed' \in BOOLEAN
      /\ error_slot' \in Errors \cup {NONE}
  BY Zenon DEF PollReady, PollReadyFails, DropClient, UpdateError, ShutdownClient, Types, Errors
<1>2. Types'
  BY <1>0, <1>1, Zenon DEF Types
<1>3. LoopInv' /\ PendingIsHeld'
  BY <1>0, ChannelSets, Zenon DEF LoopInv, Covers, PendingIsHeld, PollReady, PollReadyFails, DropClient,
                           ShutdownClient
<1>4. ClosedByClient' /\ EndHasAnError'
  <2>1. CASE PollReady
    BY <2>1, <1>0, Zenon DEF PollReady, ClosedByClient, EndHasAnError
  <2>2. CASE PollReadyFails \/ DropClient
    <3>1. \E e \in Errors : UpdateError(e)
      BY <2>2, Zenon DEF PollReadyFails, DropClient, Errors
    <3>2. error_slot' # NONE
      BY <3>1, NoneAssumption, Zenon DEF UpdateError, Errors
    <3> QED BY <2>2, <3>2, Zenon DEF PollReadyFails, DropClient, ShutdownClient, ClosedByClient,
                              EndHasAnError
  <2> QED BY <2>1, <2>2, Zenon
<1>5. AnswersMatchRequests' /\ UndeliveredIsRegistered'
  BY <1>0, NoNewAnswer, Zenon
<1> QED BY <1>2, <1>3, <1>4, <1>5, Zenon

\* call: a request goes into the channel.
LEMMA CallKeeps ==
    ASSUME IInv, NEW r \in Request, Call(r)
    PROVE  IInv'
<1> USE DEF IInv
<1>0. /\ r \in Requests /\ client = "ready" /\ client' = "held"
      /\ UNCHANGED <<loop, current, handler, finished, closed, error_slot, registry, aborted>>
  BY Zenon DEF Call, Requests, connection
<1>1. CASE closed
  <2>1. loop = "exited" /\ UNCHANGED client_rx /\ answer' = [answer EXCEPT ![r] = Err]
    BY <1>0, <1>1, Zenon DEF ClosedByClient, Call
  <2>2. /\ answer' \in [Requests -> AnswerType] /\ answer'[r] = Err
        /\ \A q \in Requests : q # r => answer'[q] = answer[q]
    BY <1>0, <2>1, AnswerTypes, SetAnswer, Zenon
  <2>3. Types'
    BY <1>0, <2>1, <2>2, Zenon DEF Types
  <2>4. LoopInv' /\ ClosedByClient' /\ EndHasAnError' /\ UndeliveredIsRegistered'
    BY <1>0, <2>1, Zenon DEF LoopInv, Covers, ClosedByClient, EndHasAnError, UndeliveredIsRegistered
  <2>5. PendingIsHeld'
    BY <1>0, <2>1, <2>2, ChannelSets, AnswerTypes, Zenon DEF PendingIsHeld
  <2>6. AnswersMatchRequests'
    BY <1>0, <2>2, AnswerTypes, Zenon DEF AnswersMatchRequests, Requests
  <2> QED BY <2>3, <2>4, <2>5, <2>6, Zenon
<1>2. CASE ~closed
  <2>1. client_rx' = Append(client_rx, r) /\ answer' = [answer EXCEPT ![r] = Pending]
    BY <1>2, Zenon DEF Call
  <2>2. /\ answer' \in [Requests -> AnswerType] /\ answer'[r].st = "pending"
        /\ \A q \in Requests : q # r => answer'[q] = answer[q]
    BY <1>0, <2>1, AnswerTypes, SetAnswer, Zenon
  <2>3. client_rx' \in Seq(Requests) /\ Queued' = Queued \cup {r}
    BY <1>0, <2>1, ChannelSets, Zenon
  <2>4. Types'
    BY <1>0, <2>2, <2>3, Zenon DEF Types
  <2>5. loop # "exited"
    BY <1>2, Zenon DEF LoopInv
  <2>6. LoopInv' /\ ClosedByClient' /\ EndHasAnError'
    BY <1>0, <1>2, <2>5, Zenon DEF LoopInv, Covers, ClosedByClient, EndHasAnError
  <2>7. PendingIsHeld'
    BY <1>0, <2>2, <2>3, Zenon DEF PendingIsHeld
  <2>8. AnswersMatchRequests' /\ UndeliveredIsRegistered'
    BY <1>0, <2>2, NoNewAnswer, Zenon DEF Requests
  <2> QED BY <2>4, <2>6, <2>7, <2>8, Zenon
<1> QED BY <1>1, <1>2, Zenon

\* A caller drops its future.
LEMMA CallerCancelsKeeps ==
    ASSUME IInv, NEW r \in Request, CallerCancels(r)
    PROVE  IInv'
<1> USE DEF IInv
<1>0. /\ r \in Requests /\ answer' = [answer EXCEPT ![r].st = "cancelled"]
      /\ UNCHANGED <<loop, current, handler, finished, client_rx, closed, error_slot, registry,
                     client, aborted>>
  BY Zenon DEF CallerCancels, Requests, connection
<1>1. /\ answer' \in [Requests -> AnswerType] /\ answer'[r].st = "cancelled"
      /\ \A q \in Requests : q # r => answer'[q] = answer[q]
  BY <1>0, CancelAnswer, Zenon
<1>2. Types'
  BY <1>0, <1>1, Zenon DEF Types
<1>3. LoopInv' /\ ClosedByClient' /\ EndHasAnError'
  BY <1>0, Zenon DEF LoopInv, Covers, ClosedByClient, EndHasAnError
<1>4. PendingIsHeld'
  BY <1>0, <1>1, ChannelSets, Zenon DEF PendingIsHeld
<1>5. AnswersMatchRequests' /\ UndeliveredIsRegistered'
  BY <1>0, <1>1, NoNewAnswer, Zenon DEF Requests
<1> QED BY <1>2, <1>3, <1>4, <1>5, Zenon

-----------------------------------------------------------------------------
(* Steps of the event loop. *)

\* handle_client_request: the next request is sent to the peer.
LEMMA HandleClientRequestKeeps ==
    ASSUME IInv, HandleClientRequest
    PROVE  IInv'
<1> USE DEF IInv
<1> DEFINE r == Head(client_rx)
<1>0. /\ loop = "awaiting request" /\ current = NONE /\ handler = {} /\ finished = NONE
      /\ client_rx # <<>> /\ client_rx' = Tail(client_rx)
      /\ UNCHANGED <<handler, closed, error_slot, answer, registry, client, aborted>>
  BY Zenon DEF HandleClientRequest, LoopInv, connection
<1>1. client_rx' \in Seq(Requests) /\ r \in Requests /\ Queued = Queued' \cup {r}
  BY <1>0, ChannelSets, Zenon
<1>2. \/ /\ answer[r].st = "cancelled" /\ UNCHANGED <<loop, current, finished>>
      \/ loop' = "awaiting response" /\ current' = r /\ finished' = Nil /\ Kind[r] = "peers"
      \/ loop' = "sending" /\ current' = r /\ UNCHANGED finished
  BY Zenon DEF HandleClientRequest, connection
<1>3. r # NONE /\ NONE \notin Requests
  BY <1>1, PeerAssumption, Zenon DEF Requests
<1> HIDE DEF r
<1>4. Types'
  BY <1>0, <1>1, <1>2, AnswerTypes, Zenon DEF Types, Loops
<1>5. LoopInv'
  BY <1>0, <1>2, <1>3, AnswerTypes, Zenon DEF LoopInv, IsInventory
<1>6. PendingIsHeld'
  <2>1. SUFFICES ASSUME NEW q \in Requests, answer[q].st = "pending"
                 PROVE  q \in Queued' \/ q = current'
    BY <1>0, Zenon DEF PendingIsHeld
  <2>2. q \in Queued
    BY <2>1, <1>0, <1>3, Zenon DEF PendingIsHeld
  <2> QED BY <2>1, <2>2, <1>1, <1>2, Zenon
<1>7. ClosedByClient' /\ EndHasAnError'
  BY <1>0, <1>2, Zenon DEF ClosedByClient, EndHasAnError
<1>8. AnswersMatchRequests'
  BY <1>0, Zenon DEF AnswersMatchRequests
<1>9. UndeliveredIsRegistered'
  BY <1>0, Zenon DEF UndeliveredIsRegistered
<1> QED BY <1>4, <1>5, <1>6, <1>7, <1>8, <1>9, Zenon

\* A step of the event loop that keeps the request it handles.
LEMMA HandlerKeeps ==
    ASSUME IInv, loop' \in Loops, loop # "exited", loop' # "exited",
           loop' = "awaiting request" => current = NONE,
           loop' \in {"sending", "awaiting response"} => current # NONE,
           loop' = "sending" => finished' = NONE,
           current = NONE => handler' = {} /\ finished' = NONE,
           handler' \in SUBSET Hash, IsInventory(current) => handler' \subseteq Inventory[current],
           finished' \in Answers \cup {NONE},
           finished' # NONE /\ IsInventory(current) /\ finished'.st = "ok" =>
               Covers(current, finished'),
           registry \subseteq registry', registry' \subseteq Hash,
           UNCHANGED <<current, client_rx, closed, error_slot, answer, client, aborted>>
    PROVE  IInv'
<1> USE DEF IInv
<1>1. Types'
  BY Zenon DEF Types
<1>2. LoopInv'
  BY Zenon DEF LoopInv, IsInventory, Covers
<1>3. PendingIsHeld'
  BY ChannelSets, Zenon DEF PendingIsHeld
<1>4. ClosedByClient' /\ EndHasAnError'
  BY Zenon DEF ClosedByClient, EndHasAnError
<1>5. AnswersMatchRequests'
  BY Zenon DEF AnswersMatchRequests
<1>6. UndeliveredIsRegistered'
  BY Zenon DEF UndeliveredIsRegistered, MissingIn
<1> QED BY <1>1, <1>2, <1>3, <1>4, <1>5, <1>6, Zenon

\* What every message of the peer finds.
LEMMA ListeningFacts ==
    ASSUME IInv, Listening
    PROVE  /\ loop \in {"awaiting request", "awaiting response"} /\ finished = NONE
           /\ loop = "awaiting request" <=> current = NONE
           /\ \A k : Handling(k) => /\ loop = "awaiting response"
                                    /\ current \in Request /\ Kind[current] = k /\ current # NONE
<1>1. finished = NONE /\ loop \in {"awaiting request", "awaiting response"}
  BY Zenon DEF IInv, LoopInv, Listening, Selecting
<1>2. loop = "awaiting request" <=> current = NONE
  BY <1>1, Zenon DEF IInv, LoopInv
<1> QED BY <1>1, <1>2, PeerAssumption, Zenon DEF Handling, Selecting

\* An answer that ends an inventory request early.
LEMMA PartialCovers ==
    ASSUME IInv, IsInventory(current)
    PROVE  Partial \in Answers /\ (Partial.st = "ok" => Covers(current, Partial))
<1>1. handler \subseteq Inventory[current] /\ Inventory[current] \subseteq Hash
  BY PeerAssumption, Zenon DEF IInv, LoopInv, IsInventory
<1>2. CASE handler = Inventory[current]
  BY <1>2, AnswerTypes, Zenon DEF Partial
<1>3. CASE handler # Inventory[current]
  <2>1. Partial = Answer("ok", Inventory[current] \ handler, handler)
    BY <1>3, Zenon DEF Partial
  <2>2. Partial \in Answers
    BY <2>1, <1>1, AnswerTypes, Zenon
  <2> QED BY <2>1, <2>2, <1>1, <1>3, Zenon DEF Covers, Answer
<1> QED BY <1>2, <1>3, Zenon

\* One more block or transaction.
LEMMA TakeCovers ==
    ASSUME IInv, IsInventory(current), NEW h, Take(h)
    PROVE  /\ handler' \subseteq Inventory[current] /\ handler' \in SUBSET Hash
           /\ finished' \in Answers \cup {NONE}
           /\ finished' # NONE => Covers(current, finished')
<1>1. /\ handler \subseteq Inventory[current] /\ Inventory[current] \subseteq Hash
      /\ Inventory[current] # {}
  BY PeerAssumption, Zenon DEF IInv, LoopInv, IsInventory
<1>2. Answer("ok", Inventory[current], {}) \in Answers
  BY <1>1, AnswerTypes, Zenon
<1>3. Covers(current, Answer("ok", Inventory[current], {}))
  BY <1>1, Zenon DEF Covers, Answer
<1> QED BY <1>1, <1>2, <1>3, Zenon DEF Take

\* Steps that change the request being handled only by its handler.
LEMMA ProgressKeeps ==
    ASSUME IInv, Sent \/ TimerExpires \/ ReceiveRequest \/ Driven \/ FailWith
    PROVE  IInv'
<1>1. CASE Sent
  <2>1. handler' = IF IsInventory(current) THEN Inventory[current] ELSE {}
    BY <1>1, Zenon DEF Sent
  <2>2. handler' \in SUBSET Hash
    BY <2>1, PeerAssumption, Zenon DEF IsInventory
  <2>3. finished' \in Answers \cup {NONE} /\ (finished' # NONE => ~IsInventory(current))
    BY <1>1, AnswerTypes, Zenon DEF Sent, IsInventory
  <2>4. loop = "sending" /\ loop' = "awaiting response" /\ current # NONE
    BY <1>1, Zenon DEF Sent, IInv, LoopInv
  <2>5. UNCHANGED <<current, client_rx, closed, error_slot, answer, registry, client, aborted>>
    BY <1>1, Zenon DEF Sent
  <2> QED BY <2>1, <2>2, <2>3, <2>4, <2>5, HandlerKeeps, Zenon DEF Loops, IInv, Types
<1>2. CASE TimerExpires
  <2>1. /\ loop \in {"awaiting response", "driving"} /\ current # NONE
        /\ UNCHANGED <<loop, current, handler, finished, client_rx, closed, error_slot, answer,
                       registry, client, aborted>>
    BY <1>2, Zenon DEF TimerExpires
  <2> QED BY <2>1, HandlerKeeps, Zenon DEF Loops, IInv, Types, LoopInv
<1>3. CASE ReceiveRequest
  <2>1. /\ Listening /\ loop' = "driving"
        /\ UNCHANGED <<current, handler, finished, client_rx, closed, error_slot, answer,
                       registry, client, aborted>>
    BY <1>3, Zenon DEF ReceiveRequest
  <2> QED BY <2>1, ListeningFacts, HandlerKeeps, Zenon DEF Loops, IInv, Types, LoopInv
<1>4. CASE Driven
  <2>1. /\ loop = "driving"
        /\ loop' = IF current = NONE THEN "awaiting request" ELSE "awaiting response"
        /\ UNCHANGED <<current, handler, finished, client_rx, closed, error_slot, answer,
                       registry, client, aborted>>
    BY <1>4, Zenon DEF Driven
  <2> QED BY <2>1, HandlerKeeps, Zenon DEF Loops, IInv, Types, LoopInv
<1>5. CASE FailWith
  <2>1. /\ loop = "driving" \/ Listening
        /\ loop' = "closing"
        /\ UNCHANGED <<current, handler, finished, client_rx, closed, error_slot, answer,
                       registry, client, aborted>>
    BY <1>5, Zenon DEF FailWith
  <2>2. loop # "exited"
    BY <2>1, ListeningFacts, Zenon
  <2> QED BY <2>1, <2>2, HandlerKeeps, Zenon DEF Loops, IInv, Types, LoopInv
<1> QED BY <1>1, <1>2, <1>3, <1>4, <1>5, Zenon

\* A block or a transaction.
LEMMA ReceiveInventoryKeeps ==
    ASSUME IInv, NEW h \in Hash, ReceiveBlock(h) \/ ReceiveTx(h)
    PROVE  IInv'
<1>1. /\ Listening /\ (Handling("blocks") \/ Handling("transactions"))
      /\ UNCHANGED <<current, client_rx, closed, error_slot, answer, registry, client, aborted>>
  BY Zenon DEF ReceiveBlock, ReceiveTx
<1>2. /\ loop = "awaiting response" /\ finished = NONE /\ IsInventory(current)
      /\ current # NONE
  BY <1>1, ListeningFacts, Zenon DEF IsInventory
<1>3. \/ Take(h) /\ UNCHANGED loop
      \/ UNCHANGED <<loop, handler, finished>>
      \/ finished' = Partial /\ loop' = "driving" /\ UNCHANGED handler
  BY Zenon DEF ReceiveBlock, ReceiveTx
<1>4. CASE Take(h) /\ UNCHANGED loop
  <2>1. /\ handler' \subseteq Inventory[current] /\ handler' \in SUBSET Hash
        /\ finished' \in Answers \cup {NONE}
        /\ finished' # NONE => Covers(current, finished')
    BY <1>2, <1>4, TakeCovers, Zenon
  <2> QED BY <1>1, <1>2, <1>4, <2>1, HandlerKeeps, Zenon DEF Loops, IInv, Types
<1>5. CASE UNCHANGED <<loop, handler, finished>>
  BY <1>1, <1>2, <1>5, HandlerKeeps, Zenon DEF Loops, IInv, Types, LoopInv
<1>6. CASE finished' = Partial /\ loop' = "driving" /\ UNCHANGED handler
  <2>1. Partial \in Answers /\ (Partial.st = "ok" => Covers(current, Partial))
    BY <1>2, PartialCovers, Zenon
  <2> HIDE DEF Partial
  <2> QED BY <1>1, <1>2, <1>6, <2>1, HandlerKeeps, Zenon DEF Loops, IInv, Types, LoopInv
<1> QED BY <1>3, <1>4, <1>5, <1>6, Zenon

\* A notfound message.
LEMMA ReceiveNotFoundKeeps ==
    ASSUME IInv, NEW missing \in {{}, handler}, ReceiveNotFound(missing)
    PROVE  IInv'
<1>1. /\ Listening /\ registry' = registry \cup missing
      /\ UNCHANGED <<loop, current, handler, client_rx, closed, error_slot, answer, client, aborted>>
  BY Zenon DEF ReceiveNotFound
<1>2. /\ loop \in {"awaiting request", "awaiting response"} /\ finished = NONE
      /\ loop = "awaiting request" <=> current = NONE
  BY <1>1, ListeningFacts, Zenon
<1>3. registry \subseteq registry' /\ registry' \subseteq Hash
  BY <1>1, Zenon DEF IInv, Types
<1>4. CASE Handling("blocks") \/ Handling("transactions")
  <2>1. finished' = Partial
    BY <1>4, Zenon DEF ReceiveNotFound
  <2>2. IsInventory(current) /\ current # NONE
    BY <1>1, <1>4, ListeningFacts, Zenon DEF IsInventory
  <2>3. Partial \in Answers /\ (Partial.st = "ok" => Covers(current, Partial))
    BY <2>2, PartialCovers, Zenon
  <2> QED BY <1>1, <1>2, <1>3, <2>1, <2>2, <2>3, HandlerKeeps, Zenon DEF Loops, IInv, Types, LoopInv
<1>5. CASE ~(Handling("blocks") \/ Handling("transactions"))
  <2>1. finished' = finished
    BY <1>5, Zenon DEF ReceiveNotFound
  <2> QED BY <1>1, <1>2, <1>3, <2>1, HandlerKeeps, Zenon DEF Loops, IInv, Types, LoopInv
<1> QED BY <1>4, <1>5, Zenon

\* Addresses, hashes, headers and pongs.
LEMMA ReceiveResponseKeeps ==
    ASSUME IInv, ReceiveResponse \/ \E new \in 1 .. MAX_ADDRS_IN_MESSAGE : ReceiveAddr(new)
    PROVE  IInv'
<1>1. /\ Listening
      /\ UNCHANGED <<loop, current, handler, client_rx, closed, error_slot, answer, registry,
                     client, aborted>>
  BY Zenon DEF ReceiveResponse, ReceiveAddr
<1>2. /\ loop \in {"awaiting request", "awaiting response"} /\ finished = NONE
      /\ loop = "awaiting request" <=> current = NONE
  BY <1>1, ListeningFacts, Zenon
<1>3. \/ UNCHANGED finished
      \/ finished' = Nil /\ (Handling("find") \/ Handling("peers") \/ (Selecting /\ current = "ping"))
  BY Zenon DEF ReceiveResponse, ReceiveAddr
<1>4. CASE UNCHANGED finished
  BY <1>1, <1>2, <1>4, HandlerKeeps, Zenon DEF Loops, IInv, Types, LoopInv
<1>5. CASE finished' = Nil /\ (Handling("find") \/ Handling("peers") \/ (Selecting /\ current = "ping"))
  <2>1. CASE Handling("find") \/ Handling("peers")
    <3>1. current # NONE /\ Kind[current] \in {"find", "peers"}
      BY <1>1, <2>1, ListeningFacts, Zenon
    <3> QED BY <3>1, <1>1, <1>2, <1>5, AnswerTypes, HandlerKeeps, Zenon
            DEF Loops, IInv, Types, LoopInv, IsInventory
  <2>2. CASE current = "ping"
    <3>1. current # NONE /\ ~IsInventory(current)
      BY <2>2, PeerAssumption, Zenon DEF IsInventory
    <3> QED BY <3>1, <1>1, <1>2, <1>5, AnswerTypes, HandlerKeeps, Zenon DEF Loops, IInv, Types, LoopInv
  <2> QED BY <1>5, <2>1, <2>2, Zenon
<1> QED BY <1>3, <1>4, <1>5, Zenon

-----------------------------------------------------------------------------
(* Steps that end the request being handled. *)

\* The current request is answered, or its caller has given up, and the event
\* loop goes on without it.
LEMMA RequestEnds ==
    ASSUME IInv, NEW l \in {"awaiting request", "closing"}, Idle(l), loop # "exited",
           UNCHANGED <<client_rx, closed, error_slot, client, aborted>>,
           answer' \in [Requests -> AnswerType], registry' \subseteq Hash,
           \A q \in Requests : answer'[q].st = "pending" =>
               answer[q].st = "pending" /\ q # current,
           AnswersMatchRequests', UndeliveredIsRegistered'
    PROVE  IInv'
<1> USE DEF IInv
<1>1. loop' = l /\ current' = NONE /\ handler' = {} /\ finished' = NONE
  BY Zenon DEF Idle
<1>2. Types'
  BY <1>1, Zenon DEF Types, Loops
<1>3. LoopInv'
  BY <1>1, PeerAssumption, Zenon DEF LoopInv, IsInventory
<1>4. PendingIsHeld'
  BY ChannelSets, Zenon DEF PendingIsHeld
<1>5. ClosedByClient' /\ EndHasAnError'
  BY <1>1, Zenon DEF ClosedByClient, EndHasAnError
<1> QED BY <1>2, <1>3, <1>4, <1>5, Zenon

\* With an answer through the collector of missing inventory.
LEMMA RequestIsAnswered ==
    ASSUME IInv, NEW l \in {"awaiting request", "closing"}, Idle(l), loop # "exited",
           UNCHANGED <<client_rx, closed, error_slot, client, aborted>>,
           NEW ans \in Answers, Send({current}, ans),
           IsInventory(current) /\ ans.st = "ok" => Covers(current, ans)
    PROVE  IInv'
<1> USE DEF IInv
<1>1. /\ answer' \in [Requests -> AnswerType] /\ registry' \subseteq Hash
      /\ \A r \in Requests : /\ r = current => answer'[r].st # "pending"
                             /\ answer'[r].st = "pending" => answer[r].st = "pending"
                             /\ answer'[r] # answer[r] => r = current /\ answer'[r] = ans
  <2> DEFINE rs == {current}
  <2>1. Send(rs, ans)
    BY Zenon
  <2> HIDE DEF rs
  <2>2. /\ answer' \in [Requests -> AnswerType] /\ registry' \subseteq Hash
        /\ \A r \in Requests : /\ r \in rs => answer'[r].st # "pending"
                               /\ answer'[r].st = "pending" => answer[r].st = "pending"
                               /\ answer'[r] # answer[r] => r \in rs /\ answer'[r] = ans
    BY <2>1, SendKeeps, Zenon
  <2> QED BY <2>2, Zenon DEF rs
<1>2. AnswersMatchRequests'
  BY <1>1, Zenon DEF AnswersMatchRequests, Covers, Requests
<1>3. \A r \in Request : answer[r].st \in {"ok", "err"} => MissingIn(r, answer[r]) \subseteq registry
  BY Zenon DEF UndeliveredIsRegistered
<1>4. \A r \in Request : answer'[r].st \in {"ok", "err"} => MissingIn(r, answer'[r]) \subseteq registry'
  BY <1>3, SendKeeps, Zenon
<1>5. UndeliveredIsRegistered'
  BY <1>4, Zenon DEF UndeliveredIsRegistered, MissingIn
<1> QED BY <1>1, <1>2, <1>5, RequestEnds, Zenon

\* The end of a request: its answer is sent and the connection is idle.
LEMMA RequestEndKeeps ==
    ASSUME IInv, SendFails \/ ReturnResponse \/ RequestTimesOut \/ RequestCancelled \/ ClientClosed
    PROVE  IInv'
<1>1. CASE SendFails
  <2>1. /\ loop # "exited" /\ Send({current}, Err) /\ Idle("closing")
        /\ UNCHANGED <<client_rx, closed, error_slot, client, aborted>>
    BY <1>1, Zenon DEF SendFails
  <2> QED BY <2>1, AnswerTypes, RequestIsAnswered, Zenon
<1>2. CASE ReturnResponse
  <2>1. /\ loop # "exited" /\ Send({current}, finished) /\ Idle("awaiting request")
        /\ UNCHANGED <<client_rx, closed, error_slot, client, aborted>>
    BY <1>2, Zenon DEF ReturnResponse
  <2>2. /\ finished \in Answers
        /\ IsInventory(current) /\ finished.st = "ok" => Covers(current, finished)
    BY <1>2, Zenon DEF ReturnResponse, IInv, Types, LoopInv
  <2> QED BY <2>1, <2>2, RequestIsAnswered, Zenon
<1>3. CASE RequestTimesOut
  <2>1. /\ loop # "exited" /\ Send({current}, Err)
        /\ Idle(IF current = "ping" THEN "closing" ELSE "awaiting request")
        /\ UNCHANGED <<client_rx, closed, error_slot, client, aborted>>
    BY <1>3, Zenon DEF RequestTimesOut, Selecting
  <2>2. (IF current = "ping" THEN "closing" ELSE "awaiting request") \in {"awaiting request", "closing"}
    BY Zenon
  <2> QED BY <2>1, <2>2, AnswerTypes, RequestIsAnswered, Zenon
<1>4. CASE RequestCancelled \/ ClientClosed
  <2>1. /\ \E l \in {"awaiting request", "closing"} : Idle(l)
        /\ UNCHANGED <<client_rx, closed, error_slot, client, aborted, answer, registry>>
        /\ loop # "exited"
    BY <1>4, Zenon DEF RequestCancelled, ClientClosed, Selecting
  <2>2. \A q \in Requests : answer'[q].st = "pending" => answer[q].st = "pending" /\ q # current
    BY <1>4, <2>1, PeerAssumption, Zenon
       DEF RequestCancelled, ClientClosed, IInv, LoopInv, Requests
  <2>3. AnswersMatchRequests' /\ UndeliveredIsRegistered'
    BY <2>1, Zenon DEF IInv, AnswersMatchRequests, UndeliveredIsRegistered
  <2> QED BY <2>1, <2>2, <2>3, RequestEnds, Zenon DEF IInv, Types
<1> QED BY <1>1, <1>2, <1>3, <1>4, Zenon

-----------------------------------------------------------------------------
(* The end of the connection: Shutdown empties the channel and answers all. *)

\* The end of the connection: every caller gets an error.
LEMMA EndKeeps ==
    ASSUME IInv, SinkClosed \/ AbortConnection
    PROVE  IInv'
<1> USE DEF IInv
<1>1. Shutdown /\ Reply(Unanswered, Err) /\ UNCHANGED <<client, aborted>>
  BY Zenon DEF SinkClosed, AbortConnection, Send
<1>2. /\ loop' = "exited" /\ current' = NONE /\ handler' = {} /\ finished' = NONE
      /\ client_rx' = <<>> /\ closed' = TRUE /\ UpdateError("failed")
  BY <1>1, Zenon DEF Shutdown, Idle
<1>3. /\ answer' \in [Requests -> AnswerType]
      /\ \A r \in Requests : /\ r \in Unanswered => answer'[r].st # "pending"
                             /\ answer'[r].st = "pending" => answer[r].st = "pending"
                             /\ answer'[r] # answer[r] => answer'[r] = Err
  BY <1>1, AnswerTypes, ReplyKeeps
<1>4. \A r \in Requests : answer'[r].st # "pending"
  BY <1>3, PeerAssumption, Zenon DEF PendingIsHeld, Unanswered, Requests
<1>5. registry' \subseteq Hash
  <2>1. \A rs : Send(rs, Err) => registry' \subseteq Hash
    BY AnswerTypes, SendKeeps, Zenon
  <2>2. \A r : MissingIn(r, Err) \subseteq Hash
    BY AnswerTypes, PeerAssumption, Zenon DEF MissingIn, IsInventory
  <2>3. CASE Send(Unanswered, Err)
    BY <2>1, <2>3, Zenon
  <2>4. CASE registry' = registry \cup UNION {MissingIn(r, Err) : r \in Queued}
    BY <2>2, <2>4, Zenon DEF Types
  <2> QED BY <2>3, <2>4, Zenon DEF SinkClosed, AbortConnection
<1>6. error_slot' \in Errors /\ error_slot' # NONE
  BY <1>2, NoneAssumption, Zenon DEF UpdateError, Errors, Types
<1>7. client_rx' \in Seq(Requests)
  BY <1>2, ChannelSets, Zenon
<1>8. Types'
  BY <1>1, <1>2, <1>3, <1>5, <1>6, <1>7, Zenon DEF Types, Loops
<1>9. LoopInv' /\ ClosedByClient' /\ EndHasAnError'
  BY <1>2, <1>6, PeerAssumption, Zenon DEF LoopInv, IsInventory, ClosedByClient, EndHasAnError
<1>10. PendingIsHeld' /\ UndeliveredIsRegistered'
  BY <1>2, <1>4, Zenon DEF PendingIsHeld, UndeliveredIsRegistered
<1>11. AnswersMatchRequests'
  BY <1>3, AnswerTypes, Zenon DEF AnswersMatchRequests, Requests
<1> QED BY <1>8, <1>9, <1>10, <1>11, Zenon

-----------------------------------------------------------------------------
(* The heartbeat task. *)

\* The heartbeat task.
LEMMA HeartbeatKeeps ==
    ASSUME IInv, Heartbeat \/ HeartbeatAnswered \/ HeartbeatTimesOut \/ HeartbeatStops
    PROVE  IInv'
<1> USE DEF IInv
<1>0. UNCHANGED <<loop, current, handler, finished, closed, error_slot, registry, client, aborted>>
  BY Zenon DEF Heartbeat, HeartbeatAnswered, HeartbeatTimesOut, HeartbeatStops, connection
<1>1. CASE Heartbeat /\ ~closed
  <2>1. client_rx' = Append(client_rx, "ping") /\ answer' = [answer EXCEPT !["ping"] = Pending]
    BY <1>1, Zenon DEF Heartbeat
  <2>2. "ping" \in Requests /\ "ping" \notin Request
    BY PeerAssumption, Zenon DEF Requests
  <2>3. /\ answer' \in [Requests -> AnswerType]
        /\ \A q \in Requests : q # "ping" => answer'[q] = answer[q]
    BY <2>1, <2>2, AnswerTypes, SetAnswer, Zenon
  <2>4. client_rx' \in Seq(Requests) /\ Queued' = Queued \cup {"ping"}
    BY <2>1, <2>2, ChannelSets, Zenon
  <2>5. Types'
    BY <1>0, <2>3, <2>4, Zenon DEF Types
  <2>6. LoopInv' /\ ClosedByClient' /\ EndHasAnError'
    BY <1>0, <1>1, Zenon DEF LoopInv, Covers, ClosedByClient, EndHasAnError
  <2>7. PendingIsHeld'
    BY <1>0, <2>3, <2>4, Zenon DEF PendingIsHeld
  <2>8. AnswersMatchRequests' /\ UndeliveredIsRegistered'
    BY <1>0, <2>2, <2>3, NoNewAnswer, Zenon DEF Requests
  <2> QED BY <2>5, <2>6, <2>7, <2>8, Zenon
<1>2. CASE ~(Heartbeat /\ ~closed)
  <2>1. UNCHANGED client_rx /\ (Exit \/ UNCHANGED answer)
    BY <1>2, Zenon DEF Heartbeat, HeartbeatAnswered, HeartbeatTimesOut, HeartbeatStops
  <2>2. /\ answer' \in [Requests -> AnswerType]
        /\ \A q \in Requests : answer'[q] # answer[q] => answer'[q].st = "cancelled"
    BY <2>1, ExitCancels, Zenon DEF Types
  <2>3. Types'
    BY <1>0, <2>1, <2>2, Zenon DEF Types
  <2>4. LoopInv' /\ ClosedByClient' /\ EndHasAnError'
    BY <1>0, <2>1, Zenon DEF LoopInv, Covers, ClosedByClient, EndHasAnError
  <2>5. PendingIsHeld'
    BY <1>0, <2>1, <2>2, ChannelSets, Zenon DEF PendingIsHeld
  <2>6. AnswersMatchRequests' /\ UndeliveredIsRegistered'
    BY <1>0, <2>2, NoNewAnswer, Zenon DEF Requests
  <2> QED BY <2>3, <2>4, <2>5, <2>6, Zenon
<1> QED BY <1>1, <1>2, Zenon

-----------------------------------------------------------------------------
(* The theorems. *)

\* Every step keeps the invariant.
LEMMA StepKeeps == IInv /\ [Next]_vars => IInv'
<1> SUFFICES ASSUME IInv, [Next]_vars PROVE IInv'
  BY Zenon
<1>1. CASE UNCHANGED vars
  BY <1>1, ChannelSets, Zenon
     DEF IInv, Types, LoopInv, Covers, PendingIsHeld, ClosedByClient, AnswersMatchRequests,
         UndeliveredIsRegistered, EndHasAnError, MissingIn, IsInventory, vars, connection
<1>2. CASE PollReady \/ PollReadyFails \/ DropClient
  BY <1>2, PollKeeps, Zenon
<1>3. CASE \E r \in Request : Call(r) \/ CallerCancels(r)
  BY <1>3, CallKeeps, CallerCancelsKeeps, Zenon
<1>4. CASE HandleClientRequest
  BY <1>4, HandleClientRequestKeeps, Zenon
<1>5. CASE Sent \/ TimerExpires \/ ReceiveRequest \/ Driven \/ FailWith
  BY <1>5, ProgressKeeps, Zenon
<1>6. CASE SendFails \/ ReturnResponse \/ RequestTimesOut \/ RequestCancelled \/ ClientClosed
  BY <1>6, RequestEndKeeps, Zenon
<1>7. CASE \E h \in Hash : ReceiveBlock(h) \/ ReceiveTx(h)
  BY <1>7, ReceiveInventoryKeeps, Zenon
<1>8. CASE \E missing \in {{}, handler} : ReceiveNotFound(missing)
  BY <1>8, ReceiveNotFoundKeeps, Zenon
<1>9. CASE ReceiveResponse \/ \E new \in 1 .. MAX_ADDRS_IN_MESSAGE : ReceiveAddr(new)
  BY <1>9, ReceiveResponseKeeps, Zenon
<1>10. CASE SinkClosed \/ AbortConnection
  BY <1>10, EndKeeps, Zenon
<1>11. CASE Heartbeat \/ HeartbeatAnswered \/ HeartbeatTimesOut \/ HeartbeatStops
  BY <1>11, HeartbeatKeeps, Zenon
<1> QED BY <1>1, <1>2, <1>3, <1>4, <1>5, <1>6, <1>7, <1>8, <1>9, <1>10, <1>11, Zenon DEF Next

\* The invariant holds of every behaviour.
LEMMA IInvHolds == Spec => []IInv
BY InitIInv, StepKeeps, PTL DEF Spec

\* When the connection's task has exited, by closing, failing or being aborted at
\* any of its awaits, no accepted request is without an answer
\* (Connection::shutdown, Connection::drop).
THEOREM EveryRequestIsAnswered == Spec => []NoRequestIsLost
<1>1. IInv => NoRequestIsLost
  BY PeerAssumption DEF IInv, LoopInv, PendingIsHeld, NoRequestIsLost, Queued, Requests
<1> QED BY <1>1, IInvHolds, PTL

\* A successful answer to a request for blocks or transactions accounts for each
\* hash once, whatever messages the peer sends (Handler::process_message).
THEOREM AnswersCoverRequests == Spec => []AnswersMatchRequests
<1>1. IInv => AnswersMatchRequests
  BY Zenon DEF IInv
<1> QED BY <1>1, IInvHolds, PTL

\* What a connected peer did not deliver is registered as missing
\* (MissingInventoryCollector::send).
THEOREM MissingIsRegistered == Spec => []UndeliveredIsRegistered
<1>1. IInv => UndeliveredIsRegistered
  BY Zenon DEF IInv
<1> QED BY <1>1, IInvHolds, PTL

\* The connection never ends without an error in the slot (the assertion at the
\* end of Connection::run).
THEOREM EndsWithAnError == Spec => []EndHasAnError
<1>1. IInv => EndHasAnError
  BY Zenon DEF IInv
<1> QED BY <1>1, IInvHolds, PTL
=============================================================================
