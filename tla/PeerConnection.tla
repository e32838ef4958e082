--------------------------- MODULE PeerConnection ---------------------------
(***************************************************************************)
(* zebra-network/src/peer: one peer, as three tasks.  The peer set holds   *)
(* the Client, the Connection runs the event loop of connection.rs, and    *)
(* the heartbeat task of handshake.rs sends pings through the same channel *)
(* of requests.  The remote peer sends any message at any time.            *)
(*                                                                         *)
(* The event loop is at `loop`: waiting in one of its selects, waiting for *)
(* a message to be sent, or driving a request of the peer.  These are the  *)
(* places where the task can be aborted.                                   *)
(***************************************************************************)
EXTENDS Integers, Sequences, FiniteSets

CONSTANTS
    NONE,
    Request,          \* requests of Zebra's services to the peer
    Kind,             \* "blocks", "transactions", "find", "peers" or "push"
    Inventory,        \* the hashes that a blocks or transactions request asks for
    Impatient,        \* the requests whose callers may give up
    Hash,             \* hashes that the peer may send
    PEER_ADDR_RESPONSE_LIMIT,
    MAX_ADDRS_IN_MESSAGE

IsInventory(r) == r \in Request /\ Kind[r] \in {"blocks", "transactions"}

ASSUME PeerAssumption ==
    /\ "ping" \notin Request /\ NONE \notin Request \cup {"ping"}
    /\ Kind \in [Request -> {"blocks", "transactions", "find", "peers", "push"}]
    /\ Inventory \in [Request -> SUBSET Hash] /\ Impatient \subseteq Request
    /\ \A r \in Request : IsInventory(r) => Inventory[r] # {}
    /\ PEER_ADDR_RESPONSE_LIMIT \in Nat \ {0} /\ MAX_ADDRS_IN_MESSAGE \in Nat \ {0}

VARIABLES
    loop,             \* where Connection::run is
    current,          \* the request in State::AwaitingResponse, or being sent
    handler,          \* its Handler, for an inventory request: what is missing
    finished,         \* the result in Handler::Finished
    expired,          \* request_timer has elapsed
    client_rx,        \* requests in the channel
    closed,           \* the channel is closed
    error_slot,
    cached_addrs,     \* number of addresses in the cache
    answer,           \* what each request was answered
    registry,         \* hashes registered as missing from this peer
    client,           \* the Client in the peer set
    aborted,          \* the tasks that Client::shutdown has aborted
    heartbeat,        \* where the heartbeat task is
    book,             \* last change sent to the address book
    unused            \* a response sender was dropped before it was used

connection == <<loop, current, handler, finished, expired, cached_addrs>>
beat == <<heartbeat, book>>
vars == <<connection, client_rx, closed, error_slot, answer, registry, client,
          aborted, beat, unused>>

Requests == Request \cup {"ping"}

\* The answer to a request.  A caller that drops its future cancels it.
Answer(st, available, missing) ==
    [st |-> st, available |-> available, missing |-> missing]
AnswerType == [st : {"none", "pending", "cancelled", "ok", "err"},
               available : SUBSET Hash, missing : SUBSET Hash]

\* The absence of an error or of a result is neither.
ASSUME NoneAssumption ==
    NONE \notin AnswerType \cup {"failed", "client dropped", "heartbeat exited"}

Pending == Answer("pending", {}, {})
Nil == Answer("ok", {}, {})
Err == Answer("err", {}, {})

TypeOK ==
    /\ loop \in {"awaiting request", "sending", "awaiting response", "driving",
                "closing", "exited"}
    /\ current \in Requests \cup {NONE}
    /\ handler \subseteq Hash
    /\ finished \in AnswerType \cup {NONE}
    /\ expired \in BOOLEAN
    /\ client_rx \in Seq(Requests) /\ Len(client_rx) <= 2 /\ closed \in BOOLEAN
    /\ error_slot \in {NONE, "failed", "client dropped", "heartbeat exited"}
    /\ cached_addrs \in 0 .. MAX_ADDRS_IN_MESSAGE
    /\ answer \in [Requests -> AnswerType]
    /\ registry \subseteq Hash
    /\ client \in {"held", "ready", "dropped"}
    /\ aborted \in BOOLEAN
    /\ heartbeat \in {"idle", "waiting", "exited"}
    /\ book \in {"responded", "errored", "shutdown"}
    /\ unused \in BOOLEAN

Init ==
    /\ loop = "awaiting request" /\ current = NONE /\ handler = {}
    /\ finished = NONE /\ expired = FALSE
    /\ client_rx = <<>> /\ closed = FALSE /\ error_slot = NONE
    /\ cached_addrs = 0
    /\ answer = [r \in Requests |-> Answer("none", {}, {})]
    /\ registry = {}
    /\ client = "held" /\ aborted = FALSE
    /\ heartbeat = "idle" /\ book = "responded"
    /\ unused = FALSE

-----------------------------------------------------------------------------
(* Client: the peer set's end of the connection. *)

\* ErrorSlot::try_update_error: the first error stays.
UpdateError(e) == error_slot' = IF error_slot = NONE THEN e ELSE error_slot

\* A request that is still waited for gets `ans`; the receiver of a cancelled
\* one is gone.
Reply(rs, ans) ==
    answer' = [r \in Requests |->
                IF r \in rs /\ answer[r].st = "pending" THEN ans ELSE answer[r]]

\* Mutant: the connection and heartbeat tasks are not aborted.
ShutdownClientNoAbort ==
    /\ client' = "dropped" /\ closed' = TRUE /\ UNCHANGED aborted

\* Client::shutdown.  The tasks stop when the abort reaches them.
ShutdownClient ==
    /\ client' = "dropped" /\ closed' = TRUE /\ aborted' = TRUE

\* poll_ready succeeds.  Each sender of the channel has room for one message.
PollReady ==
    /\ client = "held"
    /\ heartbeat # "exited" /\ loop # "exited" /\ ~closed /\ error_slot = NONE
    /\ \A i \in DOMAIN client_rx : client_rx[i] = "ping"
    /\ client' = "ready"
    /\ UNCHANGED <<connection, client_rx, closed, error_slot, answer, registry,
                   aborted, beat, unused>>

\* poll_heartbeat, poll_connection or poll_request finds that the connection is
\* over; the peer set then drops the client.
PollReadyFails ==
    /\ client # "dropped"
    /\ heartbeat = "exited" \/ loop = "exited" \/ closed \/ error_slot # NONE
    /\ UpdateError(IF heartbeat = "exited" THEN "heartbeat exited" ELSE "failed")
    /\ ShutdownClient
    /\ UNCHANGED <<connection, client_rx, answer, registry, beat, unused>>

\* Client::drop: the peer set removes the peer.
DropClient ==
    /\ client # "dropped"
    /\ UpdateError("client dropped")
    /\ ShutdownClient
    /\ UNCHANGED <<connection, client_rx, answer, registry, beat, unused>>

\* Client::call.  The connection may have ended since poll_ready.
Call(r) ==
    /\ client = "ready" /\ answer[r].st = "none"
    /\ client' = "held"
    /\ IF closed
        THEN /\ answer' = [answer EXCEPT ![r] = Err]
             /\ UNCHANGED client_rx
        ELSE /\ answer' = [answer EXCEPT ![r] = Pending]
             /\ client_rx' = Append(client_rx, r)
    /\ UNCHANGED <<connection, closed, error_slot, registry, aborted, beat, unused>>

\* The caller drops the response future.
CallerCancels(r) ==
    /\ r \in Impatient /\ answer[r].st = "pending"
    /\ answer' = [answer EXCEPT ![r].st = "cancelled"]
    /\ UNCHANGED <<connection, client_rx, closed, error_slot, registry, client,
                   aborted, beat, unused>>

-----------------------------------------------------------------------------
(* Connection *)

\* MissingInventoryCollector::send: what the answer to r says the peer lacks.
MissingIn(r, ans) ==
    IF ~IsInventory(r) THEN {}
    ELSE IF ans.st = "err" THEN Inventory[r] ELSE ans.missing

\* MustUseClientResponseSender::send registers what is missing, then answers.
Send(rs, ans) ==
    /\ Reply(rs, ans)
    /\ registry' = registry \cup UNION {MissingIn(r, ans) : r \in rs}

\* The requests in the channel, and all that the task has not answered.
Queued == {client_rx[i] : i \in DOMAIN client_rx}

\* Mutant: the request in State::AwaitingResponse is forgotten.
UnansweredInChannel == Queued

Unanswered == Queued \cup ({current} \ {NONE})

\* The event loop goes on, with no request or with the current one.
Idle(l) ==
    /\ loop' = l /\ current' = NONE /\ handler' = {} /\ finished' = NONE /\ expired' = FALSE

\* Connection::shutdown, once the sink is closed or when the task is dropped.
Shutdown ==
    /\ closed' = TRUE /\ UpdateError("failed")
    /\ client_rx' = <<>> /\ Idle("exited")

\* update_addr_cache, with `new` addresses: how many remain in the cache.
UpdateAddrCache(new, response_size) ==
    LET remaining == cached_addrs + new - response_size
    IN  IF remaining < 0 THEN 0
        ELSE IF remaining > MAX_ADDRS_IN_MESSAGE THEN MAX_ADDRS_IN_MESSAGE ELSE remaining

\* handle_client_request, up to the await of the send.
HandleClientRequest ==
    /\ loop = "awaiting request" /\ client_rx # <<>>
    /\ client_rx' = Tail(client_rx)
    /\ LET r == Head(client_rx) IN
        \/ /\ answer[r].st = "cancelled"
           /\ UNCHANGED connection
        \/ /\ answer[r].st # "cancelled"
           /\ r \in Request /\ Kind[r] = "peers" /\ cached_addrs > 0
           /\ loop' = "awaiting response" /\ current' = r /\ finished' = Nil
           /\ cached_addrs' = UpdateAddrCache(0, PEER_ADDR_RESPONSE_LIMIT)
           /\ UNCHANGED <<handler, expired>>
        \/ /\ answer[r].st # "cancelled"
           /\ ~(r \in Request /\ Kind[r] = "peers" /\ cached_addrs > 0)
           /\ loop' = "sending" /\ current' = r
           /\ UNCHANGED <<handler, finished, expired, cached_addrs>>
    /\ UNCHANGED <<closed, error_slot, answer, registry, client, aborted, beat, unused>>

\* handle_client_request, when the message is sent.
Sent ==
    /\ loop = "sending"
    /\ loop' = "awaiting response"
    /\ handler' = IF IsInventory(current) THEN Inventory[current] ELSE {}
    /\ finished' = IF current \in Request /\ Kind[current] = "push" THEN Nil ELSE NONE
    /\ UNCHANGED <<current, expired, cached_addrs, client_rx, closed, error_slot, answer,
                   registry, client, aborted, beat, unused>>

\* handle_client_request, when sending fails or takes longer than REQUEST_TIMEOUT.
SendFails ==
    /\ loop = "sending"
    /\ Send({current}, Err)
    /\ Idle("closing")
    /\ UNCHANGED <<cached_addrs, client_rx, closed, error_slot, client, aborted, beat, unused>>

\* Handler::Finished: the response is returned.  Nothing is awaited before this.
ReturnResponse ==
    /\ loop = "awaiting response" /\ finished # NONE
    /\ Send({current}, finished)
    /\ Idle("awaiting request")
    /\ UNCHANGED <<cached_addrs, client_rx, closed, error_slot, client, aborted, beat, unused>>

\* REQUEST_TIMEOUT after the request was sent.
TimerExpires ==
    /\ loop \in {"awaiting response", "driving"} /\ current # NONE /\ ~expired
    /\ expired' = TRUE
    /\ UNCHANGED <<loop, current, handler, finished, cached_addrs, client_rx, closed,
                   error_slot, answer, registry, client, aborted, beat, unused>>

Selecting == loop = "awaiting response" /\ finished = NONE

RequestCancelled ==
    /\ Selecting /\ answer[current].st = "cancelled"
    /\ Idle("awaiting request")
    /\ UNCHANGED <<cached_addrs, client_rx, closed, error_slot, answer, registry, client,
                   aborted, beat, unused>>

\* A request times out; a heartbeat that times out fails the connection.
RequestTimesOut ==
    /\ Selecting /\ answer[current].st # "cancelled" /\ expired
    /\ Send({current}, Err)
    /\ Idle(IF current = "ping" THEN "closing" ELSE "awaiting request")
    /\ UNCHANGED <<cached_addrs, client_rx, closed, error_slot, client, aborted, beat, unused>>

-----------------------------------------------------------------------------
(* Messages of the peer.  While a request is outstanding, its cancellation  *)
(* and its timer come before any message.                                   *)

Listening ==
    \/ loop = "awaiting request"
    \/ Selecting /\ answer[current].st # "cancelled" /\ ~expired

Handling(k) == Selecting /\ current \in Request /\ Kind[current] = k

\* Mutant: an empty response is not an error.
PartialOrEmpty == Answer("ok", Inventory[current] \ handler, handler)

\* A response to an inventory request that ends before everything has come.
Partial ==
    IF handler = Inventory[current] THEN Err
    ELSE Answer("ok", Inventory[current] \ handler, handler)

\* Handler::process_message: one more block or transaction of the response.
Take(h) ==
    /\ handler' = handler \ {h}
    /\ finished' = IF handler' = {} THEN Answer("ok", Inventory[current], {}) ELSE NONE

\* A block that was not asked for is ignored.
ReceiveBlock(h) ==
    /\ Listening /\ Handling("blocks")
    /\ IF h \in handler THEN Take(h) ELSE UNCHANGED <<handler, finished>>
    /\ UNCHANGED <<loop, current, expired, cached_addrs, client_rx, closed, error_slot,
                   answer, registry, client, aborted, beat, unused>>

\* A transaction that was not asked for ends the request, and is then handled as
\* a request of the peer.
ReceiveTx(h) ==
    /\ Listening /\ Handling("transactions")
    /\ IF h \in handler
        THEN Take(h) /\ UNCHANGED loop
        ELSE finished' = Partial /\ loop' = "driving" /\ UNCHANGED handler
    /\ UNCHANGED <<current, expired, cached_addrs, client_rx, closed, error_slot,
                   answer, registry, client, aborted, beat, unused>>

\* register_inventory_status sees the message first.  It may name the hashes that
\* are left or, from a peer that is out of step, others that do not matter here.
ReceiveNotFound(missing) ==
    /\ Listening
    /\ registry' = registry \cup missing
    /\ finished' = IF Handling("blocks") \/ Handling("transactions") THEN Partial ELSE finished
    /\ UNCHANGED <<loop, current, handler, expired, cached_addrs, client_rx, closed,
                   error_slot, answer, client, aborted, beat, unused>>

\* Block hashes, headers or transaction ids; a pong with the nonce of the ping.
ReceiveResponse ==
    /\ Listening /\ (Handling("find") \/ (Selecting /\ current = "ping"))
    /\ finished' = Nil
    /\ UNCHANGED <<loop, current, handler, expired, cached_addrs, client_rx, closed,
                   error_slot, answer, registry, client, aborted, beat, unused>>

ReceiveAddr(new) ==
    /\ Listening
    /\ IF Handling("peers")
        THEN finished' = Nil /\ cached_addrs' = UpdateAddrCache(new, PEER_ADDR_RESPONSE_LIMIT)
        ELSE cached_addrs' = UpdateAddrCache(new, 0) /\ UNCHANGED finished
    /\ UNCHANGED <<loop, current, handler, expired, client_rx, closed,
                   error_slot, answer, registry, client, aborted, beat, unused>>

\* A request of the peer, or a ping: the connection waits for the inbound service
\* and for its own messages to be sent.
ReceiveRequest ==
    /\ Listening
    /\ loop' = "driving"
    /\ UNCHANGED <<current, handler, finished, expired, cached_addrs, client_rx, closed,
                   error_slot, answer, registry, client, aborted, beat, unused>>

\* drive_peer_request ends, with its error ignored or without one.
Driven ==
    /\ loop = "driving"
    /\ loop' = IF current = NONE THEN "awaiting request" ELSE "awaiting response"
    /\ UNCHANGED <<current, handler, finished, expired, cached_addrs, client_rx, closed,
                   error_slot, answer, registry, client, aborted, beat, unused>>

\* fail_with, up to the await of closing the sink, which has no timeout: the
\* service is overloaded or gone, a send fails, the handshake is repeated, the
\* stream ends, or it has an error, which its error hook also tells the book.
FailWith ==
    /\ loop = "driving" \/ Listening
    /\ loop' = "closing"
    /\ \/ UNCHANGED book
       \/ Listening /\ book' = "errored"
    /\ UNCHANGED <<current, handler, finished, expired, cached_addrs, client_rx, closed,
                   error_slot, answer, registry, client, aborted, heartbeat, unused>>

\* The client closed the channel, and its requests are all handled.
ClientClosed ==
    /\ loop = "awaiting request" /\ closed /\ client_rx = <<>>
    /\ Idle("closing")
    /\ UNCHANGED <<cached_addrs, client_rx, closed, error_slot, answer, registry, client,
                   aborted, beat, unused>>

\* shutdown_async, when the sink is closed.
SinkClosed ==
    /\ loop = "closing"
    /\ Shutdown /\ Send(Unanswered, Err)
    /\ UNCHANGED <<cached_addrs, client, aborted, beat, unused>>

\* Connection::drop, when the abort reaches the task at an await.  A request that
\* is being sent is held by handle_client_request, and its sender is dropped.
AbortConnection ==
    /\ aborted /\ loop # "exited"
    /\ ~(loop = "awaiting response" /\ finished # NONE)
    /\ IF loop = "sending"
        THEN /\ unused' = (unused \/ answer[current].st = "pending")
             /\ Reply(Unanswered, Err)
             /\ registry' = registry \cup UNION {MissingIn(r, Err) : r \in Queued}
        ELSE Send(Unanswered, Err) /\ UNCHANGED unused
    /\ Shutdown
    /\ UNCHANGED <<cached_addrs, client, aborted, beat>>

-----------------------------------------------------------------------------
(* The heartbeat task *)

\* The task returns; its ping, if any, is cancelled.
Exit ==
    /\ heartbeat' = "exited"
    /\ answer' = IF answer["ping"].st = "pending"
                 THEN [answer EXCEPT !["ping"].st = "cancelled"] ELSE answer

\* send_one_heartbeat, each HEARTBEAT_INTERVAL.  The channel has room for it.
Heartbeat ==
    /\ heartbeat = "idle"
    /\ IF closed
        THEN Exit /\ book' = "errored" /\ UNCHANGED client_rx
        ELSE /\ heartbeat' = "waiting" /\ UNCHANGED book
             /\ client_rx' = Append(client_rx, "ping")
             /\ answer' = [answer EXCEPT !["ping"] = Pending]
    /\ UNCHANGED <<connection, closed, error_slot, registry, client, aborted, unused>>

HeartbeatAnswered ==
    /\ heartbeat = "waiting"
    /\ \/ /\ answer["ping"].st = "ok"
          /\ heartbeat' = "idle" /\ book' = "responded" /\ UNCHANGED answer
       \/ /\ answer["ping"].st = "err"
          /\ Exit /\ book' = "errored"
    /\ UNCHANGED <<connection, client_rx, closed, error_slot, registry, client, aborted,
                   unused>>

\* heartbeat_timeout, after HEARTBEAT_INTERVAL.
HeartbeatTimesOut ==
    /\ heartbeat = "waiting"
    /\ Exit /\ book' = "errored"
    /\ UNCHANGED <<connection, client_rx, closed, error_slot, registry, client, aborted,
                   unused>>

\* Client::shutdown sends the cancel signal and then aborts the task: the task
\* sees the signal only if it is polled between the two.
HeartbeatStops ==
    /\ aborted /\ heartbeat # "exited"
    /\ Exit /\ (book' = "shutdown" \/ UNCHANGED book)
    /\ UNCHANGED <<connection, client_rx, closed, error_slot, registry, client, aborted,
                   unused>>

-----------------------------------------------------------------------------

Next ==
    \/ PollReady \/ PollReadyFails \/ DropClient
    \/ \E r \in Request : Call(r) \/ CallerCancels(r)
    \/ HandleClientRequest \/ Sent \/ SendFails \/ ReturnResponse
    \/ TimerExpires \/ RequestCancelled \/ RequestTimesOut
    \/ \E h \in Hash : ReceiveBlock(h) \/ ReceiveTx(h)
    \/ \E missing \in {{}, handler} : ReceiveNotFound(missing)
    \/ \E new \in 1 .. MAX_ADDRS_IN_MESSAGE : ReceiveAddr(new)
    \/ ReceiveResponse \/ ReceiveRequest \/ Driven \/ FailWith
    \/ ClientClosed \/ SinkClosed \/ AbortConnection
    \/ Heartbeat \/ HeartbeatAnswered \/ HeartbeatTimesOut \/ HeartbeatStops

Spec == Init /\ [][Next]_vars

\* What is sure to happen: tokio polls its tasks and fires their timers, a send
\* and a request of the peer have timeouts, and the peer set polls its clients.
\* Nothing is assumed of the peer, of closing the sink, or of the requests'
\* turn: a message of the peer comes before the next request.
FairSpec ==
    /\ Spec
    /\ WF_vars(PollReadyFails)
    /\ WF_vars(Sent \/ SendFails)
    /\ WF_vars(ReturnResponse)
    /\ WF_vars(TimerExpires)
    /\ WF_vars(RequestCancelled \/ RequestTimesOut)
    /\ WF_vars(Driven \/ (loop = "driving" /\ FailWith))
    /\ WF_vars(AbortConnection)
    /\ WF_vars(Heartbeat)
    /\ WF_vars(HeartbeatAnswered)
    /\ WF_vars(HeartbeatTimesOut)
    /\ WF_vars(HeartbeatStops)

-----------------------------------------------------------------------------
(* Properties *)

\* No request is lost when the connection ends: once the task has exited, each
\* request that was accepted from the client or the heartbeat has an answer, even
\* one that was still in the channel, was being sent, or was called while the
\* connection was closing (Connection::shutdown and its flush of client_rx).
NoRequestIsLost ==
    loop = "exited" => \A r \in Requests : answer[r].st # "pending"

\* A successful answer to an inventory request covers what was asked for, and
\* nothing else: each hash is available or missing, not both, and one of them is
\* available (process_message, whatever the peer sends and whenever it stops).
AnswersMatchRequests ==
    \A r \in Request : IsInventory(r) /\ answer[r].st = "ok" =>
        /\ answer[r].available \cup answer[r].missing = Inventory[r]
        /\ answer[r].available \cap answer[r].missing = {}
        /\ answer[r].available # {}

\* While the peer is connected, what it failed to deliver is registered as
\* missing, so that a retry goes to another peer: hashes of partial answers, of
\* timed out and of failed requests (MissingInventoryCollector).
UndeliveredIsRegistered ==
    loop # "exited" =>
        \A r \in Request : answer[r].st \in {"ok", "err"} =>
            MissingIn(r, answer[r]) \subseteq registry

\* Whoever closes the connection leaves the reason in the error slot first: the
\* channel is never closed, and the task never exits, without one (the assertion
\* at the end of Connection::run, and the callers that read the slot).
EndHasAnError ==
    closed \/ aborted \/ loop = "exited" => error_slot # NONE

\* Every request is answered, or its caller gave up: the peer cannot hang a
\* caller by staying silent, by sending messages without end, by never reading
\* from the socket, or by keeping the connection in its closing handshake.
RequestsAreAnswered ==
    \A r \in Request : answer[r].st = "pending" ~> answer[r].st # "pending"

\* client.rs: "`tx.send()` must be called before dropping `tx`", asserted by
\* MustUseClientResponseSender::drop.
SendersAreUsed == ~unused

\* handshake.rs: "every error/shutdown must update the address book state".
ShutdownUpdatesTheBook == heartbeat = "exited" => book # "responded"
=============================================================================
