--------------------------- MODULE FinalityQueries ---------------------------
(***************************************************************************)
(* What a node answers about finality: tfl_block_finality_from_height_hash *)
(* and TxFinalityStatus in zebra-crosslink/src/lib.rs, and the calls in    *)
(* zebra-rpc/src/methods.rs that wait until a block or a transaction       *)
(* becomes final, notify_tfl_{block,tx}_becomes_final_by_hash.             *)
(*                                                                         *)
(* A call reads the PoW state and the TFL state in turn, and both may      *)
(* change between the reads.  A call that asks once is a call that waits   *)
(* and is answered in its first round.                                     *)
(***************************************************************************)
EXTENDS CrosslinkTFL

CONSTANTS
    TxBlocks        \* the blocks, of different forks, that contain a transaction

ASSUME QueriesAssumption == TxBlocks \subseteq Block \ {Genesis}

VARIABLES query     \* the call in progress at each node

queryVars == <<vars, query>>

Statuses == {"NotYetFinalized", "Finalized", "CantBeFinalized", "None"}

NoQuery ==
    [step |-> "none", kind |-> "block", block |-> NONE, final |-> NONE, seen |-> 0,
     answer |-> "None"]

QueriesTypeOK ==
    /\ TypeOK
    /\ query \in [Node -> [step : {"none", "lookup", "final", "compare", "wait", "done"},
                           kind : {"block", "tx"}, block : Block \cup {NONE},
                           final : Block \cup {NONE}, seen : Nat, answer : Statuses]]
    /\ \A n \in Node : query[n].step \in {"final", "compare", "wait"} => query[n].block # NONE

QueriesInit == Init /\ query = [n \in Node |-> NoQuery]

-----------------------------------------------------------------------------
Answer(n, status) == query' = [query EXCEPT ![n].step = "done", ![n].answer = status]

\* FinalBlockRx: subscribe to final_change_tx, before the first look.
Subscribe(n, kind, b) ==
    /\ n \notin panicked /\ ~deciding[n] /\ query[n].step = "none"
    /\ kind = "tx" <=> b = NONE
    /\ query' = [query EXCEPT ![n] = [NoQuery EXCEPT !.step = "lookup", !.kind = kind,
                                        !.block = b, !.seen = Len(final_changes[n])]]
    /\ UNCHANGED vars

\* Read the height of the block, or of the block of the best chain that contains
\* the transaction.
Lookup(n) ==
    LET wanted == IF query[n].kind = "tx" THEN TxBlocks ELSE {query[n].block}
    IN  /\ n \notin panicked /\ query[n].step = "lookup"
        /\ \E found \in {wanted \cap MainChain(n)} :
            IF found = {} THEN Answer(n, "None")
            ELSE \E b \in found :
                    query' = [query EXCEPT ![n].step = "final", ![n].block = b]
        /\ UNCHANGED vars

\* tfl_reorg_final_block_height_hash: the end of the block locator.
ReorgFinalBlock(main) ==
    LET depth == Height[Tip(main)] - MAX_BLOCK_REORG_HEIGHT
    IN  HashByHeight(main, IF depth < 0 THEN 0 ELSE depth)

\* tfl_final_block_height_hash.
FinalBlock(n, main) ==
    IF latest_final_block[n] # NONE THEN latest_final_block[n] ELSE ReorgFinalBlock(main)

\* What the final block says about a block at or above its height, and about
\* any transaction.
StatusAt(kind, b, final) ==
    IF Height[b] > Height[final] THEN "NotYetFinalized"
    ELSE IF kind = "tx" \/ b = final THEN "Finalized"
    ELSE "CantBeFinalized"

\* Go on from a status: wait for the next final block, or answer.
Conclude(n, b, final) ==
    LET q == query[n]
        status == StatusAt(q.kind, b, final)
    IN  CASE status = "NotYetFinalized" ->
                query' = [query EXCEPT ![n].step = "wait", ![n].final = final]
          [] q.kind = "block" /\ Height[b] < Height[final] ->
                query' = [query EXCEPT ![n].step = "compare", ![n].final = final]
          [] OTHER -> Answer(n, status)

\* Mutant: the final block is read without the mutex.
ReadFinalUnlocked(n) ==
    /\ n \notin panicked /\ query[n].step = "final"
    /\ \E main \in {MainChain(n)} : Conclude(n, query[n].block, FinalBlock(n, main))
    /\ UNCHANGED vars

\* Read the final block, under the mutex.
ReadFinal(n) ==
    /\ n \notin panicked /\ ~deciding[n] /\ query[n].step = "final"
    /\ \E main \in {MainChain(n)} : Conclude(n, query[n].block, FinalBlock(n, main))
    /\ UNCHANGED vars

\* Below the final height: read the block of the best chain at this height.
Compare(n) ==
    /\ n \notin panicked /\ query[n].step = "compare"
    /\ \E main \in {MainChain(n)} :
        LET b == query[n].block
        IN  Answer(n, CASE Height[b] > Height[Tip(main)] -> "None"
                        [] b \in main                    -> "Finalized"
                        [] OTHER                         -> "CantBeFinalized")
    /\ UNCHANGED vars

\* Mutant: the call subscribes when it starts to wait.
RecvSubscribesLate(n) ==
    /\ n \notin panicked
    /\ \/ /\ query[n].step = "wait"
          /\ query' = [query EXCEPT ![n].step = "late", ![n].seen = Len(final_changes[n])]
       \/ /\ query[n].step = "late" /\ query[n].seen < Len(final_changes[n])
          /\ query' = [query EXCEPT ![n].step = "lookup", ![n].seen = @ + 1]
    /\ UNCHANGED vars

\* rx.recv(): a final block was sent; look again.
Recv(n) ==
    /\ n \notin panicked /\ query[n].step = "wait"
    /\ query[n].seen < Len(final_changes[n])
    /\ query' = [query EXCEPT ![n].step = "lookup", ![n].seen = @ + 1]
    /\ UNCHANGED vars

QuerySteps(n) == Lookup(n) \/ ReadFinal(n) \/ Compare(n) \/ Recv(n)

QueriesNext ==
    \/ Next /\ UNCHANGED query
    \/ \E n \in Node :
        \/ \E b \in Block : Subscribe(n, "block", b)
        \/ Subscribe(n, "tx", NONE)
        \/ QuerySteps(n)

QueriesSpec == QueriesInit /\ [][QueriesNext]_queryVars

\* A call that is not waiting for a message goes on.
QueriesFairSpec == QueriesSpec /\ Fairness /\ \A n \in Node : WF_queryVars(QuerySteps(n))

-----------------------------------------------------------------------------
Answered(n, kind, status) ==
    query[n].step = "done" /\ query[n].kind = kind /\ query[n].answer = status

\* A block reported as finalized is in the database, and one reported as never
\* to be finalized has lost its height to another block: no later answer can
\* contradict the first, although the reads behind it are not atomic
\* (tfl_block_finality_from_height_hash).
AnswersAreFinal ==
    QueriesTypeOK /\ \A n \in Node :
        /\ Answered(n, "block", "Finalized") => query[n].block \in finalized[n]
        /\ Answered(n, "block", "CantBeFinalized") =>
                \E x \in finalized[n] \ {query[n].block} : Height[x] = Height[query[n].block]

\* A call that waits for a block is answered once the block is final: no
\* message is missed between the look and the wait
\* (notify_tfl_block_becomes_final_by_hash).
NotifyIsAnswered ==
    \A n \in Node :
        (query[n].step # "none" /\ query[n].block \in finalized[n]) ~> (query[n].step = "done")

\* A transaction is only reported as finalized if it is in a final block: "The
\* block is finalized: it's height is below the finalized height and it is in the
\* best chain" (zebra-state/src/crosslink.rs:17).
FinalizedTxIsInChain ==
    \A n \in Node : Answered(n, "tx", "Finalized") => query[n].block \in finalized[n]

\* A call that waits for a block is "easiest to trigger by manually calling the
\* set_tfl_finality_by_hash method from another terminal for the block hash
\* passed here" (zebra-rpc/src/methods.rs:462).
SetFinalityTriggers ==
    \A n \in Node :
        (query[n].step # "none" /\ query[n].block # NONE /\ query[n].block = latest_final_block[n])
            ~> (query[n].step = "done" \/ query[n].block # latest_final_block[n])
=============================================================================
