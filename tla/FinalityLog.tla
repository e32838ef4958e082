---------------------------- MODULE FinalityLog -----------------------------
(***************************************************************************)
(* What finality promises, without saying how it is reached: every replica *)
(* keeps a set of final blocks that only grows, all replicas together keep *)
(* one chain, and a replica confirms a block only when it has stored it.   *)
(*                                                                         *)
(* BlockWriter implements it as a single replica that crashes, CrosslinkTFL *)
(* as one replica per node.                                                *)
(***************************************************************************)
CONSTANTS Block, Genesis, Parent, Replica

VARIABLES
    store,      \* the final blocks of each replica
    confirmed   \* the blocks each replica has confirmed to be final

\* A set of blocks with every parent, in which no two blocks share one.
IsOneChain(bs) ==
    /\ Genesis \in bs
    /\ \A b \in bs \ {Genesis} : Parent[b] \in bs
    /\ \A a, b \in bs \ {Genesis} : Parent[a] = Parent[b] => a = b

Init ==
    /\ store = [r \in Replica |-> {Genesis}]
    /\ confirmed = [r \in Replica |-> {}]

\* A replica stores blocks, confirms blocks, or both.
Advance(r) ==
    /\ store[r] \subseteq store'[r] /\ confirmed[r] \subseteq confirmed'[r]
    /\ confirmed'[r] \subseteq store'[r]
    /\ \A q \in Replica \ {r} : store'[q] = store[q] /\ confirmed'[q] = confirmed[q]
    /\ IsOneChain(UNION {store'[q] : q \in Replica})

Next == \E r \in Replica : Advance(r)

Spec == Init /\ [][Next]_<<store, confirmed>>
=============================================================================
