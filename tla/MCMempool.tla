----------------------------- MODULE MCMempool -----------------------------
(* g - a1, with P mined in a1, and g - e1 - e2, where e2 spends the coin of P. *)
EXTENDS Mempool

MCSpends == [t \in Tx |-> CASE t = "P" -> {"u1"} [] t = "C" -> {"P", "u2"}
                            [] t = "X" -> {"u2"}]
MCCost == [t \in Tx |-> IF t = "X" THEN 2 ELSE 1]
MCParent == [b \in Block \ {"g"} |-> IF b = "e2" THEN "e1" ELSE "g"]
MCBlockSpends == [b \in Block |-> IF b = "e2" THEN {"u1"} ELSE {}]
MCMined == [b \in Block |-> IF b = "a1" THEN {"P"} ELSE {}]
MCNextTip == [b \in Block |->
    CASE b = "g" -> {"a1", "e1"} [] b \in {"a1", "e1"} -> {"e2"} [] b = "e2" -> {}]
\* As above, and the best chain changes between blocks of the same height.
MCNextTipTie == [MCNextTip EXCEPT !["a1"] = {"e1", "e2"}]
MCExpiry == [t \in Tx |-> IF t = "X" THEN 1 ELSE 9]
\* A transaction and the one it depends on expire at the same height.
MCExpiryTogether == [t \in Tx |-> 1]
=============================================================================
