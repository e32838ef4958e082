-------------------------- MODULE MCFinalityQueries --------------------------
(***************************************************************************)
(* One node that decides alone, two chains of PoW blocks, and a            *)
(* transaction that is in the lowest block of one of them.                 *)
(***************************************************************************)
EXTENDS FinalityQueries, TLC

CONSTANTS g, a1, a2, a3, b1, b2, n1

MCBlock == {g, a1, a2, a3, b1, b2}
MCParent == (g :> g) @@ (a1 :> g) @@ (a2 :> a1) @@ (a3 :> a2) @@ (b1 :> g) @@ (b2 :> b1)
MCHeight == (g :> 0) @@ (a1 :> 1) @@ (a2 :> 2) @@ (a3 :> 3) @@ (b1 :> 1) @@ (b2 :> 2)
MCWork == [b \in Block |-> IF b = b2 THEN 2 ELSE 1]
MCHashRank == (g :> 0) @@ (a1 :> 1) @@ (a2 :> 2) @@ (a3 :> 3) @@ (b1 :> 4) @@ (b2 :> 5)
MCNoteTree == [b \in Block |-> 0]

MCQuorum == {{n1}}
=============================================================================
