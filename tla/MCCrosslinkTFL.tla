--------------------------- MODULE MCCrosslinkTFL ---------------------------
(***************************************************************************)
(* Two nodes, of which n1 can decide alone, and trees of PoW blocks.       *)
(***************************************************************************)
EXTENDS CrosslinkTFL, TLC

CONSTANTS g, a1, a2, a3, b1, n1, n2

\* A chain of three blocks, and a fork of one.
MCBlock == {g, a1, a2, a3, b1}

MCParent == (g :> g) @@ (a1 :> g) @@ (a2 :> a1) @@ (a3 :> a2) @@ (b1 :> g)
MCHeight == (g :> 0) @@ (a1 :> 1) @@ (a2 :> 2) @@ (a3 :> 3) @@ (b1 :> 1)
MCHashRank == (g :> 0) @@ (a1 :> 1) @@ (a2 :> 2) @@ (a3 :> 3) @@ (b1 :> 4)
MCWork == [b \in Block |-> 1]

\* The fork is heavier than the chain next to it, and its tip is lower.
ForkWork == [b \in Block |-> IF b = b1 THEN 4 ELSE 1]

MCNoteTree == [b \in Block |-> 0]

MCQuorum == {{n1}, {n1, n2}}

\* A chain of five blocks, numbered by height, and 12, a heavy rival of its second
\* block, with four blocks behind it.
LongBlock == (0 .. 5) \cup (12 .. 16)
LongParent == [b \in LongBlock |-> CASE b = 0 -> 0 [] b = 12 -> 1 [] OTHER -> b - 1]
LongHeight == [b \in LongBlock |-> b % 10]
LongHashRank == [b \in LongBlock |-> b]
LongWork == [b \in LongBlock |-> IF b = 12 THEN 9 ELSE 1]
=============================================================================
