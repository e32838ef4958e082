------------------------------- MODULE Chain -------------------------------
(***************************************************************************)
(* zebra-state/src/service/non_finalized_state/chain.rs: one fork of the   *)
(* non-finalized part of the block chain.                                  *)
(*                                                                         *)
(* `Chain.blocks` is a BTreeMap from heights to blocks in which the block  *)
(* stored at a height has that height.  It is modelled by the set of its   *)
(* blocks; the heights of the blocks are the keys.  The transactions,      *)
(* nullifiers, UTXOs and anchors a chain accumulates are functions of its  *)
(* blocks, and stand behind ContextuallyInvalid (module BlockWriter).      *)
(*                                                                         *)
(* The constants describe every proof-of-work block that can arrive: its   *)
(* previous block, its height, its work, the rank of its hash in the byte  *)
(* order of hashes, and the size of the note commitment tree after it.     *)
(***************************************************************************)
EXTENDS Integers, FiniteSets, FiniteSetsExt

CONSTANTS Block, Genesis, Parent, Height, Work, HashRank, NoteTree

ASSUME TreeAssumption ==
    /\ Genesis \in Block
    /\ Parent \in [Block -> Block]
    /\ Height \in [Block -> Nat]
    /\ Height[Genesis] = 0
    /\ \A b \in Block \ {Genesis} : Height[b] = Height[Parent[b]] + 1

ASSUME WorkAssumption ==
    /\ Work \in [Block -> Nat \ {0}]
    /\ HashRank \in [Block -> Nat]
    /\ \A a, b \in Block : HashRank[a] = HashRank[b] => a = b

\* Note commitment trees are append-only, so their size only grows.
ASSUME NoteTreeAssumption ==
    /\ NoteTree \in [Block -> Nat]
    /\ \A b \in Block : NoteTree[Parent[b]] <= NoteTree[b]

-----------------------------------------------------------------------------
\* The lowest block of a chain: the first entry of `blocks`.
NonFinalizedRoot(c) == CHOOSE b \in c : \A x \in c : Height[b] <= Height[x]

\* The highest block of a chain: the last entry of `blocks`.
NonFinalizedTip(c) == CHOOSE b \in c : \A x \in c : Height[x] <= Height[b]

\* Add a block on top of the chain.
Push(c, b) == c \cup {b}

\* Remove the lowest block.
PopRoot(c) == c \ {NonFinalizedRoot(c)}

\* The blocks up to and including the fork point.
Fork(c, b) == {x \in c : Height[x] <= Height[b]}

\* The block b of the chain and every block above it.
ChildBlocks(c, b) == {x \in c : Height[x] >= Height[b]}

\* The chain without b and its descendants: fork at b, then pop the tip.
InvalidateInChain(c, b) == Fork(c, b) \ {b}

\* The work of the non-finalized part of the chain.
PartialCumulativeWork(c) == MapThenSumSet(LAMBDA b : Work[b], c)

\* Chain::cmp = Greater: more work, or equal work and the greater tip hash.
Better(c, d) ==
    \/ PartialCumulativeWork(c) > PartialCumulativeWork(d)
    \/ /\ PartialCumulativeWork(c) = PartialCumulativeWork(d)
       /\ c # {} /\ d # {}
       /\ HashRank[NonFinalizedTip(c)] > HashRank[NonFinalizedTip(d)]

\* Chain::cmp reaches unreachable!(): equal work and equal tips.  Two empty
\* chains have no tip to compare and panic in the same place.
ComparesEqual(c, d) ==
    /\ PartialCumulativeWork(c) = PartialCumulativeWork(d)
    /\ \/ c = {} \/ d = {}
       \/ NonFinalizedTip(c) = NonFinalizedTip(d)

-----------------------------------------------------------------------------
\* A run of blocks with one block for each height from just above t, each the
\* child of the one below it, the lowest the child of t.
ExtendsBlock(c, t) ==
    /\ \A b \in c : Height[b] > Height[t] /\ Parent[b] \in c \cup {t}
    /\ \A a, b \in c : Height[a] = Height[b] => a = b
=============================================================================
