------------------------- MODULE NonFinalizedState --------------------------
(***************************************************************************)
(* zebra-state/src/service/non_finalized_state.rs: the set of chain forks  *)
(* in memory, as operators from the old chain set to the new one.          *)
(*                                                                         *)
(* `chain_set` is a BTreeSet ordered by Chain::cmp.  Here it is the set of *)
(* its chains, and its order is the relation Better.  An operation that    *)
(* picks "the first chain, best first" that satisfies a predicate is       *)
(* written with IsBest over the chains that satisfy it.                    *)
(***************************************************************************)
EXTENDS Chain

CONSTANTS MAX_NON_FINALIZED_CHAIN_FORKS

ASSUME ForksAssumption == MAX_NON_FINALIZED_CHAIN_FORKS \in Nat \ {0}

-----------------------------------------------------------------------------
\* chain_iter().next() among the chains in cs: the one above all the others.
IsBest(c, cs) == c \in cs /\ \A d \in cs \ {c} : Better(c, d)

BestChain(cs) == IF cs = {} THEN {} ELSE CHOOSE c \in cs : IsBest(c, cs)

\* Reads of a chain main, which joins the best chain with the database: its tip, and
\* its block at a height.
Tip(main) == NonFinalizedTip(main)

HashByHeight(main, h) == CHOOSE b \in main : Height[b] = h

\* find_chain: the chains that contain a block, or have it as their tip.
ChainsContaining(cs, b) == {c \in cs : b \in c}

ChainsWithTip(cs, b) == {c \in cs : c # {} /\ NonFinalizedTip(c) = b}

\* Keep the best MAX_NON_FINALIZED_CHAIN_FORKS chains: pop_first while there
\* are more.
LimitForks(cs) ==
    {c \in cs : Cardinality({d \in cs : Better(d, c)}) < MAX_NON_FINALIZED_CHAIN_FORKS}

\* BTreeSet::insert compares the new chain with the one it equals, if any.
InsertPanics(cs, c) == \E d \in cs : ComparesEqual(c, d)

\* insert_with, with the filter that commit_block and reconsider_block use:
\* drop the chain whose tip was the parent.
InsertAbove(cs, c, parent) ==
    LimitForks((cs \cup {c}) \ ChainsWithTip(cs, parent))

\* Mutant: the filter drops only the best of the chains that contain the block.
InsertWithoutBest(cs, c, b) ==
    LimitForks({d \in cs \cup {c} : ~IsBest(d, ChainsContaining(cs, b))})

\* insert_with, with the filter that invalidate_block uses.
InsertWithout(cs, c, b) == LimitForks({d \in cs \cup {c} : b \notin d})

\* parent_chain: c ends in the parent, either as an existing chain or as a
\* fork of the best chain that contains the parent.
IsParentChain(c, cs, parent) ==
    IF ChainsWithTip(cs, parent) # {}
    THEN IsBest(c, ChainsWithTip(cs, parent))
    ELSE \E d \in cs : /\ IsBest(d, ChainsContaining(cs, parent))
                       /\ c = Fork(d, parent)

\* Mutant: side chains with another root are kept as they are.
FinalizeChainsKeepAll(cs, best) ==
    LET root == NonFinalizedRoot(best)
    IN  ({PopRoot(best)} \ {{}})
        \cup {PopRoot(d) : d \in {s \in cs \ {best} : NonFinalizedRoot(s) = root}}
        \cup {s \in cs \ {best} : NonFinalizedRoot(s) # root}

\* finalize(): pop the root of the best chain, keep the side chains that have
\* the same root, without it.  A side chain is put back even when popping its
\* root empties it; the best chain is not.
FinalizeChains(cs, best) ==
    LET root == NonFinalizedRoot(best)
    IN  ({PopRoot(best)} \ {{}})
        \cup {PopRoot(d) : d \in {s \in cs \ {best} : NonFinalizedRoot(s) = root}}

\* Mutant: every chain survives.
CrosslinkFinalizeKeepsAll(cs, b) == cs

\* crosslink_finalize(): only the chains that contain the block survive.
CrosslinkFinalizeChains(cs, b) == ChainsContaining(cs, b)
=============================================================================
