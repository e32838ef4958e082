--------------------------- MODULE MCBlockWriter ---------------------------
(***************************************************************************)
(* BlockWriter for TLC: a block tree with a checkpoint, four forks and a   *)
(* contextually invalid block.                                             *)
(*                                                                         *)
(*    g - k1 - c2 - a3 - a4                                                *)
(*          |         \- b4 - b5                                           *)
(*          |- d2 - x3                                                     *)
(*           \- e2                                                         *)
(***************************************************************************)
EXTENDS BlockWriter

MCBlock == {"g", "k1", "c2", "a3", "a4", "b4", "b5", "x3", "d2", "e2"}

MCParent ==
    [b \in MCBlock |->
        CASE b \in {"g", "k1"} -> "g"
          [] b \in {"c2", "d2", "e2"} -> "k1"
          [] b = "a3" -> "c2"
          [] b \in {"a4", "b4"} -> "a3"
          [] b = "b5" -> "b4"
          [] b = "x3" -> "d2"]

MCHeight ==
    [b \in MCBlock |->
        CASE b = "g" -> 0
          [] b = "k1" -> 1
          [] b \in {"c2", "d2", "e2"} -> 2
          [] b \in {"a3", "x3"} -> 3
          [] b \in {"a4", "b4"} -> 4
          [] b = "b5" -> 5]

\* d2 outweighs every chain up to b4, and loses to the one up to b5.
MCWork == [b \in MCBlock |-> CASE b = "d2" -> 7 [] b = "e2" -> 3 [] OTHER -> 2]

MCHashRank ==
    [b \in MCBlock |->
        CASE b = "g" -> 0 [] b = "k1" -> 1 [] b = "c2" -> 2 [] b = "a3" -> 3
          [] b = "a4" -> 4 [] b = "b4" -> 5 [] b = "b5" -> 6 [] b = "x3" -> 7
          [] b = "d2" -> 8 [] b = "e2" -> 9]

\* Notes are added by k1, c2, d2 and a4 only.
MCNoteTree ==
    [b \in MCBlock |->
        CASE b = "g" -> 0
          [] b \in {"k1", "e2"} -> 1
          [] b \in {"c2", "a3", "b4", "b5", "x3", "d2"} -> 2
          [] b = "a4" -> 3]
=============================================================================
