---------------------------- MODULE MCStateQueue ----------------------------
(***************************************************************************)
(* StateQueue for TLC: two checkpoint blocks, then two forks.              *)
(*                                                                         *)
(*      g - k1 - k2 - a3 - a4                                              *)
(*                 \\ b3 - b4 - b5                                         *)
(***************************************************************************)
EXTENDS StateQueue

MCParent ==
    [b \in Block |-> CASE b \in {"g", "k1"} -> "g" [] b = "k2" -> "k1"
                       [] b \in {"a3", "b3"} -> "k2" [] b = "a4" -> "a3"
                       [] b = "b4" -> "b3" [] b = "b5" -> "b4"]
MCHeight ==
    [b \in Block |-> CASE b = "g" -> 0 [] b = "k1" -> 1 [] b = "k2" -> 2
                       [] b \in {"a3", "b3"} -> 3 [] b \in {"a4", "b4"} -> 4 [] b = "b5" -> 5]
MCMaxRequests == [b \in Block |-> IF b \in {"k1", "k2", "b4"} THEN 2 ELSE 1]
=============================================================================
