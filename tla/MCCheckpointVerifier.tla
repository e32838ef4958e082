------------------------ MODULE MCCheckpointVerifier ------------------------
\* The checkpoints are g and a2; b1 and c1 are on side chains.
EXTENDS CheckpointVerifier

MCBlock == {"g", "a1", "b1", "c1", "a2"}
MCParent == [b \in MCBlock |-> CASE b = "g" -> NONE [] b \in {"a1", "b1", "c1"} -> "g"
                                 [] b = "a2" -> "a1"]
MCHeight == [b \in MCBlock |-> CASE b = "g" -> 0 [] b \in {"a1", "b1", "c1"} -> 1
                                 [] b = "a2" -> 2]
MCCheckpoint == [h \in {0, 2} |-> IF h = 0 THEN "g" ELSE "a2"]

\* a1x has data for a1 that the state refuses.  The syncer asks for a2 with two
\* requests in turn, as the task of one may still be in the state.
MCOf == [r \in Request |-> CASE r = "a1x" -> "a1" [] r = "a2r" -> "a2" [] OTHER -> r]
=============================================================================
