-------------------------- MODULE MCBatchVerifier ---------------------------
(***************************************************************************)
(* BatchVerifier for TLC: four requests, one of them invalid and one of    *)
(* double weight, so that batches are filled, over-filled and timed out.   *)
(***************************************************************************)
EXTENDS BatchVerifier

MCWeight == [r \in Request |-> IF r = "r4" THEN 2 ELSE 1]
=============================================================================
