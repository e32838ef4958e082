------------------------------ MODULE MCSyncer ------------------------------
(***************************************************************************)
(* A chain of six blocks above genesis with a checkpoint at height 3, and  *)
(* a peer on a fork from height 1, below the checkpoint.                   *)
(***************************************************************************)
EXTENDS Syncer

MCBlock == 0 .. 6 \cup {12, 13}
MCParent == [b \in Block |-> CASE b = 0 -> 0 [] b = 12 -> 1 [] OTHER -> b - 1]
MCHeight == [b \in Block |-> b % 10]

MCBestPeer == <<1, 2, 3, 4, 5, 6>>
MCPeerChain == {MCBestPeer, <<1, 12, 13>>}
=============================================================================
