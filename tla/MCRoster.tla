------------------------------ MODULE MCRoster ------------------------------
(***************************************************************************)
(* Two replicas whose configurations list the same peers in another order, *)
(* and one finalizer that joins later.                                     *)
(***************************************************************************)
EXTENDS Roster

CONSTANTS ka, kb, kc, p1, p2

MCKey == {ka, kb, kc}
MCKeyRank == [k \in MCKey |-> CASE k = ka -> 1 [] k = kb -> 2 [] OTHER -> 3]
MCReplica == {p1, p2}
MCPeers == [p \in MCReplica |-> IF p = p1 THEN <<ka, kb>> ELSE <<kb, ka>>]
MCValues == {0, 1, 2}
LargeValues == {U64 - 1}
=============================================================================
