-------------------------- MODULE MCPeerConnection --------------------------
(* A block request for two hashes, a transaction request for one, and a      *)
(* request for addresses.  A find request is answered as the heartbeat's     *)
(* ping is, by one message; a push ends when it is sent.                     *)
EXTENDS PeerConnection

MCKind == [b |-> "blocks", t |-> "transactions", a |-> "peers"]
MCKindOf == [r \in Request |-> MCKind[r]]
MCInventory == [r \in Request |->
    CASE MCKind[r] = "blocks" -> {"h1", "h2"}
      [] MCKind[r] = "transactions" -> {"h1"}
      [] OTHER -> {}]
=============================================================================
