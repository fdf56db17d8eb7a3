--------------------------- MODULE MCPeerEndpoint ---------------------------
(***************************************************************************)
(* PeerEndpoint with the old and the new address of a peer.                *)
(***************************************************************************)
EXTENDS PeerEndpoint
=============================================================================
