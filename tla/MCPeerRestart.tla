----------------------------- MODULE MCPeerRestart -----------------------------
(* Bounded instances of PeerRestart; the bounds are given by the .cfg.     *)
EXTENDS PeerRestart
=============================================================================
