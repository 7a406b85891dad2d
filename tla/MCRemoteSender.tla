--------------------------- MODULE MCRemoteSender ---------------------------
(* Bounded instances of RemoteSender for TLC.                              *)
EXTENDS RemoteSender

=============================================================================
