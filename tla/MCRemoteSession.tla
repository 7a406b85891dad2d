--------------------------- MODULE MCRemoteSession ---------------------------
(* A bounded instance of RemoteSession for TLC: a number, and a name, for  *)
(* every message the sender may make.                                      *)
EXTENDS RemoteSession

MCSeqs == 1 .. MaxMade
MCMsgs == 1 .. MaxMade

=============================================================================
