-------------------------- MODULE MCRemoteReceiver --------------------------
(* A bounded instance of RemoteReceiver for TLC: the peer uses the numbers *)
(* 1 to MaxSeq.                                                            *)
EXTENDS RemoteReceiver

CONSTANT MaxSeq

MCSeqs == 1 .. MaxSeq

=============================================================================
