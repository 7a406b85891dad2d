------------------------------ MODULE MCTransport ------------------------------
(* Bounded instances of Transport; the bounds are given by the .cfg.       *)
EXTENDS Transport
=============================================================================
