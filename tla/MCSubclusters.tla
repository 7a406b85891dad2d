---------------------------- MODULE MCSubclusters ----------------------------
(* Bounded instances of Subclusters; the bounds are given by the .cfg.     *)
EXTENDS Subclusters
=============================================================================
