----------------------------- MODULE MCReferences -----------------------------
(* Bounded instances of References for TLC.                                *)
EXTENDS References

=============================================================================
