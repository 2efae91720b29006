---------------------------- MODULE MCProductImages ----------------------------
(* Small instances of ProductImages for TLC. *)
EXTENDS ProductImages, TLC

Symmetric == Permutations(Handlers) \cup Permutations(Files)
=============================================================================
