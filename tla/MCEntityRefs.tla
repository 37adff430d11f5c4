---------------------------- MODULE MCEntityRefs ----------------------------
(* A small instance of EntityRefs for TLC. *)
EXTENDS EntityRefs, TLC

Symmetry == Permutations(Entities) \cup Permutations(Handles)
=============================================================================
