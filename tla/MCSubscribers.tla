---------------------------- MODULE MCSubscribers ----------------------------
(* A small instance of Subscribers for TLC. *)
EXTENDS Subscribers, TLC

Symmetry == Permutations(Emitters)
=============================================================================
