---------------------------- MODULE MCEventStream ----------------------------
(* Finite instances of EventStream for TLC. *)
EXTENDS EventStream, TLC

Symmetry == Permutations(Clients)
=============================================================================
