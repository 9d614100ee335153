-------------------------- MODULE MCServerRequests --------------------------
(* Finite instance of ServerRequests for TLC. *)
EXTENDS ServerRequests, TLC

RequestBounds == <<2, 1>>
Symmetry == Permutations(Responders) \cup Permutations(Threads)
=============================================================================
