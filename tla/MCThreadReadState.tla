------------------------- MODULE MCThreadReadState -------------------------
(* Two threads and two clients: an operation on one thread can overwrite the *)
(* mark of the other.                                                        *)
EXTENDS ThreadReadState, TLC

CONSTANTS t1, t2, c1, c2
MCSymmetry == Permutations(Threads) \cup Permutations(Clients)
============================================================================
