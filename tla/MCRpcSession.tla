---------------------------- MODULE MCRpcSession ----------------------------
(* Finite instances of RpcSession. *)
EXTENDS RpcSession, TLC

CallerSymmetry == Permutations(Callers)
=============================================================================
