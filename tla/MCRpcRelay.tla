----------------------------- MODULE MCRpcRelay -----------------------------
(* Instances of RpcRelay for TLC. *)
EXTENDS RpcRelay, TLC

CONSTANTS r1, r2, d1, x1, i1, i2, m1, m2, m3

\* Instances and frames are interchangeable.
Symmetry == Permutations(Instances) \cup Permutations(Results)
=============================================================================
