-------------------------- MODULE MCDeviceSessions --------------------------
(* Instances of DeviceSessions for TLC. *)
EXTENDS DeviceSessions, TLC

CONSTANTS c1, c2, i1, i2, w1, p1, p2

\* Sound in the run without a liveness property: the sockets of one device, the
\* instances and the projects are interchangeable.
Symmetry ==
    Permutations(Connections) \cup Permutations(Instances) \cup Permutations({p1, p2})
=============================================================================
