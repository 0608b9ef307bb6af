-------------------------- MODULE MCInFlightSlots --------------------------
(* Instances of InFlightSlots for TLC. *)
EXTENDS InFlightSlots, TLC

CONSTANTS d1, d2, r1, r2, r3

Symmetry == Permutations(Devices) \cup Permutations(Calls)
=============================================================================
