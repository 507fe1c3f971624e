---------------------------- MODULE MCInvocation ----------------------------
(* A small instance of Invocation for TLC. *)
EXTENDS Invocation, TLC

CONSTANTS f1, f2, k1, k2, k3, k4, empty, unsafe

MCFiles      == {f1, f2}
MCSizes      == {1, 4}
MCKeys       == {k1, k2, k3, k4, empty, unsafe}
MCCapacities == {10}
MCPathless   == {empty}
MCUnsafe     == {unsafe}
MCSymmetry   == Permutations(MCFiles) \cup Permutations({k1, k2, k3, k4})
=============================================================================
