------------------------------ MODULE MCEngine ------------------------------
(* Small instances of Engine for TLC. *)
EXTENDS Engine, TLC

CONSTANTS c1, c2, k1, k2

MCCalls   == {c1, c2}
MCClosers == {k1, k2}
MCTracing == {c1}

\* No definition tells the Close calls apart.
MCSymmetry == Permutations(MCClosers)
=============================================================================
