---------------------------- MODULE MCCondvarGate ----------------------------
(* A small instance of CondvarGate for TLC. *)
EXTENDS CondvarGate

CONSTANTS c1, c2, c3, c4

MCCalls == {c1, c2, c3, c4}
=============================================================================
