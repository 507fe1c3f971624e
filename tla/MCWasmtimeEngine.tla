--------------------------- MODULE MCWasmtimeEngine ---------------------------
(* Small instances of WasmtimeEngine for TLC. *)
EXTENDS WasmtimeEngine

CONSTANTS c1, c2

MCCalls == {c1, c2}

\* One timeout shorter than a tick, one that is not a number of ticks.
MCTimeouts == {1, 3}
=============================================================================
