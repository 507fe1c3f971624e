------------------------- MODULE MCWasmtimeHostCalls -------------------------
(* Small instances of WasmtimeHostCalls for TLC. *)
EXTENDS WasmtimeHostCalls

CONSTANTS f1, f2

MCFiles == {f1, f2}

\* 1 and 3 bytes take one group of base64, 4 bytes two, and 7 exceed one import.
MCSizes == {1, 3, 4, 7}

\* A response buffer of the full size, and one too small for any file.
MCCapacities == {4, 6}
=============================================================================
