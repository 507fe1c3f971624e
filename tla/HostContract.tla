----------------------------- MODULE HostContract -----------------------------
(***************************************************************************)
(* What a host of the guest ABI promises one evaluation, whichever host it *)
(* is: a handler is called only for a request the budget has been charged  *)
(* for; a content is served only if its handler answered in time, and then *)
(* it is charged and listed; and of all the failures the guest is told of, *)
(* the first is kept.                                                      *)
(***************************************************************************)
EXTENDS Naturals

CONSTANTS
    Files, Failures,
    MaxImports, MaxCapabilityCalls, MaxImportBytes, MaxTotalImportBytes

VARIABLES
    imports,   \* import requests charged
    natives,   \* native calls charged
    bytes,     \* bytes of content charged
    listed,    \* the files the evaluation will list
    failure,   \* the first failure, or "none"
    waiting,   \* the handler running: "none", "import" or "capability"
    told,      \* what the guest was last told: "none", "served" or "failed"
    late       \* whether the evaluation's time is over

vars == <<imports, natives, bytes, listed, failure, waiting, told, late>>

Init ==
    /\ imports = 0
    /\ natives = 0
    /\ bytes = 0
    /\ listed = {}
    /\ failure = "none"
    /\ waiting = "none"
    /\ told = "none"
    /\ late = FALSE

\* One request is charged.
ChargeImport == imports < MaxImports /\ imports' = imports + 1 /\ UNCHANGED natives
ChargeNative == natives < MaxCapabilityCalls /\ natives' = natives + 1 /\ UNCHANGED imports

\* The guest is told of failure e.
Tell(e) == told' = "failed" /\ failure' = IF failure = "none" THEN e ELSE failure

\* A content of n bytes is charged.
ChargeBytes ==
    \E n \in 0..MaxImportBytes : bytes + n <= MaxTotalImportBytes /\ bytes' = bytes + n

\* A request is refused without its handler, before or after it is charged.
Refuse ==
    /\ waiting = "none"
    /\ ChargeImport \/ ChargeNative \/ UNCHANGED <<imports, natives>>
    /\ \E e \in Failures : Tell(e)
    /\ UNCHANGED <<bytes, listed, waiting, late>>

CallHandler ==
    /\ waiting = "none"
    /\ \/ ChargeImport /\ waiting' = "import"
       \/ ChargeNative /\ waiting' = "capability"
    /\ told' = "none"
    /\ UNCHANGED <<bytes, listed, failure, late>>

ServeImport ==
    /\ waiting = "import"
    /\ ~late
    /\ ChargeBytes
    /\ \E file \in Files : listed' = listed \cup {file}
    /\ waiting' = "none"
    /\ told' = "served"
    /\ UNCHANGED <<imports, natives, failure, late>>

ServeNative ==
    /\ waiting = "capability"
    /\ ~late
    /\ waiting' = "none"
    /\ told' = "served"
    /\ UNCHANGED <<imports, natives, bytes, listed, failure, late>>

\* The handler fails, or what it returned is refused: by then a content may have
\* been charged, and its file listed.
Fail ==
    /\ waiting # "none"
    /\ \/ UNCHANGED <<bytes, listed>>
       \/ /\ waiting = "import"
          /\ ~late
          /\ ChargeBytes
          /\ listed' = listed \/ \E file \in Files : listed' = listed \cup {file}
    /\ \E e \in Failures : Tell(e)
    /\ waiting' = "none"
    /\ UNCHANGED <<imports, natives, late>>

TimeOver ==
    /\ late' = TRUE
    /\ UNCHANGED <<imports, natives, bytes, listed, failure, waiting, told>>

Next == Refuse \/ CallHandler \/ ServeImport \/ ServeNative \/ Fail \/ TimeOver

Spec == Init /\ [][Next]_vars
=============================================================================
