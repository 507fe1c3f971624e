------------------------------ MODULE Invocation ------------------------------
(***************************************************************************)
(* One evaluation on both sides of the ABI: the embedded guest's bridge    *)
(* (cmd/sonnetbox-guest, hostBridge and evaluate) making host calls of     *)
(* HostCalls, and the end of the engine's evaluate, which turns the        *)
(* guest's status and the host's first error into the caller's result.     *)
(*                                                                         *)
(* The Jsonnet evaluator is external: while it runs it imports, calls      *)
(* native functions, fails or produces output, and it stops at the first   *)
(* error an import or a native function gives it.                          *)
(***************************************************************************)
EXTENDS HostCalls, FiniteSets

CONSTANTS
    Keys,          \* the imports a program makes: an importing file and a path
    PathlessKeys,  \* the keys whose path is empty
    UnsafeKeys     \* the keys whose path validateImportPath refuses

ASSUME KeysAssumption == PathlessKeys \cup UnsafeKeys \subseteq Keys /\ "none" \notin Keys
ASSUME BufferAssumption == MaxHostResponseBytes \in Capacities

VARIABLES
    guest,       \* where the guest is
    asking,      \* the key of the import the guest waits for
    imports,     \* hostBridge.imports: what each key resolved to
    contents,    \* hostBridge.contents: the content of each canonical path
    lastStatus,  \* hostBridge.lastStatus
    localLimit,  \* whether hostBridge.localLimit is set
    evalStatus,  \* the status sonnetbox_evaluate returned
    outcome      \* what Evaluate returns: the error and the list of imports

guestVars == <<guest, asking, imports, contents, lastStatus, localLimit, evalStatus, outcome>>
vars      == <<hostVars, guestVars>>

NotAsking     == "none"
NoEntries     == [k \in {} |-> 0]
NoOutcome     == [error |-> "pending", imports |-> <<>>]
FailedImport  == [file |-> "none", size |-> 0]

Init ==
    /\ HostInit
    /\ guest = "running"
    /\ asking = NotAsking
    /\ imports = NoEntries
    /\ contents = NoEntries
    /\ lastStatus = "OK"
    /\ localLimit = FALSE
    /\ evalStatus = "none"
    /\ outcome = NoOutcome

-----------------------------------------------------------------------------
(* The bridge                                                              *)

\* Add k to the function f, or change its value there.
Put(f, k, v) == [x \in DOMAIN f \cup {k} |-> IF x = k THEN v ELSE f[x]]

\* Mutant of FullBuffer: a byte more than the response limit is offered.
FullBufferOneMore == MaxHostResponseBytes + 1

\* callHost offers the whole response buffer, allocated at the response limit.
FullBuffer == MaxHostResponseBytes

\* Mutant of Cached: every import goes to the host.
CachedNever(k) == FALSE

\* A repeated import is answered from the cache and changes nothing.
Cached(k) == k \in DOMAIN imports

AskImport(k) ==
    /\ guest = "running"
    /\ ~Cached(k)
    /\ CASE k \in PathlessKeys -> MalformedImport(FullBuffer)
         [] k \in UnsafeKeys \ PathlessKeys -> UnsafeImport(FullBuffer)
         [] OTHER -> ImportOverCount(FullBuffer) \/ ImportCounted(FullBuffer)
    /\ guest' = "importing"
    /\ asking' = k
    /\ UNCHANGED <<imports, contents, lastStatus, localLimit, evalStatus, outcome>>

\* The guest registers exactly the request's capabilities, with their parameters.
AskNative ==
    /\ guest = "running"
    /\ NativeOverCount(FullBuffer) \/ NativeCounted(FullBuffer, TRUE)
    /\ guest' = "calling"
    /\ UNCHANGED <<asking, imports, contents, lastStatus, localLimit, evalStatus, outcome>>

\* callHost refuses a request longer than the request limit by itself.
RequestTooLong ==
    /\ guest = "running"
    /\ lastStatus' = "Limit"
    /\ localLimit' = TRUE
    /\ guest' = "failed"
    /\ UNCHANGED <<hostVars, asking, imports, contents, evalStatus, outcome>>

\* Mutant of Refused: callHost ignores the status of the reply.
RefusedNever == FALSE

Refused == reply.status # "OK"

\* Mutant of Content: the latest content of a path replaces the first.
ContentLatest(file, size) == size

\* The content of a canonical path is the first one received for it.
Content(file, size) == IF file \in DOMAIN contents THEN contents[file] ELSE size

\* The reply to an import: a failure ends the evaluation, with its status kept.
ReceiveImport ==
    /\ guest = "importing"
    /\ call = Idle
    /\ IF Refused
       THEN /\ imports' = Put(imports, asking, FailedImport)
            /\ lastStatus' = reply.status
            /\ guest' = "failed"
            /\ UNCHANGED contents
       ELSE /\ LET size == Content(reply.file, reply.size)
               IN  /\ contents' = Put(contents, reply.file, size)
                   /\ imports' = Put(imports, asking, [file |-> reply.file, size |-> size])
            /\ guest' = "running"
            /\ UNCHANGED lastStatus
    /\ asking' = NotAsking
    /\ UNCHANGED <<hostVars, localLimit, evalStatus, outcome>>

\* Mutant of ReceiveNative: the status of a failed native call is not kept.
ReceiveNativeForgets ==
    /\ guest = "calling"
    /\ call = Idle
    /\ guest' = IF Refused THEN "failed" ELSE "running"
    /\ UNCHANGED <<hostVars, asking, imports, contents, lastStatus, localLimit, evalStatus,
                   outcome>>

\* The reply to a native call.
ReceiveNative ==
    /\ guest = "calling"
    /\ call = Idle
    /\ lastStatus' = IF Refused THEN reply.status ELSE lastStatus
    /\ guest' = IF Refused THEN "failed" ELSE "running"
    /\ UNCHANGED <<hostVars, asking, imports, contents, localLimit, evalStatus, outcome>>

-----------------------------------------------------------------------------
(* The end of the evaluation                                               *)

\* The status of an evaluation that ended in an error.
ErrorStatus ==
    IF localLimit THEN "Limit" ELSE IF lastStatus # "OK" THEN "HostError" ELSE "JsonnetError"

\* The program fails: by itself, or because an import or a native call failed.
GuestFails ==
    /\ guest \in {"running", "failed"}
    /\ evalStatus' = ErrorStatus
    /\ guest' = "reported"
    /\ UNCHANGED <<hostVars, asking, imports, contents, lastStatus, localLimit, outcome>>

\* The program produces output, within the output limit or not; or the guest's
\* deferred function recovers from a panic of the evaluator.
GuestEnds ==
    /\ guest = "running"
    /\ \E s \in {"OK", "Limit", "Internal"} : evalStatus' = s
    /\ guest' = "reported"
    /\ UNCHANGED <<hostVars, asking, imports, contents, lastStatus, localLimit, outcome>>

\* guestStatusError: the error a guest status stands for.
GuestStatusError ==
    CASE evalStatus = "JsonnetError" -> "Evaluation"
      [] evalStatus = "HostError"    -> "Unclassified"
      [] evalStatus = "Limit"        -> "LimitError"
      [] OTHER -> "GuestTrap"

\* The tail of evaluate: the host's first error answers a host-error status, and
\* partial adds the imports to every result.
Report ==
    /\ guest = "reported"
    /\ outcome' = [error   |-> CASE evalStatus = "OK" -> "none"
                                 [] evalStatus = "HostError" /\ lastErr # "none" -> lastErr
                                 [] OTHER -> GuestStatusError,
                   imports |-> resolved]
    /\ guest' = "done"
    /\ UNCHANGED <<hostVars, asking, imports, contents, lastStatus, localLimit, evalStatus>>

\* The runtime stops the guest, which no handler is running for: fuel, memory, the
\* context or Close (module Engine).  Only while the result is read, after the trace,
\* does evaluate return the imports beside the error.
Stopped ==
    /\ guest # "done"
    /\ call = Idle
    /\ guest' = "done"
    /\ \E listed \in IF guest = "reported" THEN {<<>>, resolved} ELSE {<<>>} :
          outcome' = [error |-> "Stopped", imports |-> listed]
    /\ UNCHANGED <<hostVars, asking, imports, contents, lastStatus, localLimit, evalStatus>>

-----------------------------------------------------------------------------

Next ==
    \/ \E k \in Keys : AskImport(k)
    \/ AskNative \/ RequestTooLong
    \/ HandlerStep /\ UNCHANGED guestVars
    \/ ReceiveImport \/ ReceiveNative
    \/ GuestFails \/ GuestEnds \/ Report \/ Stopped
    \/ CancelContext /\ UNCHANGED guestVars

Spec == Init /\ [][Next]_vars

-----------------------------------------------------------------------------
(* Safety                                                                  *)

\* The types of the guest's side.
TypeOK ==
    /\ HostTypeOK
    /\ guest \in {"running", "importing", "calling", "failed", "reported", "done"}
    /\ asking \in Keys \cup {NotAsking}
    /\ DOMAIN imports \subseteq Keys
    /\ \A k \in DOMAIN imports : imports[k] \in [file : Files \cup {"none"}, size : Nat]
    /\ DOMAIN contents \subseteq Files
    /\ \A file \in DOMAIN contents : contents[file] \in Nat
    /\ lastStatus \in Statuses
    /\ localLimit \in BOOLEAN
    /\ evalStatus \in {"none", "OK", "JsonnetError", "HostError", "Limit", "Internal"}

Answered == guest = "done" /\ outcome.error # "Stopped"

\* The caller gets the failure that ended the evaluation: when a host call failed,
\* Evaluate returns the error the host recorded, which is the one whose message the
\* guest received; it neither succeeds nor blames the guest.
HostFailureReported ==
    Answered /\ lastErr # "none" => outcome.error = lastErr /\ lastErr = reply.error

\* types.go, Result.Imports: a successful evaluation lists exactly the canonical
\* paths whose content the program got.
ImportsListed ==
    Answered /\ evalStatus = "OK"
        => {outcome.imports[i] : i \in 1..Len(outcome.imports)} = DOMAIN contents

\* Whatever the importer returns for a canonical path later, every import of the
\* path sees one content, as the evaluator requires.
OneContentPerPath ==
    \A k \in DOMAIN imports :
        imports[k] # FailedImport
            => imports[k].file \in DOMAIN contents /\ imports[k].size = contents[imports[k].file]

\* The importer is asked at most once for each importing file and path, so repeated
\* imports cost none of the budget.
AskedOnce ==
    importCalls <= Cardinality(DOMAIN imports) + (IF asking = NotAsking THEN 0 ELSE 1)

=============================================================================
