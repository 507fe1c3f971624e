------------------------------ MODULE HostCalls ------------------------------
(***************************************************************************)
(* The host side of one evaluation (engine.go, hostCall and below): every  *)
(* import and native call the guest makes, the budget they are charged to, *)
(* the list of served imports, the first error, and the observer's events. *)
(*                                                                         *)
(* The guest is any WebAssembly program behind the ABI: it may send a      *)
(* malformed call, an unsafe path or the name of no capability.  A host    *)
(* call is answered at once, or waits for the importer or the capability,  *)
(* while the caller's context may be cancelled.  A handler and the         *)
(* observer's hook may panic; hostCall recovers.                           *)
(*                                                                         *)
(* A content is known by its length, a path by its validity and a file by  *)
(* its canonical path.  hostCall runs on the goroutine that called the     *)
(* guest, so at most one host call is in flight.                           *)
(***************************************************************************)
EXTENDS Naturals, Sequences

CONSTANTS
    Files,                 \* the canonical paths importers return
    Sizes,                 \* the lengths of the contents and values handlers return
    MaxImports,
    MaxImportBytes,
    MaxTotalImportBytes,
    MaxCapabilityCalls,
    MaxHostResponseBytes,
    Envelope,              \* bytes of an encoded reply around its content
    Capacities,            \* the response capacities a guest offers
    MaxHostCalls           \* bound of the model: the host calls that are audited

ASSUME BudgetAssumption ==
    /\ {MaxImports, MaxImportBytes, MaxTotalImportBytes, MaxCapabilityCalls,
        MaxHostResponseBytes, Envelope, MaxHostCalls} \subseteq Nat
    /\ Sizes \subseteq Nat
    /\ Capacities \subseteq 1..MaxHostResponseBytes
ASSUME FilesAssumption == "none" \notin Files

VARIABLES
    importer,         \* whether the request has an importer
    importCalls,      \* invocationState.importCalls
    importBytes,      \* invocationState.importBytes
    capabilityCalls,  \* invocationState.capabilityCalls
    resolved,         \* invocationState.resolved
    lastErr,          \* invocationState.lastErr
    ctxDone,          \* the evaluation's context is done
    call,             \* the host call waiting for its handler
    reply,            \* what the last host call returned to the guest
    audit             \* the Import and Capability events delivered so far

hostVars == <<importer, importCalls, importBytes, capabilityCalls, resolved, lastErr,
              ctxDone, call, reply, audit>>
budget   == <<importCalls, importBytes, capabilityCalls>>

Operations == {"import", "capability"}
Statuses   == {"OK", "Denied", "HandlerFailure", "Limit", "Canceled", "Malformed"}
HostErrors == {"ABIError", "ImportDenied", "ImportError", "CapabilityError",
               "LimitError", "Cancellation"}

Idle == [op |-> "none", cap |-> 0]

\* A reply: the status packed with the length, and the payload, an error's
\* message or the encoded content of file.
NoReply            == [status |-> "none", error |-> "none", file |-> "none", size |-> 0]
Failed(status, e)  == [status |-> status, error |-> e, file |-> "none", size |-> 0]
Served(file, size) == [status |-> "OK", error |-> "none", file |-> file, size |-> size]

\* JSON carries the content of a file in base64, and a value as it is.
EncodedLen(file, n) == Envelope + IF file = "none" THEN n ELSE 4 * ((n + 2) \div 3)

HostInit ==
    /\ importer \in BOOLEAN
    /\ importCalls = 0
    /\ importBytes = 0
    /\ capabilityCalls = 0
    /\ resolved = <<>>
    /\ lastErr = "none"
    /\ ctxDone = FALSE
    /\ call = Idle
    /\ reply = NoReply
    /\ audit = <<>>

-----------------------------------------------------------------------------
(* How a host call ends                                                    *)

\* record: the first error of the invocation is kept.
Record(e) == lastErr' = IF lastErr = "none" THEN e ELSE lastErr

\* The error hostCall makes of a panic.
Panicked(op) == IF op = "import" THEN "ImportError" ELSE "CapabilityError"

\* Mutant of Recover: the panic is answered and not recorded.
RecoverUnrecorded(op) ==
    reply' = Failed("HandlerFailure", Panicked(op)) /\ UNCHANGED lastErr

\* The recovered panic of a handler or a hook.
Recover(op) == reply' = Failed("HandlerFailure", Panicked(op)) /\ Record(Panicked(op))

\* Answer is r, unless the guest's buffer is too small for its payload.
Deliver(cap, r) ==
    IF r.status = "OK" /\ EncodedLen(r.file, r.size) > cap
    THEN reply' = Failed("Limit", "LimitError") /\ Record("LimitError")
    ELSE reply' = r /\ Record(r.error)

\* The event of a host call: what it served, or why not.
Event(op, r) == [op |-> op, status |-> r.status, file |-> r.file, size |-> r.size, error |-> r.error]

\* resolveImport or callCapability returns r: its deferred function calls the
\* observer's hook, which may panic, and hostCall answers.
Conclude(op, cap, r) ==
    /\ audit' = Append(audit, Event(op, r))
    /\ call' = Idle
    /\ Deliver(cap, r) \/ Recover(op)

\* A handler panics: the deferred function runs with its results still unset,
\* so the event has neither an error nor a path.
Panic(op) ==
    /\ call.op = op
    /\ audit' = Append(audit, Event(op, Served("none", 0)))
    /\ call' = Idle
    /\ Recover(op)
    /\ UNCHANGED <<importer, budget, resolved, ctxDone>>

Ready == call = Idle /\ Len(audit) < MaxHostCalls

\* The handler is about to be called.
Await(op, cap) ==
    /\ call' = [op |-> op, cap |-> cap]
    /\ reply' = NoReply
    /\ UNCHANGED <<lastErr, audit>>

-----------------------------------------------------------------------------
(* Imports                                                                 *)

\* Unusable buffers or an unknown operation: no handler, no event.
RejectCall ==
    /\ Ready
    /\ reply' = Failed("Malformed", "ABIError")
    /\ Record("ABIError")
    /\ UNCHANGED <<importer, budget, resolved, ctxDone, call, audit>>

\* The request does not decode, has no path or an invalid importing path.
MalformedImport(cap) ==
    /\ Ready
    /\ Conclude("import", cap, Failed("Malformed", "ABIError"))
    /\ UNCHANGED <<importer, budget, resolved, ctxDone>>

\* The path fails validateImportPath.
UnsafeImport(cap) ==
    /\ Ready
    /\ Conclude("import", cap, Failed("Denied", "ImportDenied"))
    /\ UNCHANGED <<importer, budget, resolved, ctxDone>>

ImportOverCount(cap) ==
    /\ Ready
    /\ importCalls >= MaxImports
    /\ Conclude("import", cap, Failed("Limit", "LimitError"))
    /\ UNCHANGED <<importer, budget, resolved, ctxDone>>

\* The request is counted; without an importer it is denied.
ImportCounted(cap) ==
    /\ Ready
    /\ importCalls < MaxImports
    /\ importCalls' = importCalls + 1
    /\ IF importer
       THEN Await("import", cap)
       ELSE Conclude("import", cap, Failed("Denied", "ImportDenied"))
    /\ UNCHANGED <<importer, importBytes, capabilityCalls, resolved, ctxDone>>

\* The importer returns an error; a done context outranks it, as it does a content.
ImportFails ==
    /\ call.op = "import"
    /\ IF ctxDone
       THEN Conclude("import", call.cap, Failed("Canceled", "Cancellation"))
       ELSE \E r \in {Failed("Denied", "ImportDenied"), Failed("HandlerFailure", "ImportError")} :
               Conclude("import", call.cap, r)
    /\ UNCHANGED <<importer, budget, resolved, ctxDone>>

\* recordResolved: each path once, in the order of first resolution.
RecordResolved(file) ==
    resolved' = IF \E i \in 1..Len(resolved) : resolved[i] = file
                THEN resolved ELSE Append(resolved, file)

\* Mutant of WithinBudget: only the single import is bounded.
WithinOneImport(n) == n <= MaxImportBytes

\* The content fits MaxImportBytes and what is left of MaxTotalImportBytes.  (Both
\* ceilings are at most 2^26, so the uint64 sum cannot wrap.)
WithinBudget(n) == n <= MaxImportBytes /\ importBytes + n <= MaxTotalImportBytes

\* Mutant of ImportServed: the path is recorded before the reply is known to fit.
ImportServedEarly(file, n) ==
    /\ call.op = "import"
    /\ ~ctxDone
    /\ IF WithinBudget(n)
       THEN /\ importBytes' = importBytes + n
            /\ RecordResolved(file)
            /\ IF EncodedLen(file, n) > MaxHostResponseBytes
               THEN Conclude("import", call.cap, Failed("Limit", "LimitError"))
               ELSE Conclude("import", call.cap, Served(file, n))
       ELSE /\ Conclude("import", call.cap, Failed("Limit", "LimitError"))
            /\ UNCHANGED <<importBytes, resolved>>
    /\ UNCHANGED <<importer, importCalls, capabilityCalls, ctxDone>>

\* The importer returns n bytes of file.  They are charged before the encoded
\* reply is measured, and only a reply that fits is recorded as resolved.
ImportServed(file, n) ==
    /\ call.op = "import"
    /\ ~ctxDone
    /\ IF WithinBudget(n)
       THEN /\ importBytes' = importBytes + n
            /\ IF EncodedLen(file, n) > MaxHostResponseBytes
               THEN /\ Conclude("import", call.cap, Failed("Limit", "LimitError"))
                    /\ UNCHANGED resolved
               ELSE /\ RecordResolved(file)
                    /\ Conclude("import", call.cap, Served(file, n))
       ELSE /\ Conclude("import", call.cap, Failed("Limit", "LimitError"))
            /\ UNCHANGED <<importBytes, resolved>>
    /\ UNCHANGED <<importer, importCalls, capabilityCalls, ctxDone>>

\* The importer returns a canonical path that is not a virtual path.
ImportMisnamed ==
    /\ call.op = "import"
    /\ ~ctxDone
    /\ Conclude("import", call.cap, Failed("HandlerFailure", "ImportError"))
    /\ UNCHANGED <<importer, budget, resolved, ctxDone>>

-----------------------------------------------------------------------------
(* Capabilities                                                            *)

\* A request that does not decode or has no name.
MalformedNative(cap) ==
    /\ Ready
    /\ Conclude("capability", cap, Failed("Malformed", "ABIError"))
    /\ UNCHANGED <<importer, budget, resolved, ctxDone>>

NativeOverCount(cap) ==
    /\ Ready
    /\ capabilityCalls >= MaxCapabilityCalls
    /\ Conclude("capability", cap, Failed("Limit", "LimitError"))
    /\ UNCHANGED <<importer, budget, resolved, ctxDone>>

\* The call is counted; an unregistered name or a wrong number of arguments is
\* refused after that.
NativeCounted(cap, known) ==
    /\ Ready
    /\ capabilityCalls < MaxCapabilityCalls
    /\ capabilityCalls' = capabilityCalls + 1
    /\ IF known
       THEN Await("capability", cap)
       ELSE \E status \in {"Denied", "Malformed"} :
               Conclude("capability", cap, Failed(status, "CapabilityError"))
    /\ UNCHANGED <<importer, importCalls, importBytes, resolved, ctxDone>>

\* The handler returns an error, or a value JSON cannot encode.
NativeFails ==
    /\ call.op = "capability"
    /\ Conclude("capability", call.cap,
                IF ctxDone THEN Failed("Canceled", "Cancellation")
                           ELSE Failed("HandlerFailure", "CapabilityError"))
    /\ UNCHANGED <<importer, budget, resolved, ctxDone>>

\* Mutant of NativeServed: the context is not consulted after the handler returns.
NativeServedLate(n) ==
    /\ call.op = "capability"
    /\ Conclude("capability", call.cap,
                IF EncodedLen("none", n) > MaxHostResponseBytes
                THEN Failed("Limit", "LimitError") ELSE Served("none", n))
    /\ UNCHANGED <<importer, budget, resolved, ctxDone>>

\* The handler returns a value that takes n bytes.
NativeServed(n) ==
    /\ call.op = "capability"
    /\ ~ctxDone
    /\ Conclude("capability", call.cap,
                IF EncodedLen("none", n) > MaxHostResponseBytes
                THEN Failed("Limit", "LimitError") ELSE Served("none", n))
    /\ UNCHANGED <<importer, budget, resolved, ctxDone>>

-----------------------------------------------------------------------------

CancelContext ==
    /\ ~ctxDone
    /\ ctxDone' = TRUE
    /\ UNCHANGED <<importer, budget, resolved, lastErr, call, reply, audit>>

HandlerStep ==
    \/ ImportFails \/ ImportMisnamed
    \/ \E file \in Files, n \in Sizes : ImportServed(file, n)
    \/ NativeFails
    \/ \E n \in Sizes : NativeServed(n)
    \/ \E op \in Operations : Panic(op)

HostNext ==
    \/ RejectCall
    \/ \E cap \in Capacities :
          \/ MalformedImport(cap) \/ UnsafeImport(cap)
          \/ ImportOverCount(cap) \/ ImportCounted(cap)
          \/ MalformedNative(cap) \/ NativeOverCount(cap)
          \/ \E known \in BOOLEAN : NativeCounted(cap, known)
    \/ HandlerStep
    \/ CancelContext

HostSpec == HostInit /\ [][HostNext]_hostVars
-----------------------------------------------------------------------------
(* Safety                                                                  *)

Replies == [status : Statuses \cup {"none"}, error : HostErrors \cup {"none"},
            file : Files \cup {"none"}, size : Nat]
Events  == [op : Operations, status : Statuses, error : HostErrors \cup {"none"},
            file : Files \cup {"none"}, size : Nat]

\* The types of the invocation's state.
HostTypeOK ==
    /\ importer \in BOOLEAN
    /\ importCalls \in 0..MaxImports
    /\ importBytes \in 0..MaxTotalImportBytes
    /\ capabilityCalls \in 0..MaxCapabilityCalls
    /\ resolved \in Seq(Files)
    /\ lastErr \in HostErrors \cup {"none"}
    /\ ctxDone \in BOOLEAN
    /\ call \in {Idle} \cup [op : Operations, cap : Capacities]
    /\ reply \in Replies
    /\ audit \in Seq(Events)

\* recordResolved ("the list cannot outgrow that ceiling"): the served paths are
\* listed once each, and there are no more of them than requests counted.
ResolvedBounded ==
    /\ Len(resolved) + (IF call.op = "import" THEN 1 ELSE 0) <= importCalls
    /\ \A i, j \in 1..Len(resolved) : resolved[i] = resolved[j] => i = j

\* The audit trail and the result agree on what was served: an import event with a
\* path for exactly the paths the evaluation lists.
AuditMatchesResolved ==
    {resolved[i] : i \in 1..Len(resolved)} = {audit[i].file : i \in 1..Len(audit)} \ {"none"}

\* No failure reaches the guest unrecorded, whatever panics: a guest that reports a
\* host error is always answered with the error the host kept.
FailureRecorded == reply.status \notin {"none", "OK"} => lastErr # "none"

\* The error an evaluation reports is the first one: no later failure, panic or
\* cancellation replaces it.
ErrorKept == lastErr # "none" => lastErr' = lastErr
FirstErrorKept == [][ErrorKept]_hostVars

\* The bytes of content that a trail of events reports.
Reported(e) == IF e.op = "import" THEN e.size ELSE 0
BytesOf(trail) ==
    LET Bytes[i \in 0..Len(trail)] == IF i = 0 THEN 0 ELSE Bytes[i - 1] + Reported(trail[i])
    IN  Bytes[Len(trail)]

\* Every byte of content the observer is told of was charged to the budget, which
\* the importer cannot overdraw.
BytesCharged == BytesOf(audit) <= importBytes /\ importBytes <= MaxTotalImportBytes

-----------------------------------------------------------------------------
(* Refinement                                                              *)

Listed == {resolved[i] : i \in 1..Len(resolved)}

Told ==
    CASE reply.status = "none" -> "none"
      [] reply.status = "OK"   -> "served"
      [] OTHER -> "failed"

\* The Go host keeps the contract of a host: among the rest, a handler that returns
\* after the context is done serves nothing, whatever it returned.
Contract == INSTANCE HostContract WITH
    Failures <- HostErrors,
    imports  <- importCalls,
    natives  <- capabilityCalls,
    bytes    <- importBytes,
    listed   <- Listed,
    failure  <- lastErr,
    waiting  <- call.op,
    told     <- Told,
    late     <- ctxDone
ContractSpec == Contract!Spec

-----------------------------------------------------------------------------
(* What the documentation says and the code does not do                    *)

\* observer.go, ImportEvent.Err and CapabilityEvent.Err: nil when the import or the
\* call succeeded, and the reason it did not otherwise.
EventErrorTellsFailure ==
    \A i \in 1..Len(audit) :
        audit[i].op = "import" /\ audit[i].error = "none" => audit[i].file # "none"
=============================================================================
