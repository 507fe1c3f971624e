--------------------------- MODULE WasmtimeHostCalls ---------------------------
(***************************************************************************)
(* The host side of one evaluation in the Rust host (lib.rs, host_call and *)
(* below), against any guest.  It answers the calls HostCalls answers in   *)
(* the Go host, but looks at the deadline before the handler and only      *)
(* after its success, lists a path before its reply is known to fit,       *)
(* answers a panic without a message, and has no observer.                 *)
(***************************************************************************)
EXTENDS Naturals, Sequences, SequencesExt

CONSTANTS
    Files,                 \* the canonical paths importers return
    Sizes,                 \* the lengths of the contents and values handlers return
    MaxImports,
    MaxImportBytes,
    MaxTotalImportBytes,
    MaxCapabilityCalls,
    MaxHostResponseBytes,
    Envelope,              \* bytes of an encoded reply around its content
    Capacities             \* the response capacities a guest offers

ASSUME BudgetAssumption ==
    /\ {MaxImports, MaxImportBytes, MaxTotalImportBytes, MaxCapabilityCalls,
        MaxHostResponseBytes, Envelope} \subseteq Nat
    /\ Sizes \subseteq Nat
    /\ Capacities \subseteq 1..MaxHostResponseBytes
ASSUME FilesAssumption == "none" \notin Files

VARIABLES
    importer,         \* whether the request has an importer
    import_calls,     \* InvocationState.import_calls
    import_bytes,     \* InvocationState.import_bytes
    capability_calls, \* InvocationState.capability_calls
    resolved,         \* InvocationState.resolved
    last_error,       \* InvocationState.last_error
    expired,          \* HostContext.is_expired
    call,             \* the host call waiting for its handler
    reply,            \* what the last host call returned to the guest
    served            \* history: the paths whose content reached the guest

vars   == <<importer, import_calls, import_bytes, capability_calls, resolved, last_error,
            expired, call, reply, served>>
budget == <<import_calls, import_bytes, capability_calls>>

Operations == {"import", "capability"}
Statuses   == {"OK", "Denied", "HandlerFailure", "Limit", "Canceled", "Malformed"}
HostErrors == {"ABIError", "ImportDenied", "ImportError", "CapabilityError",
               "LimitError", "Canceled"}

Idle == [op |-> "none", cap |-> 0]

NoReply            == [status |-> "none", error |-> "none", file |-> "none", size |-> 0]
Failed(status, e)  == [status |-> status, error |-> e, file |-> "none", size |-> 0]
Served(file, size) == [status |-> "OK", error |-> "none", file |-> file, size |-> size]

\* JSON carries the content of a file in base64, and a value as it is.
EncodedLen(file, n) == Envelope + IF file = "none" THEN n ELSE 4 * ((n + 2) \div 3)

Init ==
    /\ importer \in BOOLEAN
    /\ import_calls = 0
    /\ import_bytes = 0
    /\ capability_calls = 0
    /\ resolved = <<>>
    /\ last_error = "none"
    /\ expired = FALSE
    /\ call = Idle
    /\ reply = NoReply
    /\ served = {}

-----------------------------------------------------------------------------
(* How a host call ends                                                    *)

\* record: the first error is kept.
Record(e) == last_error' = IF last_error = "none" THEN e ELSE last_error

Reply(r) ==
    /\ reply' = r
    /\ Record(r.error)
    /\ served' = served \cup ({r.file} \ {"none"})

\* The tail of host_call_inner: r, unless the guest's buffer is too small for it.
Answer(cap, r) ==
    /\ call' = Idle
    /\ Reply(IF r.status = "OK" /\ EncodedLen(r.file, r.size) > cap
             THEN Failed("Limit", "LimitError") ELSE r)

\* The handler is about to be called.
Await(op, cap) ==
    /\ call' = [op |-> op, cap |-> cap]
    /\ reply' = NoReply
    /\ UNCHANGED <<last_error, served>>

\* host_call catches the unwinding: the reply has no message.
Panic(op) ==
    /\ call.op = op
    /\ call' = Idle
    /\ Reply(Failed("HandlerFailure", IF op = "import" THEN "ImportError" ELSE "CapabilityError"))
    /\ UNCHANGED <<importer, budget, resolved, expired>>

-----------------------------------------------------------------------------
(* Imports                                                                 *)

\* bounded_range: a pointer or a length the guest must not give, or one over its ceiling.
RangeErrors == {"ABIError", "LimitError"}

\* Unusable buffers, an unknown operation, or a request over its ceiling.
RejectCall ==
    /\ call = Idle
    /\ \E e \in RangeErrors : Reply(Failed("Malformed", e))
    /\ UNCHANGED <<importer, budget, resolved, expired, call>>

\* The request does not decode, has no path or an invalid importing path; or its path
\* fails validate_import_path.
BadImport(cap) ==
    /\ call = Idle
    /\ \E r \in {Failed("Malformed", "ABIError"), Failed("Denied", "ImportDenied")} : Answer(cap, r)
    /\ UNCHANGED <<importer, budget, resolved, expired>>

ImportOverCount(cap) ==
    /\ call = Idle
    /\ import_calls >= MaxImports
    /\ Answer(cap, Failed("Limit", "LimitError"))
    /\ UNCHANGED <<importer, budget, resolved, expired>>

\* The request is counted, and refused past the deadline or without an importer.
ImportCounted(cap) ==
    /\ call = Idle
    /\ import_calls < MaxImports
    /\ import_calls' = import_calls + 1
    /\ CASE expired              -> Answer(cap, Failed("Canceled", "Canceled"))
         [] ~expired /\ ~importer -> Answer(cap, Failed("Denied", "ImportDenied"))
         [] OTHER                -> Await("import", cap)
    /\ UNCHANGED <<importer, import_bytes, capability_calls, resolved, expired>>

\* The importer's own failure is reported, whatever the time.
ImportFails ==
    /\ call.op = "import"
    /\ \E r \in {Failed("Denied", "ImportDenied"), Failed("HandlerFailure", "ImportError")} :
          Answer(call.cap, r)
    /\ UNCHANGED <<importer, budget, resolved, expired>>

\* The content fits max_import_bytes and what is left of max_total_import_bytes.
WithinBudget(n) == n <= MaxImportBytes /\ import_bytes + n <= MaxTotalImportBytes

\* Mutant of List: a path listed before is listed again.
ListAgain(file) == Append(resolved, file)

\* resolved_seen: each path once.
List(file) == IF Contains(resolved, file) THEN resolved ELSE Append(resolved, file)

\* Mutant of ImportReturns: the deadline is not looked at after the importer.
ImportReturnsLate(file, n) ==
    /\ call.op = "import"
    /\ IF WithinBudget(n)
       THEN /\ import_bytes' = import_bytes + n
            /\ resolved' = List(file)
            /\ Answer(call.cap, IF EncodedLen(file, n) > MaxHostResponseBytes
                                THEN Failed("Limit", "LimitError") ELSE Served(file, n))
       ELSE /\ Answer(call.cap, Failed("Limit", "LimitError"))
            /\ UNCHANGED <<import_bytes, resolved>>
    /\ UNCHANGED <<importer, import_calls, capability_calls, expired>>

\* The importer returns n bytes of file in time.  They are charged, and the path
\* listed, before the encoded reply is measured.
ImportReturns(file, n) ==
    /\ call.op = "import"
    /\ ~expired
    /\ IF WithinBudget(n)
       THEN /\ import_bytes' = import_bytes + n
            /\ resolved' = List(file)
            /\ Answer(call.cap, IF EncodedLen(file, n) > MaxHostResponseBytes
                                THEN Failed("Limit", "LimitError") ELSE Served(file, n))
       ELSE /\ Answer(call.cap, Failed("Limit", "LimitError"))
            /\ UNCHANGED <<import_bytes, resolved>>
    /\ UNCHANGED <<importer, import_calls, capability_calls, expired>>

\* The importer returns a canonical path that is not a virtual path.
ImportMisnamed ==
    /\ call.op = "import"
    /\ ~expired
    /\ Answer(call.cap, Failed("HandlerFailure", "ImportError"))
    /\ UNCHANGED <<importer, budget, resolved, expired>>

\* A handler returns a success too late.
ReturnsLate ==
    /\ call # Idle
    /\ expired
    /\ Answer(call.cap, Failed("Canceled", "Canceled"))
    /\ UNCHANGED <<importer, budget, resolved, expired>>

-----------------------------------------------------------------------------
(* Capabilities                                                            *)

\* A request that does not decode or has no name.
BadNative(cap) ==
    /\ call = Idle
    /\ Answer(cap, Failed("Malformed", "ABIError"))
    /\ UNCHANGED <<importer, budget, resolved, expired>>

NativeOverCount(cap) ==
    /\ call = Idle
    /\ capability_calls >= MaxCapabilityCalls
    /\ Answer(cap, Failed("Limit", "LimitError"))
    /\ UNCHANGED <<importer, budget, resolved, expired>>

\* The call is counted; past the deadline, and for an unregistered name or a wrong
\* number of arguments, it is refused.
NativeCounted(cap, known) ==
    /\ call = Idle
    /\ capability_calls < MaxCapabilityCalls
    /\ capability_calls' = capability_calls + 1
    /\ CASE expired            -> Answer(cap, Failed("Canceled", "Canceled"))
         [] ~expired /\ ~known -> \E status \in {"Denied", "Malformed"} :
                                     Answer(cap, Failed(status, "CapabilityError"))
         [] OTHER              -> Await("capability", cap)
    /\ UNCHANGED <<importer, import_calls, import_bytes, resolved, expired>>

\* The capability's own failure is reported, whatever the time.
NativeFails ==
    /\ call.op = "capability"
    /\ Answer(call.cap, Failed("HandlerFailure", "CapabilityError"))
    /\ UNCHANGED <<importer, budget, resolved, expired>>

NativeReturns(n) ==
    /\ call.op = "capability"
    /\ ~expired
    /\ Answer(call.cap, IF EncodedLen("none", n) > MaxHostResponseBytes
                        THEN Failed("Limit", "LimitError") ELSE Served("none", n))
    /\ UNCHANGED <<importer, budget, resolved, expired>>

-----------------------------------------------------------------------------

Expire ==
    /\ expired' = TRUE
    /\ UNCHANGED <<importer, budget, resolved, last_error, call, reply, served>>

Next ==
    \/ RejectCall
    \/ \E cap \in Capacities :
          \/ BadImport(cap) \/ ImportOverCount(cap) \/ ImportCounted(cap)
          \/ BadNative(cap) \/ NativeOverCount(cap)
          \/ \E known \in BOOLEAN : NativeCounted(cap, known)
    \/ ImportFails \/ ImportMisnamed \/ NativeFails \/ ReturnsLate
    \/ \E file \in Files, n \in Sizes : ImportReturns(file, n)
    \/ \E n \in Sizes : NativeReturns(n)
    \/ \E op \in Operations : Panic(op)
    \/ Expire

Spec == Init /\ [][Next]_vars

-----------------------------------------------------------------------------
(* Properties                                                              *)

Replies == [status : Statuses \cup {"none"}, error : HostErrors \cup {"none"},
            file : Files \cup {"none"}, size : Nat]

\* The types of the invocation's state; the budget is not overdrawn.
TypeOK ==
    /\ importer \in BOOLEAN
    /\ import_calls \in 0..MaxImports
    /\ import_bytes \in 0..MaxTotalImportBytes
    /\ capability_calls \in 0..MaxCapabilityCalls
    /\ resolved \in Seq(Files)
    /\ last_error \in HostErrors \cup {"none"}
    /\ expired \in BOOLEAN
    /\ call \in {Idle} \cup [op : Operations, cap : Capacities]
    /\ reply \in Replies
    /\ served \subseteq Files

\* The list has each path once and every path the guest was served; until a host call
\* fails it has no other: a path listed for a reply that then does not fit comes with an
\* error.
ListedWereServed ==
    /\ IsInjective(resolved)
    /\ served \subseteq ToSet(resolved)
    /\ last_error = "none" => ToSet(resolved) = served

Told ==
    CASE reply.status = "none" -> "none"
      [] reply.status = "OK"   -> "served"
      [] OTHER -> "failed"

\* The Rust host keeps the contract the Go host keeps.
Contract == INSTANCE HostContract WITH
    Failures <- HostErrors,
    imports  <- import_calls,
    natives  <- capability_calls,
    bytes    <- import_bytes,
    listed   <- ToSet(resolved),
    failure  <- last_error,
    waiting  <- call.op,
    told     <- Told,
    late     <- expired
ContractSpec == Contract!Spec

-----------------------------------------------------------------------------
(* What the documentation says and the code does not do                    *)

\* rust/sonnetbox-wasmtime/README.md: the deadline "is rechecked around trusted import
\* and capability callbacks": a callback that comes back after it is answered Canceled.
DeadlineRechecked ==
    [][expired /\ call # Idle /\ call' = Idle => reply'.status = "Canceled"]_vars
=============================================================================
