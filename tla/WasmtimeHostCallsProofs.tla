------------------------ MODULE WasmtimeHostCallsProofs ------------------------
(***************************************************************************)
(* Theorems about the host calls of the Rust host, for every guest,        *)
(* importer, capability and budget.                                        *)
(***************************************************************************)
EXTENDS WasmtimeHostCalls, TLAPS

-----------------------------------------------------------------------------
(* The list of resolved paths                                              *)

\* List adds a path to the list, once.
LEMMA ListAdds ==
  ASSUME resolved \in Seq(Files), IsInjective(resolved), NEW file \in Files
  PROVE  /\ List(file) \in Seq(Files)
         /\ IsInjective(List(file))
         /\ ToSet(List(file)) = ToSet(resolved) \cup {file}
<1>1. CASE Contains(resolved, file)
  BY <1>1 DEF List, Contains, ToSet
<1>2. CASE ~Contains(resolved, file)
  <2>1. List(file) = Append(resolved, file) /\ Len(resolved) \in Nat
    BY <1>2 DEF List
  <2>2. /\ List(file) \in Seq(Files)
        /\ DOMAIN List(file) = 1..(Len(resolved) + 1)
        /\ \A i \in 1..Len(resolved) : List(file)[i] = resolved[i]
        /\ List(file)[Len(resolved) + 1] = file
    BY <2>1
  <2>3. \A i \in 1..Len(resolved) : resolved[i] # file
    BY <1>2 DEF Contains
  <2>4. IsInjective(List(file))
    BY <2>1, <2>2, <2>3 DEF IsInjective
  <2>5. ToSet(List(file)) = ToSet(resolved) \cup {file}
    BY <2>1, <2>2 DEF ToSet
  <2>6. QED
    BY <2>2, <2>4, <2>5
<1>3. QED
  BY <1>1, <1>2

-----------------------------------------------------------------------------
(* How a host call ends                                                    *)

Inv == TypeOK /\ ListedWereServed

\* What resolve_import and call_capability can return.
Outcomes == {r \in Replies : /\ r.status # "none"
                             /\ r.status = "OK" <=> r.error = "none"
                             /\ r.status # "OK" => r.file = "none"}

LEMMA OutcomeTypes ==
  /\ \A s \in Statuses \ {"OK"}, e \in HostErrors : Failed(s, e) \in Outcomes
  /\ \A f \in Files \cup {"none"}, n \in Nat : Served(f, n) \in Outcomes
<1>1. "none" \notin HostErrors /\ "none" \notin Statuses /\ "OK" \in Statuses
  BY DEF HostErrors, Statuses
<1>2. QED
  BY <1>1 DEF Failed, Served, Outcomes, Replies

LEMMA Names ==
  /\ HostErrors = {"ABIError", "ImportDenied", "ImportError", "CapabilityError", "LimitError",
                   "Canceled"}
  /\ Statuses \ {"OK"} = {"Denied", "HandlerFailure", "Limit", "Canceled", "Malformed"}
  /\ Operations = {"import", "capability"}
BY DEF HostErrors, Statuses, Operations

\* A failure is answered: it is recorded, told under the contract, and serves nothing.
LEMMA FailureReplied ==
  ASSUME TypeOK, NEW s \in Statuses \ {"OK"}, NEW e \in HostErrors, Reply(Failed(s, e))
  PROVE  /\ reply' \in Replies /\ served' = served
         /\ last_error' \in HostErrors
         /\ Contract!Tell(e)
<1>1. reply' = Failed(s, e) /\ Record(e) /\ served' = served
  BY DEF Reply, Failed
<1>2. last_error' \in HostErrors
  BY <1>1 DEF Record, TypeOK
<1>3. Contract!Tell(e)
  BY <1>1 DEF Record, Failed, Contract!Tell, Told, Statuses
<1>4. QED
  BY <1>1, <1>2, <1>3, OutcomeTypes DEF Outcomes

LEMMA FailureAnswered ==
  ASSUME TypeOK, NEW cap, NEW s \in Statuses \ {"OK"}, NEW e \in HostErrors,
         Answer(cap, Failed(s, e))
  PROVE  /\ call' = Idle /\ reply' \in Replies /\ served' = served
         /\ last_error' \in HostErrors
         /\ \E f \in HostErrors : Contract!Tell(f)
<1>1. Reply(Failed(s, e)) /\ call' = Idle
  BY DEF Answer, Failed
<1>2. QED
  BY <1>1, FailureReplied

\* A success is answered with itself, or with a failure when the buffer is too small.
LEMMA SuccessAnswered ==
  ASSUME TypeOK, NEW cap, NEW file \in Files \cup {"none"}, NEW n \in Nat,
         Answer(cap, Served(file, n))
  PROVE  /\ call' = Idle /\ reply' \in Replies
         /\ \/ /\ Told' = "served" /\ last_error' = last_error
               /\ served' = served \cup ({file} \ {"none"})
            \/ /\ last_error' \in HostErrors /\ served' = served
               /\ \E f \in HostErrors : Contract!Tell(f)
<1>1. CASE EncodedLen(file, n) > cap
  <2>1. Reply(Failed("Limit", "LimitError")) /\ call' = Idle
    BY <1>1 DEF Answer, Served
  <2>2. QED
    BY <2>1, FailureReplied, Names
<1>2. CASE ~(EncodedLen(file, n) > cap)
  <2>1. Reply(Served(file, n)) /\ call' = Idle
    BY <1>2 DEF Answer, Served
  <2>2. reply' = Served(file, n) /\ served' = served \cup ({file} \ {"none"})
    BY <2>1 DEF Reply, Served
  <2>3. last_error' = last_error
    BY <2>1 DEF Reply, Served, Record, TypeOK
  <2>4. Told' = "served"
    BY <2>2 DEF Told, Served
  <2>5. QED
    BY <2>1, <2>2, <2>3, <2>4, OutcomeTypes DEF Outcomes
<1>3. QED
  BY <1>1, <1>2

\* What a step that ends a host call in a failure, without touching the list, keeps.
LEMMA FailureKeeps ==
  ASSUME Inv, UNCHANGED <<importer, import_bytes, resolved, expired>>,
         import_calls' \in 0..MaxImports, capability_calls' \in 0..MaxCapabilityCalls,
         call' = Idle, reply' \in Replies, served' = served, last_error' \in HostErrors
  PROVE  Inv'
<1>1. TypeOK'
  BY DEF Inv, TypeOK
<1>2. last_error' # "none"
  BY Names
<1>3. QED
  BY <1>1, <1>2 DEF Inv, ListedWereServed

\* A host call refused without its handler.
LEMMA Refuses ==
  ASSUME Inv, call = Idle,
         \/ UNCHANGED <<import_calls, capability_calls>>
         \/ import_calls < MaxImports /\ import_calls' = import_calls + 1 /\ UNCHANGED capability_calls
         \/ capability_calls < MaxCapabilityCalls /\ capability_calls' = capability_calls + 1
            /\ UNCHANGED import_calls,
         UNCHANGED <<importer, import_bytes, resolved, expired>>,
         call' = Idle, reply' \in Replies, served' = served, last_error' \in HostErrors,
         \E e \in HostErrors : Contract!Tell(e)
  PROVE  Inv' /\ Contract!Next
<1>1. import_calls' \in 0..MaxImports /\ capability_calls' \in 0..MaxCapabilityCalls
  BY BudgetAssumption DEF Inv, TypeOK
<1>2. Contract!Next
  BY DEF Contract!Next, Contract!Refuse, Contract!ChargeImport, Contract!ChargeNative, Idle
<1>3. QED
  BY <1>1, <1>2, FailureKeeps

\* A host call that fails in its handler, with nothing charged.
LEMMA HandlerFailed ==
  ASSUME Inv, call.op \in Operations, UNCHANGED <<importer, budget, resolved, expired>>,
         call' = Idle, reply' \in Replies, served' = served, last_error' \in HostErrors,
         \E e \in HostErrors : Contract!Tell(e)
  PROVE  Inv' /\ Contract!Next
<1>1. import_calls' \in 0..MaxImports /\ capability_calls' \in 0..MaxCapabilityCalls
  BY DEF Inv, TypeOK, budget
<1>2. Contract!Next
  BY DEF Contract!Next, Contract!Fail, Idle, Operations, budget
<1>3. QED
  BY <1>1, <1>2, FailureKeeps DEF budget

\* The handler is called.
LEMMA Waits ==
  ASSUME Inv, NEW op \in Operations, NEW cap \in Capacities, call = Idle, Await(op, cap),
         \/ op = "import" /\ import_calls < MaxImports /\ import_calls' = import_calls + 1
            /\ UNCHANGED capability_calls
         \/ op = "capability" /\ capability_calls < MaxCapabilityCalls
            /\ capability_calls' = capability_calls + 1 /\ UNCHANGED import_calls,
         UNCHANGED <<importer, import_bytes, resolved, expired>>
  PROVE  Inv' /\ Contract!Next
<1>1. call' \in [op : Operations, cap : Capacities] /\ reply' \in Replies
  BY DEF Await, NoReply, Replies
<1>2. import_calls' \in 0..MaxImports /\ capability_calls' \in 0..MaxCapabilityCalls
  BY BudgetAssumption DEF Inv, TypeOK
<1>3. TypeOK'
  BY <1>1, <1>2 DEF Inv, TypeOK, Await
<1>4. ListedWereServed'
  BY DEF Inv, ListedWereServed, Await
<1>5. Told' = "none"
  BY DEF Await, NoReply, Told
<1>6. Contract!Next
  BY <1>5 DEF Contract!Next, Contract!CallHandler, Contract!ChargeImport, Contract!ChargeNative,
              Await, Idle
<1>7. QED
  BY <1>3, <1>4, <1>6 DEF Inv

-----------------------------------------------------------------------------
(* The actions                                                             *)

LEMMA ImportEnds ==
  ASSUME Inv, NEW file \in Files, NEW n \in Sizes, ImportReturns(file, n)
  PROVE  Inv' /\ Contract!Next
<1>1. /\ call.op = "import" /\ ~expired
      /\ UNCHANGED <<importer, import_calls, capability_calls, expired>>
      /\ n \in Nat /\ file # "none"
  BY BudgetAssumption, FilesAssumption DEF ImportReturns
<1>2. CASE ~WithinBudget(n)
  <2>1. Answer(call.cap, Failed("Limit", "LimitError")) /\ UNCHANGED <<import_bytes, resolved>>
    BY <1>2 DEF ImportReturns
  <2>2. QED
    BY <1>1, <2>1, Names, FailureAnswered, HandlerFailed DEF budget, Inv
<1>3. CASE WithinBudget(n)
  <2>1. import_bytes' = import_bytes + n /\ resolved' = List(file)
    BY <1>3 DEF ImportReturns
  <2>2. import_bytes' \in 0..MaxTotalImportBytes /\ Contract!ChargeBytes
    BY <1>1, <1>3, <2>1, BudgetAssumption DEF WithinBudget, Contract!ChargeBytes, Inv, TypeOK
  <2>3. /\ resolved' \in Seq(Files) /\ IsInjective(resolved')
        /\ ToSet(resolved)' = ToSet(resolved) \cup {file}
    BY <2>1, ListAdds DEF Inv, TypeOK, ListedWereServed
  <2>4. /\ call' = Idle /\ reply' \in Replies
        /\ \/ Told' = "served" /\ last_error' = last_error /\ served' = served \cup {file}
           \/ /\ last_error' \in HostErrors /\ served' = served
              /\ \E f \in HostErrors : Contract!Tell(f)
    <3>1. CASE EncodedLen(file, n) > MaxHostResponseBytes
      BY <1>3, <3>1, FailureAnswered, Names DEF ImportReturns, Inv
    <3>2. CASE ~(EncodedLen(file, n) > MaxHostResponseBytes)
      BY <1>1, <1>3, <3>2, SuccessAnswered DEF ImportReturns, Inv
    <3>3. QED
      BY <3>1, <3>2
  <2>5. TypeOK'
    BY <1>1, <2>2, <2>3, <2>4 DEF Inv, TypeOK
  <2>6. ListedWereServed'
    BY <2>3, <2>4, Names DEF Inv, ListedWereServed
  <2>7. Contract!Next
    <3>1. CASE Told' = "served" /\ last_error' = last_error
      BY <1>1, <2>2, <2>3, <2>4, <3>1 DEF Contract!Next, Contract!ServeImport, Idle
    <3>2. CASE \E f \in HostErrors : Contract!Tell(f)
      BY <1>1, <2>2, <2>3, <2>4, <3>2 DEF Contract!Next, Contract!Fail, Idle
    <3>3. QED
      BY <2>4, <3>1, <3>2
  <2>8. QED
    BY <2>5, <2>6, <2>7 DEF Inv
<1>4. QED
  BY <1>2, <1>3

LEMMA NativeEnds ==
  ASSUME Inv, NEW n \in Sizes, NativeReturns(n)
  PROVE  Inv' /\ Contract!Next
<1>1. /\ call.op = "capability" /\ ~expired /\ n \in Nat
      /\ UNCHANGED <<importer, budget, resolved, expired>>
  BY BudgetAssumption DEF NativeReturns
<1>2. CASE EncodedLen("none", n) > MaxHostResponseBytes
  BY <1>1, <1>2, Names, FailureAnswered, HandlerFailed DEF NativeReturns, Inv
<1>3. CASE ~(EncodedLen("none", n) > MaxHostResponseBytes)
  <2>1. /\ call' = Idle /\ reply' \in Replies /\ served' = served
        /\ \/ Told' = "served" /\ last_error' = last_error
           \/ last_error' \in HostErrors /\ \E f \in HostErrors : Contract!Tell(f)
    BY <1>1, <1>3, SuccessAnswered DEF NativeReturns, Inv
  <2>2. CASE Told' = "served" /\ last_error' = last_error
    <3>1. Inv'
      BY <1>1, <2>1, <2>2 DEF Inv, TypeOK, ListedWereServed, budget
    <3>2. Contract!Next
      BY <1>1, <2>1, <2>2 DEF Contract!Next, Contract!ServeNative, Idle, budget
    <3>3. QED
      BY <3>1, <3>2
  <2>3. CASE last_error' \in HostErrors /\ \E f \in HostErrors : Contract!Tell(f)
    BY <1>1, <2>1, <2>3, Names, HandlerFailed
  <2>4. QED
    BY <2>1, <2>2, <2>3
<1>4. QED
  BY <1>2, <1>3

LEMMA Step ==
  ASSUME Inv, [Next]_vars
  PROVE  Inv' /\ [Contract!Next]_(Contract!vars)
<1>0. TypeOK
  BY DEF Inv
<1>1. CASE UNCHANGED vars
  <2>1. Inv'
    BY <1>1 DEF vars, budget, Inv, TypeOK, ListedWereServed
  <2>2. UNCHANGED Contract!vars
    BY <1>1 DEF vars, budget, Contract!vars, Told
  <2>3. QED
    BY <2>1, <2>2
<1>2. CASE RejectCall
  <2>1. PICK e \in {"ABIError", "LimitError"} : Reply(Failed("Malformed", e))
    BY <1>2 DEF RejectCall, RangeErrors
  <2>2. /\ reply' \in Replies /\ served' = served /\ last_error' \in HostErrors
        /\ \E f \in HostErrors : Contract!Tell(f)
    BY <1>0, <2>1, FailureReplied, Names
  <2>3. QED
    BY <1>2, <2>2, Refuses DEF RejectCall, RangeErrors, budget
<1>3. ASSUME NEW cap, BadImport(cap) PROVE Inv' /\ Contract!Next
  <2>1. PICK r \in {Failed("Malformed", "ABIError"), Failed("Denied", "ImportDenied")} : Answer(cap, r)
    BY <1>3 DEF BadImport
  <2>2. /\ call' = Idle /\ reply' \in Replies /\ served' = served /\ last_error' \in HostErrors
        /\ \E f \in HostErrors : Contract!Tell(f)
    BY <1>0, <2>1, FailureAnswered, Names
  <2>3. QED
    BY <1>3, <2>2, Refuses DEF BadImport, budget
<1>4. ASSUME NEW cap, ImportOverCount(cap) PROVE Inv' /\ Contract!Next
  BY <1>0, <1>4, FailureAnswered, Names, Refuses DEF ImportOverCount, budget
<1>5. ASSUME NEW cap \in Capacities, ImportCounted(cap) PROVE Inv' /\ Contract!Next
  <2>1. CASE expired
    BY <1>0, <1>5, <2>1, FailureAnswered, Names, Refuses DEF ImportCounted
  <2>2. CASE ~expired /\ ~importer
    BY <1>0, <1>5, <2>2, FailureAnswered, Names, Refuses DEF ImportCounted
  <2>3. CASE ~expired /\ importer
    BY <1>5, <2>3, Names, Waits DEF ImportCounted
  <2>4. QED
    BY <2>1, <2>2, <2>3 DEF Inv, TypeOK
<1>6. ASSUME NEW cap, BadNative(cap) PROVE Inv' /\ Contract!Next
  BY <1>0, <1>6, FailureAnswered, Names, Refuses DEF BadNative, budget
<1>7. ASSUME NEW cap, NativeOverCount(cap) PROVE Inv' /\ Contract!Next
  BY <1>0, <1>7, FailureAnswered, Names, Refuses DEF NativeOverCount, budget
<1>8. ASSUME NEW cap \in Capacities, NEW known \in BOOLEAN, NativeCounted(cap, known)
      PROVE Inv' /\ Contract!Next
  <2>1. CASE expired
    BY <1>0, <1>8, <2>1, FailureAnswered, Names, Refuses DEF NativeCounted
  <2>2. CASE ~expired /\ ~known
    <3>1. PICK s \in {"Denied", "Malformed"} : Answer(cap, Failed(s, "CapabilityError"))
      BY <1>8, <2>2 DEF NativeCounted
    <3>2. /\ call' = Idle /\ reply' \in Replies /\ served' = served /\ last_error' \in HostErrors
          /\ \E f \in HostErrors : Contract!Tell(f)
      BY <1>0, <3>1, FailureAnswered, Names
    <3>3. QED
      BY <1>8, <3>2, Refuses DEF NativeCounted
  <2>3. CASE ~expired /\ known
    BY <1>8, <2>3, Names, Waits DEF NativeCounted
  <2>4. QED
    BY <2>1, <2>2, <2>3 DEF Inv, TypeOK
<1>9. CASE ImportFails
  <2>1. PICK r \in {Failed("Denied", "ImportDenied"), Failed("HandlerFailure", "ImportError")} :
           Answer(call.cap, r)
    BY <1>9 DEF ImportFails
  <2>2. /\ call' = Idle /\ reply' \in Replies /\ served' = served /\ last_error' \in HostErrors
        /\ \E f \in HostErrors : Contract!Tell(f)
    BY <1>0, <2>1, FailureAnswered, Names
  <2>3. QED
    BY <1>9, <2>2, Names, HandlerFailed DEF ImportFails
<1>10. CASE ImportMisnamed
  BY <1>0, <1>10, FailureAnswered, Names, HandlerFailed DEF ImportMisnamed
<1>11. CASE NativeFails
  BY <1>0, <1>11, FailureAnswered, Names, HandlerFailed DEF NativeFails
<1>12. CASE ReturnsLate
  <2>1. call.op \in Operations
    BY <1>0, <1>12 DEF ReturnsLate, TypeOK
  <2>2. QED
    BY <1>0, <1>12, <2>1, FailureAnswered, Names, HandlerFailed DEF ReturnsLate
<1>13. ASSUME NEW op \in Operations, Panic(op) PROVE Inv' /\ Contract!Next
  <2>1. PICK e \in HostErrors : Reply(Failed("HandlerFailure", e))
    BY <1>13, Names DEF Panic
  <2>2. /\ reply' \in Replies /\ served' = served /\ last_error' \in HostErrors
        /\ \E f \in HostErrors : Contract!Tell(f)
    BY <1>0, <2>1, FailureReplied, Names
  <2>3. QED
    BY <1>13, <2>2, HandlerFailed DEF Panic
<1>14. CASE Expire
  <2>1. Inv'
    BY <1>14 DEF Expire, budget, Inv, TypeOK, ListedWereServed
  <2>2. Contract!Next
    BY <1>14 DEF Expire, Contract!Next, Contract!TimeOver, budget, Told
  <2>3. QED
    BY <2>1, <2>2
<1>15. QED
  BY <1>1, <1>2, <1>3, <1>4, <1>5, <1>6, <1>7, <1>8, <1>9, <1>10, <1>11, <1>12, <1>13, <1>14,
     ImportEnds, NativeEnds DEF Next

-----------------------------------------------------------------------------
(* The theorems                                                            *)

LEMMA Start == Init => Inv /\ Contract!Init
<1> SUFFICES ASSUME Init PROVE Inv /\ Contract!Init
  OBVIOUS
<1>1. TypeOK
  <2>1. 0 \in 0..MaxImports /\ 0 \in 0..MaxTotalImportBytes /\ 0 \in 0..MaxCapabilityCalls
    BY BudgetAssumption
  <2>2. NoReply \in Replies
    BY DEF NoReply, Replies
  <2>3. <<>> \in Seq(Files)
    OBVIOUS
  <2>4. QED
    BY <2>1, <2>2, <2>3 DEF Init, TypeOK
<1>2. ToSet(resolved) = {} /\ IsInjective(resolved)
  BY DEF Init, ToSet, IsInjective
<1>3. QED
  BY <1>1, <1>2 DEF Init, Inv, ListedWereServed, Contract!Init, Told, NoReply, Idle

THEOREM Invariance == Spec => []Inv
<1>1. Init => Inv
  BY Start
<1>2. Inv /\ [Next]_vars => Inv'
  BY Step
<1>3. QED
  BY <1>1, <1>2, PTL DEF Spec

\* lib.rs, InvocationState: the budget is never overdrawn.
THEOREM RustHostTypeCorrect == Spec => []TypeOK
<1>1. Inv => TypeOK
  BY DEF Inv
<1>2. QED
  BY <1>1, Invariance, PTL

\* lib.rs, resolve_import: what was served is listed, once, and without a failure
\* nothing else is.
THEOREM RustListIsWhatWasServed == Spec => []ListedWereServed
<1>1. Inv => ListedWereServed
  BY DEF Inv
<1>2. QED
  BY <1>1, Invariance, PTL

\* lib.rs, host_call: the Rust host keeps the contract of a host.
THEOREM RustHostKeepsContract == Spec => ContractSpec
<1>1. Init => Contract!Init
  BY Start
<1>2. Inv /\ [Next]_vars => [Contract!Next]_(Contract!vars)
  BY Step
<1>3. QED
  BY <1>1, <1>2, Invariance, PTL DEF Spec, ContractSpec, Contract!Spec
=============================================================================
