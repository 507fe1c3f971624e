-------------------------- MODULE InvocationProofs --------------------------
(***************************************************************************)
(* Theorems about HostCalls, for every guest, importer, capability and     *)
(* budget; and about Invocation, which implements it, so that everything   *)
(* proved there for any guest holds of the embedded one.                   *)
(*                                                                         *)
(* Every host call ends in Conclude or Panic, so what they do to the first *)
(* error, the reply and the audit trail is stated once (ConcludeStep,      *)
(* PanicKeeps), and an action adds only what it does to the budget and to  *)
(* the list of resolved imports.                                           *)
(*                                                                         *)
(* The invariant of Invocation says how the two sides of the ABI agree: a  *)
(* running guest has seen no failure and the host has recorded none        *)
(* (Agreement), and the host's list of imports is the guest's cache of     *)
(* contents (Listing).                                                     *)
(***************************************************************************)
EXTENDS Invocation, FiniteSetTheorems, DataInduction

\* What resolveImport and callCapability can return.
Outcomes == {r \in Replies : /\ r.status # "none"
                             /\ r.status = "OK" <=> r.error = "none"
                             /\ r.status # "OK" => r.file = "none"}

HostInv == HostTypeOK /\ ResolvedBounded /\ AuditMatchesResolved /\ FailureRecorded

\* The paths a trail of events reports as served, with "none" for the others.
FilesOf(trail) == {trail[i].file : i \in 1..Len(trail)}
ListedIn(list) == {list[i] : i \in 1..Len(list)}

-----------------------------------------------------------------------------
(* Sequences                                                               *)

\* Appending an event adds its path to the paths of a trail.
LEMMA AppendFiles ==
  ASSUME NEW S, NEW s \in Seq(S), NEW e \in S
  PROVE  FilesOf(Append(s, e)) = FilesOf(s) \cup {e.file}
<1>1. Len(Append(s, e)) = Len(s) + 1 /\ Len(s) \in Nat
  OBVIOUS
<1>2. \A i \in 1..Len(s) : Append(s, e)[i] = s[i]
  OBVIOUS
<1>3. Append(s, e)[Len(s) + 1] = e
  OBVIOUS
<1>4. QED
  BY <1>1, <1>2, <1>3 DEF FilesOf

\* Appending an element adds it to the elements of a list.
LEMMA AppendListed ==
  ASSUME NEW S, NEW s \in Seq(S), NEW e \in S
  PROVE  ListedIn(Append(s, e)) = ListedIn(s) \cup {e}
<1>1. Len(Append(s, e)) = Len(s) + 1 /\ Len(s) \in Nat
  OBVIOUS
<1>2. \A i \in 1..Len(s) : Append(s, e)[i] = s[i]
  OBVIOUS
<1>3. Append(s, e)[Len(s) + 1] = e
  OBVIOUS
<1>4. QED
  BY <1>1, <1>2, <1>3 DEF ListedIn

-----------------------------------------------------------------------------
(* How a host call ends                                                    *)

\* The outcomes the actions use.
LEMMA OutcomeTypes ==
  /\ \A s \in Statuses \ {"OK"}, e \in HostErrors : Failed(s, e) \in Outcomes
  /\ \A f \in Files \cup {"none"}, n \in Nat : Served(f, n) \in Outcomes
  /\ \A r \in Outcomes, op \in Operations : Event(op, r) \in Events
<1>1. "none" \notin HostErrors
  BY DEF HostErrors
<1>2. "none" \notin Statuses /\ "OK" \in Statuses
  BY DEF Statuses
<1>3. QED
  BY <1>1, <1>2 DEF Failed, Served, Outcomes, Replies, Event, Events

\* A recovered panic.
LEMMA RecoverStep ==
  ASSUME HostTypeOK, NEW op \in Operations, Recover(op)
  PROVE  /\ reply' \in Replies
         /\ lastErr' \in HostErrors /\ reply'.status \notin {"none", "OK"}
         /\ lastErr # "none" => lastErr' = lastErr
BY DEF HostTypeOK, Recover, Record, Failed, Panicked, Replies, HostErrors, Statuses

\* Whatever resolveImport or callCapability returns, the hook does and the guest's
\* buffer holds: the reply and the error are well typed, a failing reply leaves an
\* error recorded, and a recorded error stays.
LEMMA ConcludeStep ==
  ASSUME HostTypeOK, NEW op \in Operations, NEW cap, NEW r \in Outcomes, Conclude(op, cap, r)
  PROVE  /\ call' = Idle
         /\ reply' \in Replies
         /\ lastErr' \in HostErrors \cup {"none"}
         /\ audit' = Append(audit, Event(op, r))
         /\ audit' \in Seq(Events)
         /\ FailureRecorded'
         /\ ErrorKept
<1>1. audit' \in Seq(Events) /\ call' = Idle /\ audit' = Append(audit, Event(op, r))
  BY OutcomeTypes DEF Conclude, HostTypeOK
<1>2. CASE Recover(op)
  BY <1>1, <1>2, RecoverStep DEF FailureRecorded, ErrorKept, HostErrors
<1>3. CASE Deliver(cap, r)
  <2>1. CASE r.status = "OK" /\ EncodedLen(r.file, r.size) > cap
    BY <1>1, <1>3, <2>1 DEF Deliver, Failed, Record, Replies, HostErrors, Statuses, HostTypeOK,
                            FailureRecorded, ErrorKept
  <2>2. CASE ~(r.status = "OK" /\ EncodedLen(r.file, r.size) > cap)
    BY <1>1, <1>3, <2>2 DEF Deliver, Record, Outcomes, Replies, HostTypeOK, FailureRecorded,
                            ErrorKept
  <2>3. QED
    BY <2>1, <2>2
<1>4. QED
  BY <1>2, <1>3 DEF Conclude

-----------------------------------------------------------------------------
(* The list of resolved imports                                            *)

\* A step that charges nothing, records nothing and ends a host call in r, which
\* serves no file, keeps the invariant.
LEMMA RefusedKeeps ==
  ASSUME HostInv, NEW op \in Operations, NEW cap, NEW r \in Outcomes, r.file = "none",
         Conclude(op, cap, r),
         UNCHANGED <<importer, resolved, ctxDone>>,
         importCalls' \in importCalls..MaxImports,
         importBytes' \in 0..MaxTotalImportBytes,
         capabilityCalls' \in 0..MaxCapabilityCalls
  PROVE  HostInv'
<1>1. /\ call' = Idle /\ reply' \in Replies
      /\ lastErr' \in HostErrors \cup {"none"}
      /\ audit' = Append(audit, Event(op, r)) /\ audit' \in Seq(Events)
      /\ FailureRecorded'
  BY ConcludeStep DEF HostInv
<1>2. HostTypeOK'
  BY <1>1, BudgetAssumption DEF HostInv, HostTypeOK
<1>3. ResolvedBounded'
  BY <1>1 DEF HostInv, HostTypeOK, ResolvedBounded, Idle
<1>4. AuditMatchesResolved'
  <2>1. Event(op, r) \in Events /\ Event(op, r).file = "none"
    BY OutcomeTypes DEF Event
  <2>2. FilesOf(audit') = FilesOf(audit) \cup {"none"}
    BY <1>1, <2>1, AppendFiles DEF HostInv, HostTypeOK
  <2>3. QED
    BY <2>2 DEF HostInv, AuditMatchesResolved, FilesOf
<1>5. QED
  BY <1>1, <1>2, <1>3, <1>4 DEF HostInv

\* A step that leaves the list, the count, the call and the trail alone.
LEMMA SameList ==
  ASSUME ResolvedBounded, AuditMatchesResolved, UNCHANGED <<resolved, importCalls, call, audit>>
  PROVE  ResolvedBounded' /\ AuditMatchesResolved'
<1>1. ResolvedBounded'
  BY DEF ResolvedBounded
<1>2. AuditMatchesResolved'
  BY DEF AuditMatchesResolved
<1>3. QED
  BY <1>1, <1>2

\* recordResolved lists a path once, and keeps every other.
LEMMA RecordStep ==
  ASSUME HostTypeOK, ResolvedBounded, call.op = "import", NEW file \in Files,
         RecordResolved(file)
  PROVE  /\ resolved' \in Seq(Files)
         /\ Len(resolved') <= importCalls
         /\ \A i, j \in 1..Len(resolved') : resolved'[i] = resolved'[j] => i = j
         /\ ListedIn(resolved') = ListedIn(resolved) \cup {file}
<1>0. resolved \in Seq(Files) /\ Len(resolved) \in Nat /\ importCalls \in Nat
  BY DEF HostTypeOK
<1>1. Len(resolved) + 1 <= importCalls
  BY DEF ResolvedBounded
<1>2. CASE \E i \in 1..Len(resolved) : resolved[i] = file
  <2>1. resolved' = resolved
    BY <1>2 DEF RecordResolved
  <2>2. file \in ListedIn(resolved)
    BY <1>2 DEF ListedIn
  <2>3. Len(resolved') <= importCalls
    BY <1>0, <1>1, <2>1
  <2>4. QED
    BY <1>0, <2>1, <2>2, <2>3 DEF ResolvedBounded
<1>3. CASE ~(\E i \in 1..Len(resolved) : resolved[i] = file)
  <2>1. resolved' = Append(resolved, file)
    BY <1>3 DEF RecordResolved
  <2>2. resolved' \in Seq(Files) /\ Len(resolved') = Len(resolved) + 1
    BY <1>0, <2>1
  <2>3. \A i \in 1..Len(resolved) : resolved'[i] = resolved[i]
    BY <1>0, <2>1
  <2>4. resolved'[Len(resolved) + 1] = file
    BY <1>0, <2>1
  <2>5. \A i, j \in 1..Len(resolved') : resolved'[i] = resolved'[j] => i = j
    BY <1>0, <1>3, <2>2, <2>3, <2>4 DEF ResolvedBounded
  <2>6. ListedIn(resolved') = ListedIn(resolved) \cup {file}
    BY <1>0, <2>1, AppendListed
  <2>7. QED
    BY <1>1, <2>2, <2>5, <2>6
<1>4. QED
  BY <1>2, <1>3

\* A handler's panic keeps the invariant: its event serves no file.
LEMMA PanicKeeps ==
  ASSUME HostInv, NEW op \in Operations, Panic(op)
  PROVE  HostInv' /\ ErrorKept
<1> DEFINE r == Served("none", 0)
<1>1. r \in Outcomes /\ Event(op, r) \in Events /\ Event(op, r).file = "none"
  BY OutcomeTypes DEF Event, Served
<1>2. /\ call' = Idle /\ audit' = Append(audit, Event(op, r))
      /\ UNCHANGED <<importer, importCalls, importBytes, capabilityCalls, resolved, ctxDone>>
  BY DEF Panic, budget
<1>3. Recover(op)
  BY DEF Panic
<1>4. /\ reply' \in Replies /\ lastErr' \in HostErrors
      /\ reply'.status \notin {"none", "OK"} /\ ErrorKept
  BY <1>3, RecoverStep DEF HostInv, ErrorKept
<1>5. audit' \in Seq(Events)
  BY <1>1, <1>2 DEF HostInv, HostTypeOK
<1>6. HostTypeOK'
  BY <1>2, <1>4, <1>5 DEF HostInv, HostTypeOK
<1>7. ResolvedBounded'
  BY <1>2 DEF HostInv, HostTypeOK, ResolvedBounded, Idle
<1>8. AuditMatchesResolved'
  <2>1. FilesOf(audit') = FilesOf(audit) \cup {"none"}
    BY <1>1, <1>2, AppendFiles DEF HostInv, HostTypeOK
  <2>2. QED
    BY <1>2, <2>1 DEF HostInv, AuditMatchesResolved, FilesOf
<1>9. FailureRecorded'
  BY <1>4 DEF FailureRecorded, HostErrors
<1>10. QED
  BY <1>4, <1>6, <1>7, <1>8, <1>9 DEF HostInv

\* The importer's content is served: charged, recorded and reported.
LEMMA ServedKeeps ==
  ASSUME HostInv, NEW file \in Files, NEW n \in Sizes, ImportServed(file, n)
  PROVE  HostInv' /\ ErrorKept
<1>0. HostTypeOK /\ call.op = "import" /\ n \in Nat /\ "import" \in Operations
  BY BudgetAssumption DEF HostInv, ImportServed, Operations
<1>1. Failed("Limit", "LimitError") \in Outcomes /\ Failed("Limit", "LimitError").file = "none"
  BY OutcomeTypes DEF Statuses, HostErrors, Failed
<1>2. importCalls' \in importCalls..MaxImports /\ capabilityCalls' \in 0..MaxCapabilityCalls
  BY <1>0, BudgetAssumption DEF ImportServed, HostTypeOK
<1>3. CASE /\ Conclude("import", call.cap, Failed("Limit", "LimitError"))
           /\ UNCHANGED resolved
           /\ importBytes' \in 0..MaxTotalImportBytes
  <2>1. HostInv'
    BY <1>0, <1>1, <1>2, <1>3, RefusedKeeps DEF ImportServed
  <2>2. ErrorKept
    BY <1>0, <1>1, <1>3, ConcludeStep
  <2>3. QED
    BY <2>1, <2>2
<1>4. CASE /\ WithinBudget(n)
           /\ importBytes' = importBytes + n
           /\ RecordResolved(file)
           /\ Conclude("import", call.cap, Served(file, n))
  <2> DEFINE r == Served(file, n)
  <2>1. r \in Outcomes /\ Event("import", r) \in Events /\ Event("import", r).file = file
    BY <1>0, OutcomeTypes DEF Event, Served
  <2>2. /\ call' = Idle /\ reply' \in Replies
        /\ lastErr' \in HostErrors \cup {"none"}
        /\ audit' = Append(audit, Event("import", r)) /\ audit' \in Seq(Events)
        /\ FailureRecorded' /\ ErrorKept
    BY <1>0, <1>4, <2>1, ConcludeStep
  <2>3. /\ resolved' \in Seq(Files) /\ Len(resolved') <= importCalls
        /\ \A i, j \in 1..Len(resolved') : resolved'[i] = resolved'[j] => i = j
        /\ ListedIn(resolved') = ListedIn(resolved) \cup {file}
    BY <1>0, <1>4, RecordStep DEF HostInv
  <2>4. importBytes' \in 0..MaxTotalImportBytes
    BY <1>0, <1>4, BudgetAssumption DEF WithinBudget, HostTypeOK
  <2>5. HostTypeOK'
    BY <1>0, <1>2, <2>2, <2>3, <2>4 DEF HostTypeOK, ImportServed
  <2>6. ResolvedBounded'
    BY <1>0, <2>2, <2>3 DEF ResolvedBounded, ImportServed, Idle, HostTypeOK
  <2>7. AuditMatchesResolved'
    <3>1. FilesOf(audit') = FilesOf(audit) \cup {file}
      BY <1>0, <2>1, <2>2, AppendFiles DEF HostTypeOK
    <3>2. ListedIn(resolved) = FilesOf(audit) \ {"none"}
      BY DEF HostInv, AuditMatchesResolved, ListedIn, FilesOf
    <3>3. ListedIn(resolved') = FilesOf(audit') \ {"none"}
      BY <2>3, <3>1, <3>2, FilesAssumption
    <3>4. QED
      BY <3>3 DEF AuditMatchesResolved, ListedIn, FilesOf
  <2>8. QED
    BY <2>2, <2>5, <2>6, <2>7 DEF HostInv
<1>5. QED
  <2>1. CASE ~WithinBudget(n)
    BY <1>0, <1>3, <2>1 DEF ImportServed, HostTypeOK
  <2>2. CASE WithinBudget(n) /\ EncodedLen(file, n) > MaxHostResponseBytes
    <3>1. importBytes' \in 0..MaxTotalImportBytes
      BY <1>0, <2>2, BudgetAssumption DEF ImportServed, WithinBudget, HostTypeOK
    <3>2. QED
      BY <1>3, <2>2, <3>1 DEF ImportServed
  <2>3. CASE WithinBudget(n) /\ ~(EncodedLen(file, n) > MaxHostResponseBytes)
    BY <1>4, <2>3 DEF ImportServed
  <2>4. QED
    BY <2>1, <2>2, <2>3

\* A handler is about to be called: the request is counted, nothing is reported yet.
LEMMA AwaitKeeps ==
  ASSUME HostInv, NEW op \in Operations, NEW cap \in Capacities, Await(op, cap), call = Idle,
         UNCHANGED <<importer, importBytes, resolved, ctxDone>>,
         importCalls' \in 0..MaxImports, capabilityCalls' \in 0..MaxCapabilityCalls,
         importCalls' = IF op = "import" THEN importCalls + 1 ELSE importCalls
  PROVE  HostInv' /\ ErrorKept
<1>1. NoReply \in Replies
  BY DEF NoReply, Replies
<1>2. HostTypeOK'
  BY <1>1 DEF HostInv, HostTypeOK, Await
<1>3. ResolvedBounded'
  <2>1. Len(resolved) <= importCalls /\ importCalls \in Nat /\ Len(resolved) \in Nat
    BY DEF HostInv, ResolvedBounded, HostTypeOK, Idle
  <2>2. Len(resolved) + (IF call'.op = "import" THEN 1 ELSE 0) <= importCalls'
    BY <2>1 DEF Await
  <2>3. QED
    BY <2>2 DEF HostInv, ResolvedBounded
<1>4. AuditMatchesResolved'
  BY DEF HostInv, AuditMatchesResolved, Await
<1>5. FailureRecorded' /\ ErrorKept
  BY DEF FailureRecorded, ErrorKept, Await, NoReply
<1>6. QED
  BY <1>2, <1>3, <1>4, <1>5 DEF HostInv

\* A call refused before or after its handler.
LEMMA RefusalKeeps ==
  ASSUME HostInv, NEW op \in Operations, NEW cap, NEW s \in Statuses \ {"OK"},
         NEW e \in HostErrors, Conclude(op, cap, Failed(s, e)),
         UNCHANGED <<importer, resolved, ctxDone>>,
         importCalls' \in importCalls..MaxImports, importBytes' = importBytes,
         capabilityCalls' \in 0..MaxCapabilityCalls
  PROVE  HostInv' /\ ErrorKept
<1>1. Failed(s, e) \in Outcomes /\ Failed(s, e).file = "none"
  BY OutcomeTypes DEF Failed
<1>2. importBytes' \in 0..MaxTotalImportBytes
  BY DEF HostInv, HostTypeOK
<1>3. ErrorKept
  BY <1>1, ConcludeStep DEF HostInv
<1>4. QED
  BY <1>1, <1>2, <1>3, RefusedKeeps

-----------------------------------------------------------------------------
(* Theorems                                                                *)

\* Every step keeps the invariant and the first error.
LEMMA HostStep == HostInv /\ [HostNext]_hostVars => HostInv' /\ [ErrorKept]_hostVars
<1> SUFFICES ASSUME HostInv, [HostNext]_hostVars PROVE HostInv' /\ [ErrorKept]_hostVars
  OBVIOUS
<1> USE DEF budget
<1>0. /\ HostTypeOK
      /\ importCalls \in importCalls..MaxImports /\ capabilityCalls \in 0..MaxCapabilityCalls
      /\ "import" \in Operations /\ "capability" \in Operations
      /\ \A s \in {"Denied", "HandlerFailure", "Limit", "Canceled", "Malformed"} :
            s \in Statuses \ {"OK"}
      /\ {"ABIError", "ImportDenied", "ImportError", "CapabilityError", "LimitError",
          "Cancellation"} = HostErrors
  BY BudgetAssumption DEF HostInv, HostTypeOK, Operations, Statuses, HostErrors
<1>1. ASSUME RejectCall PROVE HostInv' /\ ErrorKept
  <2>1. reply' \in Replies /\ lastErr' \in HostErrors /\ ErrorKept
    BY <1>0, <1>1 DEF RejectCall, Record, Failed, Replies, HostTypeOK, ErrorKept
  <2>2. HostTypeOK'
    BY <1>0, <1>1, <2>1 DEF HostTypeOK, RejectCall
  <2>3. ResolvedBounded' /\ AuditMatchesResolved'
    BY <1>1, SameList DEF RejectCall, HostInv
  <2>4. FailureRecorded'
    BY <2>1 DEF FailureRecorded, HostErrors
  <2>5. QED
    BY <2>1, <2>2, <2>3, <2>4 DEF HostInv
<1>2. ASSUME NEW cap \in Capacities, MalformedImport(cap) PROVE HostInv' /\ ErrorKept
  BY <1>0, <1>2, RefusalKeeps DEF MalformedImport
<1>3. ASSUME NEW cap \in Capacities, UnsafeImport(cap) PROVE HostInv' /\ ErrorKept
  BY <1>0, <1>3, RefusalKeeps DEF UnsafeImport
<1>4. ASSUME NEW cap \in Capacities, ImportOverCount(cap) PROVE HostInv' /\ ErrorKept
  BY <1>0, <1>4, RefusalKeeps DEF ImportOverCount
<1>5. ASSUME NEW cap \in Capacities, ImportCounted(cap) PROVE HostInv' /\ ErrorKept
  <2>1. /\ importCalls' \in importCalls..MaxImports /\ importCalls' \in 0..MaxImports
        /\ importCalls' = importCalls + 1 /\ call = Idle
        /\ UNCHANGED <<importer, importBytes, capabilityCalls, resolved, ctxDone>>
    BY <1>0, <1>5, BudgetAssumption DEF ImportCounted, HostTypeOK, Ready
  <2>2. CASE importer
    <3>1. Await("import", cap)
      BY <1>5, <2>2 DEF ImportCounted
    <3>2. QED
      BY <1>0, <2>1, <3>1, AwaitKeeps
  <2>3. CASE ~importer
    <3>1. Conclude("import", cap, Failed("Denied", "ImportDenied"))
      BY <1>5, <2>3 DEF ImportCounted
    <3>2. QED
      BY <1>0, <2>1, <3>1, RefusalKeeps
  <2>4. QED
    BY <2>2, <2>3
<1>6. ASSUME ImportFails PROVE HostInv' /\ ErrorKept
  <2>1. \E s \in Statuses \ {"OK"}, e \in HostErrors : Conclude("import", call.cap, Failed(s, e))
    BY <1>0, <1>6 DEF ImportFails
  <2>2. QED
    BY <1>0, <1>6, <2>1, RefusalKeeps DEF ImportFails
<1>7. ASSUME ImportMisnamed PROVE HostInv' /\ ErrorKept
  BY <1>0, <1>7, RefusalKeeps DEF ImportMisnamed
<1>8. ASSUME NEW cap \in Capacities, MalformedNative(cap) PROVE HostInv' /\ ErrorKept
  BY <1>0, <1>8, RefusalKeeps DEF MalformedNative
<1>9. ASSUME NEW cap \in Capacities, NativeOverCount(cap) PROVE HostInv' /\ ErrorKept
  BY <1>0, <1>9, RefusalKeeps DEF NativeOverCount
<1>10. ASSUME NEW cap \in Capacities, NEW known \in BOOLEAN, NativeCounted(cap, known)
       PROVE  HostInv' /\ ErrorKept
  <2>1. /\ capabilityCalls' \in 0..MaxCapabilityCalls /\ call = Idle
        /\ UNCHANGED <<importer, importCalls, importBytes, resolved, ctxDone>>
    BY <1>0, <1>10, BudgetAssumption DEF NativeCounted, HostTypeOK, Ready
  <2>2. importCalls' \in importCalls..MaxImports /\ importCalls' \in 0..MaxImports
    BY <1>0, <2>1 DEF HostTypeOK
  <2>3. CASE known
    <3>1. Await("capability", cap)
      BY <1>10, <2>3 DEF NativeCounted
    <3>2. QED
      BY <1>0, <2>1, <2>2, <3>1, AwaitKeeps
  <2>4. CASE ~known
    <3>1. \E s \in Statuses \ {"OK"} : Conclude("capability", cap, Failed(s, "CapabilityError"))
      BY <1>0, <1>10, <2>4 DEF NativeCounted
    <3>2. QED
      BY <1>0, <2>1, <2>2, <3>1, RefusalKeeps
  <2>5. QED
    BY <2>3, <2>4
<1>11. ASSUME NativeFails PROVE HostInv' /\ ErrorKept
  BY <1>0, <1>11, RefusalKeeps DEF NativeFails
<1>12. ASSUME NEW n \in Sizes, NativeServed(n) PROVE HostInv' /\ ErrorKept
  <2>1. PICK r \in {Failed("Limit", "LimitError"), Served("none", n)} :
           Conclude("capability", call.cap, r)
    BY <1>12 DEF NativeServed
  <2>2. r \in Outcomes /\ r.file = "none"
    BY <1>0, OutcomeTypes, BudgetAssumption DEF Failed, Served
  <2>3. HostInv'
    BY <1>0, <1>12, <2>1, <2>2, RefusedKeeps DEF NativeServed, HostTypeOK
  <2>4. ErrorKept
    BY <1>0, <2>1, <2>2, ConcludeStep
  <2>5. QED
    BY <2>3, <2>4
<1>13. ASSUME CancelContext PROVE HostInv' /\ ErrorKept
  <2>1. HostTypeOK' /\ FailureRecorded'
    BY <1>13 DEF CancelContext, HostInv, HostTypeOK, FailureRecorded
  <2>2. ResolvedBounded' /\ AuditMatchesResolved'
    BY <1>13, SameList DEF CancelContext, HostInv
  <2>3. QED
    BY <1>13, <2>1, <2>2 DEF HostInv, CancelContext, ErrorKept
<1>14. CASE UNCHANGED hostVars
  <2>1. HostTypeOK' /\ FailureRecorded'
    BY <1>14 DEF hostVars, HostInv, HostTypeOK, FailureRecorded
  <2>2. ResolvedBounded' /\ AuditMatchesResolved'
    BY <1>14, SameList DEF hostVars, HostInv
  <2>3. QED
    BY <1>14, <2>1, <2>2 DEF HostInv
<1>15. QED
  BY <1>1, <1>2, <1>3, <1>4, <1>5, <1>6, <1>7, <1>8, <1>9, <1>10, <1>11, <1>12, <1>13, <1>14,
     ServedKeeps, PanicKeeps
     DEF HostNext, HandlerStep

\* The invariant holds before the first host call.
LEMMA HostStart == HostInit => HostInv
<1> SUFFICES ASSUME HostInit PROVE HostInv
  OBVIOUS
<1>1. NoReply \in Replies
  BY DEF NoReply, Replies
<1>2. HostTypeOK
  <2>1. 0 \in 0..MaxImports /\ 0 \in 0..MaxTotalImportBytes /\ 0 \in 0..MaxCapabilityCalls
    BY BudgetAssumption
  <2>2. resolved \in Seq(Files) /\ audit \in Seq(Events)
    BY DEF HostInit
  <2>3. QED
    BY <1>1, <2>1, <2>2 DEF HostInit, HostTypeOK
<1>3. ResolvedBounded /\ AuditMatchesResolved
  BY DEF HostInit, ResolvedBounded, AuditMatchesResolved, Idle
<1>4. FailureRecorded
  BY DEF HostInit, FailureRecorded, NoReply
<1>5. QED
  BY <1>2, <1>3, <1>4 DEF HostInv

\* HostInv is an invariant: every property below is one of its conjuncts.
THEOREM HostInvariance == HostSpec => []HostInv
<1>1. QED
  BY HostStart, HostStep, PTL DEF HostSpec

\* The budget of an invocation is never overdrawn and its state is well typed,
\* whatever the guest sends and the handlers do.
THEOREM HostTypeCorrect == HostSpec => []HostTypeOK
BY HostInvariance, PTL DEF HostInv

\* engine.go, recordResolved: the list of served imports has no repeats and stays
\* within the ceiling on calls.
THEOREM ResolvedStaysBounded == HostSpec => []ResolvedBounded
BY HostInvariance, PTL DEF HostInv

\* The audit trail reports exactly the imports the result lists.
THEOREM AuditIsComplete == HostSpec => []AuditMatchesResolved
BY HostInvariance, PTL DEF HostInv

\* Every failure the guest is told of has an error recorded, panics included.
THEOREM FailuresAreRecorded == HostSpec => []FailureRecorded
BY HostInvariance, PTL DEF HostInv

\* engine.go, record: the first error of an evaluation is never replaced.
THEOREM FirstErrorStays == HostSpec => FirstErrorKept
<1>1. HostInv /\ [HostNext]_hostVars => [ErrorKept]_hostVars
  BY HostStep
<1>2. QED
  BY <1>1, HostInvariance, PTL DEF HostSpec, FirstErrorKept

-----------------------------------------------------------------------------
(* The bytes the observer is told of                                       *)

\* A sum over a trail is reached event by event.
LEMMA BytesByEvent ==
  ASSUME NEW trail \in Seq(Events)
  PROVE  \E f \in [0..Len(trail) -> Nat] :
            /\ f[0] = 0
            /\ \A i \in 1..Len(trail) : f[i] = f[i - 1] + Reported(trail[i])
            /\ BytesOf(trail) = f[Len(trail)]
<1> DEFINE n == Len(trail)
           step == [i \in 1..n |-> [b \in Nat |-> b + Reported(trail[i])]]
           Sums(f) == f = [i \in 0..n |-> IF i = 0 THEN 0 ELSE f[i - 1] + Reported(trail[i])]
<1>1. n \in Nat /\ 0 \in Nat
  OBVIOUS
<1>2. \A i \in 1..n : Reported(trail[i]) \in Nat
  <2> TAKE i \in 1..n
  <2>1. trail[i] \in Events
    OBVIOUS
  <2> QED
    BY <2>1 DEF Events, Reported
<1>3. step \in [1..n -> [Nat -> Nat]]
  BY <1>2
<1>4. \A i \in 1..n, b \in Nat : step[i][b] = b + Reported(trail[i])
  OBVIOUS
<1>5. BytesOf(trail) = (CHOOSE f : Sums(f))[n]
  BY DEF BytesOf
<1> HIDE DEF n, step
<1>0. PICK f \in [0..n -> Nat] : Iterates(f, n, 0, step)
  BY <1>1, <1>3, Iteration
<1>6. f[0] = 0 /\ \A i \in 1..n : f[i] = step[i][f[i - 1]]
  BY <1>0 DEF Iterates
<1>7. \A i \in 1..n : f[i] = f[i - 1] + Reported(trail[i])
  BY <1>1, <1>4, <1>6
<1>8. Sums(f)
  BY <1>1, <1>6, <1>7
<1> DEFINE g == CHOOSE h : Sums(h)
<1>9. Sums(g)
  BY <1>8
<1> HIDE DEF g
<1>10. g[0] = 0 /\ \A i \in 1..n : g[i] = g[i - 1] + Reported(trail[i])
  BY <1>1, <1>9
<1>11. GoOnAlike(f, g, n)
  BY <1>6, <1>7, <1>10 DEF GoOnAlike
<1>13. Alike(f, g, n)
  BY <1>1, <1>11, OneIteration
<1>12. BytesOf(trail) = f[n]
  BY <1>1, <1>5, <1>13 DEF g, Alike
<1> QED
  BY <1>6, <1>7, <1>12 DEF n

\* An event adds what it reports.
LEMMA AppendBytes ==
  ASSUME NEW trail \in Seq(Events), NEW e \in Events
  PROVE  /\ BytesOf(trail) \in Nat
         /\ BytesOf(Append(trail, e)) = BytesOf(trail) + Reported(e)
<1> DEFINE n == Len(trail)
           longer == Append(trail, e)
<1>1. n \in Nat /\ longer \in Seq(Events) /\ Len(longer) = n + 1
  OBVIOUS
<1>2. \A i \in 1..n : longer[i] = trail[i]
  OBVIOUS
<1>3. longer[n + 1] = e
  OBVIOUS
<1>4. PICK f \in [0..n -> Nat] :
         /\ f[0] = 0
         /\ \A i \in 1..n : f[i] = f[i - 1] + Reported(trail[i])
         /\ BytesOf(trail) = f[n]
  BY BytesByEvent
<1> HIDE DEF longer
<1>5. PICK g \in [0..n + 1 -> Nat] :
         /\ g[0] = 0
         /\ \A i \in 1..n + 1 : g[i] = g[i - 1] + Reported(longer[i])
         /\ BytesOf(longer) = g[n + 1]
  BY <1>1, BytesByEvent
<1> HIDE DEF n
<1>6. \A i \in 1..n : i \in 1..n + 1 /\ g[i] = g[i - 1] + Reported(trail[i])
  BY <1>1, <1>2, <1>5
<1>11. GoOnAlike(f, g, n)
  BY <1>4, <1>5, <1>6 DEF GoOnAlike
<1>7. Alike(f, g, n)
  BY <1>1, <1>11, OneIteration
<1>8. n \in 0..n /\ n + 1 \in 1..n + 1 /\ (n + 1) - 1 = n
  BY <1>1
<1>9. g[n + 1] = g[n] + Reported(e)
  BY <1>3, <1>5, <1>8
<1>10. f[n] \in Nat
  BY <1>8
<1> QED
  BY <1>4, <1>5, <1>7, <1>8, <1>9, <1>10 DEF longer, Alike

\* No event, no byte.
LEMMA NoBytes == BytesOf(<<>>) = 0
<1>1. <<>> \in Seq(Events) /\ Len(<<>>) = 0
  OBVIOUS
<1> QED
  BY <1>1, BytesByEvent

\* What a step tells the observer, if anything, it has charged.
Charges ==
    \/ UNCHANGED <<audit, importBytes>>
    \/ \E e \in Events : audit' = Append(audit, e) /\ importBytes + Reported(e) <= importBytes'

\* A host call that ends with no content reports no bytes of an import.
LEMMA ReportsNothing ==
  ASSUME HostTypeOK, NEW op \in Operations, NEW cap, NEW r \in Outcomes,
         r.size = 0 \/ op = "capability", Conclude(op, cap, r), UNCHANGED importBytes
  PROVE  Charges
<1>1. Event(op, r) \in Events /\ Reported(Event(op, r)) = 0
  BY OutcomeTypes DEF Event, Reported
<1>2. importBytes \in Nat
  BY DEF HostTypeOK
<1> QED
  BY <1>1, <1>2 DEF Conclude, Charges

\* A host call refused before or after its handler reports no bytes.
LEMMA FailureReportsNothing ==
  ASSUME HostTypeOK, NEW op \in Operations, NEW cap, NEW s \in Statuses \ {"OK"},
         NEW e \in HostErrors, Conclude(op, cap, Failed(s, e)), UNCHANGED importBytes
  PROVE  Charges
<1>1. Failed(s, e) \in Outcomes /\ Failed(s, e).size = 0
  BY OutcomeTypes DEF Failed
<1> QED
  BY <1>1, ReportsNothing

\* The content of an import is charged before it is reported.
LEMMA ContentCharged ==
  ASSUME HostTypeOK, NEW file \in Files, NEW n \in Sizes, ImportServed(file, n)
  PROVE  Charges
<1>1. importBytes \in Nat /\ n \in Nat /\ "import" \in Operations
  BY BudgetAssumption DEF HostTypeOK, Operations
<1>2. "Limit" \in Statuses \ {"OK"} /\ "LimitError" \in HostErrors
  BY DEF Statuses, HostErrors
<1>3. CASE ~WithinBudget(n)
  BY <1>1, <1>2, <1>3, FailureReportsNothing DEF ImportServed
<1>4. CASE WithinBudget(n)
  <2>1. importBytes' = importBytes + n
    BY <1>4 DEF ImportServed
  <2>2. PICK r \in {Failed("Limit", "LimitError"), Served(file, n)} :
           Conclude("import", call.cap, r)
    BY <1>4 DEF ImportServed
  <2>3. r \in Outcomes /\ r.size \in 0..n
    BY <1>1, <1>2, <2>2, OutcomeTypes DEF Failed, Served
  <2>4. /\ Event("import", r) \in Events
        /\ Reported(Event("import", r)) \in 0..n
        /\ audit' = Append(audit, Event("import", r))
    BY <1>1, <2>2, <2>3, OutcomeTypes DEF Event, Reported, Conclude
  <2> QED
    BY <1>1, <2>1, <2>4 DEF Charges
<1> QED
  BY <1>3, <1>4

LEMMA StepCharges ==
  ASSUME HostTypeOK, [HostNext]_hostVars
  PROVE  Charges
<1> USE DEF budget
<1>0. /\ "import" \in Operations /\ "capability" \in Operations
      /\ \A s \in {"Denied", "HandlerFailure", "Limit", "Canceled", "Malformed"} :
            s \in Statuses \ {"OK"}
      /\ {"ABIError", "ImportDenied", "ImportError", "CapabilityError", "LimitError",
          "Cancellation"} = HostErrors
  BY DEF Operations, Statuses, HostErrors
<1>1. CASE UNCHANGED hostVars \/ RejectCall \/ CancelContext
  BY <1>1 DEF hostVars, RejectCall, CancelContext, Charges
<1>2. ASSUME NEW cap \in Capacities,
             MalformedImport(cap) \/ UnsafeImport(cap) \/ ImportOverCount(cap)
      PROVE  Charges
  BY <1>0, <1>2, FailureReportsNothing DEF MalformedImport, UnsafeImport, ImportOverCount
<1>3. ASSUME NEW cap \in Capacities, MalformedNative(cap) \/ NativeOverCount(cap)
      PROVE  Charges
  BY <1>0, <1>3, FailureReportsNothing DEF MalformedNative, NativeOverCount
<1>4. ASSUME NEW cap \in Capacities, ImportCounted(cap) PROVE Charges
  BY <1>0, <1>4, FailureReportsNothing DEF ImportCounted, Await, Charges
<1>5. ASSUME NEW cap \in Capacities, NEW known \in BOOLEAN, NativeCounted(cap, known)
      PROVE  Charges
  <2>1. CASE known
    BY <1>5, <2>1 DEF NativeCounted, Await, Charges
  <2>2. CASE ~known
    <3>1. PICK s \in Statuses \ {"OK"} : Conclude("capability", cap, Failed(s, "CapabilityError"))
      BY <1>0, <1>5, <2>2 DEF NativeCounted
    <3> QED
      BY <1>0, <1>5, <3>1, FailureReportsNothing DEF NativeCounted
  <2> QED
    BY <2>1, <2>2
<1>6. CASE ImportFails \/ ImportMisnamed
  <2>1. PICK s \in Statuses \ {"OK"}, e \in HostErrors : Conclude("import", call.cap, Failed(s, e))
    BY <1>0, <1>6 DEF ImportFails, ImportMisnamed
  <2> QED
    BY <1>0, <1>6, <2>1, FailureReportsNothing DEF ImportFails, ImportMisnamed
<1>7. CASE NativeFails
  <2>1. PICK s \in Statuses \ {"OK"}, e \in HostErrors :
           Conclude("capability", call.cap, Failed(s, e))
    BY <1>0, <1>7 DEF NativeFails
  <2> QED
    BY <1>0, <1>7, <2>1, FailureReportsNothing DEF NativeFails
<1>8. ASSUME NEW n \in Sizes, NativeServed(n) PROVE Charges
  <2>1. PICK r \in {Failed("Limit", "LimitError"), Served("none", n)} :
           Conclude("capability", call.cap, r)
    BY <1>8 DEF NativeServed
  <2>2. r \in Outcomes
    BY <1>0, OutcomeTypes, BudgetAssumption DEF Failed, Served
  <2> QED
    BY <1>0, <1>8, <2>1, <2>2, ReportsNothing DEF NativeServed
<1>9. ASSUME NEW op \in Operations, Panic(op) PROVE Charges
  <2>1. /\ Event(op, Served("none", 0)) \in Events
        /\ Reported(Event(op, Served("none", 0))) = 0
    BY OutcomeTypes DEF Event, Served, Reported
  <2>2. importBytes \in Nat
    BY DEF HostTypeOK
  <2> QED
    BY <1>9, <2>1, <2>2 DEF Panic, Charges
<1> QED
  BY <1>1, <1>2, <1>3, <1>4, <1>5, <1>6, <1>7, <1>8, <1>9, ContentCharged
     DEF HostNext, HandlerStep

\* The observer's trail never reports more bytes of imports than the budget was charged,
\* and the budget is not overdrawn, whatever the sizes and however many host calls.
THEOREM ReportedBytesAreCharged == HostSpec => []BytesCharged
<1>1. HostInit => BytesCharged
  <2> SUFFICES ASSUME HostInit PROVE BytesCharged
    OBVIOUS
  <2>1. BytesOf(audit) = 0 /\ importBytes = 0
    BY NoBytes DEF HostInit
  <2> QED
    BY <2>1, BudgetAssumption DEF BytesCharged
<1>2. HostInv /\ HostInv' /\ BytesCharged /\ [HostNext]_hostVars => BytesCharged'
  <2> SUFFICES ASSUME HostInv, HostInv', BytesCharged, [HostNext]_hostVars PROVE BytesCharged'
    OBVIOUS
  <2>1. /\ audit \in Seq(Events) /\ importBytes \in Nat
        /\ importBytes' \in Nat /\ importBytes' <= MaxTotalImportBytes
    BY BudgetAssumption DEF HostInv, HostTypeOK
  <2>2. Charges
    BY StepCharges DEF HostInv
  <2>3. CASE UNCHANGED <<audit, importBytes>>
    BY <2>3 DEF BytesCharged
  <2>4. ASSUME NEW e \in Events, audit' = Append(audit, e),
               importBytes + Reported(e) <= importBytes'
        PROVE  BytesCharged'
    <3>1. BytesOf(audit) \in Nat /\ BytesOf(audit') = BytesOf(audit) + Reported(e)
      BY <2>1, <2>4, AppendBytes
    <3>2. Reported(e) \in Nat
      BY DEF Reported, Events
    <3>3. BytesOf(audit) <= importBytes
      BY DEF BytesCharged
    <3>4. BytesOf(audit') <= importBytes'
      BY <2>1, <2>4, <3>1, <3>2, <3>3
    <3> QED
      BY <2>1, <3>4 DEF BytesCharged
  <2> QED
    BY <2>2, <2>3, <2>4 DEF Charges
<1> QED
  BY <1>1, <1>2, HostInvariance, PTL DEF HostSpec

-----------------------------------------------------------------------------
(* The contract                                                            *)

\* A failure told to the guest is a failure told under the contract.
LEMMA TellsFailure ==
  ASSUME NEW status \in Statuses \ {"OK"}, NEW e \in HostErrors,
         reply' = Failed(status, e), Record(e)
  PROVE  Contract!Tell(e)
BY DEF Failed, Record, Contract!Tell, Told, Statuses

\* A recovered panic is a failure told.
LEMMA RecoverTells ==
  ASSUME NEW op \in Operations, Recover(op)
  PROVE  \E e \in HostErrors : Contract!Tell(e)
<1>1. Panicked(op) \in HostErrors /\ "HandlerFailure" \in Statuses \ {"OK"}
  BY DEF Panicked, HostErrors, Statuses
<1>2. QED
  BY <1>1, TellsFailure DEF Recover

\* However a host call ends that failed in the handler or before it, the guest is told
\* of a failure.
LEMMA FailedTells ==
  ASSUME NEW op \in Operations, NEW cap,
         NEW status \in Statuses \ {"OK"}, NEW e \in HostErrors,
         Conclude(op, cap, Failed(status, e))
  PROVE  call' = Idle /\ \E f \in HostErrors : Contract!Tell(f)
<1>1. call' = Idle
  BY DEF Conclude
<1>2. CASE Recover(op)
  BY <1>1, <1>2, RecoverTells
<1>3. CASE Deliver(cap, Failed(status, e))
  <2>1. reply' = Failed(status, e) /\ Record(e)
    BY <1>3 DEF Deliver, Failed
  <2>2. QED
    BY <1>1, <2>1, TellsFailure
<1>4. QED
  BY <1>2, <1>3 DEF Conclude

\* A host call that ends with a content or a value serves it, or tells of a failure.
LEMMA ServedTells ==
  ASSUME HostTypeOK, NEW op \in Operations, NEW cap, NEW file, NEW n,
         Conclude(op, cap, Served(file, n))
  PROVE  /\ call' = Idle
         /\ \/ Told' = "served" /\ lastErr' = lastErr
            \/ \E e \in HostErrors : Contract!Tell(e)
<1>1. call' = Idle
  BY DEF Conclude
<1>2. CASE Recover(op)
  BY <1>1, <1>2, RecoverTells
<1>3. CASE Deliver(cap, Served(file, n))
  <2>1. CASE EncodedLen(file, n) > cap
    <3>1. "LimitError" \in HostErrors /\ "Limit" \in Statuses \ {"OK"}
      BY DEF HostErrors, Statuses
    <3>2. reply' = Failed("Limit", "LimitError") /\ Record("LimitError")
      BY <1>3, <2>1 DEF Deliver, Served
    <3>3. QED
      BY <1>1, <3>1, <3>2, TellsFailure
  <2>2. CASE ~(EncodedLen(file, n) > cap)
    BY <1>1, <1>3, <2>2 DEF Deliver, Served, Record, Told, HostTypeOK
  <2>3. QED
    BY <2>1, <2>2
<1>4. QED
  BY <1>2, <1>3 DEF Conclude

\* A host call refused without its handler.
LEMMA Refuses ==
  ASSUME HostTypeOK, call = Idle, call' = Idle,
         \/ UNCHANGED <<importCalls, capabilityCalls>>
         \/ importCalls < MaxImports /\ importCalls' = importCalls + 1 /\ UNCHANGED capabilityCalls
         \/ capabilityCalls < MaxCapabilityCalls /\ capabilityCalls' = capabilityCalls + 1
            /\ UNCHANGED importCalls,
         UNCHANGED <<importBytes, resolved, ctxDone>>,
         \E e \in HostErrors : Contract!Tell(e)
  PROVE  Contract!Next
BY DEF Contract!Next, Contract!Refuse, Contract!ChargeImport, Contract!ChargeNative, Idle, Listed

\* A host call that failed in its handler, with nothing charged.
LEMMA HandlerFailed ==
  ASSUME call.op \in Operations, call' = Idle,
         UNCHANGED <<budget, resolved, ctxDone>>,
         \E e \in HostErrors : Contract!Tell(e)
  PROVE  Contract!Next
BY DEF Contract!Next, Contract!Fail, Idle, Listed, Operations, budget

\* The handler is called.
LEMMA Waits ==
  ASSUME NEW op \in Operations, NEW cap, call = Idle, Await(op, cap),
         \/ op = "import" /\ importCalls < MaxImports /\ importCalls' = importCalls + 1
            /\ UNCHANGED capabilityCalls
         \/ op = "capability" /\ capabilityCalls < MaxCapabilityCalls
            /\ capabilityCalls' = capabilityCalls + 1 /\ UNCHANGED importCalls,
         UNCHANGED <<importBytes, resolved, ctxDone>>
  PROVE  Contract!Next
<1>1. Told' = "none"
  BY DEF Await, NoReply, Told
<1>2. QED
  BY <1>1 DEF Contract!Next, Contract!CallHandler, Contract!ChargeImport, Contract!ChargeNative,
              Await, Idle, Listed

\* A content is charged, and its file listed or not, and the call ends.
LEMMA ImportEnds ==
  ASSUME HostTypeOK, NEW file \in Files, NEW n \in Sizes, ImportServed(file, n)
  PROVE  Contract!Next
<1>1. /\ call.op = "import" /\ ~ctxDone
      /\ UNCHANGED <<importCalls, capabilityCalls, ctxDone>>
  BY DEF ImportServed
<1>2. "LimitError" \in HostErrors /\ "Limit" \in Statuses \ {"OK"} /\ "import" \in Operations
  BY DEF HostErrors, Statuses, Operations
<1>3. CASE ~WithinBudget(n)
  <2>1. Conclude("import", call.cap, Failed("Limit", "LimitError")) /\ UNCHANGED <<importBytes, resolved>>
    BY <1>3 DEF ImportServed
  <2>2. QED
    BY <1>1, <1>2, <2>1, FailedTells, HandlerFailed DEF budget
<1>4. CASE WithinBudget(n)
  <2>1. n \in 0..MaxImportBytes /\ importBytes + n <= MaxTotalImportBytes /\ importBytes' = importBytes + n
    BY <1>4, BudgetAssumption DEF ImportServed, WithinBudget
  <2>2. Contract!ChargeBytes
    BY <2>1 DEF Contract!ChargeBytes
  <2>3. CASE EncodedLen(file, n) > MaxHostResponseBytes
    <3>1. Conclude("import", call.cap, Failed("Limit", "LimitError")) /\ Listed' = Listed
      BY <1>4, <2>3 DEF ImportServed, Listed
    <3>2. call' = Idle /\ \E e \in HostErrors : Contract!Tell(e)
      BY <1>2, <3>1, FailedTells
    <3>3. QED
      BY <1>1, <2>2, <3>1, <3>2 DEF Contract!Next, Contract!Fail, Idle
  <2>4. CASE ~(EncodedLen(file, n) > MaxHostResponseBytes)
    <3>1. RecordResolved(file) /\ Conclude("import", call.cap, Served(file, n))
      BY <1>4, <2>4 DEF ImportServed
    <3>2. Listed' = Listed \cup {file}
      <4>1. CASE \E i \in 1..Len(resolved) : resolved[i] = file
        BY <3>1, <4>1 DEF RecordResolved, Listed
      <4>2. CASE ~\E i \in 1..Len(resolved) : resolved[i] = file
        BY <3>1, <4>2, AppendListed DEF RecordResolved, Listed, ListedIn, HostTypeOK
      <4>3. QED
        BY <4>1, <4>2
    <3>3. /\ call' = Idle
          /\ \/ Told' = "served" /\ lastErr' = lastErr
             \/ \E e \in HostErrors : Contract!Tell(e)
      BY <1>2, <3>1, ServedTells
    <3>4. CASE Told' = "served" /\ lastErr' = lastErr
      BY <1>1, <2>2, <3>2, <3>3, <3>4 DEF Contract!Next, Contract!ServeImport, Idle
    <3>5. CASE \E e \in HostErrors : Contract!Tell(e)
      BY <1>1, <2>2, <3>2, <3>3, <3>5 DEF Contract!Next, Contract!Fail, Idle
    <3>6. QED
      BY <3>3, <3>4, <3>5
  <2>5. QED
    BY <2>3, <2>4
<1>5. QED
  BY <1>3, <1>4

\* A native value is served, or its reply refused.
LEMMA NativeEnds ==
  ASSUME HostTypeOK, NEW n \in Sizes, NativeServed(n)
  PROVE  Contract!Next
<1>1. /\ call.op = "capability" /\ ~ctxDone
      /\ UNCHANGED <<budget, resolved, ctxDone>>
  BY DEF NativeServed, budget
<1>2. /\ "LimitError" \in HostErrors /\ "Limit" \in Statuses \ {"OK"}
      /\ "capability" \in Operations
  BY DEF HostErrors, Statuses, Operations
<1>3. CASE EncodedLen("none", n) > MaxHostResponseBytes
  BY <1>1, <1>2, <1>3, FailedTells, HandlerFailed DEF NativeServed
<1>4. CASE ~(EncodedLen("none", n) > MaxHostResponseBytes)
  <2>1. /\ call' = Idle
        /\ \/ Told' = "served" /\ lastErr' = lastErr
           \/ \E e \in HostErrors : Contract!Tell(e)
    BY <1>2, <1>4, ServedTells DEF NativeServed
  <2>2. CASE Told' = "served" /\ lastErr' = lastErr
    BY <1>1, <2>1, <2>2 DEF Contract!Next, Contract!ServeNative, Idle, Listed, budget
  <2>3. CASE \E e \in HostErrors : Contract!Tell(e)
    BY <1>1, <1>2, <2>1, <2>3, HandlerFailed
  <2>4. QED
    BY <2>1, <2>2, <2>3
<1>5. QED
  BY <1>3, <1>4

\* Every step of the Go host is a step of the contract.
LEMMA ContractStep ==
  ASSUME HostTypeOK, [HostNext]_hostVars
  PROVE  [Contract!Next]_(Contract!vars)
<1>1. CASE UNCHANGED hostVars
  BY <1>1 DEF hostVars, Contract!vars, Listed, Told
<1>2. /\ HostErrors = {"ABIError", "ImportDenied", "ImportError", "CapabilityError",
                       "LimitError", "Cancellation"}
      /\ Statuses \ {"OK"} = {"Denied", "HandlerFailure", "Limit", "Canceled", "Malformed"}
      /\ Operations = {"import", "capability"}
  BY DEF HostErrors, Statuses, Operations
<1>3. CASE RejectCall
  BY <1>2, <1>3, TellsFailure, Refuses DEF RejectCall, Ready, budget
<1>4. ASSUME NEW cap, MalformedImport(cap) PROVE Contract!Next
  BY <1>2, <1>4, FailedTells, Refuses DEF MalformedImport, Ready, budget
<1>5. ASSUME NEW cap, UnsafeImport(cap) PROVE Contract!Next
  BY <1>2, <1>5, FailedTells, Refuses DEF UnsafeImport, Ready, budget
<1>6. ASSUME NEW cap, ImportOverCount(cap) PROVE Contract!Next
  BY <1>2, <1>6, FailedTells, Refuses DEF ImportOverCount, Ready, budget
<1>7. ASSUME NEW cap, ImportCounted(cap) PROVE Contract!Next
  <2>1. CASE importer
    BY <1>2, <1>7, <2>1, Waits DEF ImportCounted, Ready
  <2>2. CASE ~importer
    BY <1>2, <1>7, <2>2, FailedTells, Refuses DEF ImportCounted, Ready
  <2>3. QED
    BY <2>1, <2>2
<1>8. ASSUME NEW cap, MalformedNative(cap) PROVE Contract!Next
  BY <1>2, <1>8, FailedTells, Refuses DEF MalformedNative, Ready, budget
<1>9. ASSUME NEW cap, NativeOverCount(cap) PROVE Contract!Next
  BY <1>2, <1>9, FailedTells, Refuses DEF NativeOverCount, Ready, budget
<1>10. ASSUME NEW cap, NEW known \in BOOLEAN, NativeCounted(cap, known) PROVE Contract!Next
  <2>1. CASE known
    BY <1>2, <1>10, <2>1, Waits DEF NativeCounted, Ready
  <2>2. CASE ~known
    <3>1. PICK status \in {"Denied", "Malformed"} :
             Conclude("capability", cap, Failed(status, "CapabilityError"))
      BY <1>10, <2>2 DEF NativeCounted
    <3>2. call' = Idle /\ \E e \in HostErrors : Contract!Tell(e)
      BY <1>2, <3>1, FailedTells
    <3>3. QED
      BY <1>10, <3>2, Refuses DEF NativeCounted, Ready
  <2>3. QED
    BY <2>1, <2>2
<1>11. CASE ImportFails
  <2>1. PICK r \in {Failed("Canceled", "Cancellation"), Failed("Denied", "ImportDenied"),
                    Failed("HandlerFailure", "ImportError")} : Conclude("import", call.cap, r)
    BY <1>11 DEF ImportFails
  <2>2. call' = Idle /\ \E e \in HostErrors : Contract!Tell(e)
    BY <1>2, <2>1, FailedTells
  <2>3. QED
    BY <1>2, <1>11, <2>2, HandlerFailed DEF ImportFails
<1>12. CASE ImportMisnamed
  BY <1>2, <1>12, FailedTells, HandlerFailed DEF ImportMisnamed
<1>13. CASE NativeFails
  <2>1. CASE ctxDone
    BY <1>2, <1>13, <2>1, FailedTells, HandlerFailed DEF NativeFails
  <2>2. CASE ~ctxDone
    BY <1>2, <1>13, <2>2, FailedTells, HandlerFailed DEF NativeFails
  <2>3. QED
    BY <2>1, <2>2
<1>14. ASSUME NEW op \in Operations, Panic(op) PROVE Contract!Next
  BY <1>14, RecoverTells, HandlerFailed DEF Panic
<1>15. CASE CancelContext
  BY <1>15 DEF CancelContext, Contract!Next, Contract!TimeOver, budget, Listed, Told
<1>16. QED
  BY <1>1, <1>3, <1>4, <1>5, <1>6, <1>7, <1>8, <1>9, <1>10, <1>11, <1>12, <1>13, <1>14, <1>15,
     ImportEnds, NativeEnds DEF HostNext, HandlerStep

\* engine.go keeps the contract of a host: handlers run only for requests charged, only
\* answers in time are served, charged and listed, and the first failure is kept.
THEOREM GoHostKeepsContract == HostSpec => ContractSpec
<1>1. HostInit => Contract!Init
  BY DEF HostInit, Contract!Init, Listed, Told, Idle, NoReply
<1>2. HostInv => HostTypeOK
  BY DEF HostInv
<1>3. HostTypeOK /\ [HostNext]_hostVars => [Contract!Next]_(Contract!vars)
  BY ContractStep
<1>4. QED
  BY <1>1, <1>2, <1>3, HostInvariance, PTL DEF HostSpec, ContractSpec, Contract!Spec

-----------------------------------------------------------------------------
(* The embedded guest                                                      *)

(* The host side                                                           *)

\* Every step of the evaluation is a step of HostCalls or leaves the host alone.
LEMMA StepIsHostStep == [Next]_vars => [HostNext]_hostVars
<1> SUFFICES ASSUME [Next]_vars PROVE HostNext \/ UNCHANGED hostVars
  OBVIOUS
<1>1. ASSUME NEW k \in Keys, AskImport(k) PROVE HostNext
  BY <1>1, BufferAssumption DEF AskImport, FullBuffer, HostNext
<1>2. ASSUME AskNative PROVE HostNext
  <2>1. TRUE \in BOOLEAN
    OBVIOUS
  <2>2. QED
    BY <1>2, <2>1, BufferAssumption DEF AskNative, FullBuffer, HostNext
<1>3. QED
  BY <1>1, <1>2 DEF Next, HostNext, RequestTooLong, ReceiveImport, ReceiveNative, GuestFails,
                    GuestEnds, Report, Stopped, vars

\* The embedded guest is one of the guests of HostCalls.
THEOREM InvocationImplementsHost == Spec => HostSpec
<1>1. Init => HostInit
  BY DEF Init
<1>2. QED
  BY <1>1, StepIsHostStep, PTL DEF Spec, HostSpec

\* A host that has not failed yet: its handler runs, or it has answered, and the
\* answer is a failure exactly when it recorded one.
HostAgrees ==
    IF call = Idle
    THEN /\ reply.status # "none"
         /\ lastErr = reply.error
         /\ reply.status = "OK" <=> lastErr = "none"
    ELSE lastErr = "none"

\* How the first host call that fails ends.
LEMMA FreshConclude ==
  ASSUME HostTypeOK, lastErr = "none", NEW op \in Operations, NEW cap, NEW r \in Outcomes,
         Conclude(op, cap, r)
  PROVE  HostAgrees' /\ (reply'.status = "OK" => reply' = r)
<1>1. call' = Idle
  BY DEF Conclude
<1>2. CASE Recover(op)
  BY <1>1, <1>2 DEF Recover, Record, Failed, HostAgrees, Panicked
<1>3. CASE Deliver(cap, r)
  BY <1>1, <1>3 DEF Deliver, Record, Failed, HostAgrees, Outcomes
<1>4. QED
  BY <1>2, <1>3 DEF Conclude

\* A refusal is an outcome, and no success.
LEMMA FreshRefusal ==
  ASSUME HostTypeOK, lastErr = "none", NEW op \in Operations, NEW cap,
         NEW s \in Statuses \ {"OK"}, NEW e \in HostErrors, Conclude(op, cap, Failed(s, e))
  PROVE  HostAgrees' /\ call' = Idle /\ reply'.status # "OK"
<1>1. Failed(s, e) \in Outcomes /\ Failed(s, e).status # "OK"
  BY OutcomeTypes DEF Failed
<1>2. QED
  BY <1>1, FreshConclude DEF Conclude

\* What a host call begun by a guest that has seen no failure does: it waits for
\* the handler, or it is refused.
LEMMA FreshStart ==
  ASSUME HostTypeOK, lastErr = "none", NEW op \in Operations, NEW cap,
         \/ Await(op, cap)
         \/ \E s \in Statuses \ {"OK"}, e \in HostErrors : Conclude(op, cap, Failed(s, e))
  PROVE  /\ HostAgrees'
         /\ \/ call' = [op |-> op, cap |-> cap]
            \/ call' = Idle /\ reply'.status # "OK"
<1>1. CASE Await(op, cap)
  <2>1. [op |-> op, cap |-> cap] # Idle
    BY DEF Idle, Operations
  <2>2. QED
    BY <1>1, <2>1 DEF Await, HostAgrees
<1>2. CASE \E s \in Statuses \ {"OK"}, e \in HostErrors : Conclude(op, cap, Failed(s, e))
  BY <1>2, FreshRefusal
<1>3. QED
  BY <1>1, <1>2

\* The statuses and errors of refusals.
LEMMA RefusalConstants ==
  /\ \A s \in {"Denied", "HandlerFailure", "Limit", "Canceled", "Malformed"} :
        s \in Statuses \ {"OK"}
  /\ {"ABIError", "ImportDenied", "ImportError", "CapabilityError", "LimitError",
      "Cancellation"} = HostErrors
  /\ "import" \in Operations /\ "capability" \in Operations
BY DEF Statuses, HostErrors, Operations

\* The import of a guest that has seen no failure.
LEMMA AskImportStep ==
  ASSUME HostTypeOK, lastErr = "none", NEW k \in Keys, AskImport(k)
  PROVE  /\ HostAgrees'
         /\ call'.op \in {"none", "import"}
         /\ call' = Idle => reply'.status # "OK"
         /\ resolved' = resolved
<1>1. resolved' = resolved
  BY DEF AskImport, MalformedImport, UnsafeImport, ImportOverCount, ImportCounted
<1>2. \/ Await("import", FullBuffer)
      \/ \E s \in Statuses \ {"OK"}, e \in HostErrors :
            Conclude("import", FullBuffer, Failed(s, e))
  BY RefusalConstants DEF AskImport, MalformedImport, UnsafeImport, ImportOverCount,
                          ImportCounted
<1>3. /\ HostAgrees'
      /\ \/ call' = [op |-> "import", cap |-> FullBuffer]
         \/ call' = Idle /\ reply'.status # "OK"
  BY <1>2, RefusalConstants, FreshStart
<1>4. QED
  BY <1>1, <1>3 DEF Idle

\* The native call of a guest that has seen no failure.
LEMMA AskNativeStep ==
  ASSUME HostTypeOK, lastErr = "none", AskNative
  PROVE  HostAgrees' /\ call'.op \in {"none", "capability"} /\ resolved' = resolved
<1>1. resolved' = resolved
  BY DEF AskNative, NativeOverCount, NativeCounted
<1>2. \/ Await("capability", FullBuffer)
      \/ \E s \in Statuses \ {"OK"}, e \in HostErrors :
            Conclude("capability", FullBuffer, Failed(s, e))
  BY RefusalConstants DEF AskNative, NativeOverCount, NativeCounted
<1>3. /\ HostAgrees'
      /\ \/ call' = [op |-> "capability", cap |-> FullBuffer]
         \/ call' = Idle /\ reply'.status # "OK"
  BY <1>2, RefusalConstants, FreshStart
<1>4. QED
  BY <1>1, <1>3 DEF Idle

\* recordResolved adds the path to the list.
LEMMA RecordListed ==
  ASSUME HostTypeOK, NEW file \in Files, RecordResolved(file)
  PROVE  ListedIn(resolved') = ListedIn(resolved) \cup {file}
<1>1. CASE \E i \in 1..Len(resolved) : resolved[i] = file
  BY <1>1 DEF RecordResolved, ListedIn
<1>2. CASE ~(\E i \in 1..Len(resolved) : resolved[i] = file)
  BY <1>2, AppendListed DEF RecordResolved, HostTypeOK
<1>3. QED
  BY <1>1, <1>2

\* A handler that ends for a guest that has seen no failure: the answer is Idle's,
\* and a served import, and nothing else, is listed before the guest sees it.
LEMMA HandlerEnds ==
  ASSUME HostTypeOK, lastErr = "none", HandlerStep
  PROVE  /\ HostAgrees' /\ call' = Idle /\ call.op \in Operations
         /\ call.op = "import" /\ reply'.status = "OK"
              => reply'.file \in Files /\ ListedIn(resolved') = ListedIn(resolved) \cup {reply'.file}
         /\ call.op = "capability" => resolved' = resolved
<1> USE RefusalConstants
<1>1. CASE ImportFails \/ ImportMisnamed
  <2>1. \E s \in Statuses \ {"OK"}, e \in HostErrors : Conclude("import", call.cap, Failed(s, e))
    BY <1>1 DEF ImportFails, ImportMisnamed
  <2>2. HostAgrees' /\ call' = Idle /\ reply'.status # "OK"
    BY <2>1, FreshRefusal
  <2>3. call.op = "import"
    BY <1>1 DEF ImportFails, ImportMisnamed
  <2>4. QED
    BY <2>2, <2>3
<1>2. CASE NativeFails
  <2>1. \E s \in Statuses \ {"OK"}, e \in HostErrors :
           Conclude("capability", call.cap, Failed(s, e))
    BY <1>2 DEF NativeFails
  <2>2. HostAgrees' /\ call' = Idle
    BY <2>1, FreshRefusal
  <2>3. call.op = "capability" /\ resolved' = resolved
    BY <1>2 DEF NativeFails
  <2>4. QED
    BY <2>2, <2>3
<1>3. ASSUME NEW file \in Files, NEW n \in Sizes, ImportServed(file, n) PROVE
        /\ HostAgrees' /\ call' = Idle /\ call.op = "import"
        /\ reply'.status = "OK"
             => reply'.file \in Files /\ ListedIn(resolved') = ListedIn(resolved) \cup {reply'.file}
  <2>1. call.op = "import"
    BY <1>3 DEF ImportServed
  <2>2. CASE Conclude("import", call.cap, Failed("Limit", "LimitError"))
    <3>1. HostAgrees' /\ call' = Idle /\ reply'.status # "OK"
      BY <2>2, FreshRefusal
    <3>2. QED
      BY <2>1, <3>1
  <2>3. CASE RecordResolved(file) /\ Conclude("import", call.cap, Served(file, n))
    <3>1. Served(file, n) \in Outcomes /\ Served(file, n).file = file
      BY BudgetAssumption, OutcomeTypes DEF Served
    <3>2. HostAgrees' /\ (reply'.status = "OK" => reply' = Served(file, n))
      BY <2>3, <3>1, FreshConclude
    <3>3. call' = Idle
      BY <2>3 DEF Conclude
    <3>4. ListedIn(resolved') = ListedIn(resolved) \cup {file}
      BY <2>3, RecordListed
    <3>5. QED
      BY <2>1, <3>1, <3>2, <3>3, <3>4
  <2>4. QED
    BY <1>3, <2>2, <2>3 DEF ImportServed
<1>4. ASSUME NEW n \in Sizes, NativeServed(n)
      PROVE  HostAgrees' /\ call' = Idle /\ call.op = "capability" /\ resolved' = resolved
  <2>1. PICK r \in {Failed("Limit", "LimitError"), Served("none", n)} :
           Conclude("capability", call.cap, r)
    BY <1>4 DEF NativeServed
  <2>2. r \in Outcomes
    BY OutcomeTypes, BudgetAssumption
  <2>3. HostAgrees' /\ call' = Idle
    BY <2>1, <2>2, FreshConclude DEF Conclude
  <2>4. QED
    BY <1>4, <2>3 DEF NativeServed
<1>5. ASSUME NEW op \in Operations, Panic(op)
      PROVE  /\ HostAgrees' /\ call' = Idle /\ call.op = op /\ resolved' = resolved
             /\ reply'.status # "OK"
  BY <1>5 DEF Panic, Recover, Record, Failed, HostAgrees, Panicked
<1>6. QED
  <2>1. "import" # "capability"
    OBVIOUS
  <2>2. CASE \E file \in Files, n \in Sizes : ImportServed(file, n)
    BY <1>3, <2>1, <2>2
  <2>3. CASE \E n \in Sizes : NativeServed(n)
    BY <1>4, <2>1, <2>3
  <2>4. CASE \E op \in Operations : Panic(op)
    BY <1>5, <2>4
  <2>5. QED
    BY <1>1, <1>2, <2>2, <2>3, <2>4 DEF HandlerStep

-----------------------------------------------------------------------------
(* The two sides agree                                                     *)

GuestPlaces == {"running", "importing", "calling", "failed", "reported", "done"}

\* What the host has recorded, seen from each place of the guest.
Agreement ==
    /\ guest \in GuestPlaces
    /\ guest = "running" => lastErr = "none" /\ call = Idle
    /\ guest = "importing" => HostAgrees /\ call.op \in {"none", "import"}
    /\ guest = "calling" => HostAgrees /\ call.op \in {"none", "capability"}
    /\ guest \in {"failed", "reported", "done"} => call = Idle
    /\ guest \in {"running", "importing", "calling"} => lastStatus = "OK" /\ ~localLimit
    /\ guest = "failed" =>
          IF localLimit THEN lastErr = "none"
          ELSE lastStatus # "OK" /\ lastErr = reply.error /\ lastErr # "none"
    /\ guest = "reported" /\ lastErr # "none"
          => evalStatus = "HostError" /\ lastErr = reply.error
    /\ HostFailureReported

\* Calls are idle or wait for a handler.
LEMMA CallKinds == ASSUME HostTypeOK PROVE call = Idle <=> call.op = "none"
BY DEF HostTypeOK, Idle, Operations

\* Agreement holds as the evaluation begins.
LEMMA AgreementInit == Init => Agreement
BY DEF Init, HostInit, Agreement, GuestPlaces, HostFailureReported, Answered

\* Every step keeps the two sides in agreement.
LEMMA AgreementStep == HostInv /\ Agreement /\ [Next]_vars => Agreement'
<1> SUFFICES ASSUME HostInv, Agreement, [Next]_vars PROVE Agreement'
  OBVIOUS
<1>0. HostTypeOK
  BY DEF HostInv
<1> USE <1>0 DEF Agreement, GuestPlaces, HostFailureReported, Answered
<1>1. ASSUME NEW k \in Keys, AskImport(k) PROVE Agreement'
  <2>1. guest = "running" /\ guest' = "importing" /\ UNCHANGED <<lastStatus, localLimit>>
    BY <1>1 DEF AskImport
  <2>2. HostAgrees' /\ call'.op \in {"none", "import"}
    BY <1>1, <2>1, AskImportStep
  <2>3. QED
    BY <2>1, <2>2
<1>2. ASSUME AskNative PROVE Agreement'
  <2>1. guest = "running" /\ guest' = "calling" /\ UNCHANGED <<lastStatus, localLimit>>
    BY <1>2 DEF AskNative
  <2>2. HostAgrees' /\ call'.op \in {"none", "capability"}
    BY <1>2, <2>1, AskNativeStep
  <2>3. QED
    BY <2>1, <2>2
<1>3. ASSUME RequestTooLong PROVE Agreement'
  BY <1>3 DEF RequestTooLong, hostVars
<1>4. ASSUME HandlerStep, UNCHANGED guestVars PROVE Agreement'
  <2>1. call # Idle
    BY <1>4 DEF HandlerStep, ImportFails, ImportMisnamed, ImportServed, NativeFails,
                NativeServed, Panic, Operations, Idle
  <2>2. guest \in {"importing", "calling"} /\ lastErr = "none"
    BY <2>1 DEF HostAgrees
  <2>3. HostAgrees' /\ call' = Idle
    BY <1>4, <2>2, HandlerEnds
  <2>4. QED
    BY <1>4, <2>2, <2>3 DEF guestVars, Idle
<1>5. ASSUME ReceiveImport PROVE Agreement'
  BY <1>5 DEF ReceiveImport, hostVars, HostAgrees, Refused
<1>6. ASSUME ReceiveNative PROVE Agreement'
  BY <1>6 DEF ReceiveNative, hostVars, HostAgrees, Refused
<1>7. ASSUME GuestFails PROVE Agreement'
  BY <1>7 DEF GuestFails, hostVars, ErrorStatus
<1>8. ASSUME GuestEnds PROVE Agreement'
  BY <1>8 DEF GuestEnds, hostVars
<1>9. ASSUME Report PROVE Agreement'
  <2>1. guest = "reported" /\ guest' = "done" /\ UNCHANGED <<lastErr, reply, call, evalStatus>>
    BY <1>9 DEF Report, hostVars
  <2>2. lastErr # "none" => outcome'.error = lastErr
    BY <1>9, <2>1 DEF Report
  <2>3. QED
    BY <2>1, <2>2
<1>10. ASSUME Stopped PROVE Agreement'
  BY <1>10 DEF Stopped, hostVars
<1>11. ASSUME CancelContext, UNCHANGED guestVars PROVE Agreement'
  BY <1>11 DEF CancelContext, guestVars, HostAgrees
<1>12. CASE UNCHANGED vars
  BY <1>12 DEF vars, hostVars, guestVars, HostAgrees
<1>13. QED
  BY <1>1, <1>2, <1>3, <1>4, <1>5, <1>6, <1>7, <1>8, <1>9, <1>10, <1>11, <1>12 DEF Next

\* The host's invariant and the agreement hold throughout.
THEOREM AgreementInvariance == Spec => [](HostInv /\ Agreement)
<1>1. Init => HostInv /\ Agreement
  BY HostStart, AgreementInit DEF Init
<1>2. HostInv /\ Agreement /\ [Next]_vars => (HostInv /\ Agreement)'
  BY StepIsHostStep, HostStep, AgreementStep
<1>3. QED
  BY <1>1, <1>2, PTL DEF Spec

\* engine.go, evaluate, and hostBridge.lastStatus: a host call that failed is what the
\* caller gets, as the host recorded it and as the guest was told.
THEOREM CallersGetHostFailures == Spec => []HostFailureReported
BY AgreementInvariance, PTL DEF Agreement

-----------------------------------------------------------------------------
(* The list of imports                                                     *)

\* The contents the guest has are those of the imports the host lists.
Listing ==
    /\ guest \in {"running", "calling"} => ListedIn(resolved) = DOMAIN contents
    /\ guest = "importing" /\ call # Idle => ListedIn(resolved) = DOMAIN contents
    /\ guest = "importing" /\ call = Idle /\ reply.status = "OK"
          => reply.file \in Files /\ ListedIn(resolved) = DOMAIN contents \cup {reply.file}
    /\ guest = "reported" /\ evalStatus = "OK" => ListedIn(resolved) = DOMAIN contents
    /\ ImportsListed

\* Every step keeps the host's list and the guest's contents together.
LEMMA ListingStep == HostInv /\ Agreement /\ Listing /\ [Next]_vars => Listing'
<1> SUFFICES ASSUME HostInv, Agreement, Listing, [Next]_vars PROVE Listing'
  OBVIOUS
<1>0. HostTypeOK
  BY DEF HostInv
<1> USE <1>0 DEF Listing, ImportsListed, Answered
<1>1. ASSUME NEW k \in Keys, AskImport(k) PROVE Listing'
  <2>1. guest = "running" /\ guest' = "importing" /\ contents' = contents
    BY <1>1 DEF AskImport
  <2>2. resolved' = resolved /\ (call' = Idle => reply'.status # "OK")
    BY <1>1, <2>1, AskImportStep DEF Agreement
  <2>3. QED
    BY <2>1, <2>2 DEF ListedIn
<1>2. ASSUME AskNative PROVE Listing'
  <2>1. guest = "running" /\ guest' = "calling" /\ contents' = contents
    BY <1>2 DEF AskNative
  <2>2. resolved' = resolved
    BY <1>2, <2>1, AskNativeStep DEF Agreement
  <2>3. QED
    BY <2>1, <2>2 DEF ListedIn
<1>3. ASSUME RequestTooLong PROVE Listing'
  BY <1>3 DEF RequestTooLong, hostVars, ListedIn
<1>4. ASSUME HandlerStep, UNCHANGED guestVars PROVE Listing'
  <2>1. call # Idle
    BY <1>4 DEF HandlerStep, ImportFails, ImportMisnamed, ImportServed, NativeFails,
                NativeServed, Panic, Operations, Idle
  <2>2. guest \in {"importing", "calling"} /\ lastErr = "none"
    BY <2>1 DEF Agreement, GuestPlaces, HostAgrees
  <2>3. /\ call' = Idle /\ call.op \in Operations
        /\ call.op = "import" /\ reply'.status = "OK"
             => reply'.file \in Files /\ ListedIn(resolved') = ListedIn(resolved) \cup {reply'.file}
        /\ call.op = "capability" => resolved' = resolved
    BY <1>4, <2>2, HandlerEnds
  <2>4. CASE guest = "importing"
    <3>1. call.op = "import"
      BY <2>3, <2>4 DEF Agreement, Operations
    <3>2. QED
      BY <1>4, <2>1, <2>3, <2>4, <3>1 DEF guestVars
  <2>5. CASE guest = "calling"
    <3>1. call.op = "capability"
      BY <2>3, <2>5 DEF Agreement, Operations
    <3>2. QED
      BY <1>4, <2>3, <2>5, <3>1 DEF guestVars, ListedIn
  <2>6. QED
    BY <2>2, <2>4, <2>5
<1>5. ASSUME ReceiveImport PROVE Listing'
  <2>1. guest = "importing" /\ call = Idle /\ resolved' = resolved
    BY <1>5 DEF ReceiveImport, hostVars
  <2>2. CASE Refused
    BY <1>5, <2>1, <2>2 DEF ReceiveImport
  <2>3. CASE ~Refused
    <3>1. DOMAIN contents' = DOMAIN contents \cup {reply.file} /\ guest' = "running"
      BY <1>5, <2>3 DEF ReceiveImport, Put
    <3>2. ListedIn(resolved) = DOMAIN contents \cup {reply.file}
      BY <2>1, <2>3 DEF Refused
    <3>3. QED
      BY <2>1, <3>1, <3>2 DEF ListedIn
  <2>4. QED
    BY <2>2, <2>3
<1>6. ASSUME ReceiveNative PROVE Listing'
  BY <1>6 DEF ReceiveNative, hostVars, ListedIn
<1>7. ASSUME GuestFails PROVE Listing'
  <2>1. evalStatus' # "OK" /\ guest' = "reported"
    BY <1>7 DEF GuestFails, ErrorStatus
  <2>2. QED
    BY <2>1
<1>8. ASSUME GuestEnds PROVE Listing'
  BY <1>8 DEF GuestEnds, hostVars, ListedIn
<1>9. ASSUME Report PROVE Listing'
  <2>1. guest = "reported" /\ guest' = "done" /\ UNCHANGED <<evalStatus, contents>>
        /\ outcome'.imports = resolved
    BY <1>9 DEF Report
  <2>2. QED
    BY <2>1 DEF ListedIn
<1>10. ASSUME Stopped PROVE Listing'
  BY <1>10 DEF Stopped
<1>11. ASSUME CancelContext, UNCHANGED guestVars PROVE Listing'
  BY <1>11 DEF CancelContext, guestVars, ListedIn
<1>12. CASE UNCHANGED vars
  BY <1>12 DEF vars, hostVars, guestVars, ListedIn
<1>13. QED
  BY <1>1, <1>2, <1>3, <1>4, <1>5, <1>6, <1>7, <1>8, <1>9, <1>10, <1>11, <1>12 DEF Next

\* types.go, Result.Imports: what a successful evaluation lists is exactly what the
\* program was given, in spite of refused replies, caches and panics.
THEOREM ImportsAreListed == Spec => []ImportsListed
<1>1. Init => Listing
  BY DEF Init, HostInit, Listing, ImportsListed, Answered, ListedIn, NoEntries
<1>2. HostInv /\ Agreement /\ Listing /\ [Next]_vars => Listing'
  BY ListingStep
<1>3. Listing => ImportsListed
  BY DEF Listing
<1>4. QED
  BY <1>1, <1>2, <1>3, AgreementInvariance, PTL DEF Spec

-----------------------------------------------------------------------------
(* One content per path                                                    *)

\* hostBridge.contents: whatever the importer returns later for a canonical path,
\* every import of it sees the content received first.
THEOREM ContentsAreStable == Spec => []OneContentPerPath
<1>1. Init => OneContentPerPath
  BY DEF Init, OneContentPerPath, NoEntries
<1>2. HostInv /\ Agreement /\ Listing /\ OneContentPerPath /\ [Next]_vars => OneContentPerPath'
  <2> SUFFICES ASSUME HostInv, Agreement, Listing, OneContentPerPath, [Next]_vars
               PROVE  OneContentPerPath'
    OBVIOUS
  <2>1. CASE UNCHANGED <<imports, contents>>
    BY <2>1 DEF OneContentPerPath
  <2>2. CASE ReceiveImport /\ Refused
    <3>1. imports' = Put(imports, asking, FailedImport) /\ contents' = contents
      BY <2>2 DEF ReceiveImport
    <3>2. QED
      BY <3>1 DEF Put, OneContentPerPath
  <2>3. CASE ReceiveImport /\ ~Refused
    <3> DEFINE size == Content(reply.file, reply.size)
    <3>1. /\ contents' = Put(contents, reply.file, size)
          /\ imports' = Put(imports, asking, [file |-> reply.file, size |-> size])
      BY <2>3 DEF ReceiveImport
    <3>2. DOMAIN contents' = DOMAIN contents \cup {reply.file}
      BY <3>1 DEF Put
    <3>3. \A f \in DOMAIN contents : contents'[f] = contents[f]
      BY <3>1 DEF Put, Content
    <3>4. contents'[reply.file] = size
      BY <3>1 DEF Put
    <3>5. QED
      BY <3>1, <3>2, <3>3, <3>4 DEF Put, OneContentPerPath
  <2>4. QED
    BY <2>1, <2>2, <2>3 DEF Next, AskImport, AskNative, RequestTooLong, ReceiveNative,
                            GuestFails, GuestEnds, Report, Stopped, guestVars, vars
<1>3. Init => Listing
  BY DEF Init, HostInit, Listing, ImportsListed, Answered, ListedIn, NoEntries
<1>4. QED
  BY <1>1, <1>2, <1>3, ListingStep, AgreementInvariance, PTL DEF Spec

-----------------------------------------------------------------------------
(* The importer is asked once                                              *)

\* The keys that were asked are in the cache, but for the one the guest waits for, which
\* is not there; so each key has been asked once.
Asking ==
    /\ guest = "importing" => asking \in Keys
    /\ guest \in {"running", "calling", "failed", "reported"} => asking = NotAsking
    /\ asking # NotAsking => asking \notin DOMAIN imports
    /\ IsFiniteSet(DOMAIN imports)
    /\ AskedOnce

\* A step of the host alone, or of the guest alone, asks for nothing.
LEMMA NothingAsked ==
  ASSUME Asking, UNCHANGED <<importCalls, imports>>,
         \/ UNCHANGED <<guest, asking>>
         \/ asking = NotAsking /\ asking' = NotAsking /\ guest' # "importing"
         \/ guest' = "done" /\ asking' = asking
  PROVE  Asking'
BY DEF Asking, AskedOnce

LEMMA AskingStep == HostInv /\ Asking /\ [Next]_vars => Asking'
<1> SUFFICES ASSUME HostInv, Asking, [Next]_vars PROVE Asking'
  OBVIOUS
<1>0. /\ importCalls \in Nat /\ Cardinality(DOMAIN imports) \in Nat
      /\ NotAsking \notin Keys
  BY BudgetAssumption, KeysAssumption, FS_CardinalityType
     DEF HostInv, HostTypeOK, Asking, NotAsking
<1>1. ASSUME NEW k \in Keys, AskImport(k) PROVE Asking'
  <2>1. /\ guest = "running" /\ guest' = "importing" /\ asking' = k
        /\ k \notin DOMAIN imports /\ imports' = imports
    BY <1>1 DEF AskImport, Cached
  <2>2. importCalls' \in {importCalls, importCalls + 1}
    BY <1>1 DEF AskImport, MalformedImport, UnsafeImport, ImportOverCount, ImportCounted, budget
  <2>3. importCalls <= Cardinality(DOMAIN imports)
    BY <1>0, <2>1 DEF Asking, AskedOnce
  <2>4. AskedOnce'
    BY <1>0, <2>1, <2>2, <2>3 DEF AskedOnce
  <2> QED
    BY <1>0, <2>1, <2>4 DEF Asking
<1>2. ASSUME ReceiveImport PROVE Asking'
  <2>1. /\ guest = "importing" /\ asking' = NotAsking /\ importCalls' = importCalls
        /\ guest' \in {"failed", "running"}
    BY <1>2 DEF ReceiveImport, hostVars
  <2>2. DOMAIN imports' = DOMAIN imports \cup {asking}
    BY <1>2 DEF ReceiveImport, Put
  <2>3. asking # NotAsking /\ asking \notin DOMAIN imports /\ IsFiniteSet(DOMAIN imports)
    BY <1>0, <2>1 DEF Asking
  <2>4. /\ IsFiniteSet(DOMAIN imports \cup {asking})
        /\ Cardinality(DOMAIN imports \cup {asking}) = Cardinality(DOMAIN imports) + 1
    BY <2>3, FS_AddElement
  <2>5. AskedOnce'
    BY <1>0, <2>1, <2>2, <2>3, <2>4 DEF Asking, AskedOnce
  <2> QED
    BY <2>1, <2>2, <2>4, <2>5 DEF Asking
<1>3. CASE AskNative
  <2>1. importCalls' = importCalls
    BY <1>3 DEF AskNative, NativeOverCount, NativeCounted, budget
  <2> QED
    BY <1>3, <2>1, NothingAsked DEF AskNative, Asking
<1>4. CASE RequestTooLong \/ ReceiveNative \/ GuestFails \/ GuestEnds \/ Report \/ Stopped
  <2>1. UNCHANGED <<importCalls, imports, asking>>
    BY <1>4 DEF RequestTooLong, ReceiveNative, GuestFails, GuestEnds, Report, Stopped, hostVars
  <2>2. guest' = "done" \/ (asking = NotAsking /\ guest' # "importing")
    BY <1>4 DEF RequestTooLong, ReceiveNative, GuestFails, GuestEnds, Report, Stopped, Asking
  <2> QED
    BY <2>1, <2>2, NothingAsked
<1>5. CASE HandlerStep /\ UNCHANGED guestVars
  <2>1. importCalls' = importCalls
    BY <1>5 DEF HandlerStep, ImportFails, ImportMisnamed, ImportServed, NativeFails,
                NativeServed, Panic, budget
  <2> QED
    BY <1>5, <2>1, NothingAsked DEF guestVars
<1>6. CASE CancelContext /\ UNCHANGED guestVars
  BY <1>6, NothingAsked DEF CancelContext, guestVars, budget
<1>7. CASE UNCHANGED vars
  BY <1>7, NothingAsked DEF vars, hostVars, guestVars
<1> QED
  BY <1>1, <1>2, <1>3, <1>4, <1>5, <1>6, <1>7 DEF Next

\* hostBridge.imports: whatever the program imports, and whether it is answered or refused,
\* the host is asked at most once for an importing file and a path.
THEOREM ImportsAreAskedOnce == Spec => []AskedOnce
<1>1. Init => Asking
  <2> SUFFICES ASSUME Init PROVE Asking
    OBVIOUS
  <2>1. DOMAIN imports = {} /\ asking = NotAsking /\ guest = "running" /\ importCalls = 0
    BY DEF Init, HostInit, NoEntries
  <2> QED
    BY <2>1, FS_EmptySet DEF Asking, AskedOnce
<1>2. HostInv /\ Asking /\ [Next]_vars => Asking'
  BY AskingStep
<1>3. Asking => AskedOnce
  BY DEF Asking
<1> QED
  BY <1>1, <1>2, <1>3, AgreementInvariance, PTL DEF Spec
=============================================================================
