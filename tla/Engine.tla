------------------------------- MODULE Engine -------------------------------
(***************************************************************************)
(* The Go engine of sonnetbox (engine.go): concurrent Evaluate calls that  *)
(* share one compiled guest, one concurrency gate and one closed flag, and *)
(* concurrent Close calls.                                                 *)
(*                                                                         *)
(* Each element of Calls is one call of Evaluate, EvaluateAnonymous or     *)
(* EvaluateFile; each element of Closers is one call of Close.  A step is  *)
(* what the code does between two points at which another goroutine, the   *)
(* caller's context or the WebAssembly runtime can intervene.  The three   *)
(* deferred functions of evaluate run last in, first out: close the        *)
(* instance, release the slot, run the observer's hook.                    *)
(*                                                                         *)
(* The runtime (wazero) and the Jsonnet evaluator inside the guest are     *)
(* external: the guest is a process that burns fuel, calls the host,       *)
(* returns a status or is stopped.                                         *)
(***************************************************************************)
EXTENDS Naturals, FiniteSets, Sequences

CONSTANTS
    Calls,          \* the evaluation calls made on the engine
    Closers,        \* the Close calls made on the engine
    MaxConcurrent,  \* EngineConfig.MaxConcurrentEvaluations, the gate's capacity
    MaxFuel,        \* fuel of one evaluation, in guest steps
    TracingCalls    \* the calls whose request sets CaptureTrace

ASSUME CallsAssumption == IsFiniteSet(Calls)
ASSUME GateAssumption == MaxConcurrent \in Nat \ {0}
ASSUME FuelAssumption == MaxFuel \in Nat \ {0}
ASSUME TracingAssumption == TracingCalls \subseteq Calls

VARIABLES
    pc,             \* where each evaluation call is
    closerPc,       \* where each Close call is
    ctxDone,        \* the calls whose context is cancelled or past its deadline
    closed,         \* Engine.closed
    runtimeClosed,  \* the wazero runtime has been closed
    gate,           \* the number of tokens in Engine.gate
    instanceCount,  \* Engine.instance, the counter that names guest instances
    name,           \* the name given to each call's instance, 0 before that
    module,         \* each call's guest instance
    fuel,           \* the fuel left in each call's meter
    hostErr,        \* the calls whose invocationState.lastErr is set
    status,         \* the status the guest reported for each call
    faulted,        \* history: the calls that a trap, or a panic, of the guest's own ended
    result,         \* what each call returns: its error and whether it has Stats
    events          \* the Evaluation events the observer received from each call

vars == <<pc, closerPc, ctxDone, closed, runtimeClosed, gate, instanceCount, name,
          module, fuel, hostErr, status, faulted, result, events>>

guestVars  == <<fuel, hostErr, status, faulted>>
moduleVars == <<instanceCount, name, module>>
closeVars  == <<closerPc, closed, runtimeClosed>>

(***************************************************************************)
(* Where a call can be.                                                    *)
(***************************************************************************)
Waiting    == {"entered", "checkOpen", "prepare", "acquire", "recheck"}
GuestCalls == {"initialize", "alloc", "guest", "trace", "result"}
Cleanup    == {"closeModule", "release"}
Finished   == {"rejected", "returned"}
Places     == {"idle", "instantiate", "host", "observe"}
              \cup Waiting \cup GuestCalls \cup Cleanup \cup Finished

\* The places between taking a token from the gate and giving it back.
SlotPlaces == {"recheck", "instantiate", "host"} \cup GuestCalls \cup Cleanup

Statuses == {"OK", "HostError", "Internal", "JsonnetError"}
Traps    == {"fuel", "memory", "context", "closed", "collision", "fault"}
Errors   == {"InvalidRequest", "Cancelled", "EngineClosed", "FuelLimit", "MemoryLimit",
             "GuestTrap", "ABIError", "HostError", "StatusError"}
Results  == [kind : Errors \cup {"Success", "none"}, stats : BOOLEAN]

NoResult    == [kind |-> "none", stats |-> FALSE]
Empty(k)    == [kind |-> k, stats |-> FALSE]   \* Result{} beside the error
Partial(k)  == [kind |-> k, stats |-> TRUE]    \* partial(): trace, imports and stats

Holders == {c \in Calls : pc[c] \in SlotPlaces}
Live    == {c \in Calls : module[c] \in {"live", "aborted"}}

Goto(c, place)      == pc' = [pc EXCEPT ![c] = place]
Return(c, r, place) == result' = [result EXCEPT ![c] = r] /\ Goto(c, place)

Init ==
    /\ pc = [c \in Calls |-> "idle"]
    /\ closerPc = [k \in Closers |-> "idle"]
    /\ ctxDone = {}
    /\ closed = FALSE
    /\ runtimeClosed = FALSE
    /\ gate = 0
    /\ instanceCount = 1                       \* newEngine's ABI probe took name 1
    /\ name = [c \in Calls |-> 0]
    /\ module = [c \in Calls |-> "none"]
    /\ fuel = [c \in Calls |-> MaxFuel]
    /\ hostErr = {}
    /\ status = [c \in Calls |-> "none"]
    /\ faulted = {}
    /\ result = [c \in Calls |-> NoResult]
    /\ events = [c \in Calls |-> <<>>]

-----------------------------------------------------------------------------
(* Before the gate                                                         *)

\* A nil context, and EvaluateFile's own checks of Source and Filename, fail
\* before the deferred hook exists; any other call enters evaluate.
Evaluate(c) ==
    /\ pc[c] = "idle"
    /\ \/ Return(c, Empty("InvalidRequest"), "rejected")
       \/ Goto(c, "entered") /\ UNCHANGED result
    /\ UNCHANGED <<closeVars, ctxDone, gate, moduleVars, guestVars, events>>

CheckContext(c) ==
    /\ pc[c] = "entered"
    /\ IF c \in ctxDone
       THEN Return(c, Empty("Cancelled"), "observe")
       ELSE Goto(c, "checkOpen") /\ UNCHANGED result
    /\ UNCHANGED <<closeVars, ctxDone, gate, moduleVars, guestVars, events>>

CheckOpen(c) ==
    /\ pc[c] = "checkOpen"
    /\ IF closed
       THEN Return(c, Empty("EngineClosed"), "observe")
       ELSE Goto(c, "prepare") /\ UNCHANGED result
    /\ UNCHANGED <<closeVars, ctxDone, gate, moduleVars, guestVars, events>>

\* withDefaults and prepareRequestMode: the request is refused or encoded.
PrepareRequest(c) ==
    /\ pc[c] = "prepare"
    /\ \/ Return(c, Empty("InvalidRequest"), "observe")
       \/ Goto(c, "acquire") /\ UNCHANGED result
    /\ UNCHANGED <<closeVars, ctxDone, gate, moduleVars, guestVars, events>>

\* Mutant of Acquire: the wait does not look at the context.
AcquireUncancellable(c) ==
    /\ pc[c] = "acquire"
    /\ gate < MaxConcurrent
    /\ gate' = gate + 1
    /\ Goto(c, "recheck")
    /\ UNCHANGED <<closeVars, ctxDone, moduleVars, guestVars, result, events>>

\* acquire's select: when the context is done and the gate has room, Go picks
\* either case.
Acquire(c) ==
    /\ pc[c] = "acquire"
    /\ \/ /\ gate < MaxConcurrent
          /\ gate' = gate + 1
          /\ Goto(c, "recheck")
          /\ UNCHANGED result
       \/ /\ c \in ctxDone
          /\ Return(c, Empty("Cancelled"), "observe")
          /\ UNCHANGED gate
    /\ UNCHANGED <<closeVars, ctxDone, moduleVars, guestVars, events>>

\* Mutant of Recheck: the closed engine is reported without the deferred release.
RecheckLeaksSlot(c) ==
    /\ pc[c] = "recheck"
    /\ IF closed
       THEN Return(c, Empty("EngineClosed"), "observe")
       ELSE Goto(c, "instantiate") /\ UNCHANGED result
    /\ UNCHANGED <<closeVars, ctxDone, gate, moduleVars, guestVars, events>>

\* Mutant of Recheck: the second closed check is forgotten.
RecheckSkipped(c) ==
    /\ pc[c] = "recheck"
    /\ Goto(c, "instantiate")
    /\ UNCHANGED <<closeVars, ctxDone, gate, moduleVars, guestVars, result, events>>

\* The engine may have closed while the call waited for its slot.
Recheck(c) ==
    /\ pc[c] = "recheck"
    /\ IF closed
       THEN Return(c, Empty("EngineClosed"), "release")
       ELSE Goto(c, "instantiate") /\ UNCHANGED result
    /\ UNCHANGED <<closeVars, ctxDone, gate, moduleVars, guestVars, events>>

-----------------------------------------------------------------------------
(* The guest                                                               *)

\* Mutant of RuntimeError: the closed flag is not consulted.
RuntimeErrorIgnoresClose(c, cause) ==
    CASE c \in ctxDone     -> "Cancelled"
      [] c \notin ctxDone /\ cause = "fuel"   -> "FuelLimit"
      [] c \notin ctxDone /\ cause = "memory" -> "MemoryLimit"
      [] OTHER -> "GuestTrap"

\* runtimeError: the error reported for a guest call the runtime stopped.
RuntimeError(c, cause) ==
    CASE c \in ctxDone     -> "Cancelled"
      [] c \notin ctxDone /\ cause = "fuel"   -> "FuelLimit"
      [] c \notin ctxDone /\ cause = "memory" -> "MemoryLimit"
      [] c \notin ctxDone /\ cause \notin {"fuel", "memory"} /\ closed -> "EngineClosed"
      [] OTHER -> "GuestTrap"

\* moduleConfig: the next name of the atomic counter.
NextName == instanceCount + 1

\* InstantiateModule up to the registration of the instance: it fails once the
\* runtime is closed and when a live instance has the same name.
Instantiate(c) ==
    /\ pc[c] = "instantiate"
    /\ instanceCount' = NextName
    /\ name' = [name EXCEPT ![c] = NextName]
    /\ LET collides == \E d \in Live : name[d] = NextName
           cause    == IF runtimeClosed THEN "closed" ELSE "collision"
       IN  IF runtimeClosed \/ collides
           THEN /\ Return(c, Empty(RuntimeError(c, cause)), "release")
                /\ UNCHANGED module
           ELSE /\ module' = [module EXCEPT ![c] = "live"]
                /\ Goto(c, "initialize")
                /\ UNCHANGED result
    /\ UNCHANGED <<closeVars, ctxDone, gate, guestVars, events>>

\* The guest is done with: evaluate returns r, and its invocationState and meter
\* are dropped with its frame.
End(c, r) ==
    /\ Return(c, r, "closeModule")
    /\ fuel' = [fuel EXCEPT ![c] = MaxFuel]
    /\ hostErr' = hostErr \ {c}
    /\ status' = [status EXCEPT ![c] = "none"]

\* A guest call can begin while its instance is open, its context is not done
\* and fuel is left.
Callable(c) == module[c] = "live" /\ c \notin ctxDone /\ fuel[c] > 0

\* Why the runtime may stop c's guest call now.
TrapCauses(c) ==
    {t \in Traps \ {"collision"} :
        /\ t = "fuel"    => fuel[c] = 0
        /\ t = "context" => c \in ctxDone
        /\ t = "closed"  => module[c] = "aborted"}

\* A unit of fuel stands for a stretch of guest instructions: computing for a
\* stretch burns one, a short call may fit in the current one.
Burn(c)    == fuel' = [fuel EXCEPT ![c] = @ - 1]
MayBurn(c) == \E left \in {fuel[c] - 1, fuel[c]} : fuel' = [fuel EXCEPT ![c] = left]

\* The start function _initialize, which InstantiateModule runs, returns.  (When
\* it is stopped the runtime closes the instance itself, before InstantiateModule
\* returns: the same CloseModule step.)
Initialize(c) ==
    /\ pc[c] = "initialize"
    /\ Callable(c)
    /\ MayBurn(c)
    /\ Goto(c, "alloc")
    /\ UNCHANGED <<closeVars, ctxDone, gate, moduleVars, hostErr, status, faulted,
                   result, events>>

\* sonnetbox_request_alloc returns: its pointer is refused, or the request is
\* written and sonnetbox_evaluate called.
RequestAlloc(c) ==
    /\ pc[c] = "alloc"
    /\ Callable(c)
    /\ \/ End(c, Empty("ABIError"))
       \/ /\ MayBurn(c)
          /\ Goto(c, "guest")
          /\ UNCHANGED <<hostErr, status, result>>
    /\ UNCHANGED <<closeVars, ctxDone, gate, moduleVars, faulted, events>>

\* The guest computes for one unit of fuel, in sonnetbox_evaluate.
GuestComputes(c) ==
    /\ pc[c] = "guest"
    /\ fuel[c] > 0
    /\ Burn(c)
    /\ UNCHANGED <<closeVars, ctxDone, gate, moduleVars, hostErr, status, faulted,
                   pc, result, events>>

\* The guest calls the host for an import or a native function.
GuestCallsHost(c) ==
    /\ pc[c] = "guest"
    /\ fuel[c] > 0
    /\ Burn(c)
    /\ Goto(c, "host")
    /\ UNCHANGED <<closeVars, ctxDone, gate, moduleVars, hostErr, status, faulted,
                   result, events>>

\* The importer or the capability returns (or panics): hostCall records the
\* first error of the invocation and packs the reply.
HandlerReturns(c) ==
    /\ pc[c] = "host"
    /\ \E failed \in BOOLEAN :
          hostErr' = IF failed THEN hostErr \cup {c} ELSE hostErr
    /\ Goto(c, "guest")
    /\ UNCHANGED <<closeVars, ctxDone, gate, moduleVars, fuel, status, faulted,
                   result, events>>

\* sonnetbox_evaluate returns: a panic of the guest's own, recovered there, is an internal
\* status.  A call already running may return although the instance was aborted or the
\* context done meanwhile.
GuestReturns(c) ==
    /\ pc[c] = "guest"
    /\ fuel[c] > 0
    /\ \/ End(c, Empty("ABIError"))
       \/ /\ MayBurn(c)
          /\ \E s \in Statuses : status' = [status EXCEPT ![c] = s]
          /\ Goto(c, IF c \in TracingCalls THEN "trace" ELSE "result")
          /\ UNCHANGED <<hostErr, result>>
    /\ UNCHANGED <<closeVars, ctxDone, gate, moduleVars, faulted, events>>

\* readGuestTrace: three guest calls and a copy.
ReadTrace(c) ==
    /\ pc[c] = "trace"
    /\ Callable(c)
    /\ \/ End(c, Empty("ABIError"))
       \/ /\ MayBurn(c)
          /\ Goto(c, "result")
          /\ UNCHANGED <<hostErr, status, result>>
    /\ UNCHANGED <<closeVars, ctxDone, gate, moduleVars, faulted, events>>

\* A recorded host error answers a host-error status without another guest call.
HostErrorReported(c) == status[c] = "HostError" /\ c \in hostErr

ReportHostError(c) ==
    /\ pc[c] = "result"
    /\ HostErrorReported(c)
    /\ End(c, Partial("HostError"))
    /\ UNCHANGED <<closeVars, ctxDone, gate, moduleVars, faulted, events>>

\* The error a status stands for, when the payload decodes: a host-error status that no
\* recorded error answers breaks the ABI, and an internal one is the guest's trap.
guestStatusError(s) ==
    CASE s = "HostError" -> "ABIError"
      [] s = "Internal"  -> "GuestTrap"
      [] OTHER           -> "StatusError"

\* sonnetbox_result_ptr and sonnetbox_result_len, then the payload is copied and
\* decoded: the value, or the error the guest's status stands for.
ReadResult(c) ==
    /\ pc[c] = "result"
    /\ ~HostErrorReported(c)
    /\ Callable(c)
    /\ \/ End(c, Partial("ABIError")) /\ UNCHANGED faulted
       \/ /\ End(c, Partial(IF status[c] = "OK" THEN "Success" ELSE guestStatusError(status[c])))
          /\ faulted' = IF status[c] = "Internal" THEN faulted \cup {c} ELSE faulted
    /\ UNCHANGED <<closeVars, ctxDone, gate, moduleVars, events>>

\* What evaluate returns beside the error of a stopped guest call: statistics
\* once the trace, if any, has been read.
StoppedResult(c, kind) == IF pc[c] = "result" THEN Partial(kind) ELSE Empty(kind)

\* The runtime stops a guest call: fuel or memory is exhausted, the context is
\* done, Close aborted the instance, or the guest traps.
GuestStopped(c) ==
    /\ pc[c] \in GuestCalls
    /\ ~(pc[c] = "result" /\ HostErrorReported(c))
    /\ \E cause \in TrapCauses(c) :
          /\ faulted' = IF cause = "fault" THEN faulted \cup {c} ELSE faulted
          /\ End(c, StoppedResult(c, RuntimeError(c, cause)))
    /\ UNCHANGED <<closeVars, ctxDone, gate, moduleVars, events>>

-----------------------------------------------------------------------------
(* The deferred functions                                                  *)

\* Mutant of CloseModule: the hook, registered last, runs before the slot is free.
CloseModuleObserves(c) ==
    /\ pc[c] = "closeModule"
    /\ module' = [module EXCEPT ![c] = "closed"]
    /\ events' = [events EXCEPT ![c] = Append(@, result[c])]
    /\ Goto(c, "release")
    /\ UNCHANGED <<closeVars, ctxDone, gate, instanceCount, name, guestVars, result>>

CloseModule(c) ==
    /\ pc[c] = "closeModule"
    /\ module' = [module EXCEPT ![c] = "closed"]
    /\ Goto(c, "release")
    /\ UNCHANGED <<closeVars, ctxDone, gate, instanceCount, name, guestVars, result, events>>

Release(c) ==
    /\ pc[c] = "release"
    /\ gate' = gate - 1
    /\ Goto(c, "observe")
    /\ UNCHANGED <<closeVars, ctxDone, moduleVars, guestVars, result, events>>

\* observeEvaluation, and evaluate returns.
Observe(c) ==
    /\ pc[c] = "observe"
    /\ events' = [events EXCEPT ![c] = Append(@, result[c])]
    /\ Goto(c, "returned")
    /\ UNCHANGED <<closeVars, ctxDone, gate, moduleVars, guestVars, result>>

-----------------------------------------------------------------------------
(* Close, and the callers' contexts                                        *)

\* Close sets the flag under the lock; only the call that sets it closes the
\* runtime, any later one returns at once.
Close(k) ==
    /\ closerPc[k] = "idle"
    /\ closed' = TRUE
    /\ closerPc' = [closerPc EXCEPT ![k] = IF closed THEN "returned" ELSE "closing"]
    /\ UNCHANGED <<pc, ctxDone, runtimeClosed, gate, moduleVars, guestVars, result, events>>

\* Mutant of AbortLive: closing the runtime only refuses new instances.
AbortNone == module

\* Every open instance is closed under the runtime's lock; calls running in it
\* stop at their next check.
AbortLive == [c \in Calls |-> IF module[c] = "live" THEN "aborted" ELSE module[c]]

CloseRuntime(k) ==
    /\ closerPc[k] = "closing"
    /\ runtimeClosed' = TRUE
    /\ module' = AbortLive
    /\ closerPc' = [closerPc EXCEPT ![k] = "returned"]
    /\ UNCHANGED <<pc, ctxDone, closed, gate, instanceCount, name, guestVars, result, events>>

\* The caller cancels, or the deadline passes.
Cancel(c) ==
    /\ pc[c] \notin Finished
    /\ ctxDone' = ctxDone \cup {c}
    /\ UNCHANGED <<pc, closeVars, gate, moduleVars, guestVars, result, events>>

-----------------------------------------------------------------------------
\* One step of c's own goroutine, guest included.
CallStep(c) ==
    \/ CheckContext(c) \/ CheckOpen(c) \/ PrepareRequest(c) \/ Acquire(c) \/ Recheck(c)
    \/ Instantiate(c) \/ Initialize(c) \/ RequestAlloc(c)
    \/ GuestComputes(c) \/ GuestCallsHost(c) \/ GuestReturns(c) \/ GuestStopped(c)
    \/ ReadTrace(c) \/ ReportHostError(c) \/ ReadResult(c)
    \/ CloseModule(c) \/ Release(c) \/ Observe(c)

Next ==
    \/ \E c \in Calls : Evaluate(c) \/ CallStep(c) \/ HandlerReturns(c) \/ Cancel(c)
    \/ \E k \in Closers : Close(k) \/ CloseRuntime(k)

Spec == Init /\ [][Next]_vars

\* Goroutines are scheduled; the guest, a goroutine's call, runs on its fuel.
\* Nothing obliges a caller to call or to cancel, nor a handler to return.
EngineFairness ==
    /\ \A c \in Calls : WF_vars(CallStep(c))
    /\ \A k \in Closers : WF_vars(CloseRuntime(k))

FairSpec == Spec /\ EngineFairness

-----------------------------------------------------------------------------
(* Safety                                                                  *)

\* The types of the variables; the gate never holds more tokens than its capacity.
TypeOK ==
    /\ pc \in [Calls -> Places]
    /\ closerPc \in [Closers -> {"idle", "closing", "returned"}]
    /\ ctxDone \subseteq Calls
    /\ closed \in BOOLEAN
    /\ runtimeClosed \in BOOLEAN
    /\ gate \in 0..MaxConcurrent
    /\ instanceCount \in Nat
    /\ name \in [Calls -> Nat]
    /\ module \in [Calls -> {"none", "live", "aborted", "closed"}]
    /\ fuel \in [Calls -> 0..MaxFuel]
    /\ hostErr \subseteq Calls
    /\ status \in [Calls -> Statuses \cup {"none"}]
    /\ faulted \subseteq Calls
    /\ result \in [Calls -> Results]
    /\ events \in [Calls -> Seq(Results)]

\* The places at which a call has an instance.
InstancePlaces == {"host", "closeModule"} \cup GuestCalls

\* What ties a call's instance, name, result and event to its place.
CallLifecycle(c) ==
    /\ module[c] = "aborted" => runtimeClosed
    /\ module[c] = "live" => ~runtimeClosed
    /\ c \in Live => pc[c] \in InstancePlaces
    /\ name[c] <= instanceCount
    /\ pc[c] \in Waiting \cup {"idle", "instantiate"} => name[c] = 0
    /\ pc[c] \in InstancePlaces => name[c] # 0
    /\ pc[c] = "release" /\ name[c] = 0 => result[c].kind = "EngineClosed"
    /\ pc[c] \in Cleanup /\ name[c] # 0
          => result[c].kind \notin {"none", "InvalidRequest"}
    /\ result[c].kind = "EngineClosed" => closed
    /\ pc[c] # "returned" => events[c] = <<>>
    /\ status[c] # "none" => pc[c] \in {"trace", "result"}
    /\ pc[c] = "trace" => c \in TracingCalls

\* With TypeOK and SlotsAccounted this is inductive.
LifecycleInv ==
    /\ runtimeClosed => closed
    /\ \A k \in Closers : closerPc[k] = "closing" => closed
    /\ \A c \in Calls : CallLifecycle(c)

\* The gate holds one token for every call between acquire and release: no path
\* out of evaluate leaks a slot or frees it twice.
SlotsAccounted == gate = Cardinality(Holders)

\* MaxConcurrentEvaluations limits the guest instances that exist, not only the
\* calls that run: an instance is closed before its slot can be reused.
InstancesBounded == Cardinality(Live) <= MaxConcurrent

\* A guest trap is reported only when the guest trapped or panicked by itself, whatever Close,
\* the caller's context, the fuel meter and other evaluations do meanwhile.
TrapIsGuestFault ==
    \A c \in Calls : result[c].kind = "GuestTrap" => c \in faulted

\* A call that entered evaluate delivers exactly one Evaluation event, carrying
\* the error and the statistics it returns.
EventMatchesReturn ==
    \A c \in Calls : pc[c] = "returned" => events[c] = <<result[c]>>

\* The Evaluation hook runs when the call's instance is closed and its slot is
\* free, so a hook may evaluate on the same engine whatever the gate's capacity.
HookOutsideGate ==
    \A c \in Calls : events[c] # <<>> => c \notin Holders \cup Live

\* A failure after the guest reported a status keeps the statistics when the
\* request captures no trace.
StatsKept ==
    \A c \in Calls \ TracingCalls :
        status[c] # "none" /\ result'[c] # result[c] => result'[c].stats
StatsWithoutTrace == [][StatsKept]_vars

\* No call that is not past the second closed check when Close sets the flag ever
\* gets an instance.
ClosedBars ==
    \A c \in Calls : closed /\ pc[c] \in {"idle"} \cup Waiting
                       => pc'[c] \notin GuestCalls \cup {"instantiate"}
NoAdmissionAfterClose == [][ClosedBars]_vars

\* Close aborts the evaluations it finds running: once the runtime is closed none
\* of them succeeds.
CloseAborts ==
    \A c \in Calls : runtimeClosed /\ result[c].kind # "Success"
                       => result'[c].kind # "Success"
NoSuccessAfterClose == [][CloseAborts]_vars

-----------------------------------------------------------------------------
(* Liveness                                                                *)

\* Every call returns if no importer or capability runs for ever: infinite programs run
\* out of fuel and every path frees the slot others wait for.
HandlersReturn   == \A c \in Calls : []<>(pc[c] # "host")
EveryCallReturns ==
    HandlersReturn => \A c \in Calls : pc[c] = "entered" ~> pc[c] \in Finished

\* A waiting call whose context is done returns even if the calls that hold the
\* slots are stuck in handlers that never return.
CancelledWaiterReturns ==
    \A c \in Calls : pc[c] = "acquire" /\ c \in ctxDone
                         ~> pc[c] # "acquire"

-----------------------------------------------------------------------------
(* What the documentation says and the code does not do                    *)

\* observer.go, Observer.Evaluation: the hook runs once per evaluation, after it
\* succeeds or fails.
EveryEvaluationObserved ==
    \A c \in Calls : pc[c] \in Finished => Len(events[c]) = 1

\* types.go, EvaluationStats and Result: the statistics are reported of an evaluation
\* that failed after the guest reported a status, unless fuel, memory or the deadline
\* trapped it.
StatsAfterStatus ==
    [][\A c \in Calls :
         /\ status[c] # "none"
         /\ result'[c] # result[c]
         /\ result'[c].kind \notin {"FuelLimit", "MemoryLimit", "Cancelled"}
         => result'[c].stats]_vars

-----------------------------------------------------------------------------
(* Refinement                                                              *)

Admitted(c) ==
    \/ pc[c] \in {"instantiate", "host"} \cup GuestCalls
    \/ pc[c] \in Cleanup /\ name[c] # 0

ServicePhase(c) ==
    CASE pc[c] = "idle" -> "idle"
      [] pc[c] \in Finished \cup {"observe"} -> "answered"
      [] Admitted(c) -> "running"
      [] OTHER -> "pending"

Service == INSTANCE EvaluationService WITH
    open   <- ~closed,
    phase  <- [c \in Calls |-> ServicePhase(c)],
    answer <- [c \in Calls |-> IF ServicePhase(c) = "answered"
                               THEN result[c].kind ELSE "none"]

\* The engine implements the evaluation service.
ServiceSpec == Service!Spec
=============================================================================
