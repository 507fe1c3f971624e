---------------------------- MODULE WasmtimeEngine ----------------------------
(***************************************************************************)
(* Concurrent evaluations of the Rust host (lib.rs, evaluate_mode): the    *)
(* permit of CondvarGate, the store that holds a guest, and the two clocks *)
(* a deadline is measured by: the time of the host, at the gate and around *)
(* handlers, and the ticks of the epoch thread, in the guest.              *)
(***************************************************************************)
EXTENDS CondvarGate

CONSTANTS
    Timeouts,   \* the timeouts callers give
    TickLen,    \* EPOCH_TICK
    Horizon     \* where the model's clock stops; every deadline is before it

ASSUME ClockAssumption ==
    /\ TickLen \in Nat \ {0}
    /\ Horizon \in Nat
    /\ Timeouts \subseteq Nat

VARIABLES
    now,        \* Instant::now
    sinceTick,  \* the time since the epoch was last incremented, up to TickLen
    deadline,   \* each call's deadline
    step,       \* where each call is in evaluate_mode
    store,      \* whether its store exists
    ticksLeft,  \* how many ticks from the epoch to its epoch deadline
    status,     \* what sonnetbox_evaluate returned
    last_error, \* InvocationState.last_error
    outcome     \* what evaluate_mode returns, once that is decided

clockVars  == <<now, sinceTick>>
callVars   == <<deadline, step, store, ticksLeft, status, last_error, outcome>>
engineVars == <<gateVars, clockVars, callVars>>

GuestSteps == {"preparing", "evaluating", "tracing", "reading"}
Steps      == {"idle", "acquiring", "admitted", "hosting", "failed", "succeeded", "returned"}
              \cup GuestSteps

\* The errors are told apart as far as they blame the deadline.
Errors == {"Canceled", "error"}

Set(f, c, v) == [f EXCEPT ![c] = v]
To(c, s)     == step' = Set(step, c, s)

\* The epoch thread has been running since Engine::new.
Init ==
    /\ GateInit
    /\ now = 0
    /\ sinceTick \in 0..TickLen
    /\ deadline = [c \in Calls |-> 0]
    /\ step = [c \in Calls |-> "idle"]
    /\ store = [c \in Calls |-> FALSE]
    /\ ticksLeft = [c \in Calls |-> 0]
    /\ status = [c \in Calls |-> "none"]
    /\ last_error = [c \in Calls |-> "none"]
    /\ outcome = [c \in Calls |-> "none"]

\* The locals of a call that returned are gone.
Gone(c) ==
    /\ deadline' = Set(deadline, c, 0)
    /\ status' = Set(status, c, "none")
    /\ last_error' = Set(last_error, c, "none")

\* `?` or return Err: the locals of evaluate_mode are still to be dropped.
Fails(c, e) ==
    /\ To(c, "failed")
    /\ outcome' = Set(outcome, c, e)

-----------------------------------------------------------------------------
(* Up to the instance                                                      *)

\* evaluate_file's checks, a zero timeout, prepare_request or the encoded request's
\* size: the call is refused before it asks for a permit.
Reject(c) ==
    /\ step[c] = "idle"
    /\ To(c, "returned")
    /\ outcome' = Set(outcome, c, "error")
    /\ UNCHANGED <<gateVars, clockVars, deadline, store, ticksLeft, status, last_error>>

Begin(c, timeout) ==
    /\ step[c] = "idle"
    /\ timeout > 0
    /\ now + timeout <= Horizon
    /\ deadline' = Set(deadline, c, now + timeout)
    /\ To(c, "acquiring")
    /\ UNCHANGED <<gateVars, clockVars, store, ticksLeft, status, last_error, outcome>>

Acquiring(c) ==
    /\ step[c] = "acquiring"
    /\ AcquireStep(c)
    /\ UNCHANGED <<clockVars, callVars>>

Awakens(c) ==
    /\ step[c] = "acquiring"
    /\ WakesUp(c)
    /\ UNCHANGED <<clockVars, callVars>>

Refused(c) ==
    /\ step[c] = "acquiring"
    /\ place[c] = "canceled"
    /\ To(c, "returned")
    /\ outcome' = Set(outcome, c, "Canceled")
    /\ Gone(c)
    /\ UNCHANGED <<gateVars, clockVars, store, ticksLeft>>

\* The gate may let in a call whose deadline is past.
Admitted(c) ==
    /\ step[c] = "acquiring"
    /\ place[c] = "holding"
    /\ IF now >= deadline[c]
       THEN Fails(c, "Canceled")
       ELSE To(c, "admitted") /\ UNCHANGED outcome
    /\ UNCHANGED <<gateVars, clockVars, deadline, store, ticksLeft, status, last_error>>

\* Mutant of DeadlineTicks: rounded down.
DeadlineTicksDown(left) == IF left \div TickLen > 1 THEN left \div TickLen ELSE 1

\* deadline_ticks: rounded up, and at least one.
DeadlineTicks(left) ==
    LET ticks == (left + TickLen - 1) \div TickLen
    IN  IF ticks > 1 THEN ticks ELSE 1

TimeLeft(c) == IF deadline[c] > now THEN deadline[c] - now ELSE 0

Instantiate(c) ==
    /\ step[c] = "admitted"
    /\ store' = Set(store, c, TRUE)
    /\ ticksLeft' = Set(ticksLeft, c, DeadlineTicks(TimeLeft(c)))
    /\ To(c, "preparing")
    /\ UNCHANGED <<gateVars, clockVars, deadline, status, last_error, outcome>>

-----------------------------------------------------------------------------
(* The guest                                                               *)

\* _initialize and sonnetbox_request_alloc return; or what they return is refused.
Prepared(c) ==
    /\ step[c] = "preparing"
    /\ \/ To(c, "evaluating") /\ UNCHANGED outcome
       \/ Fails(c, "error")
    /\ UNCHANGED <<gateVars, clockVars, deadline, store, ticksLeft, status, last_error>>

CallsHost(c) ==
    /\ step[c] = "evaluating"
    /\ To(c, "hosting")
    /\ UNCHANGED <<gateVars, clockVars, deadline, store, ticksLeft, status, last_error, outcome>>

\* The host call ends, well or not; the first failure is kept.
HandlerReturns(c) ==
    /\ step[c] = "hosting"
    /\ To(c, "evaluating")
    /\ \/ UNCHANGED last_error
       \/ /\ last_error[c] = "none"
          /\ \E e \in Errors :
                /\ e = "Canceled" => c \in expired
                /\ last_error' = Set(last_error, c, e)
    /\ UNCHANGED <<gateVars, clockVars, deadline, store, ticksLeft, status, outcome>>

\* The host's error, if the guest's status says there is one; else the result is read.
HostErrorOrResult(c, s) ==
    IF s = "HostError" /\ last_error[c] # "none"
    THEN Fails(c, last_error[c])
    ELSE To(c, "reading") /\ UNCHANGED outcome

\* sonnetbox_evaluate returns a status, and the trace is captured or not.
Evaluated(c, s) ==
    /\ step[c] = "evaluating"
    /\ status' = Set(status, c, s)
    /\ \/ To(c, "tracing") /\ UNCHANGED outcome
       \/ HostErrorOrResult(c, s)
    /\ UNCHANGED <<gateVars, clockVars, deadline, store, ticksLeft, last_error>>

\* read_trace, or its refusal, which comes before the host's error.
TraceRead(c) ==
    /\ step[c] = "tracing"
    /\ \/ Fails(c, "error")
       \/ HostErrorOrResult(c, status[c])
    /\ UNCHANGED <<gateVars, clockVars, deadline, store, ticksLeft, status, last_error>>

\* The result is read and decoded, or refused; or guest_status_error tells what it says.
ResultRead(c) ==
    /\ step[c] = "reading"
    /\ \/ Fails(c, "error")
       \/ /\ status[c] = "OK"
          /\ To(c, "succeeded")
          /\ outcome' = Set(outcome, c, "OK")
    /\ UNCHANGED <<gateVars, clockVars, deadline, store, ticksLeft, status, last_error>>

\* runtime_error: the guest runs out of fuel or memory, or traps.
Traps(c) ==
    /\ step[c] \in GuestSteps
    /\ Fails(c, "error")
    /\ UNCHANGED <<gateVars, clockVars, deadline, store, ticksLeft, status, last_error>>

\* runtime_error, Trap::Interrupt: the guest meets an epoch check after its epoch
\* deadline.
Interrupted(c) ==
    /\ step[c] \in GuestSteps
    /\ ticksLeft[c] = 0
    /\ Fails(c, "Canceled")
    /\ UNCHANGED <<gateVars, clockVars, deadline, store, ticksLeft, status, last_error>>

GuestStep(c) ==
    \/ Prepared(c) \/ CallsHost(c) \/ TraceRead(c) \/ ResultRead(c) \/ Traps(c)
    \/ \E s \in {"OK", "HostError", "failed"} : Evaluated(c, s)

-----------------------------------------------------------------------------
(* The end of evaluate_mode                                                *)

\* A failed call drops the store first; a successful one has dropped its permit before.
DropStore(c) ==
    /\ store[c]
    /\ \/ step[c] = "failed" /\ UNCHANGED <<step, deadline, status, last_error>>
       \/ step[c] = "succeeded" /\ place[c] # "holding" /\ To(c, "returned") /\ Gone(c)
    /\ store' = Set(store, c, FALSE)
    /\ ticksLeft' = Set(ticksLeft, c, 0)
    /\ UNCHANGED <<gateVars, clockVars, outcome>>

\* Mutant of ReleasePermit: the permit is dropped first, however the call ends.
ReleasePermitFirst(c) ==
    /\ step[c] \in {"failed", "succeeded"}
    /\ DropPermit(c)
    /\ UNCHANGED <<clockVars, callVars>>

ReleasePermit(c) ==
    /\ \/ step[c] = "failed" /\ ~store[c] /\ To(c, "returned") /\ Gone(c)
       \/ step[c] = "succeeded" /\ UNCHANGED <<step, deadline, status, last_error>>
    /\ DropPermit(c)
    /\ UNCHANGED <<clockVars, store, ticksLeft, outcome>>

-----------------------------------------------------------------------------
(* Time                                                                    *)

Smaller(a, b) == IF a < b THEN a ELSE b

\* At the horizon every deadline is past, and only the ticks go on.
Clock ==
    /\ now < Horizon \/ sinceTick < TickLen
    /\ now' = Smaller(now + 1, Horizon)
    /\ sinceTick' = Smaller(sinceTick + 1, TickLen)
    /\ Expire({c \in Calls : step[c] \notin {"idle", "returned"} /\ deadline[c] <= now'})
    /\ UNCHANGED callVars

\* Mutant of Tick: the thread waits, but the epoch stands still.
TickIdle ==
    /\ sinceTick = TickLen
    /\ sinceTick' = 0
    /\ UNCHANGED <<gateVars, now, callVars>>

\* The epoch thread wakes up TickLen after the last increment, or later.
Tick ==
    /\ sinceTick = TickLen
    /\ sinceTick' = 0
    /\ ticksLeft' = [c \in Calls |-> IF ticksLeft[c] > 0 THEN ticksLeft[c] - 1 ELSE 0]
    /\ UNCHANGED <<gateVars, now, deadline, step, store, status, last_error, outcome>>

-----------------------------------------------------------------------------

HostStep(c) ==
    \/ Acquiring(c) \/ Refused(c) \/ Admitted(c) \/ Instantiate(c)
    \/ DropStore(c) \/ ReleasePermit(c)

CallStep(c) ==
    \/ Reject(c) \/ Awakens(c) \/ HostStep(c) \/ GuestStep(c) \/ Interrupted(c) \/ HandlerReturns(c)
    \/ \E timeout \in Timeouts : Begin(c, timeout)

Next == Clock \/ Tick \/ \E c \in Calls : CallStep(c)

Spec == Init /\ [][Next]_engineVars

\* Threads are scheduled and timers fire; a guest that runs for ever meets epoch checks
\* for ever, between its host calls too.
EngineFairness ==
    /\ WF_engineVars(Clock)
    /\ WF_engineVars(Tick)
    /\ \A c \in Calls : WF_engineVars(HostStep(c)) /\ SF_engineVars(Interrupted(c))

FairSpec == Spec /\ EngineFairness

-----------------------------------------------------------------------------
(* Properties                                                              *)

TypeOK ==
    /\ GateTypeOK
    /\ now \in 0..Horizon
    /\ sinceTick \in 0..TickLen
    /\ deadline \in [Calls -> 0..Horizon]
    /\ step \in [Calls -> Steps]
    /\ store \in [Calls -> BOOLEAN]
    /\ ticksLeft \in [Calls -> Nat]
    /\ status \in [Calls -> {"none", "OK", "HostError", "failed"}]
    /\ last_error \in [Calls -> Errors \cup {"none"}]
    /\ outcome \in [Calls -> Errors \cup {"none", "OK"}]

\* A guest runs only with a permit, nothing is left of a call that returned, and only a
\* call that succeeded has a store without a permit: until that is dropped, there are
\* more stores than permits.
StoresUnderPermits ==
    \A c \in Calls :
        /\ step[c] \in GuestSteps \cup {"hosting"} => store[c] /\ place[c] = "holding"
        /\ step[c] \in {"idle", "acquiring", "returned"} => ~store[c]
        /\ step[c] \in {"idle", "returned"} => place[c] # "holding"
        /\ store[c] /\ place[c] # "holding" => step[c] = "succeeded"

\* A call is canceled at most one tick before its deadline.
EarlyByATick ==
    [][\A c \in Calls :
          outcome[c] = "none" /\ outcome'[c] = "Canceled" => now + TickLen >= deadline[c]]_engineVars

\* Every evaluation returns, if handlers do: the epoch thread stops every guest.
HandlersReturn == \A c \in Calls : []<>(step[c] # "hosting")
EveryEvaluationReturns ==
    HandlersReturn => \A c \in Calls : step[c] = "acquiring" ~> step[c] = "returned"

\* Each step is one of the gate's, or leaves it alone.
UsesGate == GateSpec
=============================================================================
