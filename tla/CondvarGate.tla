------------------------------ MODULE CondvarGate ------------------------------
(***************************************************************************)
(* The evaluation gate of the Rust host (lib.rs, Gate and Permit): a       *)
(* counter under a mutex, and a condition variable on which a call waits   *)
(* until a permit is dropped or its deadline passes.                       *)
(*                                                                         *)
(* A step is one critical section of the mutex, or an event outside it: a  *)
(* waiting thread wakes up spuriously, its wait times out, or a deadline   *)
(* passes.  A thread that woke up, for whatever reason, must take the      *)
(* mutex again, and any other call may take it, and the permit, before.    *)
(***************************************************************************)
EXTENDS Naturals, FiniteSets

CONSTANTS
    Calls,          \* the calls that ask for a permit
    MaxConcurrent   \* Gate.maximum

ASSUME CallsAssumption == IsFiniteSet(Calls)
ASSUME GateAssumption == MaxConcurrent \in Nat \ {0}

VARIABLES
    place,     \* where each call is
    active,    \* the counter under Gate.state
    expired    \* the calls whose deadline is past

gateVars == <<place, active, expired>>

\* "awake" was notified or woke up spuriously, "timedOut" waited for its deadline.
Awake  == {"awake", "timedOut"}
Asking == {"queued", "waiting"} \cup Awake
Places == Asking \cup {"holding", "canceled", "released"}

At(S)     == {c \in Calls : place[c] \in S}
Holders   == At({"holding"})
Waiters   == At({"waiting"})
Move(c, p) == place' = [place EXCEPT ![c] = p]

GateInit ==
    /\ place = [c \in Calls |-> "queued"]
    /\ active = 0
    /\ expired = {}

-----------------------------------------------------------------------------
(* acquire                                                                 *)

\* The top of the loop finds room, when the call has just locked the mutex or comes
\* back from a wait.
Take(c) ==
    /\ place[c] \in Asking \ {"waiting"}
    /\ active < MaxConcurrent
    /\ active' = active + 1
    /\ Move(c, "holding")
    /\ UNCHANGED expired

\* The gate is full: the call is refused if its deadline is past, or waits.
GiveUp(c) ==
    /\ place[c] \in {"queued", "awake"}
    /\ active >= MaxConcurrent
    /\ Move(c, IF c \in expired THEN "canceled" ELSE "waiting")
    /\ UNCHANGED <<active, expired>>

\* Mutant of TimeoutAnswered: a wait that timed out is refused without another look.
TimeoutRefused(c) ==
    /\ place[c] = "timedOut"
    /\ Move(c, "canceled")
    /\ UNCHANGED <<active, expired>>

\* A wait that timed out is refused only if the gate is still full.
TimeoutAnswered(c) ==
    /\ place[c] = "timedOut"
    /\ active >= MaxConcurrent
    /\ Move(c, "canceled")
    /\ UNCHANGED <<active, expired>>

\* Mutant of TimesOut: the wait has no deadline.
TimesOutNever(c) == FALSE /\ UNCHANGED gateVars

\* The wait returns at its deadline.
TimesOut(c) ==
    /\ place[c] = "waiting"
    /\ c \in expired
    /\ Move(c, "timedOut")
    /\ UNCHANGED <<active, expired>>

\* The wait returns for no reason, which a condition variable may do.
WakesUp(c) ==
    /\ place[c] = "waiting"
    /\ Move(c, "awake")
    /\ UNCHANGED <<active, expired>>

-----------------------------------------------------------------------------
(* Permit::drop                                                            *)

\* Mutant of Notified: nobody is notified.
NotifiedNobody(c) == {[place EXCEPT ![c] = "released"]}

\* notify_one wakes one of the waiting threads, whichever it is.
Notified(c) ==
    IF Waiters = {}
    THEN {[place EXCEPT ![c] = "released"]}
    ELSE {[place EXCEPT ![c] = "released", ![w] = "awake"] : w \in Waiters}

DropPermit(c) ==
    /\ place[c] = "holding"
    /\ active' = active - 1
    /\ place' \in Notified(c)
    /\ UNCHANGED expired

\* The deadlines of some calls pass.
Expire(S) ==
    /\ expired' = expired \cup S
    /\ UNCHANGED <<place, active>>

-----------------------------------------------------------------------------

AcquireStep(c) == Take(c) \/ GiveUp(c) \/ TimeoutAnswered(c) \/ TimesOut(c)

GateNext ==
    \/ \E c \in Calls : AcquireStep(c) \/ WakesUp(c) \/ DropPermit(c)
    \/ \E S \in SUBSET Calls : Expire(S)

GateSpec == GateInit /\ [][GateNext]_gateVars

\* Threads are scheduled, the mutex is handed on and timers fire.
AcquireFairness == \A c \in Calls : WF_gateVars(AcquireStep(c))

GateFairSpec == GateSpec /\ AcquireFairness

-----------------------------------------------------------------------------
(* Properties                                                              *)

\* The types of the gate's variables; the counter never passes the ceiling.
GateTypeOK ==
    /\ place \in [Calls -> Places]
    /\ active \in 0..MaxConcurrent
    /\ expired \subseteq Calls

\* The counter is the number of permits that exist.
PermitsCounted == active = Cardinality(Holders)

\* No wake-up is lost: while a call waits, every free permit has a thread on its way
\* to take it, whatever timeouts, spurious wake-ups and newcomers do between a
\* notification and the moment the notified thread has the mutex.
NoLostWakeup ==
    Waiters # {} => MaxConcurrent - active <= Cardinality(At(Awake))

\* Where a call at place p stands before the semaphore.
StandOf(p) == CASE p = "holding"  -> "holding"
                [] p = "canceled" -> "refused"
                [] p = "released" -> "done"
                [] OTHER -> "asking"
Stand == [c \in Calls |-> StandOf(place[c])]

\* The gate is a semaphore with deadlines.
Semaphore == INSTANCE Semaphore WITH stand <- Stand
SemaphoreSpec == Semaphore!Spec

\* A call that waits gets its permit or is refused, if no holder keeps one for ever.
PermitsDropped == \A c \in Calls : []<>(place[c] # "holding")
WaiterServed   ==
    PermitsDropped => \A c \in Calls : place[c] = "waiting" ~> place[c] \notin Asking

\* A call whose deadline passes while it waits leaves, though no permit is dropped.
ExpiredWaiterLeaves ==
    \A c \in Calls : place[c] = "waiting" /\ c \in expired ~> place[c] \notin Asking
=============================================================================
