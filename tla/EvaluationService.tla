-------------------------- MODULE EvaluationService --------------------------
(***************************************************************************)
(* What an Engine promises its callers, without saying how: a call is      *)
(* admitted while the engine is open and fewer than MaxConcurrent calls    *)
(* run, every call gets one answer, a value is only ever the answer of an  *)
(* admitted call, and the answer EngineClosed is only given once the       *)
(* engine has been shut.                                                   *)
(***************************************************************************)
EXTENDS Naturals, FiniteSets

CONSTANTS Calls, MaxConcurrent

VARIABLES
    open,    \* whether the engine accepts evaluations
    phase,   \* "idle", "pending", "running" or "answered"
    answer   \* the kind of answer each call got

vars == <<open, phase, answer>>

Running == {c \in Calls : phase[c] = "running"}

\* Answers that need no guest, and those only a guest can produce.
Refusals == {"InvalidRequest", "Cancelled", "EngineClosed"}
GuestAnswers == {"Success", "Cancelled", "EngineClosed", "FuelLimit", "MemoryLimit",
                 "GuestTrap", "ABIError", "HostError", "StatusError"}

Init ==
    /\ open = TRUE
    /\ phase = [c \in Calls |-> "idle"]
    /\ answer = [c \in Calls |-> "none"]

Submit(c) ==
    /\ phase[c] = "idle"
    /\ phase' = [phase EXCEPT ![c] = "pending"]
    /\ UNCHANGED <<open, answer>>

Admit(c) ==
    /\ phase[c] = "pending"
    /\ open
    /\ Cardinality(Running) < MaxConcurrent
    /\ phase' = [phase EXCEPT ![c] = "running"]
    /\ UNCHANGED <<open, answer>>

Answer(c, a) ==
    /\ a = "EngineClosed" => ~open
    /\ phase' = [phase EXCEPT ![c] = "answered"]
    /\ answer' = [answer EXCEPT ![c] = a]
    /\ UNCHANGED open

\* A malformed call is refused on the spot.
Reject(c) == phase[c] = "idle" /\ Answer(c, "InvalidRequest")

Refuse(c) == phase[c] = "pending" /\ \E a \in Refusals : Answer(c, a)

Complete(c) == phase[c] = "running" /\ \E a \in GuestAnswers : Answer(c, a)

Shut ==
    /\ open
    /\ open' = FALSE
    /\ UNCHANGED <<phase, answer>>

Next ==
    \/ \E c \in Calls : Submit(c) \/ Admit(c) \/ Reject(c) \/ Refuse(c) \/ Complete(c)
    \/ Shut

Spec == Init /\ [][Next]_vars
=============================================================================
