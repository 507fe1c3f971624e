------------------------------- MODULE Semaphore -------------------------------
(***************************************************************************)
(* What an evaluation gate promises: at most MaxConcurrent calls hold a    *)
(* permit, and a call is refused one only when there is none to take and   *)
(* its deadline is past.                                                   *)
(***************************************************************************)
EXTENDS Naturals, FiniteSets

CONSTANTS Calls, MaxConcurrent

VARIABLES
    stand,    \* "asking", "holding", "refused" or "done"
    expired   \* the calls whose deadline is past

Holding == {c \in Calls : stand[c] = "holding"}

Init ==
    /\ stand = [c \in Calls |-> "asking"]
    /\ expired = {}

Grant(c) ==
    /\ stand[c] = "asking"
    /\ Cardinality(Holding) < MaxConcurrent
    /\ stand' = [stand EXCEPT ![c] = "holding"]
    /\ UNCHANGED expired

Refuse(c) ==
    /\ stand[c] = "asking"
    /\ Cardinality(Holding) >= MaxConcurrent
    /\ c \in expired
    /\ stand' = [stand EXCEPT ![c] = "refused"]
    /\ UNCHANGED expired

GiveBack(c) ==
    /\ stand[c] = "holding"
    /\ stand' = [stand EXCEPT ![c] = "done"]
    /\ UNCHANGED expired

Expire(S) ==
    /\ expired' = expired \cup S
    /\ UNCHANGED stand

Next ==
    \/ \E c \in Calls : Grant(c) \/ Refuse(c) \/ GiveBack(c)
    \/ \E S \in SUBSET Calls : Expire(S)

Spec == Init /\ [][Next]_<<stand, expired>>
=============================================================================
