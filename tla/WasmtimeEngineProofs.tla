------------------------- MODULE WasmtimeEngineProofs -------------------------
(***************************************************************************)
(* Theorems about the gate of the Rust host and about the evaluations that *)
(* use it, for any finite set of calls, any number of permits, any         *)
(* timeouts and any length of a tick.                                      *)
(***************************************************************************)
EXTENDS WasmtimeEngine, FiniteSetTheorems, TLAPS

\* The state has its types, the counter is right and no wake-up has been lost.
GateInv == GateTypeOK /\ PermitsCounted /\ NoLostWakeup

-----------------------------------------------------------------------------

\* Any set of calls that are at some places is finite, so it can be counted.
LEMMA FinitePlaces ==
    ASSUME NEW S
    PROVE  IsFiniteSet(At(S)) /\ Cardinality(At(S)) \in Nat
<1>1. At(S) \subseteq Calls
  BY DEF At
<1>2. IsFiniteSet(At(S))
  BY <1>1, CallsAssumption, FS_Subset
<1> QED
  BY <1>2, FS_CardinalityType

\* A call that enters a set of places is one more there.
LEMMA Enters ==
    ASSUME NEW S, NEW c \in Calls, GateTypeOK,
           place[c] \notin S,
           At(S)' = At(S) \cup {c}
    PROVE  Cardinality(At(S))' = Cardinality(At(S)) + 1
<1>1. c \notin At(S)
  BY DEF At
<1>2. Cardinality(At(S) \cup {c}) = Cardinality(At(S)) + 1
  BY <1>1, FinitePlaces, FS_AddElement
<1> QED
  BY <1>2

\* A call that leaves a set of places is one less there.
LEMMA Leaves ==
    ASSUME NEW S, NEW c \in Calls, GateTypeOK,
           place[c] \in S,
           At(S)' = At(S) \ {c}
    PROVE  Cardinality(At(S))' = Cardinality(At(S)) - 1
<1>1. c \in At(S)
  BY DEF At
<1>2. Cardinality(At(S) \ {c}) = Cardinality(At(S)) - 1
  BY <1>1, FinitePlaces, FS_RemoveElement
<1> QED
  BY <1>2

-----------------------------------------------------------------------------

LEMMA GateInitially == GateInit => GateInv
<1> SUFFICES ASSUME GateInit PROVE GateInv
  OBVIOUS
<1>1. GateTypeOK
  BY GateAssumption DEF GateInit, GateTypeOK, Places, Asking
<1>2. Holders = {} /\ Waiters = {}
  BY DEF GateInit, Holders, Waiters, At
<1> QED
  BY <1>1, <1>2, FS_EmptySet DEF GateInit, GateInv, PermitsCounted, NoLostWakeup

\* A call takes a permit: one more holder, and at most one thread less on its way.
LEMMA TakeKeeps ==
    ASSUME GateInv, NEW c \in Calls, Take(c)
    PROVE  GateInv'
<1> USE DEF GateInv
<1>1. place' = [place EXCEPT ![c] = "holding"] /\ active' = active + 1 /\ active < MaxConcurrent
  BY DEF Take, Move
<1>2. GateTypeOK'
  BY <1>1, GateAssumption DEF GateTypeOK, Take, Places, Asking
<1>3. Holders' = Holders \cup {c} /\ place[c] \notin {"holding"}
  BY <1>1 DEF GateTypeOK, Holders, At, Take, Asking, Awake
<1>4. PermitsCounted'
  BY <1>1, <1>3, Enters DEF PermitsCounted, Holders
<1>5. Waiters' = Waiters
  BY <1>1 DEF GateTypeOK, Waiters, At, Take, Asking, Awake
<1>6. Cardinality(At(Awake))' >= Cardinality(At(Awake)) - 1
  <2>1. CASE place[c] \in Awake
    <3>1. At(Awake)' = At(Awake) \ {c}
      BY <1>1 DEF GateTypeOK, At, Awake
    <3> QED
      BY <2>1, <3>1, Leaves, FinitePlaces
  <2>2. CASE place[c] \notin Awake
    <3>1. At(Awake)' = At(Awake)
      BY <1>1, <2>2 DEF GateTypeOK, At, Awake
    <3> QED
      BY <3>1, FinitePlaces
  <2> QED
    BY <2>1, <2>2
<1>7. Cardinality(At(Awake)) \in Nat /\ Cardinality(At(Awake))' \in Nat
  <2>1. IsFiniteSet(At(Awake)')
    <3>1. At(Awake)' \subseteq Calls
      BY DEF At
    <3> QED
      BY <3>1, CallsAssumption, FS_Subset
  <2> QED
    BY <2>1, FinitePlaces, FS_CardinalityType
<1>8. NoLostWakeup'
  BY <1>1, <1>5, <1>6, <1>7, GateAssumption DEF NoLostWakeup, GateTypeOK
<1> QED
  BY <1>2, <1>4, <1>8

\* While the gate is full, no wake-up is needed, so a call may leave or wait.
LEMMA FullKeeps ==
    ASSUME GateInv, NEW c \in Calls,
           active >= MaxConcurrent, UNCHANGED <<active, expired>>,
           NEW p \in {"canceled", "waiting"}, Move(c, p),
           place[c] # "holding"
    PROVE  GateInv'
<1> USE DEF GateInv
<1>1. GateTypeOK'
  BY DEF GateTypeOK, Move, Places, Asking
<1>2. Holders' = Holders
  BY DEF GateTypeOK, Move, Holders, At
<1>3. PermitsCounted'
  BY <1>2 DEF PermitsCounted
<1>4. IsFiniteSet(At(Awake)')
  <2>1. At(Awake)' \subseteq Calls
    BY DEF At
  <2> QED
    BY <2>1, CallsAssumption, FS_Subset
<1>5. Cardinality(At(Awake)') \in Nat
  BY <1>4, FS_CardinalityType
<1>6. NoLostWakeup'
  BY <1>5, GateAssumption DEF NoLostWakeup, GateTypeOK
<1> QED
  BY <1>1, <1>3, <1>6

\* A waiting thread wakes up: one more thread on its way, one waiter less.
LEMMA WakeKeeps ==
    ASSUME GateInv, NEW c \in Calls, place[c] = "waiting",
           NEW p \in Awake, Move(c, p), UNCHANGED <<active, expired>>
    PROVE  GateInv'
<1> USE DEF GateInv
<1>1. GateTypeOK'
  BY DEF GateTypeOK, Move, Places, Asking, Awake
<1>2. Holders' = Holders
  BY DEF GateTypeOK, Move, Holders, At, Awake
<1>3. PermitsCounted'
  BY <1>2 DEF PermitsCounted
<1>4. At(Awake)' = At(Awake) \cup {c} /\ place[c] \notin Awake
  BY DEF GateTypeOK, Move, At, Awake
<1>5. Cardinality(At(Awake))' = Cardinality(At(Awake)) + 1
  BY <1>4, Enters
<1>6. Waiters # {}
  BY DEF Waiters, At
<1>7. Cardinality(At(Awake)) \in Nat
  BY FinitePlaces
<1>8. NoLostWakeup'
  BY <1>5, <1>6, <1>7, GateAssumption DEF NoLostWakeup, GateTypeOK
<1> QED
  BY <1>1, <1>3, <1>8

\* A permit is dropped: either nobody waits, or one more thread is on its way to it.
LEMMA DropKeeps ==
    ASSUME GateInv, NEW c \in Calls, DropPermit(c)
    PROVE  GateInv'
<1> USE DEF GateInv
<1>1. place[c] = "holding" /\ active' = active - 1 /\ expired' = expired
  BY DEF DropPermit
<1>2. c \in Holders /\ Cardinality(Holders) \in Nat
  BY <1>1, FinitePlaces DEF Holders, At
<1>3. active > 0
  <2>1. Cardinality(Holders \ {c}) = Cardinality(Holders) - 1
    BY <1>2, FinitePlaces, FS_RemoveElement DEF Holders
  <2>2. Cardinality(Holders \ {c}) \in Nat
    BY FinitePlaces, FS_RemoveElement, FS_CardinalityType DEF Holders
  <2> QED
    BY <2>1, <2>2, <1>2 DEF PermitsCounted
<1>4. active' \in 0..MaxConcurrent
  BY <1>1, <1>3, GateAssumption DEF GateTypeOK
<1>5. CASE Waiters = {}
  <2>1. place' = [place EXCEPT ![c] = "released"]
    BY <1>5 DEF DropPermit, Notified
  <2>2. GateTypeOK'
    BY <2>1, <1>1, <1>4 DEF GateTypeOK, Places
  <2>3. Holders' = Holders \ {c} /\ Waiters' = {}
    BY <2>1, <1>1, <1>5 DEF GateTypeOK, Holders, Waiters, At
  <2>4. PermitsCounted'
    BY <2>3, <1>1, Leaves DEF PermitsCounted, Holders
  <2> QED
    BY <2>2, <2>3, <2>4 DEF NoLostWakeup
<1>6. CASE Waiters # {}
  <2>1. PICK w \in Waiters : place' = [place EXCEPT ![c] = "released", ![w] = "awake"]
    BY <1>6 DEF DropPermit, Notified
  <2>2. w \in Calls /\ place[w] = "waiting" /\ w # c
    BY <1>1 DEF Waiters, At
  <2>3. GateTypeOK'
    BY <2>1, <2>2, <1>1, <1>4 DEF GateTypeOK, Places, Asking, Awake
  <2>4. Holders' = Holders \ {c}
    BY <2>1, <2>2, <1>1 DEF GateTypeOK, Holders, At
  <2>5. PermitsCounted'
    BY <2>4, <1>1, Leaves DEF PermitsCounted, Holders
  <2>6. At(Awake)' = At(Awake) \cup {w} /\ place[w] \notin Awake
    BY <2>1, <2>2, <1>1 DEF GateTypeOK, At, Awake
  <2>7. Cardinality(At(Awake))' = Cardinality(At(Awake)) + 1
    BY <2>2, <2>6, Enters
  <2>8. Cardinality(At(Awake)) \in Nat
    BY FinitePlaces
  <2>9. NoLostWakeup'
    BY <1>1, <1>6, <2>7, <2>8, GateAssumption DEF NoLostWakeup, GateTypeOK
  <2> QED
    BY <2>3, <2>5, <2>9
<1> QED
  BY <1>5, <1>6

\* Steps that move no call keep the invariant.
LEMMA StillKeeps ==
    ASSUME GateInv, UNCHANGED <<place, active>>, expired' \subseteq Calls
    PROVE  GateInv'
<1>1. Holders' = Holders /\ Waiters' = Waiters /\ At(Awake)' = At(Awake)
  BY DEF Holders, Waiters, At
<1> QED
  BY <1>1 DEF GateInv, GateTypeOK, PermitsCounted, NoLostWakeup

LEMMA GateStep == GateInv /\ [GateNext]_gateVars => GateInv'
<1> SUFFICES ASSUME GateInv, [GateNext]_gateVars PROVE GateInv'
  OBVIOUS
<1>1. CASE UNCHANGED gateVars
  BY <1>1, StillKeeps DEF gateVars, GateInv, GateTypeOK
<1>2. CASE \E S \in SUBSET Calls : Expire(S)
  BY <1>2, StillKeeps DEF Expire, GateInv, GateTypeOK
<1>3. CASE \E c \in Calls : AcquireStep(c) \/ WakesUp(c) \/ DropPermit(c)
  <2>1. PICK c \in Calls : AcquireStep(c) \/ WakesUp(c) \/ DropPermit(c)
    BY <1>3
  <2>2. CASE Take(c)
    BY <2>2, TakeKeeps
  <2>3. CASE GiveUp(c)
    BY <2>3, FullKeeps DEF GiveUp
  <2>4. CASE TimeoutAnswered(c)
    BY <2>4, FullKeeps DEF TimeoutAnswered
  <2>5. CASE TimesOut(c)
    BY <2>5, WakeKeeps DEF TimesOut, Awake
  <2>6. CASE WakesUp(c)
    BY <2>6, WakeKeeps DEF WakesUp, Awake
  <2>7. CASE DropPermit(c)
    BY <2>7, DropKeeps
  <2> QED
    BY <2>1, <2>2, <2>3, <2>4, <2>5, <2>6, <2>7 DEF AcquireStep
<1> QED
  BY <1>1, <1>2, <1>3 DEF GateNext

THEOREM GateInvariance == GateSpec => []GateInv
<1>1. GateInit => GateInv
  BY GateInitially
<1>2. GateInv /\ [GateNext]_gateVars => GateInv'
  BY GateStep
<1> QED
  BY <1>1, <1>2, PTL DEF GateSpec

-----------------------------------------------------------------------------

\* The counter of the gate never passes its ceiling and never goes below zero.
THEOREM GateTypeCorrect == GateSpec => []GateTypeOK
<1>1. GateInv => GateTypeOK
  BY DEF GateInv
<1> QED
  BY <1>1, GateInvariance, PTL

\* The counter is the number of permits that exist.
THEOREM PermitsAreCounted == GateSpec => []PermitsCounted
<1>1. GateInv => PermitsCounted
  BY DEF GateInv
<1> QED
  BY <1>1, GateInvariance, PTL

\* While a call waits, every free permit has a thread on its way to it.
THEOREM WakeupsAreNotLost == GateSpec => []NoLostWakeup
<1>1. GateInv => NoLostWakeup
  BY DEF GateInv
<1> QED
  BY <1>1, GateInvariance, PTL

-----------------------------------------------------------------------------
(* The refinement                                                          *)

\* A wait times out no earlier than its call's deadline.
TimeoutsInTime == \A c \in Calls : place[c] = "timedOut" => c \in expired

LEMMA TimeoutsStep ==
    GateTypeOK /\ TimeoutsInTime /\ [GateNext]_gateVars => TimeoutsInTime'
<1> SUFFICES ASSUME GateTypeOK, TimeoutsInTime, [GateNext]_gateVars
             PROVE  TimeoutsInTime'
  OBVIOUS
<1>1. CASE UNCHANGED gateVars
  BY <1>1 DEF gateVars, TimeoutsInTime
<1>2. CASE \E S \in SUBSET Calls : Expire(S)
  BY <1>2 DEF Expire, TimeoutsInTime
<1>3. CASE \E c \in Calls : AcquireStep(c) \/ WakesUp(c) \/ DropPermit(c)
  <2>1. PICK c \in Calls : AcquireStep(c) \/ WakesUp(c) \/ DropPermit(c)
    BY <1>3
  <2>2. CASE AcquireStep(c) \/ WakesUp(c)
    BY <2>2 DEF AcquireStep, Take, GiveUp, TimeoutAnswered, TimesOut, WakesUp, Move, Asking,
                GateTypeOK, TimeoutsInTime
  <2>3. CASE DropPermit(c)
    <3>1. \A d \in Calls : place'[d] = "timedOut" => place[d] = "timedOut"
      BY <2>3 DEF DropPermit, Notified, GateTypeOK, Waiters, At
    <3> QED
      BY <2>3, <3>1 DEF DropPermit, TimeoutsInTime
  <2> QED
    BY <2>1, <2>2, <2>3
<1> QED
  BY <1>1, <1>2, <1>3 DEF GateNext

LEMMA StandOfPlaces ==
    /\ StandOf("holding") = "holding"
    /\ StandOf("canceled") = "refused"
    /\ StandOf("released") = "done"
    /\ \A p \in Asking : StandOf(p) = "asking"
    /\ \A p \in Places : StandOf(p) = "holding" => p = "holding"
BY DEF StandOf, Asking, Awake, Places

\* Moving a call to p moves it before the semaphore to where p stands.
LEMMA StandMoves ==
    ASSUME GateTypeOK, NEW c \in Calls, NEW p, Move(c, p)
    PROVE  Stand' = [Stand EXCEPT ![c] = StandOf(p)]
BY DEF GateTypeOK, Move, Stand

\* The semaphore's holders are the gate's, as many as the counter says.
LEMMA SameHolders ==
    ASSUME GateInv
    PROVE  Cardinality(Semaphore!Holding) = active
<1>1. Semaphore!Holding = Holders
  BY StandOfPlaces DEF Semaphore!Holding, Stand, Holders, At, GateInv, GateTypeOK
<1> QED
  BY <1>1 DEF GateInv, PermitsCounted

LEMMA SemaphoreStep ==
    ASSUME GateInv, TimeoutsInTime, [GateNext]_gateVars
    PROVE  [Semaphore!Next]_<<Stand, expired>>
<1>1. CASE UNCHANGED gateVars
  BY <1>1 DEF gateVars, Stand
<1>2. CASE \E S \in SUBSET Calls : Expire(S)
  BY <1>2 DEF Expire, Stand, Semaphore!Next, Semaphore!Expire
<1>3. CASE \E c \in Calls : AcquireStep(c) \/ WakesUp(c) \/ DropPermit(c)
  <2>1. PICK c \in Calls : AcquireStep(c) \/ WakesUp(c) \/ DropPermit(c)
    BY <1>3
  <2>2. GateTypeOK
    BY DEF GateInv
  <2>3. CASE Take(c)
    <3>1. Stand[c] = "asking"
      BY <2>3, StandOfPlaces DEF Take, Stand
    <3>2. Stand' = [Stand EXCEPT ![c] = "holding"]
      BY <2>2, <2>3, StandMoves, StandOfPlaces DEF Take
    <3> QED
      BY <2>3, <3>1, <3>2, SameHolders DEF Take, Semaphore!Next, Semaphore!Grant, Semaphore!Cardinality, Cardinality
  <2>4. CASE GiveUp(c)
    <3>1. Stand[c] = "asking"
      BY <2>4, StandOfPlaces DEF GiveUp, Stand, Asking, Awake
    <3>2. CASE c \in expired
      <4>1. Stand' = [Stand EXCEPT ![c] = "refused"]
        BY <2>2, <2>4, <3>2, StandMoves, StandOfPlaces DEF GiveUp
      <4> QED
        BY <2>4, <3>1, <3>2, <4>1, SameHolders DEF GiveUp, Semaphore!Next, Semaphore!Refuse, Semaphore!Cardinality, Cardinality
    <3>3. CASE c \notin expired
      <4>1. Stand' = [Stand EXCEPT ![c] = "asking"]
        BY <2>2, <2>4, <3>3, StandMoves, StandOfPlaces DEF GiveUp, Asking
      <4> QED
        BY <2>4, <3>1, <4>1 DEF GiveUp, Stand
    <3> QED
      BY <3>2, <3>3
  <2>5. CASE TimeoutAnswered(c)
    <3>1. Stand[c] = "asking" /\ c \in expired
      BY <2>5, StandOfPlaces DEF TimeoutAnswered, TimeoutsInTime, Stand, Asking, Awake
    <3>2. Stand' = [Stand EXCEPT ![c] = "refused"]
      BY <2>2, <2>5, StandMoves, StandOfPlaces DEF TimeoutAnswered
    <3> QED
      BY <2>5, <3>1, <3>2, SameHolders DEF TimeoutAnswered, Semaphore!Next, Semaphore!Refuse, Semaphore!Cardinality, Cardinality
  <2>6. CASE TimesOut(c) \/ WakesUp(c)
    <3>1. PICK p \in Awake : Move(c, p)
      BY <2>6 DEF TimesOut, WakesUp, Awake
    <3>2. Stand[c] = "asking" /\ StandOf(p) = "asking"
      BY <2>6, StandOfPlaces DEF TimesOut, WakesUp, Stand, Asking
    <3>3. Stand' = [Stand EXCEPT ![c] = "asking"]
      BY <2>2, <3>1, <3>2, StandMoves
    <3> QED
      BY <2>6, <3>2, <3>3 DEF TimesOut, WakesUp, Stand
  <2>7. CASE DropPermit(c)
    <3>1. Stand[c] = "holding"
      BY <2>7, StandOfPlaces DEF DropPermit, Stand
    <3>2. Stand' = [Stand EXCEPT ![c] = "done"]
      <4>1. CASE Waiters = {}
        <5>1. Move(c, "released")
          BY <2>7, <4>1 DEF DropPermit, Notified, Move
        <5> QED
          BY <2>2, <5>1, StandMoves, StandOfPlaces
      <4>2. CASE Waiters # {}
        <5>1. PICK w \in Waiters : place' = [place EXCEPT ![c] = "released", ![w] = "awake"]
          BY <2>7, <4>2 DEF DropPermit, Notified
        <5>2. w \in Calls /\ w # c /\ Stand[w] = "asking"
          BY <2>7, StandOfPlaces DEF Waiters, At, DropPermit, Stand, Asking
        <5>3. \A d \in Calls : place'[d] = IF d = c THEN "released"
                                           ELSE IF d = w THEN "awake" ELSE place[d]
          BY <2>2, <5>1, <5>2 DEF GateTypeOK
        <5>4. StandOf("awake") = "asking"
          BY StandOfPlaces DEF Asking, Awake
        <5>5. \A d \in Calls : Stand'[d] = IF d = c THEN "done" ELSE Stand[d]
          BY <5>2, <5>3, <5>4, StandOfPlaces DEF Stand
        <5> QED
          BY <5>5 DEF Stand
      <4> QED
        BY <4>1, <4>2
    <3> QED
      BY <2>7, <3>1, <3>2 DEF DropPermit, Semaphore!Next, Semaphore!GiveBack
  <2> QED
    BY <2>1, <2>3, <2>4, <2>5, <2>6, <2>7 DEF AcquireStep
<1> QED
  BY <1>1, <1>2, <1>3 DEF GateNext

\* The gate of the Rust host is a semaphore with deadlines: at most MaxConcurrent
\* calls hold a permit, and a call is refused only with the gate full and its
\* deadline past.
THEOREM GateImplementsSemaphore == GateSpec => SemaphoreSpec
<1>1. GateInit => Semaphore!Init
  BY StandOfPlaces DEF GateInit, Semaphore!Init, Stand, Asking
<1>2. GateInit => TimeoutsInTime
  BY DEF GateInit, TimeoutsInTime
<1>3. GateInv => GateTypeOK
  BY DEF GateInv
<1>4. GateInv /\ TimeoutsInTime /\ [GateNext]_gateVars => [Semaphore!Next]_<<Stand, expired>>
  BY SemaphoreStep
<1> QED
  BY <1>1, <1>2, <1>3, <1>4, TimeoutsStep, GateInvariance, PTL
     DEF GateSpec, SemaphoreSpec, Semaphore!Spec

-----------------------------------------------------------------------------
(* Evaluations use the gate as it is specified                             *)

LEMMA GateUsed ==
  ASSUME [Next]_engineVars
  PROVE  [GateNext]_gateVars
<1>1. CASE UNCHANGED engineVars
  BY <1>1 DEF engineVars
<1>2. CASE Clock
  <2>1. {c \in Calls : step[c] \notin {"idle", "returned"} /\ deadline[c] <= now'} \in SUBSET Calls
    OBVIOUS
  <2>2. QED
    BY <1>2, <2>1 DEF Clock, GateNext
<1>3. CASE Tick
  BY <1>3 DEF Tick
<1>4. ASSUME NEW c \in Calls, CallStep(c) PROVE [GateNext]_gateVars
  <2>1. CASE Acquiring(c) \/ Awakens(c)
    BY <2>1 DEF Acquiring, Awakens, GateNext
  <2>2. CASE ReleasePermit(c)
    BY <2>2 DEF ReleasePermit, GateNext
  <2>3. CASE Reject(c) \/ Refused(c) \/ Admitted(c) \/ Instantiate(c) \/ DropStore(c)
    BY <2>3 DEF Reject, Refused, Admitted, Instantiate, DropStore
  <2>4. CASE GuestStep(c) \/ Interrupted(c) \/ HandlerReturns(c)
    BY <2>4 DEF GuestStep, Prepared, CallsHost, TraceRead, ResultRead, Traps, Evaluated,
                Interrupted, HandlerReturns
  <2>5. CASE \E timeout \in Timeouts : Begin(c, timeout)
    BY <2>5 DEF Begin
  <2>6. QED
    BY <1>4, <2>1, <2>2, <2>3, <2>4, <2>5 DEF CallStep, HostStep
<1>5. QED
  BY <1>1, <1>2, <1>3, <1>4 DEF Next

\* evaluate_mode takes its permit from the gate and drops it once: what is proved of the
\* gate holds of it here.
THEOREM EvaluationsUseGate == Spec => UsesGate
<1>1. Init => GateInit
  BY DEF Init
<1>2. QED
  BY <1>1, GateUsed, PTL DEF Spec, UsesGate, GateSpec

-----------------------------------------------------------------------------
(* Types                                                                   *)

LEMMA TicksAreNatural ==
  ASSUME NEW left \in Nat
  PROVE  DeadlineTicks(left) \in Nat /\ DeadlineTicks(left) * TickLen >= left
<1>1. TickLen \in Nat /\ TickLen > 0
  BY ClockAssumption
<1> DEFINE n == (left + TickLen - 1) \div TickLen
<1>2. left + TickLen - 1 \in Nat
  BY <1>1
<1>3. n \in Nat /\ left + TickLen - 1 < TickLen * n + TickLen
  BY <1>1, <1>2
<1>4. n * TickLen >= left
  BY <1>1, <1>3
<1>5. CASE n > 1
  BY <1>3, <1>4, <1>5 DEF DeadlineTicks
<1>6. CASE ~(n > 1)
  <2>1. n * TickLen <= TickLen
    BY <1>1, <1>3, <1>6
  <2>2. DeadlineTicks(left) = 1
    BY <1>3, <1>6 DEF DeadlineTicks
  <2>3. QED
    BY <1>1, <1>3, <1>4, <2>1, <2>2
<1>7. QED
  BY <1>5, <1>6

LEMMA Typed ==
  ASSUME TypeOK, GateTypeOK', [Next]_engineVars
  PROVE  TypeOK'
<1> USE ClockAssumption
<1>1. CASE UNCHANGED engineVars
  BY <1>1 DEF engineVars, clockVars, callVars, TypeOK
<1>2. CASE Clock
  <2>1. now' \in 0..Horizon /\ sinceTick' \in 0..TickLen
    BY <1>2 DEF Clock, Smaller, TypeOK
  <2>2. QED
    BY <1>2, <2>1 DEF Clock, callVars, TypeOK
<1>3. CASE Tick
  <2>1. ticksLeft' \in [Calls -> Nat]
    BY <1>3 DEF Tick, TypeOK
  <2>2. QED
    BY <1>3, <2>1 DEF Tick, TypeOK
<1>4. ASSUME NEW c \in Calls, CallStep(c) PROVE TypeOK'
  <2>1. CASE Reject(c)
    BY <2>1 DEF Reject, To, Set, Steps, Errors, clockVars, TypeOK
  <2>2. CASE \E timeout \in Timeouts : Begin(c, timeout)
    BY <2>2 DEF Begin, To, Set, Steps, clockVars, TypeOK
  <2>3. CASE Acquiring(c) \/ Awakens(c)
    BY <2>3 DEF Acquiring, Awakens, clockVars, callVars, TypeOK
  <2>4. CASE Refused(c)
    BY <2>4 DEF Refused, Gone, To, Set, Steps, Errors, clockVars, TypeOK
  <2>5. CASE Admitted(c)
    BY <2>5 DEF Admitted, Fails, To, Set, Steps, Errors, clockVars, TypeOK
  <2>6. CASE Instantiate(c)
    <3>1. TimeLeft(c) \in Nat
      BY DEF TimeLeft, TypeOK
    <3>2. DeadlineTicks(TimeLeft(c)) \in Nat
      BY <3>1, TicksAreNatural
    <3>3. QED
      BY <2>6, <3>2 DEF Instantiate, To, Set, Steps, GuestSteps, clockVars, TypeOK
  <2>7. CASE Prepared(c)
    BY <2>7 DEF Prepared, Fails, To, Set, Steps, GuestSteps, Errors, clockVars, TypeOK
  <2>8. CASE CallsHost(c)
    BY <2>8 DEF CallsHost, To, Set, Steps, clockVars, TypeOK
  <2>9. CASE HandlerReturns(c)
    BY <2>9 DEF HandlerReturns, To, Set, Steps, GuestSteps, Errors, clockVars, TypeOK
  <2>10. ASSUME NEW s \in {"OK", "HostError", "failed"}, Evaluated(c, s) PROVE TypeOK'
    BY <2>10 DEF Evaluated, HostErrorOrResult, Fails, To, Set, Steps, GuestSteps, clockVars, TypeOK
  <2>11. CASE TraceRead(c)
    BY <2>11 DEF TraceRead, HostErrorOrResult, Fails, To, Set, Steps, GuestSteps, Errors, clockVars,
                 TypeOK
  <2>12. CASE ResultRead(c)
    BY <2>12 DEF ResultRead, Fails, To, Set, Steps, Errors, clockVars, TypeOK
  <2>13. CASE Traps(c) \/ Interrupted(c)
    BY <2>13 DEF Traps, Interrupted, Fails, To, Set, Steps, Errors, clockVars, TypeOK
  <2>14. CASE DropStore(c)
    BY <2>14 DEF DropStore, Gone, To, Set, Steps, clockVars, TypeOK
  <2>15. CASE ReleasePermit(c)
    BY <2>15 DEF ReleasePermit, Gone, To, Set, Steps, clockVars, TypeOK
  <2>16. QED
    BY <1>4, <2>1, <2>2, <2>3, <2>4, <2>5, <2>6, <2>7, <2>8, <2>9, <2>10, <2>11, <2>12, <2>13,
       <2>14, <2>15 DEF CallStep, HostStep, GuestStep
<1>5. QED
  BY <1>1, <1>2, <1>3, <1>4 DEF Next

-----------------------------------------------------------------------------
(* Stores and permits                                                      *)

\* Where a call's permit and store are, at each of its steps.
Scope(c) ==
    /\ step[c] = "idle" => place[c] = "queued" /\ ~store[c]
    /\ step[c] = "acquiring" => ~store[c]
    /\ step[c] = "admitted" => place[c] = "holding" /\ ~store[c]
    /\ step[c] \in GuestSteps \cup {"hosting"} => place[c] = "holding" /\ store[c]
    /\ step[c] = "failed" => place[c] = "holding"
    /\ step[c] = "succeeded" => place[c] \in {"holding", "released"} /\ store[c]
    /\ step[c] = "returned" => place[c] \in {"queued", "canceled", "released"} /\ ~store[c]
Scopes == \A c \in Calls : Scope(c)

LEMMA ScopesSuffice == TypeOK /\ Scopes => StoresUnderPermits
<1> SUFFICES ASSUME TypeOK, Scopes, NEW c \in Calls
             PROVE  /\ step[c] \in GuestSteps \cup {"hosting"} => store[c] /\ place[c] = "holding"
                    /\ step[c] \in {"idle", "acquiring", "returned"} => ~store[c]
                    /\ step[c] \in {"idle", "returned"} => place[c] # "holding"
                    /\ store[c] /\ place[c] # "holding" => step[c] = "succeeded"
  BY DEF StoresUnderPermits
<1>1. Scope(c) /\ step[c] \in Steps
  BY DEF Scopes, TypeOK
<1>2. QED
  BY <1>1 DEF Scope, Steps

\* A call that takes no step is moved by no other, unless it waits for a permit.
LEMMA Bystanders ==
  ASSUME TypeOK, NEW c \in Calls, CallStep(c), NEW d \in Calls, d # c
  PROVE  /\ step'[d] = step[d] /\ store'[d] = store[d] /\ deadline'[d] = deadline[d]
         /\ ticksLeft'[d] = ticksLeft[d] /\ last_error'[d] = last_error[d]
         /\ outcome'[d] = outcome[d]
         /\ expired' = expired /\ now' = now /\ sinceTick' = sinceTick
         /\ place'[d] = place[d] \/ (place[d] = "waiting" /\ place'[d] = "awake")
<1> USE DEF TypeOK, GateTypeOK, To, Set, clockVars, callVars, gateVars
<1>1. CASE Acquiring(c) \/ Awakens(c)
  BY <1>1 DEF Acquiring, Awakens, AcquireStep, Take, GiveUp, TimeoutAnswered, TimesOut, WakesUp, Move
<1>2. CASE ReleasePermit(c)
  <2>1. place'[d] = place[d] \/ (place[d] = "waiting" /\ place'[d] = "awake")
    BY <1>2 DEF ReleasePermit, DropPermit, Notified, Waiters, At
  <2>2. expired' = expired
    BY <1>2 DEF ReleasePermit, DropPermit
  <2>3. QED
    BY <1>2, <2>1, <2>2 DEF ReleasePermit, Gone
<1>3. CASE Reject(c) \/ Refused(c) \/ Admitted(c) \/ Instantiate(c) \/ DropStore(c)
  BY <1>3 DEF Reject, Refused, Admitted, Instantiate, DropStore, Fails, Gone
<1>4. CASE Prepared(c) \/ CallsHost(c) \/ TraceRead(c) \/ ResultRead(c) \/ Traps(c)
           \/ Interrupted(c) \/ HandlerReturns(c)
  BY <1>4 DEF Prepared, CallsHost, TraceRead, ResultRead, Traps, Interrupted, HandlerReturns,
              Fails, HostErrorOrResult
<1>5. ASSUME NEW s, Evaluated(c, s)
      PROVE  /\ step'[d] = step[d] /\ outcome'[d] = outcome[d]
             /\ UNCHANGED <<gateVars, clockVars, deadline, store, ticksLeft, last_error>>
  BY <1>5 DEF Evaluated, Fails, HostErrorOrResult
<1>6. CASE \E timeout \in Timeouts : Begin(c, timeout)
  BY <1>6 DEF Begin
<1>7. QED
  BY <1>1, <1>2, <1>3, <1>4, <1>5, <1>6 DEF CallStep, HostStep, GuestStep

LEMMA ScopesStep ==
  ASSUME TypeOK, Scopes, [Next]_engineVars
  PROVE  Scopes'
<1>1. CASE UNCHANGED engineVars \/ Clock \/ Tick
  BY <1>1 DEF engineVars, gateVars, callVars, Clock, Tick, Expire, Scopes, Scope
<1>2. ASSUME NEW c \in Calls, CallStep(c) PROVE Scopes'
  <2>1. ASSUME NEW d \in Calls, d # c PROVE Scope(d)'
    <3>1. Scope(d)
      BY DEF Scopes
    <3>2. /\ step'[d] = step[d] /\ store'[d] = store[d]
          /\ place'[d] = place[d] \/ (place[d] = "waiting" /\ place'[d] = "awake")
      BY <1>2, <2>1, Bystanders
    <3>3. QED
      BY <3>1, <3>2 DEF Scope
  <2>2. Scope(c)'
    <3> USE DEF TypeOK, GateTypeOK, To, Set, clockVars, callVars, gateVars
    <3>1. Scope(c)
      BY DEF Scopes
    <3>2. CASE Acquiring(c) \/ Awakens(c)
      BY <3>1, <3>2 DEF Acquiring, Awakens, Scope, GuestSteps
    <3>3. CASE ReleasePermit(c)
      <4>1. place'[c] = "released"
        BY <3>3 DEF ReleasePermit, DropPermit, Notified, Waiters, At
      <4>2. QED
        BY <3>1, <3>3, <4>1 DEF ReleasePermit, Scope, GuestSteps
    <3>4. CASE Reject(c) \/ Refused(c) \/ Admitted(c) \/ Instantiate(c) \/ DropStore(c)
      BY <3>1, <3>4 DEF Reject, Refused, Admitted, Instantiate, DropStore, Fails, Scope, GuestSteps
    <3>5. CASE Prepared(c) \/ CallsHost(c) \/ TraceRead(c) \/ ResultRead(c) \/ Traps(c)
               \/ Interrupted(c) \/ HandlerReturns(c)
      BY <3>1, <3>5 DEF Prepared, CallsHost, TraceRead, ResultRead, Traps, Interrupted,
                        HandlerReturns, Fails, HostErrorOrResult, Scope, GuestSteps
    <3>6. ASSUME NEW s, Evaluated(c, s) PROVE Scope(c)'
      BY <3>1, <3>6 DEF Evaluated, Fails, HostErrorOrResult, Scope, GuestSteps
    <3>7. CASE \E timeout \in Timeouts : Begin(c, timeout)
      BY <3>1, <3>7 DEF Begin, Scope, GuestSteps
    <3>8. QED
      BY <1>2, <3>2, <3>3, <3>4, <3>5, <3>6, <3>7 DEF CallStep, HostStep, GuestStep
  <2>3. QED
    BY <2>1, <2>2 DEF Scopes
<1>3. QED
  BY <1>1, <1>2 DEF Next

-----------------------------------------------------------------------------
(* The two clocks                                                          *)

Past(c) == now >= deadline[c]

\* When the epoch deadline is reached, the deadline is past or less than a tick away:
\* ticks come TickLen apart, and only the first may come at once.
EpochInTime(c) == Past(c) \/ now + ticksLeft[c] * TickLen + TickLen >= deadline[c] + sinceTick

\* Whoever blames the deadline of a call has seen it pass.
Blamed(c) ==
    /\ step[c] \in {"idle"} => c \notin expired /\ last_error[c] = "none"
    /\ step[c] \notin {"idle", "returned"} /\ c \in expired => Past(c)
    /\ step[c] = "acquiring" /\ place[c] \in {"timedOut", "canceled"} => c \in expired
    /\ step[c] \notin {"idle", "returned"} /\ last_error[c] = "Canceled" => Past(c)
    /\ store[c] => EpochInTime(c)
Blames == \A c \in Calls : Blamed(c)

\* A call that does nothing while time passes or others act.
LEMMA BlamedLater ==
  ASSUME TypeOK, TypeOK', NEW d \in Calls, Blamed(d),
         step'[d] = step[d], store'[d] = store[d], deadline'[d] = deadline[d],
         last_error'[d] = last_error[d], ticksLeft'[d] = ticksLeft[d],
         expired' = expired, now' = now, sinceTick' = sinceTick,
         place'[d] = place[d] \/ (place[d] = "waiting" /\ place'[d] = "awake")
  PROVE  Blamed(d)'
BY DEF Blamed, Past, EpochInTime

LEMMA BlamesStep ==
  ASSUME TypeOK, TypeOK', Scopes, Blames, [Next]_engineVars
  PROVE  Blames'
<1> USE ClockAssumption
<1>1. CASE UNCHANGED engineVars
  <2>1. ASSUME NEW d \in Calls PROVE Blamed(d)'
    BY <1>1, BlamedLater DEF engineVars, gateVars, clockVars, callVars, Blames
  <2>2. QED
    BY <2>1 DEF Blames
<1>2. CASE Clock
  <2>1. ASSUME NEW d \in Calls PROVE Blamed(d)'
    <3>1. Blamed(d) /\ deadline[d] \in 0..Horizon /\ ticksLeft[d] \in Nat /\ TickLen \in Nat
          /\ now \in 0..Horizon /\ sinceTick \in 0..TickLen
      BY DEF Blames, TypeOK
    <3>2. /\ step' = step /\ store' = store /\ deadline' = deadline /\ last_error' = last_error
          /\ ticksLeft' = ticksLeft /\ place' = place
          /\ now' = Smaller(now + 1, Horizon) /\ sinceTick' = Smaller(sinceTick + 1, TickLen)
      BY <1>2 DEF Clock, Expire, callVars
    <3>3. d \in expired' <=> d \in expired \/ (step[d] \notin {"idle", "returned"} /\ deadline[d] <= now')
      BY <1>2 DEF Clock, Expire
    <3>4. now' \in Nat /\ sinceTick' \in Nat /\ now' >= now
      BY <3>1, <3>2, ClockAssumption DEF Smaller
    <3>5. Past(d) => Past(d)'
      BY <3>1, <3>2, <3>4 DEF Past
    <3>6. EpochInTime(d) => EpochInTime(d)'
      <4>1. CASE now < Horizon
        <5> DEFINE wait == ticksLeft[d] * TickLen
        <5>1. wait \in Nat
          BY <3>1
        <5>2. now' = now + 1 /\ sinceTick' <= sinceTick + 1
          <6>1. now \in Nat /\ Horizon \in Nat /\ sinceTick \in Nat /\ TickLen \in Nat
            BY <3>1
          <6>2. now' = now + 1
            BY <3>2, <4>1, <6>1 DEF Smaller
          <6>3. sinceTick' <= sinceTick + 1
            BY <3>2, <6>1 DEF Smaller
          <6>4. QED
            BY <6>2, <6>3
        <5>3. now + wait + TickLen >= deadline[d] + sinceTick
              => now' + wait + TickLen >= deadline[d] + sinceTick'
          <6> HIDE DEF wait
          <6>1. QED
            BY <3>1, <3>4, <5>1, <5>2
        <5>4. QED
          BY <3>2, <3>5, <5>3 DEF EpochInTime
      <4>2. CASE ~(now < Horizon)
        <5>1. Past(d)
          BY <3>1, <4>2 DEF Past
        <5>2. QED
          BY <3>5, <5>1 DEF EpochInTime
      <4>3. QED
        BY <4>1, <4>2
    <3>7. deadline[d] <= now' => Past(d)'
      BY <3>1, <3>2, <3>4 DEF Past
    <3>8. QED
      BY <3>1, <3>2, <3>3, <3>5, <3>6, <3>7 DEF Blamed
  <2>2. QED
    BY <2>1 DEF Blames
<1>3. CASE Tick
  <2>1. ASSUME NEW d \in Calls PROVE Blamed(d)'
    <3>1. Blamed(d) /\ deadline[d] \in 0..Horizon /\ ticksLeft[d] \in Nat /\ TickLen \in Nat
          /\ now \in 0..Horizon
      BY DEF Blames, TypeOK
    <3>2. /\ step' = step /\ store' = store /\ deadline' = deadline /\ last_error' = last_error
          /\ place' = place /\ expired' = expired /\ now' = now
          /\ sinceTick = TickLen /\ sinceTick' = 0
          /\ ticksLeft'[d] = IF ticksLeft[d] > 0 THEN ticksLeft[d] - 1 ELSE 0
      BY <1>3 DEF Tick, gateVars
    <3>3. Past(d)' <=> Past(d)
      BY <3>2 DEF Past
    <3>4. EpochInTime(d) => EpochInTime(d)'
      <4>1. CASE ticksLeft[d] > 0
        <5>1. ticksLeft'[d] * TickLen + TickLen = ticksLeft[d] * TickLen
          BY <3>1, <3>2, <4>1
        <5>2. ticksLeft[d] * TickLen \in Nat /\ ticksLeft'[d] * TickLen \in Nat
          BY <3>1, <3>2, <4>1
        <5>3. QED
          BY <3>1, <3>2, <3>3, <5>1, <5>2 DEF EpochInTime
      <4>2. CASE ~(ticksLeft[d] > 0)
        <5>1. ticksLeft[d] * TickLen = 0 /\ ticksLeft'[d] * TickLen = 0
          BY <3>1, <3>2, <4>2
        <5>2. EpochInTime(d) <=> Past(d) \/ now + 0 + TickLen >= deadline[d] + sinceTick
          BY <5>1 DEF EpochInTime
        <5>3. EpochInTime(d)' <=> Past(d)' \/ now + 0 + TickLen >= deadline[d] + 0
          BY <3>2, <5>1 DEF EpochInTime
        <5>4. QED
          BY <3>1, <3>2, <3>3, <5>2, <5>3
      <4>3. QED
        BY <4>1, <4>2
    <3>5. QED
      BY <3>1, <3>2, <3>3, <3>4 DEF Blamed
  <2>2. QED
    BY <2>1 DEF Blames
<1>4. ASSUME NEW c \in Calls, CallStep(c) PROVE Blames'
  <2>1. ASSUME NEW d \in Calls, d # c PROVE Blamed(d)'
    BY <1>4, <2>1, Bystanders, BlamedLater DEF Blames
  <2>2. Blamed(c) /\ Scope(c) /\ deadline[c] \in 0..Horizon /\ now \in 0..Horizon
        /\ sinceTick \in 0..TickLen /\ TickLen \in Nat
    BY DEF Blames, Scopes, TypeOK
  <2>3. Blamed(c)'
    <3> USE DEF TypeOK, GateTypeOK, To, Set, clockVars, callVars, gateVars
    <3>1. CASE Acquiring(c)
      BY <2>2, <3>1 DEF Acquiring, AcquireStep, Take, GiveUp, TimeoutAnswered, TimesOut, Move,
                        Blamed, Past, EpochInTime
    <3>2. CASE Awakens(c)
      BY <2>2, <3>2 DEF Awakens, WakesUp, Move, Blamed, Past, EpochInTime
    <3>3. CASE Instantiate(c)
      <4>1. TimeLeft(c) \in Nat /\ (~Past(c) => TimeLeft(c) = deadline[c] - now)
        BY <2>2 DEF TimeLeft, Past
      <4>2. ticksLeft'[c] = DeadlineTicks(TimeLeft(c))
        BY <3>3 DEF Instantiate
      <4>3. ticksLeft'[c] \in Nat /\ ticksLeft'[c] * TickLen >= TimeLeft(c)
        BY <4>1, <4>2, TicksAreNatural
      <4>4. now' = now /\ deadline' = deadline /\ sinceTick' = sinceTick /\ expired' = expired
            /\ place' = place /\ last_error' = last_error
            /\ step[c] = "admitted" /\ step'[c] = "preparing"
        BY <3>3 DEF Instantiate
      <4>5. EpochInTime(c)'
        <5> DEFINE wait == ticksLeft'[c] * TickLen
        <5>1. wait \in Nat /\ wait >= TimeLeft(c)
          BY <2>2, <4>3
        <5>2. Past(c) \/ now + wait + TickLen >= deadline[c] + sinceTick
          <6> HIDE DEF wait
          <6>1. QED
            BY <2>2, <4>1, <5>1
        <5>3. QED
          BY <4>4, <5>2 DEF EpochInTime, Past
      <4>6. QED
        BY <2>2, <4>4, <4>5 DEF Blamed, Past
    <3>4. CASE Reject(c)
      BY <2>2, <3>4 DEF Reject, Scope, Blamed
    <3>5. CASE Refused(c)
      BY <2>2, <3>5 DEF Refused, Gone, Scope, Blamed
    <3>6. CASE Admitted(c)
      BY <2>2, <3>6 DEF Admitted, Fails, Scope, Blamed, Past
    <3>7. CASE DropStore(c)
      BY <2>2, <3>7 DEF DropStore, Gone, Blamed, Past
    <3>8. CASE Prepared(c) \/ CallsHost(c) \/ TraceRead(c) \/ ResultRead(c) \/ Traps(c)
               \/ Interrupted(c)
      BY <2>2, <3>8 DEF Prepared, CallsHost, TraceRead, ResultRead, Traps, Interrupted,
                        Fails, HostErrorOrResult, Blamed, Past, EpochInTime, GuestSteps
    <3>9. CASE HandlerReturns(c)
      BY <2>2, <3>9 DEF HandlerReturns, Blamed, Past, EpochInTime
    <3>10. ASSUME NEW s, Evaluated(c, s) PROVE Blamed(c)'
      BY <2>2, <3>10 DEF Evaluated, Fails, HostErrorOrResult, Blamed, Past, EpochInTime
    <3>11. CASE \E timeout \in Timeouts : Begin(c, timeout)
      BY <2>2, <3>11 DEF Begin, Scope, Blamed, Past
    <3>12. CASE ReleasePermit(c)
      <4>1. place'[c] = "released" /\ expired' = expired
        BY <3>12 DEF ReleasePermit, DropPermit, Notified, Waiters, At
      <4>2. QED
        BY <2>2, <3>12, <4>1 DEF ReleasePermit, Gone, Blamed, Past, EpochInTime
    <3>13. QED
      BY <1>4, <3>1, <3>2, <3>3, <3>4, <3>5, <3>6, <3>7, <3>8, <3>9, <3>10, <3>11, <3>12
         DEF CallStep, HostStep, GuestStep
  <2>4. QED
    BY <2>1, <2>3 DEF Blames
<1>5. QED
  BY <1>1, <1>2, <1>3, <1>4 DEF Next

-----------------------------------------------------------------------------
(* The theorems                                                            *)

EngineInv == TypeOK /\ Scopes /\ Blames

LEMMA EngineStarts == Init => EngineInv
<1> SUFFICES ASSUME Init PROVE EngineInv
  OBVIOUS
<1>1. GateTypeOK
  BY GateInitially DEF Init, GateInv
<1>2. TypeOK
  BY <1>1, ClockAssumption DEF Init, TypeOK, Steps
<1>3. Scopes
  BY DEF Init, GateInit, Scopes, Scope, GuestSteps
<1>4. Blames
  BY DEF Init, GateInit, Blames, Blamed
<1>5. QED
  BY <1>2, <1>3, <1>4 DEF EngineInv

LEMMA EngineKeeps ==
  ASSUME EngineInv, GateTypeOK', [Next]_engineVars
  PROVE  EngineInv'
BY Typed, ScopesStep, BlamesStep DEF EngineInv

THEOREM EngineInvariance == Spec => []EngineInv
<1>1. Init => EngineInv
  BY EngineStarts
<1>2. EngineInv /\ GateTypeOK' /\ [Next]_engineVars => EngineInv'
  BY EngineKeeps
<1>3. Spec => []GateTypeOK
  BY EvaluationsUseGate, GateTypeCorrect, PTL DEF UsesGate
<1>4. QED
  BY <1>1, <1>2, <1>3, PTL DEF Spec

\* The state of the evaluations has its types, the gate's counter among it.
THEOREM EngineTypeCorrect == Spec => []TypeOK
<1>1. EngineInv => TypeOK
  BY DEF EngineInv
<1>2. QED
  BY <1>1, EngineInvariance, PTL

\* A guest runs only with a permit; a store outlives its permit only when the call has
\* succeeded.
THEOREM StoresHavePermits == Spec => []StoresUnderPermits
<1>1. EngineInv => StoresUnderPermits
  BY ScopesSuffice DEF EngineInv
<1>2. QED
  BY <1>1, EngineInvariance, PTL

\* What EarlyByATick says of a step.
CanceledInTime ==
    \A c \in Calls :
        outcome[c] = "none" /\ outcome'[c] = "Canceled" => now + TickLen >= deadline[c]

LEMMA CancellationsInTime ==
  ASSUME EngineInv, [Next]_engineVars
  PROVE  CanceledInTime
<1> SUFFICES ASSUME NEW d \in Calls, outcome[d] = "none", outcome'[d] = "Canceled"
             PROVE  now + TickLen >= deadline[d]
  BY DEF CanceledInTime
<1> USE ClockAssumption
<1>1. TypeOK /\ Blamed(d) /\ Scope(d) /\ deadline[d] \in Nat /\ now \in Nat /\ sinceTick \in Nat
      /\ TickLen \in Nat /\ ticksLeft[d] \in Nat
  BY DEF EngineInv, Blames, Scopes, TypeOK
<1>2. Past(d) => now + TickLen >= deadline[d]
  BY <1>1 DEF Past
<1>3. ASSUME NEW c \in Calls, CallStep(c) PROVE now + TickLen >= deadline[d]
  <2>1. c = d
    BY <1>1, <1>3, Bystanders
  <2> USE <1>1, <2>1 DEF TypeOK, To, Set, callVars
  <2>2. CASE Refused(d)
    BY <1>2, <2>2 DEF Refused, Blamed
  <2>3. CASE Admitted(d)
    BY <1>2, <2>3 DEF Admitted, Fails, Past
  <2>4. CASE Interrupted(d)
    <3>1. store[d] /\ ticksLeft[d] = 0
      BY <2>4 DEF Interrupted, Scope
    <3>2. ticksLeft[d] * TickLen = 0
      BY <3>1
    <3>3. EpochInTime(d)
      BY <3>1 DEF Blamed
    <3>4. Past(d) \/ now + 0 + TickLen >= deadline[d] + sinceTick
      BY <3>2, <3>3 DEF EpochInTime
    <3>5. QED
      BY <1>2, <3>4
  <2>5. CASE TraceRead(d)
    BY <1>2, <2>5 DEF TraceRead, HostErrorOrResult, Fails, Blamed
  <2>6. ASSUME NEW s, Evaluated(d, s) PROVE now + TickLen >= deadline[d]
    BY <1>2, <2>6 DEF Evaluated, HostErrorOrResult, Fails, Blamed
  <2>7. CASE Reject(d) \/ Acquiring(d) \/ Awakens(d) \/ Instantiate(d) \/ DropStore(d)
             \/ ReleasePermit(d) \/ Prepared(d) \/ CallsHost(d) \/ ResultRead(d) \/ Traps(d)
             \/ HandlerReturns(d)
    BY <2>7 DEF Reject, Acquiring, Awakens, Instantiate, DropStore, ReleasePermit, Prepared,
                CallsHost, ResultRead, Traps, HandlerReturns, Fails
  <2>8. CASE \E timeout \in Timeouts : Begin(d, timeout)
    BY <2>8 DEF Begin
  <2>9. QED
    BY <1>3, <2>2, <2>3, <2>4, <2>5, <2>6, <2>7, <2>8 DEF CallStep, HostStep, GuestStep
<1>4. CASE UNCHANGED engineVars \/ Clock \/ Tick
  BY <1>4 DEF engineVars, callVars, Clock, Tick
<1>5. QED
  BY <1>3, <1>4 DEF Next

\* deadline_ticks rounds up, but the first tick may come at once: a guest is stopped at
\* most one tick early, and a call canceled elsewhere never is.
THEOREM CanceledAtMostATickEarly == Spec => EarlyByATick
<1>1. EngineInv /\ [Next]_engineVars => [CanceledInTime]_engineVars
  BY CancellationsInTime
<1>2. Spec => [][CanceledInTime]_engineVars
  BY <1>1, EngineInvariance, PTL DEF Spec
<1>3. QED
  BY <1>2 DEF EarlyByATick, CanceledInTime
=============================================================================
