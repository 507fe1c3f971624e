---------------------------- MODULE EngineProofs ----------------------------
(***************************************************************************)
(* Theorems about Engine, for every number of calls, closers, slots and    *)
(* fuel units.                                                             *)
(*                                                                         *)
(* InductiveInv ties the gate to the calls that hold a slot and each       *)
(* call's instance, name and events to its place; every safety property    *)
(* follows from it.                                                        *)
(***************************************************************************)
EXTENDS Engine, FiniteSetTheorems, TLAPS

InductiveInv == TypeOK /\ SlotsAccounted /\ LifecycleInv

-----------------------------------------------------------------------------
(* The holders of slots                                                    *)

\* Only finitely many calls hold a slot.
LEMMA HoldersFinite == IsFiniteSet(Holders) /\ Cardinality(Holders) \in Nat
<1>1. Holders \in SUBSET Calls
  BY DEF Holders
<1>2. IsFiniteSet(Holders)
  BY <1>1, CallsAssumption, FS_Subset
<1>3. QED
  BY <1>2, FS_CardinalityType

\* A call that moves between two places both inside or both outside the gate
\* leaves the holders as they are.
LEMMA HoldersSame ==
  ASSUME TypeOK, NEW c \in Calls, NEW p \in Places, Goto(c, p),
         pc[c] \in SlotPlaces <=> p \in SlotPlaces
  PROVE  Holders' = Holders
BY DEF TypeOK, Goto, Holders

\* A call that takes a slot adds one to the number of holders.
LEMMA HoldersEnter ==
  ASSUME TypeOK, NEW c \in Calls, NEW p \in Places, Goto(c, p),
         pc[c] \notin SlotPlaces, p \in SlotPlaces
  PROVE  Cardinality(Holders') = Cardinality(Holders) + 1
<1>1. Holders' = Holders \cup {c} /\ c \notin Holders
  BY DEF TypeOK, Goto, Holders
<1>2. QED
  BY <1>1, HoldersFinite, FS_AddElement

\* A call that leaves the gate takes one from the number of holders, which was
\* positive.
LEMMA HoldersLeave ==
  ASSUME TypeOK, NEW c \in Calls, NEW p \in Places, Goto(c, p),
         pc[c] \in SlotPlaces, p \notin SlotPlaces
  PROVE  /\ Cardinality(Holders') = Cardinality(Holders) - 1
         /\ Cardinality(Holders) > 0
<1>1. Holders' = Holders \ {c} /\ c \in Holders
  BY DEF TypeOK, Goto, Holders
<1>2. Cardinality(Holders) # 0
  BY <1>1, HoldersFinite, FS_EmptySet
<1>3. Cardinality(Holders \ {c}) = Cardinality(Holders) - 1
  BY <1>1, HoldersFinite, FS_RemoveElement
<1>4. QED
  BY <1>1, <1>2, <1>3, HoldersFinite

\* Every guest call and every place of the lifecycle is a place.
LEMMA PlacesFacts ==
  /\ Waiting \subseteq Places
  /\ GuestCalls \subseteq SlotPlaces
  /\ SlotPlaces \subseteq Places
  /\ Cleanup \subseteq SlotPlaces
BY DEF Waiting, GuestCalls, SlotPlaces, Places, Cleanup, Finished

-----------------------------------------------------------------------------
(* Type correctness                                                        *)

\* The results evaluate can build are results.
LEMMA ResultTypes ==
  ASSUME NEW k \in Errors \cup {"Success"}
  PROVE  Empty(k) \in Results /\ Partial(k) \in Results
BY DEF Results, Empty, Partial

\* The results of the calls refused before they run.
LEMMA RefusalTypes ==
  \A k \in {"InvalidRequest", "Cancelled", "EngineClosed", "ABIError"} : Empty(k) \in Results
BY ResultTypes DEF Errors

\* runtimeError returns an error.
LEMMA RuntimeErrorType ==
  ASSUME NEW c, NEW cause
  PROVE  RuntimeError(c, cause)
            \in {"Cancelled", "FuelLimit", "MemoryLimit", "EngineClosed", "GuestTrap"}
BY DEF RuntimeError

\* Moving a call to a place, and setting its result, keep pc and result well typed.
LEMMA GotoType ==
  ASSUME TypeOK, NEW c \in Calls, NEW p \in Places, Goto(c, p)
  PROVE  pc' \in [Calls -> Places]
BY DEF TypeOK, Goto

LEMMA ReturnType ==
  ASSUME TypeOK, NEW c \in Calls, NEW r \in Results, result' = [result EXCEPT ![c] = r]
  PROVE  result' \in [Calls -> Results]
BY DEF TypeOK

\* Ending the guest's part of a call keeps the variables it writes well typed.
LEMMA EndType ==
  ASSUME TypeOK, NEW c \in Calls, NEW r \in Results, End(c, r)
  PROVE  /\ pc' \in [Calls -> Places]
         /\ result' \in [Calls -> Results]
         /\ fuel' \in [Calls -> 0..MaxFuel]
         /\ hostErr' \subseteq Calls
         /\ status' \in [Calls -> Statuses \cup {"none"}]
BY FuelAssumption DEF TypeOK, End, Return, Goto, Places, Cleanup

LEMMA MayBurnType ==
  ASSUME TypeOK, NEW c \in Calls, fuel[c] > 0, MayBurn(c) \/ Burn(c)
  PROVE  fuel' \in [Calls -> 0..MaxFuel]
<1>1. fuel \in [Calls -> 0..MaxFuel] /\ fuel[c] - 1 \in 0..MaxFuel
  BY FuelAssumption DEF TypeOK
<1>2. CASE Burn(c)
  BY <1>1, <1>2 DEF Burn
<1>3. CASE MayBurn(c)
  BY <1>1, <1>3 DEF MayBurn
<1>4. QED
  BY <1>2, <1>3

\* The initial state is well typed.
LEMMA TypeInit == Init => TypeOK
<1> SUFFICES ASSUME Init PROVE TypeOK
  OBVIOUS
<1>1. gate \in 0..MaxConcurrent /\ fuel \in [Calls -> 0..MaxFuel]
  BY GateAssumption, FuelAssumption DEF Init
<1>2. events \in [Calls -> Seq(Results)]
  BY DEF Init
<1>3. result \in [Calls -> Results]
  BY DEF Init, Results, NoResult
<1>4. QED
  BY <1>1, <1>2, <1>3 DEF Init, TypeOK, Places

\* Every step keeps every variable in its type; that a release finds a token in
\* the gate is where the count of holders is needed.
LEMMA TypeStep == TypeOK /\ SlotsAccounted /\ [Next]_vars => TypeOK'
<1> SUFFICES ASSUME TypeOK, SlotsAccounted, [Next]_vars PROVE TypeOK'
  OBVIOUS
<1> USE DEF closeVars, moduleVars, guestVars, Return, Goto
<1>1. ASSUME NEW c \in Calls, Evaluate(c) PROVE TypeOK'
  <2>1. pc' \in [Calls -> Places]
    <3>1. Goto(c, "rejected") \/ Goto(c, "entered")
      BY <1>1 DEF Evaluate
    <3>2. {"rejected", "entered"} \subseteq Places
      BY DEF Places, Waiting, Finished
    <3>3. QED
      BY <3>1, <3>2, GotoType
  <2>2. result' \in [Calls -> Results]
    BY <1>1, RefusalTypes DEF TypeOK, Evaluate
  <2>3. QED
    BY <1>1, <2>1, <2>2 DEF TypeOK, Evaluate
<1>2. ASSUME NEW c \in Calls, CheckContext(c) PROVE TypeOK'
  BY <1>2, RefusalTypes DEF TypeOK, CheckContext, Places, Waiting
<1>3. ASSUME NEW c \in Calls, CheckOpen(c) PROVE TypeOK'
  BY <1>3, RefusalTypes DEF TypeOK, CheckOpen, Places, Waiting
<1>4. ASSUME NEW c \in Calls, PrepareRequest(c) PROVE TypeOK'
  <2>1. pc' \in [Calls -> Places]
    BY <1>4 DEF TypeOK, PrepareRequest, Places, Waiting
  <2>2. result' \in [Calls -> Results]
    BY <1>4, RefusalTypes DEF TypeOK, PrepareRequest
  <2>3. QED
    BY <1>4, <2>1, <2>2 DEF TypeOK, PrepareRequest
<1>5. ASSUME NEW c \in Calls, Acquire(c) PROVE TypeOK'
  <2>1. pc' \in [Calls -> Places]
    BY <1>5 DEF TypeOK, Acquire, Places, Waiting
  <2>2. result' \in [Calls -> Results]
    BY <1>5, RefusalTypes DEF TypeOK, Acquire
  <2>3. gate' \in 0..MaxConcurrent
    BY <1>5, GateAssumption DEF TypeOK, Acquire
  <2>4. QED
    BY <1>5, <2>1, <2>2, <2>3 DEF TypeOK, Acquire
<1>6. ASSUME NEW c \in Calls, Recheck(c) PROVE TypeOK'
  BY <1>6, RefusalTypes DEF TypeOK, Recheck, Places, Cleanup
<1>7. ASSUME NEW c \in Calls, Instantiate(c) PROVE TypeOK'
  <2>1. \A cause : Empty(RuntimeError(c, cause)) \in Results
    BY RuntimeErrorType, ResultTypes DEF Errors
  <2>2. instanceCount' \in Nat /\ name' \in [Calls -> Nat]
    BY <1>7 DEF TypeOK, Instantiate, NextName
  <2>3. pc' \in [Calls -> Places]
    <3>1. Goto(c, "release") \/ Goto(c, "initialize")
      BY <1>7 DEF Instantiate
    <3>2. {"release", "initialize"} \subseteq Places
      BY DEF Places, GuestCalls, Cleanup
    <3>3. QED
      BY <3>1, <3>2, GotoType
  <2>4. result' \in [Calls -> Results]
    <3>1. \/ UNCHANGED result
          \/ \E cause : result' = [result EXCEPT ![c] = Empty(RuntimeError(c, cause))]
      BY <1>7 DEF Instantiate
    <3>2. QED
      BY <2>1, <3>1, ReturnType DEF TypeOK
  <2>5. module' \in [Calls -> {"none", "live", "aborted", "closed"}]
    BY <1>7 DEF TypeOK, Instantiate
  <2>6. QED
    BY <1>7, <2>2, <2>3, <2>4, <2>5 DEF TypeOK, Instantiate
<1>8. ASSUME NEW c \in Calls, Initialize(c) PROVE TypeOK'
  BY <1>8, MayBurnType DEF TypeOK, Initialize, Callable, Places, GuestCalls
<1>9. ASSUME NEW c \in Calls, RequestAlloc(c) PROVE TypeOK'
  <2>1. Empty("ABIError") \in Results
    BY RefusalTypes
  <2>2. CASE End(c, Empty("ABIError"))
    BY <1>9, <2>1, <2>2, EndType DEF TypeOK, RequestAlloc
  <2>3. CASE MayBurn(c) /\ Goto(c, "guest") /\ UNCHANGED <<hostErr, status, result>>
    BY <1>9, <2>3, MayBurnType DEF TypeOK, RequestAlloc, Callable, Places, GuestCalls
  <2>4. QED
    BY <1>9, <2>2, <2>3 DEF RequestAlloc
<1>10. ASSUME NEW c \in Calls, GuestComputes(c) PROVE TypeOK'
  BY <1>10, MayBurnType DEF TypeOK, GuestComputes
<1>11. ASSUME NEW c \in Calls, GuestCallsHost(c) PROVE TypeOK'
  BY <1>11, MayBurnType DEF TypeOK, GuestCallsHost, Places
<1>12. ASSUME NEW c \in Calls, HandlerReturns(c) PROVE TypeOK'
  BY <1>12 DEF TypeOK, HandlerReturns, Places, GuestCalls
<1>13. ASSUME NEW c \in Calls, GuestReturns(c) PROVE TypeOK'
  <2>1. Empty("ABIError") \in Results
    BY RefusalTypes
  <2>2. CASE End(c, Empty("ABIError"))
    BY <1>13, <2>1, <2>2, EndType DEF TypeOK, GuestReturns
  <2>3. CASE ~End(c, Empty("ABIError"))
    <3>1. fuel' \in [Calls -> 0..MaxFuel]
      BY <1>13, <2>3, MayBurnType DEF GuestReturns
    <3>2. pc' \in [Calls -> Places]
      BY <1>13, <2>3 DEF TypeOK, GuestReturns, Places, GuestCalls
    <3>3. status' \in [Calls -> Statuses \cup {"none"}]
      BY <1>13, <2>3 DEF TypeOK, GuestReturns
    <3>4. QED
      BY <1>13, <2>3, <3>1, <3>2, <3>3 DEF TypeOK, GuestReturns
  <2>4. QED
    BY <2>2, <2>3
<1>14. ASSUME NEW c \in Calls, ReadTrace(c) PROVE TypeOK'
  <2>1. Empty("ABIError") \in Results
    BY RefusalTypes
  <2>2. CASE End(c, Empty("ABIError"))
    BY <1>14, <2>1, <2>2, EndType DEF TypeOK, ReadTrace
  <2>3. CASE ~End(c, Empty("ABIError"))
    BY <1>14, <2>3, MayBurnType DEF TypeOK, ReadTrace, Callable, Places, GuestCalls
  <2>4. QED
    BY <2>2, <2>3
<1>15. ASSUME NEW c \in Calls, ReportHostError(c) PROVE TypeOK'
  <2>1. Partial("HostError") \in Results
    BY ResultTypes DEF Errors
  <2>2. QED
    BY <1>15, <2>1, EndType DEF TypeOK, ReportHostError
<1>16. ASSUME NEW c \in Calls, ReadResult(c) PROVE TypeOK'
  <2>1. \A k \in {"ABIError", "Success", "StatusError", "GuestTrap"} : Partial(k) \in Results
    BY ResultTypes DEF Errors
  <2>2. QED
    BY <1>16, <2>1, EndType DEF TypeOK, ReadResult, guestStatusError
<1>17. ASSUME NEW c \in Calls, GuestStopped(c) PROVE TypeOK'
  <2>1. PICK cause \in TrapCauses(c) :
           /\ faulted' = IF cause = "fault" THEN faulted \cup {c} ELSE faulted
           /\ End(c, StoppedResult(c, RuntimeError(c, cause)))
    BY <1>17 DEF GuestStopped
  <2>2. StoppedResult(c, RuntimeError(c, cause)) \in Results
    BY RuntimeErrorType, ResultTypes DEF StoppedResult, Errors
  <2>3. QED
    BY <1>17, <2>1, <2>2, EndType DEF TypeOK, GuestStopped
<1>18. ASSUME NEW c \in Calls, CloseModule(c) PROVE TypeOK'
  BY <1>18 DEF TypeOK, CloseModule, Places, Cleanup
<1>19. ASSUME NEW c \in Calls, Release(c) PROVE TypeOK'
  <2>1. Goto(c, "observe") /\ pc[c] = "release"
    BY <1>19 DEF Release
  <2>2. gate > 0
    BY <2>1, HoldersLeave DEF SlotsAccounted, SlotPlaces, Places, Cleanup, Waiting, GuestCalls
  <2>3. QED
    BY <1>19, <2>2, GateAssumption DEF TypeOK, Release, Places
<1>20. ASSUME NEW c \in Calls, Observe(c) PROVE TypeOK'
  BY <1>20 DEF TypeOK, Observe, Places, Finished
<1>21. ASSUME NEW k \in Closers, Close(k) PROVE TypeOK'
  BY <1>21 DEF TypeOK, Close
<1>22. ASSUME NEW k \in Closers, CloseRuntime(k) PROVE TypeOK'
  BY <1>22 DEF TypeOK, CloseRuntime, AbortLive
<1>23. ASSUME NEW c \in Calls, Cancel(c) PROVE TypeOK'
  BY <1>23 DEF TypeOK, Cancel
<1>24. CASE UNCHANGED vars
  BY <1>24 DEF TypeOK, vars
<1>25. QED
  BY <1>1, <1>2, <1>3, <1>4, <1>5, <1>6, <1>7, <1>8, <1>9, <1>10, <1>11, <1>12, <1>13,
     <1>14, <1>15, <1>16, <1>17, <1>18, <1>19, <1>20, <1>21, <1>22, <1>23, <1>24
     DEF Next, CallStep
-----------------------------------------------------------------------------
(* The gate                                                                *)

\* A move that neither enters nor leaves the gate, and leaves the tokens alone,
\* keeps them accounted for.
LEMMA SlotNeutral ==
  ASSUME TypeOK, SlotsAccounted, NEW c \in Calls, NEW p \in Places, Goto(c, p),
         pc[c] \in SlotPlaces <=> p \in SlotPlaces, gate' = gate
  PROVE  SlotsAccounted'
BY HoldersSame DEF SlotsAccounted

\* Every step keeps one token in the gate per holder.
LEMMA SlotsStep == TypeOK /\ SlotsAccounted /\ [Next]_vars => SlotsAccounted'
<1> SUFFICES ASSUME TypeOK, SlotsAccounted, [Next]_vars PROVE SlotsAccounted'
  OBVIOUS
<1>1. ASSUME NEW c \in Calls, Evaluate(c) PROVE SlotsAccounted'
  <2>1. gate' = gate /\ (Goto(c, "rejected") \/ Goto(c, "entered"))
    BY <1>1 DEF Evaluate, Return, End
  <2>2. QED
    BY <1>1, <2>1, SlotNeutral DEF Evaluate, Places, SlotPlaces, Waiting, GuestCalls, Cleanup, Finished
<1>2. ASSUME NEW c \in Calls, CheckContext(c) PROVE SlotsAccounted'
  <2>1. gate' = gate /\ (Goto(c, "observe") \/ Goto(c, "checkOpen"))
    BY <1>2 DEF CheckContext, Return, End
  <2>2. QED
    BY <1>2, <2>1, SlotNeutral DEF CheckContext, Places, SlotPlaces, Waiting, GuestCalls, Cleanup, Finished
<1>3. ASSUME NEW c \in Calls, CheckOpen(c) PROVE SlotsAccounted'
  <2>1. gate' = gate /\ (Goto(c, "observe") \/ Goto(c, "prepare"))
    BY <1>3 DEF CheckOpen, Return, End
  <2>2. QED
    BY <1>3, <2>1, SlotNeutral DEF CheckOpen, Places, SlotPlaces, Waiting, GuestCalls, Cleanup, Finished
<1>4. ASSUME NEW c \in Calls, PrepareRequest(c) PROVE SlotsAccounted'
  <2>1. gate' = gate /\ (Goto(c, "observe") \/ Goto(c, "acquire"))
    BY <1>4 DEF PrepareRequest, Return, End
  <2>2. QED
    BY <1>4, <2>1, SlotNeutral DEF PrepareRequest, Places, SlotPlaces, Waiting, GuestCalls, Cleanup, Finished
<1>5. ASSUME NEW c \in Calls, Acquire(c) PROVE SlotsAccounted'
  <2>1. CASE gate' = gate + 1 /\ Goto(c, "recheck")
    BY <1>5, <2>1, HoldersEnter
       DEF Acquire, SlotsAccounted, Places, SlotPlaces, Waiting, GuestCalls, Cleanup
  <2>2. CASE gate' = gate /\ Goto(c, "observe")
    BY <1>5, <2>2, SlotNeutral DEF Acquire, Places, SlotPlaces, Waiting, GuestCalls, Cleanup
  <2>3. QED
    BY <1>5, <2>1, <2>2 DEF Acquire, Return
<1>6. ASSUME NEW c \in Calls, Recheck(c) PROVE SlotsAccounted'
  <2>1. gate' = gate /\ (Goto(c, "release") \/ Goto(c, "instantiate"))
    BY <1>6 DEF Recheck, Return, End
  <2>2. QED
    BY <1>6, <2>1, SlotNeutral DEF Recheck, Places, SlotPlaces, Waiting, GuestCalls, Cleanup, Finished
<1>7. ASSUME NEW c \in Calls, Instantiate(c) PROVE SlotsAccounted'
  <2>1. gate' = gate /\ (Goto(c, "release") \/ Goto(c, "initialize"))
    BY <1>7 DEF Instantiate, Return, End
  <2>2. QED
    BY <1>7, <2>1, SlotNeutral DEF Instantiate, Places, SlotPlaces, Waiting, GuestCalls, Cleanup, Finished
<1>8. ASSUME NEW c \in Calls, Initialize(c) PROVE SlotsAccounted'
  <2>1. gate' = gate /\ (Goto(c, "alloc"))
    BY <1>8 DEF Initialize, Return, End
  <2>2. QED
    BY <1>8, <2>1, SlotNeutral DEF Initialize, Places, SlotPlaces, Waiting, GuestCalls, Cleanup, Finished
<1>9. ASSUME NEW c \in Calls, RequestAlloc(c) PROVE SlotsAccounted'
  <2>1. gate' = gate /\ (Goto(c, "closeModule") \/ Goto(c, "guest"))
    BY <1>9 DEF RequestAlloc, Return, End
  <2>2. QED
    BY <1>9, <2>1, SlotNeutral DEF RequestAlloc, Places, SlotPlaces, Waiting, GuestCalls, Cleanup, Finished
<1>10. ASSUME NEW c \in Calls, GuestComputes(c) PROVE SlotsAccounted'
  BY <1>10 DEF GuestComputes, SlotsAccounted, Holders
<1>11. ASSUME NEW c \in Calls, GuestCallsHost(c) PROVE SlotsAccounted'
  <2>1. gate' = gate /\ (Goto(c, "host"))
    BY <1>11 DEF GuestCallsHost, Return, End
  <2>2. QED
    BY <1>11, <2>1, SlotNeutral DEF GuestCallsHost, Places, SlotPlaces, Waiting, GuestCalls, Cleanup, Finished
<1>12. ASSUME NEW c \in Calls, HandlerReturns(c) PROVE SlotsAccounted'
  <2>1. gate' = gate /\ (Goto(c, "guest"))
    BY <1>12 DEF HandlerReturns, Return, End
  <2>2. QED
    BY <1>12, <2>1, SlotNeutral DEF HandlerReturns, Places, SlotPlaces, Waiting, GuestCalls, Cleanup, Finished
<1>13. ASSUME NEW c \in Calls, GuestReturns(c) PROVE SlotsAccounted'
  <2>1. gate' = gate /\ (Goto(c, "closeModule") \/ Goto(c, "trace") \/ Goto(c, "result"))
    BY <1>13 DEF GuestReturns, Return, End
  <2>2. QED
    BY <1>13, <2>1, SlotNeutral DEF GuestReturns, Places, SlotPlaces, Waiting, GuestCalls, Cleanup, Finished
<1>14. ASSUME NEW c \in Calls, ReadTrace(c) PROVE SlotsAccounted'
  <2>1. gate' = gate /\ (Goto(c, "closeModule") \/ Goto(c, "result"))
    BY <1>14 DEF ReadTrace, Return, End
  <2>2. QED
    BY <1>14, <2>1, SlotNeutral DEF ReadTrace, Places, SlotPlaces, Waiting, GuestCalls, Cleanup, Finished
<1>15. ASSUME NEW c \in Calls, ReportHostError(c) PROVE SlotsAccounted'
  <2>1. gate' = gate /\ (Goto(c, "closeModule"))
    BY <1>15 DEF ReportHostError, Return, End
  <2>2. QED
    BY <1>15, <2>1, SlotNeutral DEF ReportHostError, Places, SlotPlaces, Waiting, GuestCalls, Cleanup, Finished
<1>16. ASSUME NEW c \in Calls, ReadResult(c) PROVE SlotsAccounted'
  <2>1. gate' = gate /\ (Goto(c, "closeModule"))
    BY <1>16 DEF ReadResult, Return, End
  <2>2. QED
    BY <1>16, <2>1, SlotNeutral DEF ReadResult, Places, SlotPlaces, Waiting, GuestCalls, Cleanup, Finished
<1>17. ASSUME NEW c \in Calls, GuestStopped(c) PROVE SlotsAccounted'
  <2>1. gate' = gate /\ (Goto(c, "closeModule"))
    BY <1>17 DEF GuestStopped, Return, End
  <2>2. QED
    BY <1>17, <2>1, SlotNeutral DEF GuestStopped, Places, SlotPlaces, Waiting, GuestCalls, Cleanup, Finished
<1>18. ASSUME NEW c \in Calls, CloseModule(c) PROVE SlotsAccounted'
  <2>1. gate' = gate /\ (Goto(c, "release"))
    BY <1>18 DEF CloseModule, Return, End
  <2>2. QED
    BY <1>18, <2>1, SlotNeutral DEF CloseModule, Places, SlotPlaces, Waiting, GuestCalls, Cleanup, Finished
<1>19. ASSUME NEW c \in Calls, Release(c) PROVE SlotsAccounted'
  <2>1. gate' = gate - 1 /\ Goto(c, "observe")
    BY <1>19 DEF Release
  <2>2. QED
    BY <1>19, <2>1, HoldersLeave
       DEF Release, SlotsAccounted, Places, SlotPlaces, Waiting, GuestCalls, Cleanup
<1>20. ASSUME NEW c \in Calls, Observe(c) PROVE SlotsAccounted'
  <2>1. gate' = gate /\ (Goto(c, "returned"))
    BY <1>20 DEF Observe, Return, End
  <2>2. QED
    BY <1>20, <2>1, SlotNeutral DEF Observe, Places, SlotPlaces, Waiting, GuestCalls, Cleanup, Finished
<1>21. ASSUME NEW k \in Closers, Close(k) \/ CloseRuntime(k) PROVE SlotsAccounted'
  BY <1>21 DEF Close, CloseRuntime, SlotsAccounted, Holders
<1>22. ASSUME NEW c \in Calls, Cancel(c) PROVE SlotsAccounted'
  BY <1>22 DEF Cancel, SlotsAccounted, Holders
<1>23. CASE UNCHANGED vars
  BY <1>23 DEF vars, SlotsAccounted, Holders
<1>24. QED
  BY <1>1, <1>2, <1>3, <1>4, <1>5, <1>6, <1>7, <1>8, <1>9, <1>10, <1>11, <1>12, <1>13, <1>14, <1>15, <1>16, <1>17, <1>18, <1>19, <1>20, <1>21, <1>22, <1>23
     DEF Next, CallStep
-----------------------------------------------------------------------------
(* The lifecycle of a call                                                 *)

\* The initial state satisfies the lifecycle invariant.
LEMMA LifecycleInit == Init => LifecycleInv
BY DEF Init, LifecycleInv, CallLifecycle, Live, InstancePlaces, GuestCalls, Waiting,
       Cleanup, NoResult

\* Every step keeps the lifecycle invariant.
LEMMA LifecycleStep == TypeOK /\ LifecycleInv /\ [Next]_vars => LifecycleInv'
<1> SUFFICES ASSUME TypeOK, LifecycleInv, [Next]_vars PROVE LifecycleInv'
  OBVIOUS
<1> USE DEF closeVars, moduleVars, guestVars, Return, Goto, LifecycleInv, CallLifecycle, Live,
            InstancePlaces, GuestCalls, Waiting, Cleanup, Empty, Partial, TypeOK
<1>1. ASSUME NEW c \in Calls, Evaluate(c) PROVE LifecycleInv'
  BY <1>1 DEF Evaluate, End
<1>2. ASSUME NEW c \in Calls, CheckContext(c) PROVE LifecycleInv'
  BY <1>2 DEF CheckContext, End
<1>3. ASSUME NEW c \in Calls, CheckOpen(c) PROVE LifecycleInv'
  BY <1>3 DEF CheckOpen, End
<1>4. ASSUME NEW c \in Calls, PrepareRequest(c) PROVE LifecycleInv'
  BY <1>4 DEF PrepareRequest, End
<1>5. ASSUME NEW c \in Calls, Acquire(c) PROVE LifecycleInv'
  BY <1>5 DEF Acquire, End
<1>6. ASSUME NEW c \in Calls, Recheck(c) PROVE LifecycleInv'
  BY <1>6 DEF Recheck, End
<1>7. ASSUME NEW c \in Calls, Instantiate(c) PROVE LifecycleInv'
  <2>1. \A cause : RuntimeError(c, cause) = "EngineClosed" => closed
    BY DEF RuntimeError
  <2>2. \A cause : RuntimeError(c, cause) \notin {"none", "InvalidRequest"}
    BY DEF RuntimeError
  <2>3. /\ instanceCount' = instanceCount + 1
        /\ name' = [name EXCEPT ![c] = instanceCount + 1]
        /\ \/ /\ module' = [module EXCEPT ![c] = "live"] /\ ~runtimeClosed
              /\ Goto(c, "initialize") /\ UNCHANGED result
           \/ /\ UNCHANGED module
              /\ Goto(c, "release")
              /\ \E cause : result' = [result EXCEPT ![c] = Empty(RuntimeError(c, cause))]
        /\ UNCHANGED <<closed, runtimeClosed, closerPc, status, events>>
    BY <1>7 DEF Instantiate, NextName
  <2>4. pc[c] = "instantiate"
    BY <1>7 DEF Instantiate
  <2>5. QED
    BY <2>1, <2>2, <2>3, <2>4
<1>8. ASSUME NEW c \in Calls, Initialize(c) PROVE LifecycleInv'
  BY <1>8 DEF Initialize, End
<1>9. ASSUME NEW c \in Calls, RequestAlloc(c) PROVE LifecycleInv'
  BY <1>9 DEF RequestAlloc, End
<1>10. ASSUME NEW c \in Calls, GuestComputes(c) PROVE LifecycleInv'
  BY <1>10 DEF GuestComputes, End
<1>11. ASSUME NEW c \in Calls, GuestCallsHost(c) PROVE LifecycleInv'
  BY <1>11 DEF GuestCallsHost, End
<1>12. ASSUME NEW c \in Calls, HandlerReturns(c) PROVE LifecycleInv'
  BY <1>12 DEF HandlerReturns, End
<1>13. ASSUME NEW c \in Calls, GuestReturns(c) PROVE LifecycleInv'
  BY <1>13 DEF GuestReturns, End
<1>14. ASSUME NEW c \in Calls, ReadTrace(c) PROVE LifecycleInv'
  BY <1>14 DEF ReadTrace, End
<1>15. ASSUME NEW c \in Calls, ReportHostError(c) PROVE LifecycleInv'
  BY <1>15 DEF ReportHostError, End
<1>16. ASSUME NEW c \in Calls, ReadResult(c) PROVE LifecycleInv'
  <2>1. PICK k \in {"ABIError", "Success", "StatusError", "GuestTrap"} : End(c, Partial(k))
    BY <1>16 DEF ReadResult, guestStatusError
  <2>2. QED
    BY <1>16, <2>1 DEF ReadResult, End
<1>17. ASSUME NEW c \in Calls, GuestStopped(c) PROVE LifecycleInv'
  <2>1. PICK cause : End(c, StoppedResult(c, RuntimeError(c, cause)))
    BY <1>17 DEF GuestStopped
  <2>2. \/ result' = [result EXCEPT ![c] = Empty(RuntimeError(c, cause))]
        \/ result' = [result EXCEPT ![c] = Partial(RuntimeError(c, cause))]
    BY <2>1 DEF End, StoppedResult
  <2>3. RuntimeError(c, cause) = "EngineClosed" => closed
    BY DEF RuntimeError
  <2>4. RuntimeError(c, cause) \notin {"none", "InvalidRequest"}
    BY DEF RuntimeError
  <2>5. QED
    BY <1>17, <2>1, <2>2, <2>3, <2>4 DEF GuestStopped, End
<1>18. ASSUME NEW c \in Calls, CloseModule(c) PROVE LifecycleInv'
  BY <1>18 DEF CloseModule, End
<1>19. ASSUME NEW c \in Calls, Release(c) PROVE LifecycleInv'
  BY <1>19 DEF Release, End
<1>20. ASSUME NEW c \in Calls, Observe(c) PROVE LifecycleInv'
  BY <1>20 DEF Observe, End
<1>21. ASSUME NEW k \in Closers, Close(k) PROVE LifecycleInv'
  BY <1>21 DEF Close
<1>22. ASSUME NEW k \in Closers, CloseRuntime(k) PROVE LifecycleInv'
  BY <1>22 DEF CloseRuntime, AbortLive
<1>23. ASSUME NEW c \in Calls, Cancel(c) PROVE LifecycleInv'
  BY <1>23 DEF Cancel
<1>24. CASE UNCHANGED vars
  BY <1>24 DEF vars
<1>25. QED
  BY <1>1, <1>2, <1>3, <1>4, <1>5, <1>6, <1>7, <1>8, <1>9, <1>10, <1>11, <1>12, <1>13, <1>14, <1>15, <1>16, <1>17, <1>18, <1>19, <1>20, <1>21, <1>22, <1>23, <1>24
     DEF Next, CallStep
-----------------------------------------------------------------------------
(* The invariant, and the properties that follow from it                   *)

\* The strengthening holds in every reachable state.
THEOREM Invariance == Spec => []InductiveInv
<1>1. Init => InductiveInv
  <2> SUFFICES ASSUME Init PROVE InductiveInv
    OBVIOUS
  <2>1. Holders = {}
    BY DEF Init, Holders, SlotPlaces, GuestCalls, Cleanup
  <2>2. SlotsAccounted
    BY <2>1, FS_EmptySet DEF Init, SlotsAccounted
  <2>3. QED
    BY <2>2, TypeInit, LifecycleInit DEF InductiveInv
<1>2. InductiveInv /\ [Next]_vars => InductiveInv'
  BY TypeStep, SlotsStep, LifecycleStep DEF InductiveInv
<1>3. QED
  BY <1>1, <1>2, PTL DEF Spec

\* The engine's state stays well typed; in particular the gate never holds more
\* tokens than its capacity and is never drained below zero.
THEOREM TypeCorrect == Spec => []TypeOK
BY Invariance, PTL DEF InductiveInv

\* engine.go, acquire and release: no path out of evaluate leaks a slot or frees
\* one twice.
THEOREM SlotsAreAccounted == Spec => []SlotsAccounted
BY Invariance, PTL DEF InductiveInv

\* types.go, MaxConcurrentEvaluations: at most that many guest instances exist.
THEOREM BoundedInstances == Spec => []InstancesBounded
<1>1. InductiveInv => InstancesBounded
  <2> SUFFICES ASSUME InductiveInv PROVE InstancesBounded
    OBVIOUS
  <2>1. Live \in SUBSET Holders
    BY DEF InductiveInv, LifecycleInv, CallLifecycle, Live, Holders, InstancePlaces,
           SlotPlaces, Cleanup
  <2>2. Cardinality(Live) <= Cardinality(Holders) /\ IsFiniteSet(Live)
    BY <2>1, HoldersFinite, FS_Subset
  <2>3. Cardinality(Holders) <= MaxConcurrent
    BY GateAssumption DEF InductiveInv, TypeOK, SlotsAccounted
  <2>4. Cardinality(Live) \in Nat
    BY <2>2, FS_CardinalityType
  <2>5. QED
    BY <2>2, <2>3, <2>4, HoldersFinite, GateAssumption DEF InstancesBounded
<1>2. QED
  BY <1>1, Invariance, PTL

\* engine.go, evaluate's defers: the Evaluation hook runs with the slot free and
\* the instance closed.
THEOREM HookRunsOutsideGate == Spec => []HookOutsideGate
<1>1. InductiveInv => HookOutsideGate
  BY DEF InductiveInv, LifecycleInv, CallLifecycle, HookOutsideGate, Live, Holders,
         InstancePlaces, SlotPlaces, GuestCalls, Cleanup
<1>2. QED
  BY <1>1, Invariance, PTL

\* engine.go, evaluate's first deferred function: one event per call, with the
\* error and the statistics the call returns.
THEOREM OneEventPerCall == Spec => []EventMatchesReturn
<1>1. Init => EventMatchesReturn
  BY DEF Init, EventMatchesReturn
<1>2. InductiveInv /\ EventMatchesReturn /\ [Next]_vars => EventMatchesReturn'
  <2> SUFFICES ASSUME InductiveInv, EventMatchesReturn, [Next]_vars
               PROVE  EventMatchesReturn'
    OBVIOUS
  <2> USE DEF EventMatchesReturn, InductiveInv, TypeOK, closeVars, moduleVars, guestVars,
              Return, Goto, GuestCalls
  <2>1. ASSUME NEW c \in Calls, Evaluate(c) PROVE EventMatchesReturn'
    BY <2>1 DEF Evaluate, End
  <2>2. ASSUME NEW c \in Calls, CheckContext(c) PROVE EventMatchesReturn'
    BY <2>2 DEF CheckContext, End
  <2>3. ASSUME NEW c \in Calls, CheckOpen(c) PROVE EventMatchesReturn'
    BY <2>3 DEF CheckOpen, End
  <2>4. ASSUME NEW c \in Calls, PrepareRequest(c) PROVE EventMatchesReturn'
    BY <2>4 DEF PrepareRequest, End
  <2>5. ASSUME NEW c \in Calls, Acquire(c) PROVE EventMatchesReturn'
    BY <2>5 DEF Acquire, End
  <2>6. ASSUME NEW c \in Calls, Recheck(c) PROVE EventMatchesReturn'
    BY <2>6 DEF Recheck, End
  <2>7. ASSUME NEW c \in Calls, Instantiate(c) PROVE EventMatchesReturn'
    BY <2>7 DEF Instantiate, End
  <2>8. ASSUME NEW c \in Calls, Initialize(c) PROVE EventMatchesReturn'
    BY <2>8 DEF Initialize, End
  <2>9. ASSUME NEW c \in Calls, RequestAlloc(c) PROVE EventMatchesReturn'
    BY <2>9 DEF RequestAlloc, End
  <2>10. ASSUME NEW c \in Calls, GuestComputes(c) PROVE EventMatchesReturn'
    BY <2>10 DEF GuestComputes, End
  <2>11. ASSUME NEW c \in Calls, GuestCallsHost(c) PROVE EventMatchesReturn'
    BY <2>11 DEF GuestCallsHost, End
  <2>12. ASSUME NEW c \in Calls, HandlerReturns(c) PROVE EventMatchesReturn'
    BY <2>12 DEF HandlerReturns, End
  <2>13. ASSUME NEW c \in Calls, GuestReturns(c) PROVE EventMatchesReturn'
    BY <2>13 DEF GuestReturns, End
  <2>14. ASSUME NEW c \in Calls, ReadTrace(c) PROVE EventMatchesReturn'
    BY <2>14 DEF ReadTrace, End
  <2>15. ASSUME NEW c \in Calls, ReportHostError(c) PROVE EventMatchesReturn'
    BY <2>15 DEF ReportHostError, End
  <2>16. ASSUME NEW c \in Calls, ReadResult(c) PROVE EventMatchesReturn'
    BY <2>16 DEF ReadResult, End
  <2>17. ASSUME NEW c \in Calls, GuestStopped(c) PROVE EventMatchesReturn'
    BY <2>17 DEF GuestStopped, End
  <2>18. ASSUME NEW c \in Calls, CloseModule(c) PROVE EventMatchesReturn'
    BY <2>18 DEF CloseModule, End
  <2>19. ASSUME NEW c \in Calls, Release(c) PROVE EventMatchesReturn'
    BY <2>19 DEF Release, End
  <2>20. ASSUME NEW c \in Calls, Observe(c) PROVE EventMatchesReturn'
    <3>1. events[c] = <<>> /\ pc[c] = "observe"
      BY <2>20 DEF Observe, LifecycleInv, CallLifecycle
    <3>2. events' = [events EXCEPT ![c] = <<result[c]>>]
      BY <2>20, <3>1 DEF Observe
    <3>3. QED
      BY <2>20, <3>2 DEF Observe
  <2>21. ASSUME NEW k \in Closers, Close(k) \/ CloseRuntime(k) PROVE EventMatchesReturn'
    BY <2>21 DEF Close, CloseRuntime
  <2>22. ASSUME NEW c \in Calls, Cancel(c) PROVE EventMatchesReturn'
    BY <2>22 DEF Cancel
  <2>23. CASE UNCHANGED vars
    BY <2>23 DEF vars
  <2>24. QED
    BY <2>1, <2>2, <2>3, <2>4, <2>5, <2>6, <2>7, <2>8, <2>9, <2>10, <2>11, <2>12, <2>13, <2>14, <2>15, <2>16, <2>17, <2>18, <2>19, <2>20, <2>21, <2>22, <2>23
       DEF Next, CallStep
<1>3. QED
  BY <1>1, <1>2, Invariance, PTL DEF Spec

\* A step that gives one call a result that is no guest trap, or is the trap of a
\* guest that faulted, and forgets no fault, keeps the property.
LEMMA NoTrapStep ==
  ASSUME TypeOK, TrapIsGuestFault, NEW c \in Calls, faulted \subseteq faulted',
         NEW r, r.kind = "GuestTrap" => c \in faulted', result' = [result EXCEPT ![c] = r]
  PROVE  TrapIsGuestFault'
BY DEF TypeOK, TrapIsGuestFault

\* The results refused calls and finished guests get are no guest traps.
LEMMA KindOfResult ==
  ASSUME NEW k
  PROVE  Empty(k).kind = k /\ Partial(k).kind = k
BY DEF Empty, Partial

\* A step that at most answers a call with an error other than GuestTrap.
LEMMA NoTrapRefusal ==
  ASSUME TypeOK, TrapIsGuestFault, NEW c \in Calls, UNCHANGED faulted,
         NEW k, k # "GuestTrap",
         UNCHANGED result \/ result' = [result EXCEPT ![c] = Empty(k)]
  PROVE  TrapIsGuestFault'
<1>1. CASE UNCHANGED result
  BY <1>1 DEF TrapIsGuestFault
<1>2. CASE result' = [result EXCEPT ![c] = Empty(k)]
  BY <1>2, NoTrapStep, KindOfResult
<1>3. QED
  BY <1>1, <1>2

\* engine.go, runtimeError: an evaluation that Close, its context, the fuel meter
\* or a clash of names stopped never reports a guest trap.
THEOREM TrapsAreGuestFaults == Spec => []TrapIsGuestFault
<1>1. Init => TrapIsGuestFault
  BY DEF Init, TrapIsGuestFault, NoResult
<1>2. InductiveInv /\ TrapIsGuestFault /\ [Next]_vars => TrapIsGuestFault'
  <2> SUFFICES ASSUME InductiveInv, TrapIsGuestFault, [Next]_vars
               PROVE  TrapIsGuestFault'
    OBVIOUS
  <2> USE DEF TrapIsGuestFault, InductiveInv, TypeOK, closeVars, moduleVars, guestVars,
              Return, Goto
  <2>1. ASSUME NEW c \in Calls, Evaluate(c) PROVE TrapIsGuestFault'
    <3>1. \/ UNCHANGED result
          \/ result' = [result EXCEPT ![c] = Empty("InvalidRequest")]
      BY <2>1 DEF Evaluate, End
    <3>2. UNCHANGED faulted
      BY <2>1 DEF Evaluate
    <3>3. QED
      BY <3>1, <3>2, NoTrapRefusal
  <2>2. ASSUME NEW c \in Calls, CheckContext(c) PROVE TrapIsGuestFault'
    <3>1. \/ UNCHANGED result
          \/ result' = [result EXCEPT ![c] = Empty("Cancelled")]
      BY <2>2 DEF CheckContext, End
    <3>2. UNCHANGED faulted
      BY <2>2 DEF CheckContext
    <3>3. QED
      BY <3>1, <3>2, NoTrapRefusal
  <2>3. ASSUME NEW c \in Calls, CheckOpen(c) PROVE TrapIsGuestFault'
    <3>1. \/ UNCHANGED result
          \/ result' = [result EXCEPT ![c] = Empty("EngineClosed")]
      BY <2>3 DEF CheckOpen, End
    <3>2. UNCHANGED faulted
      BY <2>3 DEF CheckOpen
    <3>3. QED
      BY <3>1, <3>2, NoTrapRefusal
  <2>4. ASSUME NEW c \in Calls, PrepareRequest(c) PROVE TrapIsGuestFault'
    <3>1. \/ UNCHANGED result
          \/ result' = [result EXCEPT ![c] = Empty("InvalidRequest")]
      BY <2>4 DEF PrepareRequest, End
    <3>2. UNCHANGED faulted
      BY <2>4 DEF PrepareRequest
    <3>3. QED
      BY <3>1, <3>2, NoTrapRefusal
  <2>5. ASSUME NEW c \in Calls, Acquire(c) PROVE TrapIsGuestFault'
    <3>1. \/ UNCHANGED result
          \/ result' = [result EXCEPT ![c] = Empty("Cancelled")]
      BY <2>5 DEF Acquire, End
    <3>2. UNCHANGED faulted
      BY <2>5 DEF Acquire
    <3>3. QED
      BY <3>1, <3>2, NoTrapRefusal
  <2>6. ASSUME NEW c \in Calls, Recheck(c) PROVE TrapIsGuestFault'
    <3>1. \/ UNCHANGED result
          \/ result' = [result EXCEPT ![c] = Empty("EngineClosed")]
      BY <2>6 DEF Recheck, End
    <3>2. UNCHANGED faulted
      BY <2>6 DEF Recheck
    <3>3. QED
      BY <3>1, <3>2, NoTrapRefusal
  <2>7. ASSUME NEW c \in Calls, Instantiate(c) PROVE TrapIsGuestFault'
    <3>1. ~\E d \in Live : name[d] = NextName
      BY DEF LifecycleInv, CallLifecycle, NextName, Live
    <3>2. \/ UNCHANGED result
          \/ /\ runtimeClosed
             /\ result' = [result EXCEPT ![c] = Empty(RuntimeError(c, "closed"))]
      BY <2>7, <3>1 DEF Instantiate
    <3>3. runtimeClosed => RuntimeError(c, "closed") # "GuestTrap"
      BY DEF RuntimeError, LifecycleInv
    <3>4. UNCHANGED faulted
      BY <2>7 DEF Instantiate
    <3>5. QED
      BY <3>2, <3>3, <3>4, NoTrapStep, KindOfResult
  <2>8. ASSUME NEW c \in Calls, Initialize(c) PROVE TrapIsGuestFault'
    BY <2>8 DEF Initialize, End
  <2>9. ASSUME NEW c \in Calls, RequestAlloc(c) PROVE TrapIsGuestFault'
    <3>1. \/ UNCHANGED result
          \/ result' = [result EXCEPT ![c] = Empty("ABIError")]
      BY <2>9 DEF RequestAlloc, End
    <3>2. UNCHANGED faulted
      BY <2>9 DEF RequestAlloc
    <3>3. QED
      BY <3>1, <3>2, NoTrapRefusal
  <2>10. ASSUME NEW c \in Calls, GuestComputes(c) PROVE TrapIsGuestFault'
    BY <2>10 DEF GuestComputes, End
  <2>11. ASSUME NEW c \in Calls, GuestCallsHost(c) PROVE TrapIsGuestFault'
    BY <2>11 DEF GuestCallsHost, End
  <2>12. ASSUME NEW c \in Calls, HandlerReturns(c) PROVE TrapIsGuestFault'
    BY <2>12 DEF HandlerReturns, End
  <2>13. ASSUME NEW c \in Calls, GuestReturns(c) PROVE TrapIsGuestFault'
    <3>1. \/ UNCHANGED result
          \/ result' = [result EXCEPT ![c] = Empty("ABIError")]
      BY <2>13 DEF GuestReturns, End
    <3>2. UNCHANGED faulted
      BY <2>13 DEF GuestReturns
    <3>3. QED
      BY <3>1, <3>2, NoTrapRefusal
  <2>14. ASSUME NEW c \in Calls, ReadTrace(c) PROVE TrapIsGuestFault'
    <3>1. \/ UNCHANGED result
          \/ result' = [result EXCEPT ![c] = Empty("ABIError")]
      BY <2>14 DEF ReadTrace, End
    <3>2. UNCHANGED faulted
      BY <2>14 DEF ReadTrace
    <3>3. QED
      BY <3>1, <3>2, NoTrapRefusal
  <2>15. ASSUME NEW c \in Calls, ReportHostError(c) PROVE TrapIsGuestFault'
    <3>1. result' = [result EXCEPT ![c] = Partial("HostError")] /\ UNCHANGED faulted
      BY <2>15 DEF ReportHostError, End
    <3>2. QED
      BY <3>1, NoTrapStep, KindOfResult
  <2>16. ASSUME NEW c \in Calls, ReadResult(c) PROVE TrapIsGuestFault'
    <3>1. PICK k \in {"ABIError", "Success", "StatusError", "GuestTrap"} :
             /\ result' = [result EXCEPT ![c] = Partial(k)]
             /\ k = "GuestTrap" => c \in faulted'
      BY <2>16 DEF ReadResult, End, guestStatusError
    <3>2. faulted \subseteq faulted'
      BY <2>16 DEF ReadResult
    <3>3. QED
      BY <3>1, <3>2, NoTrapStep, KindOfResult
  <2>17. ASSUME NEW c \in Calls, GuestStopped(c) PROVE TrapIsGuestFault'
    <3>1. PICK cause \in TrapCauses(c) :
             /\ faulted' = IF cause = "fault" THEN faulted \cup {c} ELSE faulted
             /\ End(c, StoppedResult(c, RuntimeError(c, cause)))
      BY <2>17 DEF GuestStopped
    <3>2. RuntimeError(c, cause) = "GuestTrap" => cause = "fault"
      <4>1. cause = "context" => c \in ctxDone
        BY DEF TrapCauses
      <4>2. cause = "closed" => closed
        BY DEF TrapCauses, LifecycleInv, CallLifecycle
      <4>3. cause \in {"fuel", "memory", "context", "closed", "fault"}
        BY DEF TrapCauses, Traps
      <4>4. QED
        BY <4>1, <4>2, <4>3 DEF RuntimeError
    <3>3. result'[c].kind = RuntimeError(c, cause)
      BY <3>1, KindOfResult DEF End, StoppedResult
    <3>4. \A d \in Calls : d # c => result'[d] = result[d]
      BY <3>1 DEF End
    <3>5. QED
      BY <3>1, <3>2, <3>3, <3>4
  <2>18. ASSUME NEW c \in Calls, CloseModule(c) PROVE TrapIsGuestFault'
    BY <2>18 DEF CloseModule, End
  <2>19. ASSUME NEW c \in Calls, Release(c) PROVE TrapIsGuestFault'
    BY <2>19 DEF Release, End
  <2>20. ASSUME NEW c \in Calls, Observe(c) PROVE TrapIsGuestFault'
    BY <2>20 DEF Observe, End
  <2>21. ASSUME NEW k \in Closers, Close(k) \/ CloseRuntime(k) PROVE TrapIsGuestFault'
    BY <2>21 DEF Close, CloseRuntime
  <2>22. ASSUME NEW c \in Calls, Cancel(c) PROVE TrapIsGuestFault'
    BY <2>22 DEF Cancel
  <2>23. CASE UNCHANGED vars
    BY <2>23 DEF vars
  <2>24. QED
    BY <2>1, <2>2, <2>3, <2>4, <2>5, <2>6, <2>7, <2>8, <2>9, <2>10, <2>11, <2>12, <2>13, <2>14, <2>15, <2>16, <2>17, <2>18, <2>19, <2>20, <2>21, <2>22, <2>23
       DEF Next, CallStep
<1>3. QED
  BY <1>1, <1>2, Invariance, PTL DEF Spec

\* engine.go, the two closed checks and Close: a call that has not passed the
\* second check when the flag is set never gets an instance.
THEOREM ClosedEngineAdmitsNothing == Spec => NoAdmissionAfterClose
<1>1. InductiveInv /\ [Next]_vars => [ClosedBars]_vars
  <2> SUFFICES ASSUME InductiveInv, [Next]_vars PROVE [ClosedBars]_vars
    OBVIOUS
  <2> USE DEF InductiveInv, TypeOK, Return, Goto, End, GuestCalls, Waiting, ClosedBars
  <2>1. ASSUME NEW c \in Calls, Evaluate(c) PROVE ClosedBars
    BY <2>1 DEF Evaluate
  <2>2. ASSUME NEW c \in Calls, CheckContext(c) PROVE ClosedBars
    BY <2>2 DEF CheckContext
  <2>3. ASSUME NEW c \in Calls, CheckOpen(c) PROVE ClosedBars
    BY <2>3 DEF CheckOpen
  <2>4. ASSUME NEW c \in Calls, PrepareRequest(c) PROVE ClosedBars
    BY <2>4 DEF PrepareRequest
  <2>5. ASSUME NEW c \in Calls, Acquire(c) PROVE ClosedBars
    BY <2>5 DEF Acquire
  <2>6. ASSUME NEW c \in Calls, Recheck(c) PROVE ClosedBars
    BY <2>6 DEF Recheck
  <2>7. ASSUME NEW c \in Calls, Instantiate(c) PROVE ClosedBars
    BY <2>7 DEF Instantiate
  <2>8. ASSUME NEW c \in Calls, Initialize(c) PROVE ClosedBars
    BY <2>8 DEF Initialize
  <2>9. ASSUME NEW c \in Calls, RequestAlloc(c) PROVE ClosedBars
    BY <2>9 DEF RequestAlloc
  <2>10. ASSUME NEW c \in Calls, GuestComputes(c) PROVE ClosedBars
    BY <2>10 DEF GuestComputes
  <2>11. ASSUME NEW c \in Calls, GuestCallsHost(c) PROVE ClosedBars
    BY <2>11 DEF GuestCallsHost
  <2>12. ASSUME NEW c \in Calls, HandlerReturns(c) PROVE ClosedBars
    BY <2>12 DEF HandlerReturns
  <2>13. ASSUME NEW c \in Calls, GuestReturns(c) PROVE ClosedBars
    BY <2>13 DEF GuestReturns
  <2>14. ASSUME NEW c \in Calls, ReadTrace(c) PROVE ClosedBars
    BY <2>14 DEF ReadTrace
  <2>15. ASSUME NEW c \in Calls, ReportHostError(c) PROVE ClosedBars
    BY <2>15 DEF ReportHostError
  <2>16. ASSUME NEW c \in Calls, ReadResult(c) PROVE ClosedBars
    BY <2>16 DEF ReadResult
  <2>17. ASSUME NEW c \in Calls, GuestStopped(c) PROVE ClosedBars
    BY <2>17 DEF GuestStopped
  <2>18. ASSUME NEW c \in Calls, CloseModule(c) PROVE ClosedBars
    BY <2>18 DEF CloseModule
  <2>19. ASSUME NEW c \in Calls, Release(c) PROVE ClosedBars
    BY <2>19 DEF Release
  <2>20. ASSUME NEW c \in Calls, Observe(c) PROVE ClosedBars
    BY <2>20 DEF Observe
  <2>21. ASSUME NEW k \in Closers, Close(k) \/ CloseRuntime(k) PROVE ClosedBars
    BY <2>21 DEF Close, CloseRuntime
  <2>22. ASSUME NEW c \in Calls, Cancel(c) PROVE ClosedBars
    BY <2>22 DEF Cancel
  <2>23. QED
    BY <2>1, <2>2, <2>3, <2>4, <2>5, <2>6, <2>7, <2>8, <2>9, <2>10, <2>11, <2>12, <2>13, <2>14, <2>15, <2>16, <2>17, <2>18, <2>19, <2>20, <2>21, <2>22
       DEF Next, CallStep
<1>2. QED
  BY <1>1, Invariance, PTL DEF Spec, NoAdmissionAfterClose

\* A step that gives one call a result other than a success gives no success.
LEMMA NoSuccessStep ==
  ASSUME TypeOK, NEW c \in Calls, NEW r, r.kind # "Success",
         result' = [result EXCEPT ![c] = r], NEW d \in Calls, result[d].kind # "Success"
  PROVE  result'[d].kind # "Success"
BY DEF TypeOK

\* engine.go, Close ("aborts active guest calls"): no evaluation succeeds once the
\* runtime is closed.
THEOREM ClosedEngineAborts == Spec => NoSuccessAfterClose
<1>1. InductiveInv /\ [Next]_vars => [CloseAborts]_vars
  <2> SUFFICES ASSUME InductiveInv, [Next]_vars PROVE [CloseAborts]_vars
    OBVIOUS
  <2> USE DEF CloseAborts
  <2>0. TypeOK
    BY DEF InductiveInv
  <2>1. ASSUME NEW c \in Calls, Evaluate(c) PROVE CloseAborts
    <3>1. UNCHANGED result \/ result' = [result EXCEPT ![c] = Empty("InvalidRequest")]
      BY <2>1 DEF Evaluate, Return, End
    <3>2. QED
      BY <2>0, <3>1, NoSuccessStep, KindOfResult
  <2>2. ASSUME NEW c \in Calls, CheckContext(c) PROVE CloseAborts
    <3>1. UNCHANGED result \/ result' = [result EXCEPT ![c] = Empty("Cancelled")]
      BY <2>2 DEF CheckContext, Return, End
    <3>2. QED
      BY <2>0, <3>1, NoSuccessStep, KindOfResult
  <2>3. ASSUME NEW c \in Calls, CheckOpen(c) PROVE CloseAborts
    <3>1. UNCHANGED result \/ result' = [result EXCEPT ![c] = Empty("EngineClosed")]
      BY <2>3 DEF CheckOpen, Return, End
    <3>2. QED
      BY <2>0, <3>1, NoSuccessStep, KindOfResult
  <2>4. ASSUME NEW c \in Calls, PrepareRequest(c) PROVE CloseAborts
    <3>1. UNCHANGED result \/ result' = [result EXCEPT ![c] = Empty("InvalidRequest")]
      BY <2>4 DEF PrepareRequest, Return, End
    <3>2. QED
      BY <2>0, <3>1, NoSuccessStep, KindOfResult
  <2>5. ASSUME NEW c \in Calls, Acquire(c) PROVE CloseAborts
    <3>1. UNCHANGED result \/ result' = [result EXCEPT ![c] = Empty("Cancelled")]
      BY <2>5 DEF Acquire, Return, End
    <3>2. QED
      BY <2>0, <3>1, NoSuccessStep, KindOfResult
  <2>6. ASSUME NEW c \in Calls, Recheck(c) PROVE CloseAborts
    <3>1. UNCHANGED result \/ result' = [result EXCEPT ![c] = Empty("EngineClosed")]
      BY <2>6 DEF Recheck, Return, End
    <3>2. QED
      BY <2>0, <3>1, NoSuccessStep, KindOfResult
  <2>7. ASSUME NEW c \in Calls, Instantiate(c) PROVE CloseAborts
    <3>1. \/ UNCHANGED result
          \/ \E cause : result' = [result EXCEPT ![c] = Empty(RuntimeError(c, cause))]
      BY <2>7 DEF Instantiate, Return
    <3>2. QED
      BY <2>0, <3>1, NoSuccessStep, KindOfResult, RuntimeErrorType
  <2>8. ASSUME NEW c \in Calls, Initialize(c) PROVE CloseAborts
    BY <2>8 DEF Initialize
  <2>9. ASSUME NEW c \in Calls, RequestAlloc(c) PROVE CloseAborts
    <3>1. UNCHANGED result \/ result' = [result EXCEPT ![c] = Empty("ABIError")]
      BY <2>9 DEF RequestAlloc, Return, End
    <3>2. QED
      BY <2>0, <3>1, NoSuccessStep, KindOfResult
  <2>10. ASSUME NEW c \in Calls, GuestComputes(c) PROVE CloseAborts
    BY <2>10 DEF GuestComputes
  <2>11. ASSUME NEW c \in Calls, GuestCallsHost(c) PROVE CloseAborts
    BY <2>11 DEF GuestCallsHost
  <2>12. ASSUME NEW c \in Calls, HandlerReturns(c) PROVE CloseAborts
    BY <2>12 DEF HandlerReturns
  <2>13. ASSUME NEW c \in Calls, GuestReturns(c) PROVE CloseAborts
    <3>1. UNCHANGED result \/ result' = [result EXCEPT ![c] = Empty("ABIError")]
      BY <2>13 DEF GuestReturns, Return, End
    <3>2. QED
      BY <2>0, <3>1, NoSuccessStep, KindOfResult
  <2>14. ASSUME NEW c \in Calls, ReadTrace(c) PROVE CloseAborts
    <3>1. UNCHANGED result \/ result' = [result EXCEPT ![c] = Empty("ABIError")]
      BY <2>14 DEF ReadTrace, Return, End
    <3>2. QED
      BY <2>0, <3>1, NoSuccessStep, KindOfResult
  <2>15. ASSUME NEW c \in Calls, ReportHostError(c) PROVE CloseAborts
    <3>1. result' = [result EXCEPT ![c] = Partial("HostError")]
      BY <2>15 DEF ReportHostError, Return, End
    <3>2. QED
      BY <2>0, <3>1, NoSuccessStep, KindOfResult
  <2>16. ASSUME NEW c \in Calls, ReadResult(c) PROVE CloseAborts
    \* The guest can only be called in an open instance.
    <3>1. module[c] = "live"
      BY <2>16 DEF ReadResult, Callable
    <3>2. ~runtimeClosed
      BY <3>1 DEF InductiveInv, LifecycleInv, CallLifecycle
    <3>3. QED
      BY <3>2
  <2>17. ASSUME NEW c \in Calls, GuestStopped(c) PROVE CloseAborts
    <3>1. \E cause : \/ result' = [result EXCEPT ![c] = Empty(RuntimeError(c, cause))]
                     \/ result' = [result EXCEPT ![c] = Partial(RuntimeError(c, cause))]
      BY <2>17 DEF GuestStopped, Return, End, StoppedResult
    <3>2. QED
      BY <2>0, <3>1, NoSuccessStep, KindOfResult, RuntimeErrorType
  <2>18. ASSUME NEW c \in Calls, CloseModule(c) PROVE CloseAborts
    BY <2>18 DEF CloseModule
  <2>19. ASSUME NEW c \in Calls, Release(c) PROVE CloseAborts
    BY <2>19 DEF Release
  <2>20. ASSUME NEW c \in Calls, Observe(c) PROVE CloseAborts
    BY <2>20 DEF Observe
  <2>21. ASSUME NEW k \in Closers, Close(k) \/ CloseRuntime(k) PROVE CloseAborts
    BY <2>21 DEF Close, CloseRuntime
  <2>22. ASSUME NEW c \in Calls, Cancel(c) PROVE CloseAborts
    BY <2>22 DEF Cancel
  <2>23. QED
    BY <2>1, <2>2, <2>3, <2>4, <2>5, <2>6, <2>7, <2>8, <2>9, <2>10, <2>11, <2>12, <2>13, <2>14, <2>15, <2>16, <2>17, <2>18, <2>19, <2>20, <2>21, <2>22
       DEF Next, CallStep
<1>2. QED
  BY <1>1, Invariance, PTL DEF Spec, NoSuccessAfterClose

\* engine.go, partial: once the guest has reported a status, a failure of a call
\* that captures no trace keeps its statistics.
THEOREM StatisticsAreKept == Spec => StatsWithoutTrace
<1>1. InductiveInv /\ [Next]_vars => [StatsKept]_vars
  <2> SUFFICES ASSUME InductiveInv, [Next]_vars PROVE [StatsKept]_vars
    OBVIOUS
  <2>0. \A c \in Calls \ TracingCalls : status[c] # "none" => pc[c] = "result"
    BY DEF InductiveInv, LifecycleInv, CallLifecycle
  <2> USE DEF StatsKept, InductiveInv, TypeOK, Return, Goto, End, Partial
  <2>1. ASSUME NEW c \in Calls, Evaluate(c) PROVE StatsKept
    BY <2>0, <2>1 DEF Evaluate
  <2>2. ASSUME NEW c \in Calls, CheckContext(c) PROVE StatsKept
    BY <2>0, <2>2 DEF CheckContext
  <2>3. ASSUME NEW c \in Calls, CheckOpen(c) PROVE StatsKept
    BY <2>0, <2>3 DEF CheckOpen
  <2>4. ASSUME NEW c \in Calls, PrepareRequest(c) PROVE StatsKept
    BY <2>0, <2>4 DEF PrepareRequest
  <2>5. ASSUME NEW c \in Calls, Acquire(c) PROVE StatsKept
    BY <2>0, <2>5 DEF Acquire
  <2>6. ASSUME NEW c \in Calls, Recheck(c) PROVE StatsKept
    BY <2>0, <2>6 DEF Recheck
  <2>7. ASSUME NEW c \in Calls, Instantiate(c) PROVE StatsKept
    BY <2>0, <2>7 DEF Instantiate
  <2>8. ASSUME NEW c \in Calls, Initialize(c) PROVE StatsKept
    BY <2>0, <2>8 DEF Initialize
  <2>9. ASSUME NEW c \in Calls, RequestAlloc(c) PROVE StatsKept
    BY <2>0, <2>9 DEF RequestAlloc
  <2>10. ASSUME NEW c \in Calls, GuestComputes(c) PROVE StatsKept
    BY <2>0, <2>10 DEF GuestComputes
  <2>11. ASSUME NEW c \in Calls, GuestCallsHost(c) PROVE StatsKept
    BY <2>0, <2>11 DEF GuestCallsHost
  <2>12. ASSUME NEW c \in Calls, HandlerReturns(c) PROVE StatsKept
    BY <2>0, <2>12 DEF HandlerReturns
  <2>13. ASSUME NEW c \in Calls, GuestReturns(c) PROVE StatsKept
    BY <2>0, <2>13 DEF GuestReturns
  <2>14. ASSUME NEW c \in Calls, ReadTrace(c) PROVE StatsKept
    BY <2>0, <2>14 DEF ReadTrace
  <2>15. ASSUME NEW c \in Calls, ReportHostError(c) PROVE StatsKept
    BY <2>0, <2>15 DEF ReportHostError
  <2>16. ASSUME NEW c \in Calls, ReadResult(c) PROVE StatsKept
    BY <2>0, <2>16 DEF ReadResult
  <2>17. ASSUME NEW c \in Calls, GuestStopped(c) PROVE StatsKept
    BY <2>0, <2>17 DEF GuestStopped, StoppedResult
  <2>18. ASSUME NEW c \in Calls, CloseModule(c) PROVE StatsKept
    BY <2>0, <2>18 DEF CloseModule
  <2>19. ASSUME NEW c \in Calls, Release(c) PROVE StatsKept
    BY <2>0, <2>19 DEF Release
  <2>20. ASSUME NEW c \in Calls, Observe(c) PROVE StatsKept
    BY <2>0, <2>20 DEF Observe
  <2>21. ASSUME NEW k \in Closers, Close(k) \/ CloseRuntime(k) PROVE StatsKept
    BY <2>21 DEF Close, CloseRuntime
  <2>22. ASSUME NEW c \in Calls, Cancel(c) PROVE StatsKept
    BY <2>22 DEF Cancel
  <2>23. QED
    BY <2>1, <2>2, <2>3, <2>4, <2>5, <2>6, <2>7, <2>8, <2>9, <2>10, <2>11, <2>12, <2>13, <2>14, <2>15, <2>16, <2>17, <2>18, <2>19, <2>20, <2>21, <2>22
       DEF Next, CallStep
<1>2. QED
  BY <1>1, Invariance, PTL DEF Spec, StatsWithoutTrace

-----------------------------------------------------------------------------
(* The engine implements the evaluation service                            *)

Phase == [c \in Calls |-> ServicePhase(c)]
Given == [c \in Calls |-> IF ServicePhase(c) = "answered" THEN result[c].kind ELSE "none"]

\* A step that leaves every call's phase, the answers given and the closed flag
\* alone is a stuttering step of the service.
LEMMA ServiceStutters ==
  ASSUME closed' = closed,
         \A c \in Calls : ServicePhase(c)' = ServicePhase(c),
         \A c \in Calls : ServicePhase(c) = "answered" => result'[c] = result[c]
  PROVE  UNCHANGED Service!vars
<1>1. Phase' = Phase
  BY DEF Phase
<1>2. Given' = Given
  BY DEF Given
<1>3. QED
  BY <1>1, <1>2 DEF Service!vars, Phase, Given

\* A step that only moves one call's place keeps the phase of every other.
LEMMA OthersKeepPhase ==
  ASSUME TypeOK, NEW c \in Calls, NEW p, Goto(c, p),
         \A d \in Calls : d # c => name'[d] = name[d], NEW d \in Calls, d # c
  PROVE  ServicePhase(d)' = ServicePhase(d)
BY DEF TypeOK, Goto, ServicePhase, Admitted

\* A call answered with an error of the right kind is an answer of the service.
LEMMA ServiceAnswers ==
  ASSUME NEW c \in Calls, NEW k, closed' = closed, k = "EngineClosed" => closed,
         result'[c].kind = k,
         \A d \in Calls : d # c => ServicePhase(d)' = ServicePhase(d) /\ result'[d] = result[d],
         ServicePhase(c)' = "answered"
  PROVE  Service!Answer(c, k)
<1>1. Phase' = [Phase EXCEPT ![c] = "answered"]
  BY DEF Phase
<1>2. Given' = [Given EXCEPT ![c] = k]
  BY DEF Given
<1>3. QED
  BY <1>1, <1>2 DEF Service!Answer, Phase, Given

\* A step of a call that stays in its phase and was not answered is a stuttering step.
LEMMA QuietStep ==
  ASSUME TypeOK, NEW c \in Calls, NEW p, Goto(c, p), closed' = closed,
         \A d \in Calls : d # c => name'[d] = name[d] /\ result'[d] = result[d],
         ServicePhase(c)' = ServicePhase(c),
         ServicePhase(c) = "answered" => result'[c] = result[c]
  PROVE  UNCHANGED Service!vars
<1>1. \A d \in Calls : ServicePhase(d)' = ServicePhase(d)
  BY OthersKeepPhase
<1>2. QED
  BY <1>1, ServiceStutters

\* A call refused before it ran.
LEMMA RefusalStep ==
  ASSUME TypeOK, NEW c \in Calls, NEW k \in {"InvalidRequest", "Cancelled", "EngineClosed"},
         pc[c] \in Waiting, Return(c, Empty(k), "observe"),
         k = "EngineClosed" => closed, UNCHANGED <<closed, name>>
  PROVE  Service!Next
<1>1. ServicePhase(c) = "pending" /\ ServicePhase(c)' = "answered"
  BY DEF ServicePhase, Admitted, Return, Goto, TypeOK, Waiting, GuestCalls, Cleanup, Finished
<1>2. \A d \in Calls : d # c => ServicePhase(d)' = ServicePhase(d) /\ result'[d] = result[d]
  BY OthersKeepPhase DEF Return, TypeOK
<1>3. result'[c].kind = k
  BY KindOfResult DEF Return, TypeOK
<1>4. Service!Answer(c, k)
  BY <1>1, <1>2, <1>3, ServiceAnswers
<1>5. Service!Refuse(c)
  BY <1>1, <1>4 DEF Service!Refuse, Service!Refusals
<1>6. QED
  BY <1>5 DEF Service!Next

\* A move from one waiting place to another is invisible to the service.
LEMMA WaitingStep ==
  ASSUME TypeOK, NEW c \in Calls, NEW p \in Waiting, pc[c] \in Waiting, Goto(c, p),
         UNCHANGED <<closed, name, result>>
  PROVE  UNCHANGED Service!vars
<1>1. ServicePhase(c) = "pending" /\ ServicePhase(c)' = "pending"
  BY DEF ServicePhase, Admitted, Goto, TypeOK, Waiting, GuestCalls, Cleanup, Finished
<1>2. QED
  BY <1>1, QuietStep

\* So is a move of an admitted call that keeps its slot.
LEMMA RunningStep ==
  ASSUME TypeOK, NEW c \in Calls, NEW p, Goto(c, p), Admitted(c), Admitted(c)',
         closed' = closed,
         \A d \in Calls : d # c => name'[d] = name[d] /\ result'[d] = result[d]
  PROVE  UNCHANGED Service!vars
<1>1. ServicePhase(c) = "running" /\ ServicePhase(c)' = "running"
  BY DEF ServicePhase, Admitted, TypeOK, GuestCalls, Cleanup, Finished
<1>2. QED
  BY <1>1, QuietStep

\* The service's running calls are holders of slots.
LEMMA RunningHold ==
  ASSUME TypeOK
  PROVE  {c \in Calls : Phase[c] = "running"} \subseteq {c \in Holders : pc[c] # "recheck"}
BY DEF TypeOK, Phase, ServicePhase, Admitted, Holders, SlotPlaces, GuestCalls, Cleanup, Finished

\* A call that passes the second closed check is admitted by the service: the
\* running calls are other holders of the gate's tokens, so fewer than the limit.
LEMMA AdmissionStep ==
  ASSUME InductiveInv, NEW c \in Calls, pc[c] = "recheck", ~closed, Goto(c, "instantiate"),
         UNCHANGED <<closed, name, result>>
  PROVE  Service!Admit(c)
<1> TypeOK
  BY DEF InductiveInv
<1> DEFINE R == {d \in Calls : Phase[d] = "running"}
<1>1. ServicePhase(c) = "pending" /\ ServicePhase(c)' = "running"
  BY DEF ServicePhase, Admitted, Goto, TypeOK, GuestCalls, Cleanup, Finished
<1>2. \A d \in Calls : d # c => ServicePhase(d)' = ServicePhase(d)
  BY OthersKeepPhase
<1>3. Phase' = [Phase EXCEPT ![c] = "running"]
  BY <1>1, <1>2 DEF Phase
<1>4. Given' = Given
  BY <1>1, <1>2 DEF Given
<1>5. Cardinality(R) < MaxConcurrent
  <2>1. c \in Holders
    BY DEF Holders, SlotPlaces
  <2>2. R \in SUBSET (Holders \ {c})
    BY RunningHold
  <2>3. /\ IsFiniteSet(Holders \ {c})
        /\ Cardinality(Holders \ {c}) = Cardinality(Holders) - 1
    BY <2>1, HoldersFinite, FS_RemoveElement
  <2>4. Cardinality(R) <= Cardinality(Holders \ {c}) /\ IsFiniteSet(R)
    BY <2>2, <2>3, FS_Subset
  <2>5. Cardinality(R) \in Nat
    BY <2>4, FS_CardinalityType
  <2>6. Cardinality(Holders) <= MaxConcurrent
    BY GateAssumption DEF InductiveInv, TypeOK, SlotsAccounted
  <2>7. QED
    BY <2>3, <2>4, <2>5, <2>6, HoldersFinite, GateAssumption
<1>6. Service!Running = R
  BY DEF Service!Running, Phase
<1>7. Phase[c] = "pending"
  BY <1>1 DEF Phase
<1>8. Service!Cardinality(Service!Running) < MaxConcurrent
  BY <1>5, <1>6 DEF Service!Cardinality, Cardinality
<1>9. QED
  BY <1>3, <1>4, <1>7, <1>8 DEF Service!Admit, Phase, Given

\* A call that frees its slot is answered: with a guest's answer if it was
\* admitted, with EngineClosed if the second check turned it away.
LEMMA ReleaseStep ==
  ASSUME InductiveInv, NEW c \in Calls, pc[c] = "release", Goto(c, "observe"),
         UNCHANGED <<closed, name, result>>
  PROVE  Service!Next
<1> TypeOK
  BY DEF InductiveInv
<1>1. ServicePhase(c)' = "answered"
  BY DEF ServicePhase, Admitted, Goto, TypeOK, GuestCalls, Cleanup, Finished
<1>2. \A d \in Calls : d # c => ServicePhase(d)' = ServicePhase(d) /\ result'[d] = result[d]
  BY OthersKeepPhase
<1>3. result[c].kind = "EngineClosed" => closed
  BY DEF InductiveInv, LifecycleInv, CallLifecycle
<1> PICK k : k = result[c].kind
  OBVIOUS
<1>4. Service!Answer(c, k)
  <2>1. result'[c].kind = k /\ closed' = closed
    OBVIOUS
  <2>2. QED
    BY <1>1, <1>2, <1>3, <2>1, ServiceAnswers
<1>5. CASE name[c] = 0
  <2>1. ServicePhase(c) = "pending" /\ result[c].kind = "EngineClosed"
    BY <1>5 DEF ServicePhase, Admitted, GuestCalls, Cleanup, Finished, InductiveInv,
                LifecycleInv, CallLifecycle
  <2>2. Service!Refuse(c)
    BY <1>4, <2>1 DEF Service!Refuse, Service!Refusals
  <2>3. QED
    BY <2>2 DEF Service!Next
<1>6. CASE name[c] # 0
  <2>1. ServicePhase(c) = "running"
    BY <1>6 DEF ServicePhase, Admitted, GuestCalls, Cleanup, Finished
  <2>2. result[c].kind \in Service!GuestAnswers
    <3>1. result[c].kind \in Errors \cup {"Success", "none"}
      BY DEF TypeOK, Results
    <3>2. result[c].kind \notin {"none", "InvalidRequest"}
      BY <1>6 DEF InductiveInv, LifecycleInv, CallLifecycle, Cleanup
    <3>3. QED
      BY <3>1, <3>2 DEF Errors, Service!GuestAnswers
  <2>3. Service!Complete(c)
    BY <1>4, <2>1, <2>2 DEF Service!Complete
  <2>4. QED
    BY <2>3 DEF Service!Next
<1>7. QED
  BY <1>5, <1>6

\* Whatever the guest, its host calls and the runtime do to an admitted call is
\* invisible to the service until the call frees its slot.
LEMMA GuestStep ==
  ASSUME InductiveInv, NEW c \in Calls, pc[c] \in {"host"} \cup GuestCalls,
         NEW p \in {"host", "closeModule"} \cup GuestCalls, Goto(c, p),
         UNCHANGED <<closed, name>>,
         \A d \in Calls : d # c => result'[d] = result[d]
  PROVE  UNCHANGED Service!vars
<1>1. TypeOK /\ name[c] # 0
  BY DEF InductiveInv, LifecycleInv, CallLifecycle, InstancePlaces
<1>2. Admitted(c) /\ Admitted(c)'
  BY <1>1 DEF Admitted, Goto, TypeOK, Cleanup
<1>3. QED
  BY <1>1, <1>2, RunningStep

\* What End leaves alone.
LEMMA EndStep ==
  ASSUME TypeOK, NEW c \in Calls, NEW r, End(c, r)
  PROVE  Goto(c, "closeModule") /\ \A d \in Calls : d # c => result'[d] = result[d]
BY DEF End, Return, TypeOK

\* engine.go implements the evaluation service: every step of a call, of Close or
\* of a caller's context is a step of the service or invisible to it.
THEOREM EngineImplementsService == Spec => ServiceSpec
<1>1. Init => Service!Init
  <2> SUFFICES ASSUME Init PROVE Service!Init
    OBVIOUS
  <2>1. \A c \in Calls : ServicePhase(c) = "idle"
    BY DEF Init, ServicePhase, Admitted, GuestCalls, Cleanup, Finished
  <2>2. Phase = [c \in Calls |-> "idle"] /\ Given = [c \in Calls |-> "none"]
    BY <2>1 DEF Phase, Given
  <2>3. QED
    BY <2>2 DEF Init, Service!Init, Phase, Given
<1>2. InductiveInv /\ [Next]_vars => [Service!Next]_(Service!vars)
  <2> SUFFICES ASSUME InductiveInv, [Next]_vars
               PROVE  Service!Next \/ UNCHANGED Service!vars
    OBVIOUS
  <2>0. TypeOK
    BY DEF InductiveInv
  <2> USE <2>0 DEF closeVars, moduleVars
  <2>1. ASSUME NEW c \in Calls, Evaluate(c) PROVE Service!Next
    <3>1. ServicePhase(c) = "idle"
      BY <2>1 DEF Evaluate, ServicePhase, Admitted, GuestCalls, Cleanup, Finished
    <3>2. CASE Return(c, Empty("InvalidRequest"), "rejected")
      <4>1. ServicePhase(c)' = "answered"
        BY <3>2 DEF Return, Goto, ServicePhase, Admitted, GuestCalls, Cleanup, Finished,
                    TypeOK
      <4>2. \A d \in Calls : d # c => ServicePhase(d)' = ServicePhase(d) /\ result'[d] = result[d]
        BY <2>1, <3>2, OthersKeepPhase DEF Return, Evaluate, TypeOK
      <4>3. result'[c].kind = "InvalidRequest" /\ closed' = closed
        BY <2>1, <3>2, KindOfResult DEF Return, Evaluate, TypeOK
      <4>4. Service!Answer(c, "InvalidRequest")
        BY <4>1, <4>2, <4>3, ServiceAnswers
      <4>5. QED
        BY <3>1, <4>4 DEF Service!Next, Service!Reject
    <3>3. CASE Goto(c, "entered") /\ UNCHANGED result
      <4>1. ServicePhase(c)' = "pending"
        BY <3>3 DEF Goto, ServicePhase, Admitted, GuestCalls, Cleanup, Finished, TypeOK
      <4>2. \A d \in Calls : d # c => ServicePhase(d)' = ServicePhase(d)
        BY <2>1, <3>3, OthersKeepPhase DEF Evaluate
      <4>3. Phase[c] = "idle" /\ Phase' = [Phase EXCEPT ![c] = "pending"]
        BY <3>1, <4>1, <4>2 DEF Phase
      <4>4. Given' = Given
        BY <3>1, <3>3, <4>1, <4>2 DEF Given
      <4>5. closed' = closed
        BY <2>1 DEF Evaluate
      <4>6. Service!Submit(c)
        BY <4>3, <4>4, <4>5 DEF Service!Submit, Phase, Given
      <4>7. QED
        BY <4>6 DEF Service!Next
    <3>4. QED
      BY <2>1, <3>2, <3>3 DEF Evaluate
  <2>2. ASSUME NEW c \in Calls, CheckContext(c) PROVE Service!Next \/ UNCHANGED Service!vars
    BY <2>2, RefusalStep, WaitingStep DEF CheckContext, Waiting
  <2>3. ASSUME NEW c \in Calls, CheckOpen(c) PROVE Service!Next \/ UNCHANGED Service!vars
    BY <2>3, RefusalStep, WaitingStep DEF CheckOpen, Waiting
  <2>4. ASSUME NEW c \in Calls, PrepareRequest(c) PROVE Service!Next \/ UNCHANGED Service!vars
    BY <2>4, RefusalStep, WaitingStep DEF PrepareRequest, Waiting
  <2>5. ASSUME NEW c \in Calls, Acquire(c) PROVE Service!Next \/ UNCHANGED Service!vars
    BY <2>5, RefusalStep, WaitingStep DEF Acquire, Waiting
  <2>6. ASSUME NEW c \in Calls, Recheck(c) PROVE Service!Next \/ UNCHANGED Service!vars
    <3>1. CASE closed
      <4>1. Return(c, Empty("EngineClosed"), "release") /\ UNCHANGED <<closed, name>>
        BY <2>6, <3>1 DEF Recheck
      <4>2. pc[c] = "recheck" /\ name[c] = 0
        BY <2>6 DEF Recheck, InductiveInv, LifecycleInv, CallLifecycle, Waiting
      <4>3. ServicePhase(c) = "pending" /\ ServicePhase(c)' = "pending"
        BY <4>1, <4>2 DEF Return, Goto, ServicePhase, Admitted, GuestCalls, Cleanup,
                          Finished, TypeOK
      <4>4. \A d \in Calls : d # c => name'[d] = name[d] /\ result'[d] = result[d]
        BY <4>1 DEF Return, TypeOK
      <4>5. QED
        BY <4>1, <4>3, <4>4, QuietStep DEF Return
    <3>2. CASE ~closed
      <4>1. Service!Admit(c)
        BY <2>6, <3>2, AdmissionStep DEF Recheck
      <4>2. QED
        BY <4>1 DEF Service!Next
    <3>3. QED
      BY <3>1, <3>2
  <2>7. ASSUME NEW c \in Calls, Instantiate(c) PROVE UNCHANGED Service!vars
    <3>1. name' = [name EXCEPT ![c] = instanceCount + 1] /\ name'[c] # 0
      BY <2>7 DEF Instantiate, NextName, TypeOK
    <3>2. PICK p \in {"release", "initialize"} : Goto(c, p)
      BY <2>7 DEF Instantiate, Return
    <3>3. \A d \in Calls : d # c => name'[d] = name[d] /\ result'[d] = result[d]
      BY <2>7, <3>1 DEF Instantiate, Return, TypeOK
    <3>4. Admitted(c)
      BY <2>7 DEF Instantiate, Admitted
    <3>5. Admitted(c)'
      BY <3>1, <3>2 DEF Admitted, Goto, TypeOK, GuestCalls, Cleanup
    <3>6. closed' = closed
      BY <2>7 DEF Instantiate
    <3>7. QED
      BY <3>2, <3>3, <3>4, <3>5, <3>6, RunningStep
  <2>8. ASSUME NEW c \in Calls, Initialize(c) PROVE UNCHANGED Service!vars
    BY <2>8, GuestStep DEF Initialize, GuestCalls
  <2>9. ASSUME NEW c \in Calls, RequestAlloc(c) PROVE UNCHANGED Service!vars
    BY <2>9, EndStep, GuestStep DEF RequestAlloc, GuestCalls
  <2>10. ASSUME NEW c \in Calls, GuestComputes(c) PROVE UNCHANGED Service!vars
    BY <2>10, ServiceStutters DEF GuestComputes, ServicePhase, Admitted
  <2>11. ASSUME NEW c \in Calls, GuestCallsHost(c) PROVE UNCHANGED Service!vars
    BY <2>11, GuestStep DEF GuestCallsHost, GuestCalls
  <2>12. ASSUME NEW c \in Calls, HandlerReturns(c) PROVE UNCHANGED Service!vars
    BY <2>12, GuestStep DEF HandlerReturns, GuestCalls
  <2>13. ASSUME NEW c \in Calls, GuestReturns(c) PROVE UNCHANGED Service!vars
    BY <2>13, EndStep, GuestStep DEF GuestReturns, GuestCalls
  <2>14. ASSUME NEW c \in Calls, ReadTrace(c) PROVE UNCHANGED Service!vars
    BY <2>14, EndStep, GuestStep DEF ReadTrace, GuestCalls
  <2>15. ASSUME NEW c \in Calls, ReportHostError(c) PROVE UNCHANGED Service!vars
    BY <2>15, EndStep, GuestStep DEF ReportHostError, GuestCalls
  <2>16. ASSUME NEW c \in Calls, ReadResult(c) PROVE UNCHANGED Service!vars
    BY <2>16, EndStep, GuestStep DEF ReadResult, GuestCalls
  <2>17. ASSUME NEW c \in Calls, GuestStopped(c) PROVE UNCHANGED Service!vars
    BY <2>17, EndStep, GuestStep DEF GuestStopped
  <2>18. ASSUME NEW c \in Calls, CloseModule(c) PROVE UNCHANGED Service!vars
    <3>1. pc[c] = "closeModule" /\ name[c] # 0
      BY <2>18 DEF CloseModule, InductiveInv, LifecycleInv, CallLifecycle, InstancePlaces
    <3>2. Admitted(c) /\ Admitted(c)' /\ Goto(c, "release")
      BY <2>18, <3>1 DEF CloseModule, Admitted, Goto, TypeOK, Cleanup
    <3>3. QED
      BY <2>18, <3>2, RunningStep DEF CloseModule
  <2>19. ASSUME NEW c \in Calls, Release(c) PROVE Service!Next
    BY <2>19, ReleaseStep DEF Release
  <2>20. ASSUME NEW c \in Calls, Observe(c) PROVE UNCHANGED Service!vars
    <3>1. ServicePhase(c) = "answered" /\ ServicePhase(c)' = "answered"
      BY <2>20 DEF Observe, ServicePhase, Admitted, GuestCalls, Cleanup, Finished, Goto,
                   TypeOK
    <3>2. QED
      BY <2>20, <3>1, QuietStep DEF Observe
  <2>21. ASSUME NEW k \in Closers, Close(k) PROVE Service!Next \/ UNCHANGED Service!vars
    <3>1. \A c \in Calls : ServicePhase(c)' = ServicePhase(c)
      BY <2>21 DEF Close, ServicePhase, Admitted
    <3>2. CASE closed
      BY <2>21, <3>1, <3>2, ServiceStutters DEF Close
    <3>3. CASE ~closed
      <4>1. Phase' = Phase /\ Given' = Given
        BY <2>21, <3>1 DEF Close, Phase, Given
      <4>2. Service!Shut
        BY <2>21, <3>3, <4>1 DEF Close, Service!Shut, Phase, Given
      <4>3. QED
        BY <4>2 DEF Service!Next
    <3>4. QED
      BY <3>2, <3>3
  <2>22. ASSUME NEW k \in Closers, CloseRuntime(k) PROVE UNCHANGED Service!vars
    BY <2>22, ServiceStutters DEF CloseRuntime, ServicePhase, Admitted
  <2>23. ASSUME NEW c \in Calls, Cancel(c) PROVE UNCHANGED Service!vars
    BY <2>23, ServiceStutters DEF Cancel, ServicePhase, Admitted
  <2>24. ASSUME UNCHANGED vars PROVE UNCHANGED Service!vars
    BY <2>24, ServiceStutters DEF vars, ServicePhase, Admitted
  <2>25. QED
    BY <2>1, <2>2, <2>3, <2>4, <2>5, <2>6, <2>7, <2>8, <2>9, <2>10, <2>11, <2>12, <2>13,
       <2>14, <2>15, <2>16, <2>17, <2>18, <2>19, <2>20, <2>21, <2>22, <2>23, <2>24
       DEF Next, CallStep
<1>3. QED
  BY <1>1, <1>2, Invariance, PTL DEF Spec, ServiceSpec, Service!Spec
=============================================================================
