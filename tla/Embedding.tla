------------------------------- MODULE Embedding -------------------------------
(***************************************************************************)
(* A process that embeds the library: it constructs engines on one         *)
(* compilation cache, and its goroutines evaluate on them through VMs of   *)
(* compat/gojsonnet that share one adapted go-jsonnet importer (vm.go).    *)
(*                                                                         *)
(* The adapter takes a mutex around the importer, and the mutex does not   *)
(* look at the context: a caller that waits for it waits as long as the    *)
(* importer of another takes.  A panic of the importer is recovered by the *)
(* host call (engine.go, hostCall), after the adapter's frame is gone.     *)
(*                                                                         *)
(* Of an evaluation only the imports and the answer are here: the module   *)
(* Engine has its admission, HostCalls and Invocation its host calls.      *)
(***************************************************************************)
EXTENDS EngineStartup, RequestPath

CONSTANTS
    Callers,        \* the goroutines, each with a VM of its own
    Requests,       \* what their VMs ask for
    EvalErrors      \* the errors a template can end in

RequestType ==
    [filename : {"empty", "legal", "illegal"}, inputMode : Nat, outputMode : Nat,
     source : Nat, encoded : Nat \ {0}, sourceUTF8 : BOOLEAN, textsUTF8 : BOOLEAN,
     capabilities : BOOLEAN, limits : [RequestFields -> Int], maxStack : Int]

ASSUME CallersAssumption  == Callers \cap {"free", "abandoned"} = {}
ASSUME ErrorsAssumption   == EvalErrors \subseteq ErrorType
ASSUME RequestsAssumption == \A r \in Requests : r \in RequestType

VARIABLES
    at,        \* where each goroutine is
    job,       \* the engine and the normalized limits of its evaluation
    expired,   \* the goroutines whose context is done
    lock,      \* who holds ImporterAdapter.mu
    answer     \* what its latest evaluation returned

callVars == <<at, job, expired, lock, answer>>
vars     == <<startupVars, callVars>>

Free      == "free"
Abandoned == "abandoned"     \* locked by a frame that a panic unwound
Running   == {"evaluating", "locking", "importing"}
Delivered == {e \in Engines : stage[e] = "open"}
Status(s) == [status |-> s]

Init ==
    /\ StartupInit
    /\ at      = [c \in Callers |-> "idle"]
    /\ job     = [c \in Callers |-> Status("none")]
    /\ answer  = [c \in Callers |-> Status("none")]
    /\ expired = {}
    /\ lock    = Free

Go(c, p) == at' = [at EXCEPT ![c] = p]

-----------------------------------------------------------------------------
(* A VM evaluates                                                          *)

\* VM.request: MaxStack of the VM outweighs the one in its Limits.
VMRequest(r) ==
    LET stack == IF r.maxStack # 0 THEN r.maxStack ELSE r.limits["MaxStack"]
    IN  [r EXCEPT !.limits = [r.limits EXCEPT !["MaxStack"] = stack]]

\* The evaluation is answered without running: the engine is closed, or the request is
\* refused by the host, or by the guest.
Refusal(e, r) ==
    IF stage[e] = "closed" THEN "engine closed"
    ELSE IF Prepare(r, config[e]) # "prepared" THEN Prepare(r, config[e])
    ELSE IF ~GuestAccepts(r, normalizeRequestLimits(r.limits, config[e])) THEN "guest refused"
    ELSE "none"

Evaluate(c, e, r) ==
    /\ at[c] = "idle"
    /\ stage[e] \in {"open", "closed"}
    /\ answer' = [answer EXCEPT ![c] = Status(Refusal(e, VMRequest(r)))]
    /\ IF Refusal(e, VMRequest(r)) # "none"
       THEN UNCHANGED <<at, job>>
       ELSE /\ job' = [job EXCEPT ![c] =
                [engine |-> e,
                 limits |-> normalizeRequestLimits(VMRequest(r).limits, config[e])]]
            /\ Go(c, "evaluating")
    /\ UNCHANGED <<startupVars, expired, lock>>

Expire(c) ==
    /\ at[c] \in Running
    /\ expired' = expired \cup {c}
    /\ UNCHANGED <<startupVars, at, job, lock, answer>>

-----------------------------------------------------------------------------
(* ImporterAdapter.Import                                                  *)

\* The context is looked at before the mutex, not while waiting for it.
Import(c) ==
    /\ at[c] = "evaluating"
    /\ c \notin expired
    /\ Go(c, "locking")
    /\ UNCHANGED <<startupVars, job, expired, lock, answer>>

Lock(c) ==
    /\ at[c] = "locking"
    /\ lock = Free
    /\ lock' = c
    /\ Go(c, "importing")
    /\ UNCHANGED <<startupVars, job, expired, answer>>

\* Mutant of ImporterReturns: a caller that is late forgets the mutex.
ImporterReturnsLate(c) ==
    /\ at[c] = "importing"
    /\ lock' = IF c \in expired THEN lock ELSE Free
    /\ Go(c, "evaluating")
    /\ UNCHANGED <<startupVars, job, expired, answer>>

ImporterReturns(c) ==
    /\ at[c] = "importing"
    /\ lock' = Free
    /\ Go(c, "evaluating")
    /\ UNCHANGED <<startupVars, job, expired, answer>>

\* Nothing between Lock and Unlock defers the Unlock.
ImporterPanics(c) ==
    /\ at[c] = "importing"
    /\ lock' = Abandoned
    /\ Go(c, "evaluating")
    /\ UNCHANGED <<startupVars, job, expired, answer>>

-----------------------------------------------------------------------------
(* The evaluation returns                                                  *)

Return(c, a) ==
    /\ answer' = [answer EXCEPT ![c] = a]
    /\ job' = [job EXCEPT ![c] = Status("none")]
    /\ expired' = expired \ {c}
    /\ Go(c, "idle")
    /\ UNCHANGED <<startupVars, lock>>

\* The end of the context, or the Close of the engine, stops the guest.
Stop(c) ==
    /\ at[c] = "evaluating"
    /\ c \in expired \/ stage[job[c].engine] = "closed"
    /\ Return(c, Status(IF c \in expired THEN "canceled" ELSE "engine closed"))

Succeed(c) ==
    /\ at[c] = "evaluating"
    /\ Return(c, Status("ok"))

\* The template fails: the guest cuts the error, the host reads what it may read.
FailWith(c, error) ==
    LET limit == resultLimit(job[c].limits)
        cut   == SetGuestError(error, limit)
    IN  /\ at[c] = "evaluating"
        /\ Return(c, IF HostReads(cut.size, job[c].limits)
                     THEN [status |-> "error", error |-> error, cut |-> cut, limit |-> limit]
                     ELSE Status("unreadable"))

-----------------------------------------------------------------------------

Adapter(c) == Import(c) \/ Lock(c) \/ ImporterReturns(c) \/ ImporterPanics(c)

Next ==
    \/ \E e \in Engines : Construct(e) /\ UNCHANGED callVars
    \/ \E c \in Callers :
        \/ \E e \in Engines, r \in Requests : Evaluate(c, e, r)
        \/ Expire(c) \/ Adapter(c) \/ Stop(c) \/ Succeed(c)
        \/ \E error \in EvalErrors : FailWith(c, error)

\* A mutex of Go hands itself to a waiter that waited too long; an importer that does
\* not panic returns; a guest whose context is done is stopped at its next instruction.
Fairness ==
    \A c \in Callers : SF_vars(Lock(c)) /\ WF_vars(ImporterReturns(c)) /\ WF_vars(Stop(c))

Spec == Init /\ [][Next]_vars /\ Fairness

-----------------------------------------------------------------------------
(* Properties                                                              *)

\* A request that either host prepared is never refused by the guest's own checks, whose
\* ceilings are constants compiled into another program: the host's error for it would
\* name no field.
PreparedIsAccepted ==
    /\ \A c \in Callers : answer[c].status # "guest refused"
    /\ \A e \in Delivered, r \in Requests :
        LET limits == RustLimits(r.limits, config[e])
        IN  RustPrepare(r, config[e]) = "prepared"
                /\ r.inputMode \in InputModes /\ r.outputMode \in OutputModes
                => GuestAccepts(r, limits)

\* What the Go host normalizes, the Rust host accepts as it is: every effective
\* configuration, and then every request the Go host prepares, with the same limits.
HostsLimitAlike ==
    \A e \in Delivered :
        /\ RustConfigAccepted(config[e])
        /\ \A r \in Requests :
            Prepare(r, config[e]) = "prepared" =>
                /\ RustPrepare(r, config[e]) = "prepared"
                /\ normalizeRequestLimits(r.limits, config[e]) = RustLimits(r.limits, config[e])

\* An error of the template reaches the caller as the longest beginning of its message
\* that fits the answer, whole characters only, and is never lost to the host's own bound.
AnswerReadable ==
    \A c \in Callers :
        LET a == answer[c]
        IN  /\ a.status # "unreadable"
            /\ a.status = "error" =>
                LET n == a.cut.kept
                IN  /\ a.cut.size = Encoded(a.error, n)
                    /\ \/ n = Characters(a.error)
                       \/ SizeOf(a.error, n + 1, "utf8") > maxErrorBytes
                       \/ Encoded(a.error, n + 1) > a.limit

\* The importer, which need not be safe for concurrent use, is called by one goroutine at
\* a time, and nobody but that goroutine holds the mutex.
OneAtATime ==
    \A c \in Callers : at[c] = "importing" => lock = c

\* An evaluation whose context is done returns, even one that waits for the adapter's
\* mutex, unless the importer has panicked.
EndsUnlessPanicked ==
    \A c \in Callers : at[c] \in Running /\ c \in expired ~> at[c] = "idle" \/ lock = Abandoned

\* "a context deadline remains the wall-clock backstop for host callbacks and evaluation"
\* (README.md): an evaluation whose context is done returns.
EndsAfterDeadline ==
    \A c \in Callers : at[c] \in Running /\ c \in expired ~> at[c] = "idle"
=============================================================================
