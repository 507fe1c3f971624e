----------------------------- MODULE EngineStartup -----------------------------
(***************************************************************************)
(* Construction of engines that may share a compilation cache              *)
(* (engine.go, newEngine; options.go).  NewEngine checks its configuration *)
(* and the cache, creates a runtime, and then compiles, validates and      *)
(* probes the guest in it; whatever fails after the runtime exists, a      *)
(* deferred call closes it.                                                *)
(*                                                                         *)
(* A cache is pinned, under its mutex, to the WASM stack size of the first *)
(* engine that asks for it, and refuses engines of another size.           *)
(***************************************************************************)
EXTENDS Limits

CONSTANTS
    Engines,        \* the engines a process constructs, each once
    Cached,         \* those given WithCompilationCache, all with the same cache
    Configs         \* the configurations they are given

ASSUME EnginesAssumption == Cached \subseteq Engines
ASSUME ConfigsAssumption == \A c \in Configs : c \in [Fields -> Int]

VARIABLES
    stage,     \* how far the construction of each engine is
    held,      \* what it holds of wazero: its runtime, the compiled guest, the probe
    config,    \* Engine.config, from the moment it is normalized
    pinned     \* CompilationCache.stackSize, 0 until an engine sets it

startupVars == <<stage, held, config, pinned>>

Building == {"runtime", "compiled", "probing"}
Stages   == {"none", "configured"} \cup Building \cup {"open", "failed", "closed"}
Live     == Building \cup {"open"}

StartupInit ==
    /\ stage  = [e \in Engines |-> "none"]
    /\ held   = [e \in Engines |-> {}]
    /\ config = [e \in Engines |-> defaultConfig]
    /\ pinned = 0

Enter(e, s) == stage' = [stage EXCEPT ![e] = s]

-----------------------------------------------------------------------------
(* Before the runtime exists                                               *)

\* A nil option or context, a context already done, or a refused configuration.
Refuse(e) ==
    /\ stage[e] = "none"
    /\ Enter(e, "failed")
    /\ UNCHANGED <<held, config, pinned>>

\* Mutant of runtimeConfig: a cache takes the size of its latest engine.
runtimeConfigLatest(e, stack) ==
    pinned' = IF e \in Cached THEN stack ELSE pinned

\* Under the mutex of the cache: refuse another size, or pin this one.
runtimeConfig(e, stack) ==
    /\ e \in Cached => pinned \in {0, stack}
    /\ pinned' = IF e \in Cached THEN stack ELSE pinned

Configure(e, input) ==
    /\ stage[e] = "none"
    /\ ConfigAccepted(input)
    /\ runtimeConfig(e, normalizeConfig(input)["MaxWasmStackBytes"])
    /\ config' = [config EXCEPT ![e] = normalizeConfig(input)]
    /\ Enter(e, "configured")
    /\ UNCHANGED held

-----------------------------------------------------------------------------
(* From the runtime to the engine                                          *)

CreateRuntime(e) ==
    /\ stage[e] = "configured"
    /\ held' = [held EXCEPT ![e] = {"runtime"}]
    /\ Enter(e, "runtime")
    /\ UNCHANGED <<config, pinned>>

\* WASI and the host module are instantiated, the guest compiled and validated.
Compile(e) ==
    /\ stage[e] = "runtime"
    /\ held' = [held EXCEPT ![e] = @ \cup {"compiled"}]
    /\ Enter(e, "compiled")
    /\ UNCHANGED <<config, pinned>>

Probe(e) ==
    /\ stage[e] = "compiled"
    /\ held' = [held EXCEPT ![e] = @ \cup {"probe"}]
    /\ Enter(e, "probing")
    /\ UNCHANGED <<config, pinned>>

\* Mutant of Fail: only a compiled module that did not validate is closed.
FailCompiledOnly(e) ==
    /\ stage[e] \in Building
    /\ held' = [held EXCEPT ![e] = @ \ {"compiled", "probe"}]
    /\ Enter(e, "failed")
    /\ UNCHANGED <<config, pinned>>

\* A step fails, or the context ends in the middle of one: the deferred call closes the
\* runtime, and with it whatever was made in it.
Fail(e) ==
    /\ stage[e] \in Building
    /\ held' = [held EXCEPT ![e] = {}]
    /\ Enter(e, "failed")
    /\ UNCHANGED <<config, pinned>>

\* The probe answered the version of this host.
Deliver(e) ==
    /\ stage[e] = "probing"
    /\ held' = [held EXCEPT ![e] = @ \ {"probe"}]
    /\ Enter(e, "open")
    /\ UNCHANGED <<config, pinned>>

CloseEngine(e) ==
    /\ stage[e] = "open"
    /\ held' = [held EXCEPT ![e] = {}]
    /\ Enter(e, "closed")
    /\ UNCHANGED <<config, pinned>>

Construct(e) ==
    \/ Refuse(e)
    \/ \E input \in Configs : Configure(e, input)
    \/ CreateRuntime(e) \/ Compile(e) \/ Probe(e)
    \/ Fail(e) \/ Deliver(e) \/ CloseEngine(e)

-----------------------------------------------------------------------------
(* Properties                                                              *)

StartupTypeOK ==
    /\ stage \in [Engines -> Stages]
    /\ held \in [Engines -> SUBSET {"runtime", "compiled", "probe"}]
    /\ DOMAIN config = Engines
    /\ pinned \in Int

\* Whatever way a construction goes, a runtime is open exactly while it is needed: from
\* its creation to the failure of the construction or the Close of the engine, and a
\* delivered engine holds its runtime and compiled guest and no instance of its probe.
RuntimesAccounted ==
    \A e \in Engines :
        /\ "runtime" \in held[e] <=> stage[e] \in Live
        /\ stage[e] = "open" => held[e] = {"runtime", "compiled"}
        /\ stage[e] \notin Live => held[e] = {}

\* Every engine built on one cache, delivered or not, compiled the guest for the same
\* WASM stack size, the one the cache is pinned to.
OneStackPerCache ==
    \A e \in Cached :
        stage[e] \in Live => pinned = config[e]["MaxWasmStackBytes"] /\ pinned # 0
=============================================================================
