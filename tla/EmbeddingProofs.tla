---------------------------- MODULE EmbeddingProofs ----------------------------
(***************************************************************************)
(* Proofs about Embedding: what a construction holds, the stack size of a  *)
(* compilation cache, the mutex of the adapted importer, and that three    *)
(* programs agree on the limits: what the Go host prepares, the Rust host  *)
(* prepares alike and the guest does not refuse; and that the guest cuts   *)
(* an error to the longest beginning the host reads.                       *)
(***************************************************************************)
EXTENDS Embedding, DataInduction, SequenceTheorems, TLAPS

-----------------------------------------------------------------------------
(* The limits                                                              *)

WithinCeilings(c) ==
    \A f \in Fields : c[f] \in Int /\ 0 < c[f] /\ c[f] <= hardCeilings[f]

\* Every default is positive and within the hard ceilings.
LEMMA DefaultsAreWithinCeilings ==
    \A f \in Fields : /\ defaultConfig[f] \in Int /\ hardCeilings[f] \in Int
                      /\ 0 < defaultConfig[f] /\ defaultConfig[f] <= hardCeilings[f]
  BY SMT DEF Fields, EngineFields, RequestFields, defaultConfig, hardCeilings

\* The hard ceilings of the hosts are within the ceilings compiled into the guest.
LEMMA CeilingsAreWithinGuest ==
    /\ hardCeilings["MaxStack"] = maxStackDepth
    /\ hardCeilings["MaxOutputBytes"] = maxOutputBytes
    /\ hardCeilings["MaxHostRequestBytes"] = maxRequestAllocation
    /\ hardCeilings["MaxHostResponseBytes"] = maxHostResponseAllocation
    /\ hardCeilings["MaxTraceBytes"] <= maxOutputBytes
    /\ maxOutputBytes \in Int /\ maxRequestAllocation \in Int
  BY SMT DEF hardCeilings, maxStackDepth, maxOutputBytes, maxRequestAllocation,
         maxHostResponseAllocation

\* A configuration NewEngine accepts is, once normalized, one EngineConfig::validate accepts.
LEMMA NormalizedIsAccepted ==
  ASSUME NEW input \in [Fields -> Int], ConfigAccepted(input)
  PROVE  /\ WithinCeilings(normalizeConfig(input))
         /\ RustConfigAccepted(normalizeConfig(input))
<1> DEFINE c == normalizeConfig(input)
<1>1. WithinCeilings(c)
  <2> SUFFICES ASSUME NEW f \in Fields
               PROVE  c[f] \in Int /\ 0 < c[f] /\ c[f] <= hardCeilings[f]
    BY DEF WithinCeilings
  <2>1. c[f] = IF input[f] = 0 THEN defaultConfig[f] ELSE input[f]
    BY DEF normalizeConfig, Inherit
  <2>2. input[f] \in Int /\ 0 <= input[f] /\ input[f] <= hardCeilings[f]
    BY DEF ConfigAccepted
  <2> QED BY <2>1, <2>2, DefaultsAreWithinCeilings
<1>2. c["MaxMemoryBytes"] % wasmPageSize = 0 /\ c["MaxHostResponseBytes"] >= minHostResponseSize
  BY DEF ConfigAccepted
<1>3. \A f \in Fields : 0 < c[f] /\ c[f] <= hardCeilings[f]
  BY <1>1 DEF WithinCeilings
<1> HIDE DEF c
<1>4. RustConfigAccepted(c)
  BY <1>2, <1>3 DEF RustConfigAccepted
<1> QED BY <1>1, <1>4 DEF c

\* Limits that are accepted are, once inherited, positive and at most their ceilings.
LEMMA InheritedLimitsAreWithin ==
  ASSUME NEW ceiling, WithinCeilings(ceiling),
         NEW limits \in [RequestFields -> Int], LimitsAccepted(limits, ceiling),
         NEW f \in RequestFields
  PROVE  /\ normalizeRequestLimits(limits, ceiling)[f] \in Int
         /\ 0 < normalizeRequestLimits(limits, ceiling)[f]
         /\ normalizeRequestLimits(limits, ceiling)[f] <= hardCeilings[f]
<1>1. normalizeRequestLimits(limits, ceiling)[f] =
          IF limits[f] = 0 THEN ceiling[f] ELSE limits[f]
  BY DEF normalizeRequestLimits, Inherit
<1>2. f \in Fields
  BY DEF Fields
<1>3. ceiling[f] \in Int /\ 0 < ceiling[f] /\ ceiling[f] <= hardCeilings[f]
  BY <1>2 DEF WithinCeilings
<1>4. limits[f] \in Int /\ 0 <= limits[f] /\ limits[f] <= ceiling[f]
  BY DEF LimitsAccepted
<1>5. hardCeilings[f] \in Int
  BY <1>2, DefaultsAreWithinCeilings
<1> QED BY <1>1, <1>3, <1>4, <1>5

\* The guest takes such limits.
LEMMA InheritedLimitsFitGuest ==
  ASSUME NEW ceiling, WithinCeilings(ceiling),
         NEW limits \in [RequestFields -> Int], LimitsAccepted(limits, ceiling)
  PROVE  WithinABICeilings(normalizeRequestLimits(limits, ceiling))
<1> DEFINE l == normalizeRequestLimits(limits, ceiling)
<1>1. \A f \in RequestFields : l[f] \in Int /\ 0 < l[f] /\ l[f] <= hardCeilings[f]
  BY InheritedLimitsAreWithin
<1>2. \A f \in RequestFields : hardCeilings[f] \in Int
  BY DefaultsAreWithinCeilings DEF Fields
<1>3. {"MaxStack", "MaxOutputBytes", "MaxHostRequestBytes", "MaxHostResponseBytes",
       "MaxTraceBytes"} \subseteq RequestFields
  BY DEF RequestFields
<1> HIDE DEF l
<1>4. l["MaxStack"] \in 1..maxStackDepth /\ l["MaxOutputBytes"] \in 1..maxOutputBytes
  BY <1>1, <1>2, <1>3, CeilingsAreWithinGuest, SMT
<1>5. /\ l["MaxHostRequestBytes"] \in 1..maxRequestAllocation
      /\ l["MaxHostResponseBytes"] \in 1..maxHostResponseAllocation
  BY <1>1, <1>2, <1>3, CeilingsAreWithinGuest, SMT
<1>6. l["MaxTraceBytes"] \in 1..maxOutputBytes
  BY <1>1, <1>2, <1>3, CeilingsAreWithinGuest, SMT
<1>7. WithinABICeilings(l)
  BY <1>4, <1>5, <1>6 DEF WithinABICeilings
<1> QED BY <1>7 DEF l

\* The guest does not refuse what the Go host has prepared.
LEMMA PreparedFitsGuest ==
  ASSUME NEW ceiling, WithinCeilings(ceiling),
         NEW r \in RequestType, Prepare(r, ceiling) = "prepared"
  PROVE  GuestAccepts(r, normalizeRequestLimits(r.limits, ceiling))
<1> DEFINE l == normalizeRequestLimits(r.limits, ceiling)
<1>1. /\ Addressed(r) /\ r.outputMode \in OutputModes /\ r.inputMode \in InputModes
      /\ LimitsAccepted(r.limits, ceiling) /\ r.capabilities
      /\ ~(r.encoded > l["MaxHostRequestBytes"])
  BY DEF Prepare, RequestType
<1>2. r.limits \in [RequestFields -> Int] /\ r.encoded \in Nat \ {0}
  BY DEF RequestType
<1>3. "MaxHostRequestBytes" \in RequestFields
  BY DEF RequestFields
<1>4. WithinABICeilings(l)
  BY <1>1, <1>2, InheritedLimitsFitGuest
<1>5. /\ l["MaxHostRequestBytes"] \in Int
      /\ l["MaxHostRequestBytes"] <= hardCeilings["MaxHostRequestBytes"]
  BY <1>1, <1>2, <1>3, InheritedLimitsAreWithin
<1> HIDE DEF l
<1>6. r.encoded \in 1..maxRequestAllocation /\ r.encoded <= l["MaxHostRequestBytes"]
  BY <1>1, <1>2, <1>3, <1>5, CeilingsAreWithinGuest, SMT
<1>7. GuestAccepts(r, l)
  BY <1>1, <1>4, <1>6 DEF GuestAccepts, requestAlloc, Addressed
<1> QED BY <1>7 DEF l

\* What the Go host prepares the Rust host prepares, with the same limits.
LEMMA PreparedAlike ==
  ASSUME NEW ceiling, NEW r \in RequestType, Prepare(r, ceiling) = "prepared"
  PROVE  /\ RustPrepare(r, ceiling) = "prepared"
         /\ normalizeRequestLimits(r.limits, ceiling) = RustLimits(r.limits, ceiling)
  BY DEF Prepare, RustPrepare, RequestType, LimitsAccepted, RustLimitsAccepted,
         normalizeRequestLimits, RustLimits

\* The guest does not refuse what the Rust host has prepared, whose modes are right by type.
LEMMA RustPreparedFitsGuest ==
  ASSUME NEW ceiling, WithinCeilings(ceiling),
         NEW r \in RequestType, RustPrepare(r, ceiling) = "prepared",
         r.inputMode \in InputModes, r.outputMode \in OutputModes
  PROVE  GuestAccepts(r, RustLimits(r.limits, ceiling))
<1> DEFINE u == [r EXCEPT !.sourceUTF8 = TRUE, !.textsUTF8 = TRUE]
<1>1. u \in RequestType
  BY DEF RequestType
<1>2. /\ u.limits = r.limits /\ u.inputMode = r.inputMode /\ u.outputMode = r.outputMode
      /\ u.source = r.source /\ u.encoded = r.encoded /\ u.capabilities = r.capabilities
      /\ u.filename = r.filename /\ u.sourceUTF8 /\ u.textsUTF8
  BY DEF RequestType
<1> HIDE DEF u
<1>3. Prepare(u, ceiling) = "prepared"
  BY <1>2 DEF Prepare, RustPrepare, Addressed, LimitsAccepted, RustLimitsAccepted,
              normalizeRequestLimits, RustLimits
<1>4. GuestAccepts(u, normalizeRequestLimits(u.limits, ceiling))
  BY <1>1, <1>3, PreparedFitsGuest
<1> QED BY <1>2, <1>4 DEF GuestAccepts, normalizeRequestLimits, RustLimits
-----------------------------------------------------------------------------
(* The construction of engines                                             *)

Holding(s) ==
    IF s = "runtime" THEN {"runtime"}
    ELSE IF s \in {"compiled", "open"} THEN {"runtime", "compiled"}
    ELSE IF s = "probing" THEN {"runtime", "compiled", "probe"}
    ELSE {}

HeldByStage == \A e \in Engines : held[e] = Holding(stage[e])

Configured == {"configured"} \cup Live

PinnedToAll ==
    \A e \in Cached :
        stage[e] \in Configured => pinned = config[e]["MaxWasmStackBytes"] /\ pinned # 0

SoundConfigs ==
    \A e \in Engines :
        stage[e] \in Configured \cup {"closed"} =>
            WithinCeilings(config[e]) /\ RustConfigAccepted(config[e])

\* The strengthening: a stage tells what is held exactly, a cache is pinned from the
\* normalization of a configuration on, and that configuration is sound.
StartupInv == StartupTypeOK /\ HeldByStage /\ PinnedToAll /\ SoundConfigs

LEMMA StartupStarts == StartupInit => StartupInv
<1> SUFFICES ASSUME StartupInit PROVE StartupInv
  OBVIOUS
<1> USE DEF StartupInit
<1>1. StartupTypeOK
  BY DEF StartupTypeOK, Stages
<1>2. HeldByStage
  BY DEF HeldByStage, Holding
<1>3. \A e \in Engines : stage[e] \notin Configured \cup {"closed"}
  BY DEF Configured, Live, Building
<1>4. PinnedToAll /\ SoundConfigs
  BY <1>3, EnginesAssumption DEF PinnedToAll, SoundConfigs
<1> QED BY <1>1, <1>2, <1>4 DEF StartupInv

\* A step that leaves configurations and the cache alone and leads to no stage that needs
\* more of them than the one before.
LEMMA StageStep ==
  ASSUME StartupInv, NEW e \in Engines, NEW s \in Stages,
         s \in Configured \cup {"closed"} => stage[e] \in Configured \cup {"closed"},
         s \in Configured => stage[e] \in Configured,
         Enter(e, s), held' = [held EXCEPT ![e] = Holding(s)],
         UNCHANGED <<config, pinned>>
  PROVE  StartupInv'
<1> USE DEF Enter
<1>1. StartupTypeOK'
  <2>1. Holding(s) \in SUBSET {"runtime", "compiled", "probe"}
    BY DEF Holding
  <2> QED BY <2>1 DEF StartupInv, StartupTypeOK
<1>2. HeldByStage'
  <2> SUFFICES ASSUME NEW d \in Engines PROVE held'[d] = Holding(stage'[d])
    BY DEF HeldByStage
  <2>1. CASE d = e
    BY <2>1 DEF StartupInv, StartupTypeOK
  <2>2. CASE d # e
    <3>1. held'[d] = held[d] /\ stage'[d] = stage[d]
      BY <2>2 DEF StartupInv, StartupTypeOK
    <3> QED BY <3>1 DEF StartupInv, HeldByStage
  <2> QED BY <2>1, <2>2
<1>3. PinnedToAll'
  <2> SUFFICES ASSUME NEW d \in Cached, stage'[d] \in Configured
               PROVE  pinned' = config'[d]["MaxWasmStackBytes"] /\ pinned' # 0
    BY DEF PinnedToAll
  <2>1. d \in Engines /\ stage[d] \in Configured
    BY EnginesAssumption DEF StartupInv, StartupTypeOK
  <2> QED BY <2>1 DEF StartupInv, PinnedToAll
<1>4. SoundConfigs'
  <2> SUFFICES ASSUME NEW d \in Engines, stage'[d] \in Configured \cup {"closed"}
               PROVE  WithinCeilings(config'[d]) /\ RustConfigAccepted(config'[d])
    BY DEF SoundConfigs, WithinCeilings, RustConfigAccepted
  <2>1. stage[d] \in Configured \cup {"closed"}
    BY DEF StartupInv, StartupTypeOK
  <2> QED BY <2>1 DEF StartupInv, SoundConfigs
<1> QED BY <1>1, <1>2, <1>3, <1>4 DEF StartupInv

LEMMA ConfigureKeepsStartup ==
  ASSUME StartupInv, NEW e \in Engines, NEW input \in Configs, Configure(e, input)
  PROVE  StartupInv'
<1> DEFINE c == normalizeConfig(input)
           stack == c["MaxWasmStackBytes"]
<1>1. input \in [Fields -> Int] /\ ConfigAccepted(input)
  BY ConfigsAssumption DEF Configure
<1>2. WithinCeilings(c) /\ RustConfigAccepted(c)
  BY <1>1, NormalizedIsAccepted
<1>3. stack \in Int /\ stack # 0
  <2>1. "MaxWasmStackBytes" \in Fields
    BY DEF Fields, EngineFields
  <2> QED BY <1>2, <2>1 DEF WithinCeilings
<1>4. /\ stage[e] = "none" /\ runtimeConfig(e, stack)
      /\ config' = [config EXCEPT ![e] = c]
      /\ stage' = [stage EXCEPT ![e] = "configured"] /\ held' = held
  BY DEF Configure, Enter
<1> HIDE DEF c, stack
<1>5. StartupTypeOK'
  BY <1>3, <1>4 DEF StartupInv, StartupTypeOK, Stages, runtimeConfig
<1>6. HeldByStage'
  <2> SUFFICES ASSUME NEW d \in Engines PROVE held'[d] = Holding(stage'[d])
    BY DEF HeldByStage
  <2>1. held[d] = Holding(stage[d])
    BY DEF StartupInv, HeldByStage
  <2>2. CASE d = e
    <3>1. stage[d] = "none" /\ stage'[d] = "configured"
      BY <2>2, <1>4 DEF StartupInv, StartupTypeOK
    <3> QED BY <3>1, <2>1, <1>4 DEF Holding
  <2>3. CASE d # e
    <3>1. stage'[d] = stage[d]
      BY <2>3, <1>4 DEF StartupInv, StartupTypeOK
    <3> QED BY <3>1, <2>1, <1>4
  <2> QED BY <2>2, <2>3
<1>7. PinnedToAll'
  <2> SUFFICES ASSUME NEW d \in Cached, stage'[d] \in Configured
               PROVE  pinned' = config'[d]["MaxWasmStackBytes"] /\ pinned' # 0
    BY DEF PinnedToAll
  <2>1. d \in Engines /\ DOMAIN config = Engines
    BY EnginesAssumption DEF StartupInv, StartupTypeOK
  <2>2. CASE d = e
    <3>1. config'[d] = c /\ pinned' = stack
      BY <2>1, <2>2, <1>4 DEF runtimeConfig
    <3> QED BY <3>1, <1>3 DEF stack
  <2>3. CASE d # e
    <3>1. stage'[d] = stage[d] /\ config'[d] = config[d]
      BY <2>1, <2>3, <1>4 DEF StartupInv, StartupTypeOK
    <3>2. pinned = config[d]["MaxWasmStackBytes"] /\ pinned # 0
      BY <3>1 DEF StartupInv, PinnedToAll
    <3>3. pinned' = pinned
      BY <3>2, <1>4 DEF runtimeConfig
    <3> QED BY <3>1, <3>2, <3>3
  <2> QED BY <2>2, <2>3
<1>8. SoundConfigs'
  <2> SUFFICES ASSUME NEW d \in Engines, stage'[d] \in Configured \cup {"closed"}
               PROVE  WithinCeilings(config'[d]) /\ RustConfigAccepted(config'[d])
    BY DEF SoundConfigs, WithinCeilings, RustConfigAccepted
  <2>1. CASE d = e
    <3>1. config'[d] = c
      BY <2>1, <1>4 DEF StartupInv, StartupTypeOK
    <3> QED BY <3>1, <1>2 DEF c
  <2>2. CASE d # e
    <3>1. stage'[d] = stage[d] /\ config'[d] = config[d]
      BY <2>2, <1>4 DEF StartupInv, StartupTypeOK
    <3> QED BY <3>1 DEF StartupInv, SoundConfigs
  <2> QED BY <2>1, <2>2
<1> QED BY <1>5, <1>6, <1>7, <1>8 DEF StartupInv

LEMMA ConstructKeepsStartup ==
  ASSUME StartupInv, NEW e \in Engines, Construct(e)
  PROVE  StartupInv'
<1>1. held[e] = Holding(stage[e]) /\ stage \in [Engines -> Stages]
      /\ held \in [Engines -> SUBSET {"runtime", "compiled", "probe"}]
  BY DEF StartupInv, HeldByStage, StartupTypeOK
<1> USE DEF Stages, Configured, Live, Building
<1>2. CASE Refuse(e)
  <2>1. held' = [held EXCEPT ![e] = Holding("failed")]
    BY <1>1, <1>2 DEF Refuse, Holding
  <2> QED BY <1>2, <2>1, StageStep DEF Refuse
<1>3. CASE \E input \in Configs : Configure(e, input)
  BY <1>3, ConfigureKeepsStartup
<1>4. CASE CreateRuntime(e)
  <2>1. held' = [held EXCEPT ![e] = Holding("runtime")]
    BY <1>4 DEF CreateRuntime, Holding
  <2> QED BY <1>4, <2>1, StageStep DEF CreateRuntime
<1>5. CASE Compile(e)
  <2>1. held[e] \cup {"compiled"} = Holding("compiled")
    BY <1>1, <1>5 DEF Compile, Holding
  <2>2. held' = [held EXCEPT ![e] = Holding("compiled")]
    BY <1>1, <1>5, <2>1 DEF Compile
  <2> QED BY <1>5, <2>2, StageStep DEF Compile
<1>6. CASE Probe(e)
  <2>1. held[e] \cup {"probe"} = Holding("probing")
    BY <1>1, <1>6 DEF Probe, Holding
  <2>2. held' = [held EXCEPT ![e] = Holding("probing")]
    BY <1>1, <1>6, <2>1 DEF Probe
  <2> QED BY <1>6, <2>2, StageStep DEF Probe
<1>7. CASE Fail(e)
  <2>1. held' = [held EXCEPT ![e] = Holding("failed")]
    BY <1>7 DEF Fail, Holding
  <2> QED BY <1>7, <2>1, StageStep DEF Fail
<1>8. CASE Deliver(e)
  <2>1. held[e] \ {"probe"} = Holding("open")
    BY <1>1, <1>8 DEF Deliver, Holding
  <2>2. held' = [held EXCEPT ![e] = Holding("open")]
    BY <1>1, <1>8, <2>1 DEF Deliver
  <2> QED BY <1>8, <2>2, StageStep DEF Deliver
<1>9. CASE CloseEngine(e)
  <2>1. held' = [held EXCEPT ![e] = Holding("closed")]
    BY <1>9 DEF CloseEngine, Holding
  <2> QED BY <1>9, <2>1, StageStep DEF CloseEngine
<1> QED BY <1>2, <1>3, <1>4, <1>5, <1>6, <1>7, <1>8, <1>9 DEF Construct

LEMMA StutterKeepsStartup == ASSUME StartupInv, UNCHANGED startupVars PROVE StartupInv'
  BY DEF StartupInv, startupVars, StartupTypeOK, HeldByStage, PinnedToAll, SoundConfigs,
         WithinCeilings, RustConfigAccepted

-----------------------------------------------------------------------------
(* The evaluations                                                         *)

Places == {"idle"} \cup Running

CallTypeOK == at \in [Callers -> Places] /\ DOMAIN answer = Callers

NoneRefused == \A c \in Callers : answer[c].status # "guest refused"

CallInv == CallTypeOK /\ NoneRefused /\ OneAtATime

\* What a VM makes of a request is a request.
LEMMA VMRequestType == ASSUME NEW r \in RequestType PROVE VMRequest(r) \in RequestType
<1> DEFINE stack == IF r.maxStack # 0 THEN r.maxStack ELSE r.limits["MaxStack"]
           asked == [r.limits EXCEPT !["MaxStack"] = stack]
<1>1. r.limits \in [RequestFields -> Int] /\ r.maxStack \in Int /\ "MaxStack" \in RequestFields
  BY DEF RequestType, RequestFields
<1>2. asked \in [RequestFields -> Int]
  BY <1>1
<1>3. VMRequest(r) = [r EXCEPT !.limits = asked]
  BY DEF VMRequest
<1> HIDE DEF asked
<1> QED BY <1>2, <1>3 DEF RequestType

\* With sound configurations, nobody is refused by the guest.
LEMMA GuestRefusesNone ==
  ASSUME StartupInv, NEW e \in Engines, stage[e] \in {"open", "closed"}, NEW r \in Requests
  PROVE  Refusal(e, VMRequest(r)) # "guest refused"
<1> DEFINE v == VMRequest(r)
<1>1. v \in RequestType
  BY RequestsAssumption, VMRequestType
<1>2. WithinCeilings(config[e])
  BY DEF StartupInv, SoundConfigs, Configured, Live
<1> HIDE DEF v
<1>3. Prepare(v, config[e]) = "prepared" =>
          GuestAccepts(v, normalizeRequestLimits(v.limits, config[e]))
  BY <1>1, <1>2, PreparedFitsGuest
<1>4. Prepare(v, config[e]) # "guest refused"
  BY DEF Prepare
<1>5. Refusal(e, v) # "guest refused"
  BY <1>3, <1>4 DEF Refusal
<1> QED BY <1>5 DEF v

\* A caller moves, and holds the mutex if and only if it moves into the importer.
LEMMA CallerMoves ==
  ASSUME CallInv, NEW c \in Callers, NEW p \in Places, Go(c, p),
         p = "importing" => lock' = c,
         \A d \in Callers \ {c} : at[d] = "importing" => lock' = lock,
         DOMAIN answer' = Callers, NoneRefused'
  PROVE  CallInv'
<1>1. CallTypeOK'
  BY DEF CallInv, CallTypeOK, Go
<1>2. OneAtATime'
  <2> SUFFICES ASSUME NEW d \in Callers, at'[d] = "importing" PROVE lock' = d
    BY DEF OneAtATime
  <2>1. CASE d = c
    BY <2>1 DEF CallInv, CallTypeOK, Go
  <2>2. CASE d # c
    BY <2>2 DEF CallInv, CallTypeOK, OneAtATime, Go
  <2> QED BY <2>1, <2>2
<1> QED BY <1>1, <1>2 DEF CallInv

LEMMA StutterKeepsCalls == ASSUME CallInv, UNCHANGED callVars PROVE CallInv'
  BY DEF CallInv, callVars, CallTypeOK, NoneRefused, OneAtATime

LEMMA EvaluateKeepsCalls ==
  ASSUME StartupInv, CallInv, NEW c \in Callers, NEW e \in Engines, NEW r \in Requests,
         Evaluate(c, e, r)
  PROVE  CallInv'
<1>1. Refusal(e, VMRequest(r)) # "guest refused"
  BY GuestRefusesNone DEF Evaluate
<1>2. /\ answer' = [answer EXCEPT ![c] = Status(Refusal(e, VMRequest(r)))]
      /\ lock' = lock /\ at[c] = "idle"
      /\ at' = at \/ at' = [at EXCEPT ![c] = "evaluating"]
  BY DEF Evaluate, Go
<1>3. CallTypeOK'
  BY <1>2 DEF CallInv, CallTypeOK, Places, Running
<1>4. NoneRefused'
  BY <1>1, <1>2 DEF CallInv, CallTypeOK, NoneRefused, Status
<1>5. OneAtATime'
  BY <1>2 DEF CallInv, CallTypeOK, OneAtATime
<1> QED BY <1>3, <1>4, <1>5 DEF CallInv

LEMMA AdapterKeepsCalls ==
  ASSUME CallInv, NEW c \in Callers, Adapter(c)
  PROVE  CallInv'
<1> USE DEF Places, Running
<1>1. DOMAIN answer = Callers /\ NoneRefused
  BY DEF CallInv, CallTypeOK
<1>2. \A d \in Callers : d # Free /\ (at[d] = "importing" => lock = d)
  BY CallersAssumption DEF CallInv, OneAtATime, Free
<1>3. CASE Import(c)
  <2>1. NoneRefused'
    BY <1>1, <1>3 DEF Import, NoneRefused
  <2> QED BY <1>1, <1>3, <2>1, CallerMoves DEF Import
<1>4. CASE Lock(c)
  <2>1. NoneRefused'
    BY <1>1, <1>4 DEF Lock, NoneRefused
  <2>2. \A d \in Callers : at[d] # "importing"
    BY <1>2, <1>4 DEF Lock
  <2> QED BY <1>1, <1>4, <2>1, <2>2, CallerMoves DEF Lock
<1>5. CASE ImporterReturns(c)
  <2>1. NoneRefused'
    BY <1>1, <1>5 DEF ImporterReturns, NoneRefused
  <2>2. \A d \in Callers \ {c} : at[d] # "importing"
    BY <1>2, <1>5 DEF ImporterReturns
  <2> QED BY <1>1, <1>5, <2>1, <2>2, CallerMoves DEF ImporterReturns
<1>6. CASE ImporterPanics(c)
  <2>1. NoneRefused'
    BY <1>1, <1>6 DEF ImporterPanics, NoneRefused
  <2>2. \A d \in Callers \ {c} : at[d] # "importing"
    BY <1>2, <1>6 DEF ImporterPanics
  <2> QED BY <1>1, <1>6, <2>1, <2>2, CallerMoves DEF ImporterPanics
<1> QED BY <1>3, <1>4, <1>5, <1>6 DEF Adapter

LEMMA ReturnKeepsCalls ==
  ASSUME CallInv, NEW c \in Callers, NEW a, a.status # "guest refused", Return(c, a)
  PROVE  CallInv'
<1>1. answer' = [answer EXCEPT ![c] = a] /\ Go(c, "idle") /\ lock' = lock
  BY DEF Return
<1>2. NoneRefused' /\ DOMAIN answer' = Callers
  BY <1>1 DEF CallInv, CallTypeOK, NoneRefused
<1> QED BY <1>1, <1>2, CallerMoves DEF Places

-----------------------------------------------------------------------------
(* The guest cuts an error                                                 *)

\* The two ways a character is counted.
Units == {"utf8", "json"}

\* The sizes of the beginnings of a pattern grow with every character.
LEMMA PatternSizes ==
  ASSUME NEW p \in Seq(Character), NEW unit \in Units
  PROVE  /\ SizesOf(p, unit) \in [0..Len(p) -> Nat]
         /\ SizesOf(p, unit)[0] = 0
         /\ \A i \in 1..Len(p) : SizesOf(p, unit)[i] > SizesOf(p, unit)[i - 1]
<1> DEFINE n == Len(p)
           step == [i \in 1..n |-> [size \in Nat |-> size + p[i][unit]]]
           Grows(f) == f = [i \in 0..n |-> IF i = 0 THEN 0 ELSE f[i - 1] + p[i][unit]]
<1>1. n \in Nat /\ \A i \in 1..n : p[i] \in Character
  OBVIOUS
<1>2. \A i \in 1..n : p[i][unit] \in Nat /\ p[i][unit] >= 1
  <2> SUFFICES ASSUME NEW i \in 1..n PROVE p[i][unit] \in Nat /\ p[i][unit] >= 1
    OBVIOUS
  <2>1. p[i]["utf8"] \in 1..4 /\ p[i]["json"] \in 1..6
    BY <1>1 DEF Character
  <2> QED
    BY <2>1 DEF Units
<1>3. SizesOf(p, unit) = CHOOSE f : Grows(f)
  BY Zenon DEF SizesOf
<1> HIDE DEF n
<1>4. step \in [1..n -> [Nat -> Nat]]
  BY <1>2
<1>5. \A i \in 1..n, size \in Nat : step[i][size] = size + p[i][unit]
  OBVIOUS
<1> HIDE DEF step
<1>6. PICK f \in [0..n -> Nat] : Iterates(f, n, 0, step)
  BY <1>1, <1>4, Iteration
<1>7. f[0] = 0 /\ \A i \in 1..n : f[i - 1] \in Nat /\ f[i] = step[i][f[i - 1]]
  BY <1>1, <1>6 DEF Iterates
<1>8. \A i \in 1..n : f[i] = f[i - 1] + p[i][unit]
  BY <1>5, <1>7
<1>9. Grows(f)
  <2>1. f = [i \in 0..n |-> f[i]]
    OBVIOUS
  <2>2. \A i \in 0..n : f[i] = IF i = 0 THEN 0 ELSE f[i - 1] + p[i][unit]
    BY <1>1, <1>7, <1>8
  <2> QED
    BY <2>1, <2>2
<1> DEFINE g == CHOOSE h : Grows(h)
<1>10. Grows(g)
  BY <1>9
<1> HIDE DEF g
<1>11. g[0] = 0 /\ \A i \in 1..n : g[i] = g[i - 1] + p[i][unit]
  BY <1>1, <1>10
<1>12. GoOnAlike(f, g, n)
  BY <1>7, <1>8, <1>11 DEF GoOnAlike
<1>13. Alike(f, g, n)
  BY <1>1, <1>12, OneIteration
<1>14. g = f
  <2>1. g = [i \in 0..n |-> g[i]]
    BY <1>10
  <2>2. \A i \in 0..n : g[i] = f[i]
    BY <1>13 DEF Alike
  <2>3. f = [i \in 0..n |-> f[i]]
    OBVIOUS
  <2> QED
    BY <2>1, <2>2, <2>3
<1>15. \A i \in 1..n : f[i] > f[i - 1]
  BY <1>2, <1>7, <1>8
<1> QED
  BY <1>3, <1>7, <1>14, <1>15 DEF g, n

\* An error's message: its pattern is not empty, and neither are its rounds.
LEMMA ErrorShape ==
  ASSUME NEW error \in ErrorType
  PROVE  /\ error.pattern \in Seq(Character) /\ Len(error.pattern) \in Nat \ {0}
         /\ error.times \in Nat /\ Characters(error) \in Nat
         /\ Characters(error) = error.times * Len(error.pattern)
         /\ error.envelope \in 0..maxEnvelope
<1>1. /\ error.pattern \in Seq(Character) /\ error.pattern # <<>> /\ error.times \in Nat
      /\ error.envelope \in 0..maxEnvelope
  BY DEF ErrorType
<1>2. Len(error.pattern) \in Nat /\ Len(error.pattern) # 0
  BY <1>1
<1> DEFINE L == Len(error.pattern)
<1> HIDE DEF L
<1>3. error.times * L \in Nat
  BY <1>1, <1>2 DEF L
<1> QED
  BY <1>1, <1>2, <1>3 DEF L, Characters

\* Every character adds to the size.
LEMMA SizesGrow ==
  ASSUME NEW error \in ErrorType, NEW unit \in Units, NEW n \in Nat
  PROVE  /\ SizeOf(error, n, unit) \in Nat
         /\ SizeOf(error, n + 1, unit) > SizeOf(error, n, unit)
         /\ SizeOf(error, 0, unit) = 0
<1> DEFINE p == error.pattern
           L == Len(p)
           f == SizesOf(p, unit)
           q == n \div L
           r == n % L
<1>1. p \in Seq(Character) /\ L \in Nat \ {0}
  BY ErrorShape
<1>2. f \in [0..L -> Nat] /\ f[0] = 0 /\ \A i \in 1..L : f[i] > f[i - 1]
  BY <1>1, PatternSizes
<1>3. \A k \in Nat : SizeOf(error, k, unit) = (k \div L) * f[L] + f[k % L]
  BY DEF SizeOf
<1> HIDE DEF p, L, f
<1>4. n = q * L + r /\ r \in 0..L-1 /\ q \in Nat
  BY <1>1, Divided
<1>5. SizeOf(error, n, unit) = q * f[L] + f[r]
  BY <1>3
<1> HIDE DEF q, r
<1>6. f[L] \in Nat /\ f[r] \in Nat
  BY <1>1, <1>2, <1>4
<1>7. q * f[L] + f[r] \in Nat
  <2>1. q * f[L] \in Nat
    BY <1>4, <1>6
  <2> QED
    BY <1>6, <2>1
<1>8. SizeOf(error, n + 1, unit) > SizeOf(error, n, unit)
  <2>1. SizeOf(error, n + 1, unit) = ((n + 1) \div L) * f[L] + f[(n + 1) % L]
    BY <1>3
  <2>2. CASE r < L - 1
    <3>1. (n + 1) \div L = q /\ (n + 1) % L = r + 1
      BY <1>1, <1>4, <2>2, OneOnWithin, Zenon
    <3>2. SizeOf(error, n + 1, unit) = q * f[L] + f[r + 1]
      BY <2>1, <3>1, Zenon
    <3>3. r + 1 \in 1..L /\ r + 1 \in 0..L /\ (r + 1) - 1 = r
      BY <1>1, <1>4, <2>2
    <3>4. f[r + 1] > f[r] /\ f[r + 1] \in Nat
      BY <1>2, <3>3
    <3>5. q * f[L] \in Nat
      BY <1>4, <1>6
    <3> QED
      BY <1>5, <1>6, <3>2, <3>4, <3>5
  <2>3. CASE r >= L - 1
    <3>1. (n + 1) \div L = q + 1 /\ (n + 1) % L = 0
      BY <1>1, <1>4, <2>3, OneOnOver, Zenon
    <3>2. SizeOf(error, n + 1, unit) = (q + 1) * f[L] + f[0]
      BY <2>1, <3>1, Zenon
    <3>3. (q + 1) * f[L] = q * f[L] + f[L]
      BY <1>4, <1>6
    <3>4. r = L - 1 /\ L \in 1..L /\ L \in 0..L
      BY <1>1, <1>4, <2>3
    <3>5. f[L] > f[r]
      BY <1>2, <3>4
    <3>6. q * f[L] \in Nat
      BY <1>4, <1>6
    <3> QED
      BY <1>2, <1>5, <1>6, <3>2, <3>3, <3>5, <3>6
  <2> QED
    BY <1>1, <1>4, <2>2, <2>3
<1>9. SizeOf(error, 0, unit) = 0
  <2>1. 0 = 0 * L + 0 /\ 0 \in 0..L-1
    BY <1>1
  <2>2. 0 \div L = 0 /\ 0 % L = 0
    BY <1>1, <2>1, DividedOnly
  <2>3. SizeOf(error, 0, unit) = 0 * f[L] + f[0]
    BY <1>3, <2>2, Zenon
  <2> QED
    BY <1>2, <1>6, <2>3
<1> QED
  BY <1>5, <1>7, <1>8, <1>9

\* More characters are at least that much bigger.
LEMMA SizesOrdered ==
  ASSUME NEW error \in ErrorType, NEW unit \in Units, NEW i \in Nat, NEW j \in Nat, i <= j
  PROVE  SizeOf(error, i, unit) + (j - i) <= SizeOf(error, j, unit)
<1> DEFINE s(n) == SizeOf(error, n, unit)
           T == {d \in 0..j - i : s(i) + d <= s(i + d)}
<1>1. \A n \in Nat : s(n) \in Nat /\ s(n + 1) > s(n)
  BY SizesGrow
<1> HIDE DEF s
<1>2. 0 \in T
  BY <1>1
<1>3. ASSUME NEW d \in 1..j - i, d - 1 \in T PROVE d \in T
  <2>1. s(i) + (d - 1) <= s(i + (d - 1))
    BY <1>3
  <2>2. i + (d - 1) \in Nat /\ (i + (d - 1)) + 1 = i + d
    OBVIOUS
  <2>3. s(i + d) > s(i + (d - 1)) /\ s(i + d) \in Nat /\ s(i + (d - 1)) \in Nat /\ s(i) \in Nat
    BY <1>1, <2>2
  <2>4. s(i) + d <= s(i + d)
    BY <2>1, <2>3
  <2> QED
    BY <2>4
<1> HIDE DEF T
<1>4. 0..j - i \subseteq T
  BY <1>2, <1>3, UpTo
<1>5. j - i \in T
  BY <1>4
<1>6. s(i) + (j - i) <= s(i + (j - i)) /\ i + (j - i) = j
  BY <1>5 DEF T
<1>7. s(i) + (j - i) <= s(j)
  BY <1>6
<1> QED
  BY <1>7 DEF s

\* The characters that fit whole: they fit, and one more does not.
LEMMA WholeCharactersFit ==
  ASSUME NEW error \in ErrorType, NEW bytes \in Nat
  PROVE  LET k == WholeCharacters(error, bytes)
         IN  /\ k \in 0..Characters(error)
             /\ SizeOf(error, k, "utf8") <= bytes
             /\ k < Characters(error) => SizeOf(error, k + 1, "utf8") > bytes
<1> DEFINE p == error.pattern
           L == Len(p)
           f == SizesOf(p, "utf8")
           R == f[L]
           Q == bytes \div R
           m == bytes % R
           rest == {i \in 0..L - 1 : f[i] <= m}
           g == CHOOSE i \in rest : \A j \in rest : j <= i
           t == Q * L + g
           C == Characters(error)
<1>1. p \in Seq(Character) /\ L \in Nat \ {0} /\ C \in Nat /\ "utf8" \in Units
  BY ErrorShape DEF Units
<1>2. f \in [0..L -> Nat] /\ f[0] = 0 /\ \A i \in 1..L : f[i] > f[i - 1]
  BY <1>1, PatternSizes
<1>3. \A k \in Nat : SizeOf(error, k, "utf8") = (k \div L) * R + f[k % L]
  BY DEF SizeOf
<1>4. WholeCharacters(error, bytes) = Least(C, t)
  BY Zenon DEF WholeCharacters
<1>5. \A k \in Nat : SizeOf(error, k, "utf8") \in Nat
  BY <1>1, SizesGrow
<1>6. \A i, j \in Nat : i <= j => SizeOf(error, i, "utf8") <= SizeOf(error, j, "utf8")
  <2> SUFFICES ASSUME NEW i \in Nat, NEW j \in Nat, i <= j
               PROVE  SizeOf(error, i, "utf8") <= SizeOf(error, j, "utf8")
    OBVIOUS
  <2>1. SizeOf(error, i, "utf8") + (j - i) <= SizeOf(error, j, "utf8")
    BY <1>1, SizesOrdered
  <2> QED
    BY <1>5, <2>1
<1> HIDE DEF p, L, f, C
<1>7. R \in Nat /\ R > 0
  <2>1. L \in 1..L /\ L \in 0..L /\ L - 1 \in 0..L
    BY <1>1
  <2> QED
    BY <1>2, <2>1
<1>8. R \in Nat \ {0}
  BY <1>7
<1> HIDE DEF R
<1>9. bytes = Q * R + m /\ m \in 0..R - 1 /\ Q \in Nat
  BY <1>8, Divided
<1> HIDE DEF Q, m
<1>10. g \in rest /\ \A j \in rest : j <= g
  <2>1. rest \subseteq 0..L - 1 /\ 0 \in rest
    BY <1>1, <1>2, <1>9
  <2>2. L - 1 \in Nat
    BY <1>1
  <2> HIDE DEF rest
  <2>3. \E x \in rest : \A y \in rest : y <= x
    BY <2>1, <2>2, GreatestElement
  <2> QED
    BY <2>3
<1> HIDE DEF g
<1>11. g \in 0..L - 1 /\ f[g] <= m /\ f[g] \in Nat
  BY <1>1, <1>2, <1>10
<1> HIDE DEF rest
<1>12. Q * L \in Nat
  BY <1>1, <1>9
<1>13. t \in Nat
  BY <1>11, <1>12
<1>14. t \div L = Q /\ t % L = g
  BY <1>1, <1>9, <1>11, <1>13, DividedOnly
<1>15. Q * R \in Nat
  BY <1>8, <1>9
<1>16. SizeOf(error, t, "utf8") <= bytes
  <2>1. SizeOf(error, t, "utf8") = Q * R + f[g]
    BY <1>3, <1>13, <1>14, Zenon
  <2> QED
    BY <1>9, <1>11, <1>15, <2>1
<1>17. SizeOf(error, t + 1, "utf8") > bytes
  <2>1. t + 1 \in Nat
    BY <1>13
  <2>2. SizeOf(error, t + 1, "utf8") = ((t + 1) \div L) * R + f[(t + 1) % L]
    BY <1>3, <2>1, Zenon
  <2>3. CASE g < L - 1
    <3>1. (t + 1) \div L = Q /\ (t + 1) % L = g + 1
      BY <1>1, <1>9, <1>11, <1>13, <2>3, OneOnWithin, Zenon
    <3>2. SizeOf(error, t + 1, "utf8") = Q * R + f[g + 1]
      BY <2>2, <3>1, Zenon
    <3>3. g + 1 \in 0..L - 1 /\ g + 1 \in 0..L
      BY <1>1, <1>11, <2>3
    <3>4. f[g + 1] > m
      <4>1. g + 1 \notin rest
        BY <1>10, <1>11
      <4>2. ~ (f[g + 1] <= m)
        BY <3>3, <4>1 DEF rest
      <4>3. f[g + 1] \in Nat
        BY <1>2, <3>3
      <4> QED
        BY <1>9, <4>2, <4>3
    <3>5. f[g + 1] \in Nat
      BY <1>2, <3>3
    <3> QED
      BY <1>9, <1>15, <3>2, <3>4, <3>5
  <2>4. CASE g >= L - 1
    <3>1. (t + 1) \div L = Q + 1 /\ (t + 1) % L = 0
      BY <1>1, <1>9, <1>11, <1>13, <2>4, OneOnOver, Zenon
    <3>2. SizeOf(error, t + 1, "utf8") = (Q + 1) * R + f[0]
      BY <2>2, <3>1, Zenon
    <3>3. (Q + 1) * R = Q * R + R
      BY <1>8, <1>9
    <3> QED
      BY <1>2, <1>8, <1>9, <1>15, <3>2, <3>3
  <2> QED
    BY <1>1, <1>11, <2>3, <2>4
<1> HIDE DEF t
<1> DEFINE k == Least(C, t)
<1>18. k \in 0..C /\ k <= t /\ k \in Nat /\ (k < C => k = t)
  BY <1>1, <1>13 DEF Least
<1> HIDE DEF k
<1>19. SizeOf(error, k, "utf8") <= bytes
  <2>1. SizeOf(error, k, "utf8") <= SizeOf(error, t, "utf8")
    BY <1>6, <1>13, <1>18
  <2> QED
    BY <1>5, <1>13, <1>16, <1>18, <2>1
<1>20. k < C => SizeOf(error, k + 1, "utf8") > bytes
  BY <1>17, <1>18
<1> QED
  BY <1>4, <1>18, <1>19, <1>20 DEF k, C

\* The more bytes of the message are tried, the larger the answer.
LEMMA TriedIsMonotone ==
  ASSUME NEW error \in ErrorType, NEW i \in Nat, NEW j \in Nat, i <= j
  PROVE  /\ Tried(error, i) \in Nat
         /\ Tried(error, i) <= Tried(error, j)
<1> DEFINE C == Characters(error)
           k == WholeCharacters(error, i)
           l == WholeCharacters(error, j)
<1>1. C \in Nat /\ error.envelope \in 0..maxEnvelope /\ {"utf8", "json"} \subseteq Units
  BY ErrorShape DEF Units
<1>2. /\ k \in 0..C /\ SizeOf(error, k, "utf8") <= i
      /\ l \in 0..C /\ (l < C => SizeOf(error, l + 1, "utf8") > j)
  BY WholeCharactersFit
<1>3. Tried(error, i) = error.envelope + SizeOf(error, k, "json")
      /\ Tried(error, j) = error.envelope + SizeOf(error, l, "json")
  BY DEF Tried, Encoded
<1> HIDE DEF C, k, l
<1>4. k \in Nat /\ l \in Nat /\ l + 1 \in Nat
  BY <1>1, <1>2
<1>5. \A n \in Nat : SizeOf(error, n, "utf8") \in Nat /\ SizeOf(error, n, "json") \in Nat
  BY <1>1, SizesGrow
<1>6. k <= l
  <2> SUFFICES ASSUME l < k PROVE FALSE
    BY <1>4
  <2>1. SizeOf(error, l + 1, "utf8") > j /\ l + 1 <= k
    BY <1>1, <1>2, <1>4
  <2>2. SizeOf(error, l + 1, "utf8") + (k - (l + 1)) <= SizeOf(error, k, "utf8")
    BY <1>1, <1>4, <2>1, SizesOrdered
  <2> QED
    BY <1>2, <1>4, <1>5, <2>1, <2>2
<1>7. SizeOf(error, k, "json") + (l - k) <= SizeOf(error, l, "json")
  BY <1>1, <1>4, <1>6, SizesOrdered
<1>8. error.envelope \in Nat
  BY <1>1 DEF maxEnvelope
<1> QED
  BY <1>3, <1>4, <1>5, <1>6, <1>7, <1>8

\* With no byte of its message an error is its envelope.
LEMMA NothingTried ==
  ASSUME NEW error \in ErrorType
  PROVE  Tried(error, 0) <= maxEnvelope
<1> DEFINE k == WholeCharacters(error, 0)
<1>1. /\ error.envelope \in 0..maxEnvelope /\ Characters(error) \in Nat
      /\ {"utf8", "json"} \subseteq Units
  BY ErrorShape DEF Units
<1>2. k \in 0..Characters(error) /\ SizeOf(error, k, "utf8") <= 0
  BY WholeCharactersFit
<1>3. Tried(error, 0) = error.envelope + SizeOf(error, k, "json")
  BY DEF Tried, Encoded
<1> HIDE DEF k
<1>4. k \in Nat
  BY <1>1, <1>2
<1>5. /\ SizeOf(error, 0, "utf8") = 0 /\ SizeOf(error, 0, "json") = 0
      /\ SizeOf(error, k, "utf8") \in Nat
  BY <1>1, <1>4, SizesGrow
<1>6. SizeOf(error, 0, "utf8") + (k - 0) <= SizeOf(error, k, "utf8")
  BY <1>1, <1>4, SizesOrdered
<1>7. k = 0
  BY <1>2, <1>4, <1>5, <1>6
<1> QED
  BY <1>1, <1>3, <1>5, <1>7 DEF maxEnvelope

\* The bytes searched over are those of the characters that fit the buffer whole.
LEMMA LengthIsWhole ==
  ASSUME NEW error \in ErrorType
  PROVE  LET all == WholeCharacters(error, maxErrorBytes)
         IN  /\ all \in 0..Characters(error) /\ all \in Nat
             /\ Length(error) \in Nat /\ Length(error) = SizeOf(error, all, "utf8")
             /\ all < Characters(error) => SizeOf(error, all + 1, "utf8") > maxErrorBytes
<1> DEFINE all == WholeCharacters(error, maxErrorBytes)
<1>1. Characters(error) \in Nat /\ "utf8" \in Units /\ maxErrorBytes \in Nat
  BY ErrorShape DEF Units, maxErrorBytes
<1>2. /\ all \in 0..Characters(error)
      /\ all < Characters(error) => SizeOf(error, all + 1, "utf8") > maxErrorBytes
  BY <1>1, WholeCharactersFit
<1>3. Length(error) = SizeOf(error, all, "utf8")
  BY DEF Length
<1> HIDE DEF all
<1>4. all \in Nat
  BY <1>1, <1>2
<1>5. SizeOf(error, all, "utf8") \in Nat
  BY <1>1, <1>4, SizesGrow
<1> QED
  BY <1>2, <1>3, <1>4, <1>5 DEF all

\* The binary search ends one past the longest beginning that fits, if any does.
LEMMA SearchEnds ==
  ASSUME NEW error \in ErrorType, NEW limit \in Int
  PROVE  \E r \in 0..Length(error) + 1 :
            /\ \A i \in 0..Length(error) : Tried(error, i) <= limit <=> i < r
            /\ SetGuestError(error, limit) =
                  LET cut == IF Tried(error, Length(error)) <= limit THEN Length(error) ELSE r - 1
                  IN  IF cut < 0 THEN Fallback
                      ELSE [size |-> Tried(error, cut), kept |-> WholeCharacters(error, cut)]
<1> DEFINE n == Length(error)
           Fits == {i \in 0..n : Tried(error, i) <= limit}
           Search(s) ==
               s = [b \in [low : 0..n + 1, high : -1..n] |->
                       LET mid == b.low + (b.high - b.low) \div 2
                       IN  IF b.low > b.high THEN b.low
                           ELSE IF Tried(error, mid) <= limit
                                THEN s[[low |-> mid + 1, high |-> b.high]]
                                ELSE s[[low |-> b.low, high |-> mid - 1]]]
           t == CHOOSE s : Search(s)
           from == t[[low |-> 0, high |-> n]]
<1>1. SetGuestError(error, limit) =
          LET cut == IF Tried(error, n) <= limit THEN n ELSE from - 1
          IN  IF cut < 0 THEN Fallback
              ELSE [size |-> Tried(error, cut), kept |-> WholeCharacters(error, cut)]
  BY Zenon DEF SetGuestError
<1>2. n \in Nat
  BY LengthIsWhole
<1>3. \A i, j \in 0..n : i <= j /\ j \in Fits => i \in Fits
  <2> SUFFICES ASSUME NEW i \in 0..n, NEW j \in 0..n, i <= j, Tried(error, j) <= limit
               PROVE  Tried(error, i) <= limit
    OBVIOUS
  <2>1. i \in Nat /\ j \in Nat
    BY <1>2
  <2>2. Tried(error, i) \in Nat /\ Tried(error, j) \in Nat /\ Tried(error, i) <= Tried(error, j)
    BY <2>1, TriedIsMonotone
  <2> QED
    BY <2>2
<1>4. PICK r \in 0..n + 1 : Fits = {i \in 0..n : i < r}
  <2> HIDE DEF n
  <2>1. Fits \subseteq 0..n
    OBVIOUS
  <2> HIDE DEF Fits
  <2> QED
    BY <1>2, <1>3, <2>1, BeginningHasEnd
<1>5. ASSUME NEW s
      PROVE  Search(s) <=> s = [b \in Spans(n) |-> 
                 IF b.low > b.high THEN b.low
                 ELSE IF Middle(b) \in Fits THEN s[Above(b)] ELSE s[Below(b)]]
  <2> HIDE DEF n
  <2>1. \A b \in Spans(n) : ~(b.low > b.high) =>
          (Middle(b) \in Fits <=> Tried(error, b.low + (b.high - b.low) \div 2) <= limit)
    <3> SUFFICES ASSUME NEW b \in Spans(n), ~(b.low > b.high)
                 PROVE  Middle(b) \in Fits <=>
                            Tried(error, b.low + (b.high - b.low) \div 2) <= limit
      OBVIOUS
    <3>1. b.low <= b.high
      BY DEF Spans
    <3>2. Middle(b) \in 0..n
      BY <1>2, <3>1, HalvesAreParts
    <3>3. Middle(b) = b.low + (b.high - b.low) \div 2
      BY DEF Middle
    <3> HIDE DEF Fits
    <3>4. Middle(b) \in Fits <=> Tried(error, Middle(b)) <= limit
      BY <3>2 DEF Fits
    <3> QED
      BY <3>3, <3>4, Zenon
  <2> DEFINE One(b) == LET mid == b.low + (b.high - b.low) \div 2
                       IN  IF b.low > b.high THEN b.low
                           ELSE IF Tried(error, mid) <= limit
                                THEN s[[low |-> mid + 1, high |-> b.high]]
                                ELSE s[[low |-> b.low, high |-> mid - 1]]
             Other(b) == IF b.low > b.high THEN b.low
                         ELSE IF Middle(b) \in Fits THEN s[Above(b)] ELSE s[Below(b)]
  <2>2. \A b \in Spans(n) : One(b) = Other(b)
    <3> SUFFICES ASSUME NEW b \in Spans(n) PROVE One(b) = Other(b)
      OBVIOUS
    <3>1. CASE b.low > b.high
      BY <3>1, Zenon
    <3>2. CASE ~(b.low > b.high)
      <4> HIDE DEF Fits
      <4>1. Middle(b) \in Fits <=> Tried(error, b.low + (b.high - b.low) \div 2) <= limit
        BY <2>1, <3>2
      <4> QED
        BY <3>2, <4>1, Zenon DEF Middle, Above, Below
    <3> QED
      BY <3>1, <3>2, Zenon
  <2>3. Search(s) <=> s = [b \in Spans(n) |-> One(b)]
    BY Zenon DEF Spans
  <2> HIDE DEF One, Other, Search
  <2>4. [b \in Spans(n) |-> One(b)] = [b \in Spans(n) |-> Other(b)]
    BY <2>2
  <2>5. Search(s) <=> s = [b \in Spans(n) |-> Other(b)]
    BY <2>3, <2>4, Zenon
  <2> QED
    BY <2>5 DEF Other
<1> HIDE DEF n, Fits, Search
<1>6. \A s : Search(s) => Bisects(s, n, Fits)
  BY <1>5 DEF Bisects
<1>7. Search([b \in Spans(n) |-> EndIn(b, r)])
  <2> DEFINE s == [b \in Spans(n) |-> EndIn(b, r)]
  <2>1. Bisects(s, n, Fits)
    BY <1>2, <1>4, BisectionIsDefined
  <2>2. s = [b \in Spans(n) |-> s[b]]
    OBVIOUS
  <2> HIDE DEF s
  <2>3. s = [b \in Spans(n) |-> IF b.low > b.high THEN b.low
                 ELSE IF Middle(b) \in Fits THEN s[Above(b)] ELSE s[Below(b)]]
    BY <2>1, <2>2 DEF Bisects
  <2>4. Search(s)
    BY <1>5, <2>3
  <2> QED
    BY <2>4 DEF s
<1>8. Search(t)
  BY <1>7
<1> HIDE DEF t
<1>9. from = r
  BY <1>2, <1>4, <1>6, <1>8, BisectionFinds
<1> HIDE DEF from
<1>10. \A i \in 0..n : Tried(error, i) <= limit <=> i < r
  <2> SUFFICES ASSUME NEW i \in 0..n PROVE Tried(error, i) <= limit <=> i < r
    OBVIOUS
  <2>1. i \in Fits <=> Tried(error, i) <= limit
    BY DEF Fits
  <2> QED
    BY <1>4, <2>1
<1> QED
  BY <1>1, <1>4, <1>9, <1>10 DEF n

\* What the guest makes of an error: an answer within the limit, with the longest beginning
\* of the message that fits it and the buffer.
LongestFitting(error, cut, limit) ==
    /\ cut.size = Encoded(error, cut.kept)
    /\ cut.size \in Nat /\ cut.size <= limit
    /\ \/ cut.kept = Characters(error)
       \/ SizeOf(error, cut.kept + 1, "utf8") > maxErrorBytes
       \/ Encoded(error, cut.kept + 1) > limit

\* The guest's cut is that, for every error and every limit that leaves room for an envelope.
LEMMA GuestCutsRight ==
  ASSUME NEW error \in ErrorType, NEW limit \in Int, limit >= maxEnvelope
  PROVE  LongestFitting(error, SetGuestError(error, limit), limit)
<1> DEFINE n == Length(error)
           C == Characters(error)
           S(k) == SizeOf(error, k, "utf8")
<1>1. PICK r \in 0..n + 1 :
            /\ \A i \in 0..n : Tried(error, i) <= limit <=> i < r
            /\ SetGuestError(error, limit) =
                  LET cut == IF Tried(error, n) <= limit THEN n ELSE r - 1
                  IN  IF cut < 0 THEN Fallback
                      ELSE [size |-> Tried(error, cut), kept |-> WholeCharacters(error, cut)]
  BY SearchEnds
<1>2. /\ n \in Nat
      /\ \E all \in 0..C : /\ all \in Nat /\ n = S(all)
                           /\ all < C => S(all + 1) > maxErrorBytes
  BY LengthIsWhole
<1>3. C \in Nat /\ error.envelope \in Nat /\ {"utf8", "json"} \subseteq Units
  <2>1. C \in Nat /\ error.envelope \in 0..maxEnvelope
    BY ErrorShape
  <2> QED
    BY <2>1 DEF Units, maxEnvelope
<1>4. Tried(error, 0) \in Nat /\ Tried(error, 0) <= limit
  <2>1. Tried(error, 0) \in Nat /\ Tried(error, 0) <= maxEnvelope
    BY TriedIsMonotone, NothingTried
  <2> QED
    BY <2>1 DEF maxEnvelope
<1>5. \A k \in Nat : S(k) \in Nat /\ SizeOf(error, k, "json") \in Nat
  BY <1>3, SizesGrow
<1>6. \A i, j \in Nat : i <= j =>
          /\ S(i) + (j - i) <= S(j)
          /\ SizeOf(error, i, "json") + (j - i) <= SizeOf(error, j, "json")
  BY <1>3, SizesOrdered
<1>7. maxErrorBytes \in Nat
  BY DEF maxErrorBytes
<1> HIDE DEF n, C, S
<1> DEFINE cut == IF Tried(error, n) <= limit THEN n ELSE r - 1
           k == WholeCharacters(error, cut)
<1>8. cut \in 0..n /\ Tried(error, cut) <= limit
  <2>1. 0 < r
    BY <1>1, <1>2, <1>4
  <2>2. CASE Tried(error, n) <= limit
    BY <1>2, <2>2
  <2>3. CASE ~ (Tried(error, n) <= limit)
    <3>1. ~ (n < r)
      BY <1>1, <1>2, <2>3
    <3>2. r - 1 \in 0..n /\ r - 1 < r
      BY <1>2, <2>1, <3>1
    <3>3. Tried(error, r - 1) <= limit
      BY <1>1, <3>2
    <3> QED
      BY <2>3, <3>2, <3>3
  <2> QED
    BY <2>2, <2>3
<1>9. cut = n \/ (cut + 1 = r /\ r \in 0..n /\ Tried(error, r) > limit)
  <2>1. CASE Tried(error, n) <= limit
    BY <2>1
  <2>2. CASE ~ (Tried(error, n) <= limit)
    <3>1. ~ (n < r)
      BY <1>1, <1>2, <2>2
    <3>2. r \in 0..n /\ ~ (r < r)
      BY <1>2, <3>1
    <3>3. ~ (Tried(error, r) <= limit)
      BY <1>1, <3>2
    <3>4. Tried(error, r) \in Nat
      BY <1>2, <3>2, TriedIsMonotone
    <3> QED
      BY <2>2, <3>2, <3>3, <3>4
  <2> QED
    BY <2>1, <2>2
<1>10. SetGuestError(error, limit) = [size |-> Tried(error, cut), kept |-> k]
  <2>1. ~ (cut < 0)
    BY <1>2, <1>8
  <2> HIDE DEF k
  <2> QED
    BY <1>1, <2>1 DEF k
<1> HIDE DEF cut
<1>11. k \in 0..C /\ S(k) <= cut /\ (k < C => S(k + 1) > cut)
  <2>1. cut \in Nat
    BY <1>2, <1>8
  <2> QED
    BY <2>1, WholeCharactersFit DEF C, S
<1>12. Tried(error, cut) = Encoded(error, k)
  BY DEF Tried
<1> HIDE DEF k
<1>13. k \in Nat /\ k + 1 \in Nat
  BY <1>3, <1>11
<1>14. \A i \in Nat : Encoded(error, i) = error.envelope + SizeOf(error, i, "json")
  BY DEF Encoded
<1>15. ASSUME k # C
       PROVE  S(k + 1) > maxErrorBytes \/ Encoded(error, k + 1) > limit
  <2>1. k < C /\ S(k + 1) > cut /\ k + 1 <= C
    BY <1>3, <1>11, <1>15
  <2>2. CASE cut = n
    <3>1. PICK all \in 0..C : /\ all \in Nat /\ n = S(all)
                              /\ all < C => S(all + 1) > maxErrorBytes
      BY <1>2
    <3>2. k <= all
      <4> SUFFICES ASSUME all < k PROVE FALSE
        BY <1>13, <3>1
      <4>1. all \in Nat /\ all <= k
        BY <1>13, <3>1
      <4>2. S(all) + (k - all) <= S(k)
        BY <1>6, <1>13, <4>1
      <4>3. S(all) \in Nat /\ S(k) \in Nat
        BY <1>5, <1>13, <4>1
      <4> QED
        BY <1>11, <1>13, <2>2, <3>1, <4>1, <4>2, <4>3
    <3>3. all <= k
      <4> SUFFICES ASSUME k + 1 <= all PROVE FALSE
        BY <1>13, <3>1
      <4>1. S(k + 1) + (all - (k + 1)) <= S(all) /\ S(k + 1) \in Nat /\ S(all) \in Nat
        BY <1>5, <1>6, <1>13, <3>1
      <4> QED
        BY <1>13, <2>1, <2>2, <3>1, <4>1
    <3>4. all = k
      BY <1>13, <3>1, <3>2, <3>3
    <3> QED
      BY <2>1, <3>1, <3>4
  <2>3. CASE cut + 1 = r /\ r \in 0..n /\ Tried(error, r) > limit
    <3> DEFINE l == WholeCharacters(error, r)
    <3>1. r \in Nat
      BY <1>2, <2>3
    <3>2. l \in 0..C /\ S(l) <= r
      BY <3>1, WholeCharactersFit DEF C, S
    <3>3. Tried(error, r) = error.envelope + SizeOf(error, l, "json")
      BY DEF Tried, Encoded
    <3> HIDE DEF l
    <3>4. l \in Nat
      BY <1>3, <3>2
    <3>5. S(k + 1) >= r
      BY <1>2, <1>5, <1>8, <1>13, <2>1, <2>3, <3>1
    <3>6. l <= k + 1
      <4> SUFFICES ASSUME k + 1 < l PROVE FALSE
        BY <1>13, <3>4
      <4>1. S(k + 1) + (l - (k + 1)) <= S(l)
        BY <1>6, <1>13, <3>4
      <4>2. S(k + 1) \in Nat /\ S(l) \in Nat
        BY <1>5, <1>13, <3>4
      <4> QED
        BY <1>13, <3>1, <3>2, <3>4, <3>5, <4>1, <4>2
    <3>7. SizeOf(error, l, "json") + (k + 1 - l) <= SizeOf(error, k + 1, "json")
      BY <1>6, <1>13, <3>4, <3>6
    <3>8. SizeOf(error, l, "json") \in Nat /\ SizeOf(error, k + 1, "json") \in Nat
      BY <1>5, <1>13, <3>4
    <3>9. Encoded(error, k + 1) = error.envelope + SizeOf(error, k + 1, "json")
      BY <1>13, <1>14
    <3>10. Encoded(error, k + 1) >= Tried(error, r) /\ Tried(error, r) \in Nat
      BY <1>3, <1>13, <3>3, <3>4, <3>6, <3>7, <3>8, <3>9
    <3>11. Encoded(error, k + 1) \in Nat
      BY <1>3, <3>8, <3>9
    <3> QED
      BY <2>3, <3>10, <3>11
  <2> QED
    BY <1>9, <2>2, <2>3
<1>16. Encoded(error, k) \in Nat
  BY <1>3, <1>5, <1>13, <1>14
<1>17. [size |-> Tried(error, cut), kept |-> k].size = Encoded(error, k)
       /\ [size |-> Tried(error, cut), kept |-> k].kept = k
  BY <1>12
<1> QED
  BY <1>8, <1>10, <1>12, <1>15, <1>16, <1>17 DEF LongestFitting, C, S

-----------------------------------------------------------------------------
(* The errors an evaluation ends in                                        *)

\* The limits of an evaluation that runs leave room for an error.
RoomForErrors ==
    \A c \in Callers : at[c] \in Running =>
        /\ job[c].limits["MaxHostResponseBytes"] \in Int
        /\ job[c].limits["MaxHostResponseBytes"] >= minHostResponseSize

ErrorsInv == DOMAIN job = Callers /\ RoomForErrors /\ AnswerReadable

\* One answer of AnswerReadable.
Readable(a) ==
    /\ a.status # "unreadable"
    /\ a.status = "error" =>
        LET n == a.cut.kept
        IN  /\ a.cut.size = Encoded(a.error, n)
            /\ \/ n = Characters(a.error)
               \/ SizeOf(a.error, n + 1, "utf8") > maxErrorBytes
               \/ Encoded(a.error, n + 1) > a.limit

LEMMA AnswerReadableIsReadable == AnswerReadable <=> \A c \in Callers : Readable(answer[c])
  BY Zenon DEF AnswerReadable, Readable

LEMMA StutterKeepsErrors == ASSUME ErrorsInv, UNCHANGED callVars PROVE ErrorsInv'
  BY DEF ErrorsInv, callVars, RoomForErrors, AnswerReadable

\* A request that is prepared leaves the room the host insists on.
LEMMA EvaluateKeepsErrors ==
  ASSUME StartupInv, CallInv, ErrorsInv,
         NEW c \in Callers, NEW e \in Engines, NEW r \in Requests, Evaluate(c, e, r)
  PROVE  ErrorsInv'
<1> DEFINE v == VMRequest(r)
           limits == normalizeRequestLimits(v.limits, config[e])
<1>1. answer' = [answer EXCEPT ![c] = Status(Refusal(e, v))] /\ DOMAIN answer = Callers
  BY DEF Evaluate, CallInv, CallTypeOK
<1>2. \A d \in Callers : Readable(answer[d])
  BY AnswerReadableIsReadable DEF ErrorsInv
<1>3. Refusal(e, v) \notin {"unreadable", "error"}
  <2> HIDE DEF v
  <2>1. Prepare(v, config[e]) \notin {"unreadable", "error"}
    BY DEF Prepare
  <2> QED
    BY <2>1 DEF Refusal
<1>4. AnswerReadable'
  <2> DEFINE a == Status(Refusal(e, v))
  <2>1. a.status \notin {"unreadable", "error"}
    BY <1>3 DEF Status
  <2> HIDE DEF a, v
  <2>2. Readable(a)
    BY <2>1 DEF Readable
  <2>3. \A d \in Callers : answer'[d] = IF d = c THEN a ELSE answer[d]
    BY <1>1 DEF a
  <2>4. \A d \in Callers : Readable(answer'[d])
    BY <1>2, <2>2, <2>3, Zenon
  <2> QED
    BY <2>4, Zenon DEF AnswerReadable, Readable
<1>5. CASE Refusal(e, v) # "none"
  <2>1. at' = at /\ job' = job
    BY <1>5 DEF Evaluate
  <2> QED
    BY <1>4, <2>1 DEF ErrorsInv, RoomForErrors
<1>6. CASE Refusal(e, v) = "none"
  <2>1. job' = [job EXCEPT ![c] = [engine |-> e, limits |-> limits]]
        /\ at' = [at EXCEPT ![c] = "evaluating"] /\ stage[e] \in {"open", "closed"}
    BY <1>6 DEF Evaluate, Go
  <2>2. v \in RequestType
    BY RequestsAssumption, VMRequestType
  <2>3. WithinCeilings(config[e])
    BY <2>1 DEF StartupInv, SoundConfigs, Configured, Live
  <2> HIDE DEF v
  <2>4. LimitsAccepted(v.limits, config[e])
    BY <1>6 DEF Refusal, Prepare
  <2>5. v.limits \in [RequestFields -> Int] /\ "MaxHostResponseBytes" \in RequestFields
    BY <2>2 DEF RequestType, RequestFields
  <2>6. limits["MaxHostResponseBytes"] \in Int
    BY <2>3, <2>4, <2>5, InheritedLimitsAreWithin
  <2>7. limits["MaxHostResponseBytes"] >= minHostResponseSize
    BY <2>4 DEF LimitsAccepted
  <2> HIDE DEF limits
  <2>8. RoomForErrors'
    BY <2>1, <2>6, <2>7 DEF ErrorsInv, RoomForErrors, CallInv, CallTypeOK
  <2> QED
    BY <1>4, <2>1, <2>8 DEF ErrorsInv
<1> QED
  BY <1>5, <1>6

\* Imports change neither the limits nor an answer.
LEMMA AdapterKeepsErrors ==
  ASSUME CallInv, ErrorsInv, NEW c \in Callers, Adapter(c)
  PROVE  ErrorsInv'
<1>1. /\ at[c] \in Running /\ job' = job /\ answer' = answer
      /\ \E p \in Places : at' = [at EXCEPT ![c] = p]
  BY DEF Adapter, Import, Lock, ImporterReturns, ImporterPanics, Go, Places, Running
<1>2. RoomForErrors'
  BY <1>1 DEF ErrorsInv, RoomForErrors, CallInv, CallTypeOK
<1>3. AnswerReadable'
  BY <1>1 DEF ErrorsInv, AnswerReadable
<1> QED
  BY <1>1, <1>2, <1>3 DEF ErrorsInv

\* A readable answer is returned.
LEMMA ReturnKeepsErrors ==
  ASSUME CallInv, ErrorsInv, NEW c \in Callers, NEW a, Readable(a), Return(c, a)
  PROVE  ErrorsInv'
<1>1. /\ answer' = [answer EXCEPT ![c] = a] /\ job' = [job EXCEPT ![c] = Status("none")]
      /\ at' = [at EXCEPT ![c] = "idle"] /\ DOMAIN answer = Callers
  BY DEF Return, Go, CallInv, CallTypeOK
<1>2. RoomForErrors'
  BY <1>1 DEF ErrorsInv, RoomForErrors, CallInv, CallTypeOK, Running
<1>3. \A d \in Callers : Readable(answer'[d])
  <2>1. \A d \in Callers : answer'[d] = IF d = c THEN a ELSE answer[d]
    BY <1>1
  <2>2. \A d \in Callers : Readable(answer[d])
    BY AnswerReadableIsReadable DEF ErrorsInv
  <2> QED
    BY <2>1, <2>2, Zenon
<1>4. AnswerReadable'
  BY <1>3, Zenon DEF AnswerReadable, Readable
<1> QED
  BY <1>1, <1>2, <1>4 DEF ErrorsInv

\* The error of an evaluation that runs is cut to what the host reads.
LEMMA ErrorsAreReadable ==
  ASSUME CallInv, ErrorsInv, NEW c \in Callers, NEW error \in EvalErrors, FailWith(c, error)
  PROVE  \E a : a.status # "guest refused" /\ Readable(a) /\ Return(c, a)
<1> DEFINE limits == job[c].limits
           limit  == resultLimit(limits)
           cut    == SetGuestError(error, limit)
           full   == [status |-> "error", error |-> error, cut |-> cut, limit |-> limit]
<1>1. /\ limits["MaxHostResponseBytes"] \in Int
      /\ limits["MaxHostResponseBytes"] >= minHostResponseSize
  BY DEF FailWith, ErrorsInv, RoomForErrors, Running
<1>2. limit \in Int /\ limit >= maxEnvelope /\ limit <= limits["MaxHostResponseBytes"]
  BY <1>1 DEF resultLimit, Least, minHostResponseSize, maxEnvelope, maxErrorBytes
<1>3. error \in ErrorType
  BY ErrorsAssumption
<1>4. Return(c, IF HostReads(cut.size, limits) THEN full ELSE Status("unreadable"))
  BY DEF FailWith
<1> HIDE DEF limit
<1>5. LongestFitting(error, cut, limit)
  BY <1>2, <1>3, GuestCutsRight
<1> HIDE DEF cut
<1>6. HostReads(cut.size, limits)
  BY <1>1, <1>2, <1>5 DEF LongestFitting, HostReads
<1>7. /\ full.status = "error" /\ full.error = error /\ full.cut = cut
      /\ full.limit = limit
  OBVIOUS
<1> HIDE DEF full
<1>8. Readable(full)
  BY <1>5, <1>7 DEF Readable, LongestFitting
<1> QED
  BY <1>4, <1>6, <1>7, <1>8

-----------------------------------------------------------------------------
(* The theorems                                                            *)

EmbeddingInv == StartupInv /\ CallInv /\ ErrorsInv

LEMMA EmbeddingStarts == Init => EmbeddingInv
<1> SUFFICES ASSUME Init PROVE EmbeddingInv
  OBVIOUS
<1>1. StartupInv
  BY StartupStarts DEF Init
<1>2. CallInv
  BY DEF Init, CallInv, CallTypeOK, NoneRefused, OneAtATime, Places, Status
<1>3. ErrorsInv
  BY DEF Init, ErrorsInv, RoomForErrors, AnswerReadable, Running, Status
<1> QED BY <1>1, <1>2, <1>3 DEF EmbeddingInv

LEMMA EmbeddingSteps == EmbeddingInv /\ [Next]_vars => EmbeddingInv'
<1> SUFFICES ASSUME EmbeddingInv, [Next]_vars PROVE EmbeddingInv'
  OBVIOUS
<1> USE DEF EmbeddingInv
<1>1. CASE \E e \in Engines : Construct(e) /\ UNCHANGED callVars
  BY <1>1, ConstructKeepsStartup, StutterKeepsCalls, StutterKeepsErrors
<1>2. CASE UNCHANGED vars
  BY <1>2, StutterKeepsStartup, StutterKeepsCalls, StutterKeepsErrors DEF vars
<1>3. ASSUME NEW c \in Callers, NEW e \in Engines, NEW r \in Requests, Evaluate(c, e, r)
      PROVE  EmbeddingInv'
  <2>1. UNCHANGED startupVars
    BY <1>3 DEF Evaluate
  <2> QED BY <1>3, <2>1, EvaluateKeepsCalls, EvaluateKeepsErrors, StutterKeepsStartup
<1>4. ASSUME NEW c \in Callers, Expire(c)
      PROVE  EmbeddingInv'
  <2>1. UNCHANGED startupVars
    BY <1>4 DEF Expire
  <2>2. CallInv'
    BY <1>4 DEF Expire, CallInv, CallTypeOK, NoneRefused, OneAtATime
  <2>3. ErrorsInv'
    BY <1>4 DEF Expire, ErrorsInv, RoomForErrors, AnswerReadable
  <2> QED BY <2>1, <2>2, <2>3, StutterKeepsStartup
<1>5. ASSUME NEW c \in Callers, Adapter(c)
      PROVE  EmbeddingInv'
  <2>1. UNCHANGED startupVars
    BY <1>5 DEF Adapter, Import, Lock, ImporterReturns, ImporterPanics
  <2> QED BY <1>5, <2>1, AdapterKeepsCalls, AdapterKeepsErrors, StutterKeepsStartup
<1>6. ASSUME NEW c \in Callers, NEW a, a.status # "guest refused", Readable(a), Return(c, a)
      PROVE  EmbeddingInv'
  <2>1. UNCHANGED startupVars
    BY <1>6 DEF Return
  <2> QED BY <1>6, <2>1, ReturnKeepsCalls, ReturnKeepsErrors, StutterKeepsStartup
<1>7. ASSUME NEW c \in Callers, Stop(c) \/ Succeed(c)
      PROVE  EmbeddingInv'
  <2>1. PICK s \in {"canceled", "engine closed", "ok"} : Return(c, Status(s))
    BY <1>7 DEF Stop, Succeed
  <2>2. Status(s).status # "guest refused" /\ Readable(Status(s))
    BY DEF Status, Readable
  <2> QED BY <2>1, <2>2, <1>6
<1>8. ASSUME NEW c \in Callers, NEW error \in EvalErrors, FailWith(c, error)
      PROVE  EmbeddingInv'
  BY <1>6, <1>8, ErrorsAreReadable
<1> QED BY <1>1, <1>2, <1>3, <1>4, <1>5, <1>7, <1>8 DEF Next

LEMMA EmbeddingInvariant == Spec => []EmbeddingInv
  BY EmbeddingStarts, EmbeddingSteps, PTL DEF Spec

\* The state of every construction is well typed.
THEOREM StartupTypeCorrect == Spec => []StartupTypeOK
<1>1. EmbeddingInv => StartupTypeOK
  BY DEF EmbeddingInv, StartupInv
<1> QED BY <1>1, EmbeddingInvariant, PTL

\* Whatever step of whatever construction fails, a runtime is open exactly while it is
\* needed, for any number of engines.
THEOREM RuntimesAreAccounted == Spec => []RuntimesAccounted
<1>1. EmbeddingInv => RuntimesAccounted
  BY DEF EmbeddingInv, StartupInv, HeldByStage, Holding, StartupTypeOK, RuntimesAccounted,
         Live, Building, Stages
<1> QED BY <1>1, EmbeddingInvariant, PTL

\* All engines built on one compilation cache have one WASM stack size, for any number of
\* engines and any configurations.
THEOREM CachesHaveOneStack == Spec => []OneStackPerCache
<1>1. EmbeddingInv => OneStackPerCache
  BY DEF EmbeddingInv, StartupInv, PinnedToAll, Configured, OneStackPerCache
<1> QED BY <1>1, EmbeddingInvariant, PTL

\* The adapted importer is called by one goroutine at a time, for any number of them and
\* even after it has panicked.
THEOREM ImporterIsSerialized == Spec => []OneAtATime
<1>1. EmbeddingInv => OneAtATime
  BY DEF EmbeddingInv, CallInv
<1> QED BY <1>1, EmbeddingInvariant, PTL

\* No request that either host prepared is refused by the guest, for every configuration
\* and every request there is.
THEOREM PreparedIsNeverRefused == Spec => []PreparedIsAccepted
<1>1. EmbeddingInv => PreparedIsAccepted
  <2> SUFFICES ASSUME EmbeddingInv PROVE PreparedIsAccepted
    OBVIOUS
  <2>1. \A c \in Callers : answer[c].status # "guest refused"
    BY DEF EmbeddingInv, CallInv, NoneRefused
  <2>2. ASSUME NEW e \in Delivered, NEW r \in Requests,
               RustPrepare(r, config[e]) = "prepared",
               r.inputMode \in InputModes, r.outputMode \in OutputModes
        PROVE  GuestAccepts(r, RustLimits(r.limits, config[e]))
    <3>1. WithinCeilings(config[e])
      BY DEF EmbeddingInv, StartupInv, SoundConfigs, Delivered, Configured, Live
    <3>2. r \in RequestType
      BY RequestsAssumption
    <3> QED BY <2>2, <3>1, <3>2, RustPreparedFitsGuest
  <2> QED BY <2>1, <2>2 DEF PreparedIsAccepted
<1> QED BY <1>1, EmbeddingInvariant, PTL

\* Every effective configuration of the Go host, and every request it prepares under one,
\* the Rust host accepts unchanged.
THEOREM HostsHaveTheSameLimits == Spec => []HostsLimitAlike
<1>1. EmbeddingInv => HostsLimitAlike
  <2> SUFFICES ASSUME EmbeddingInv, NEW e \in Delivered
               PROVE  /\ RustConfigAccepted(config[e])
                      /\ \A r \in Requests :
                          Prepare(r, config[e]) = "prepared" =>
                              /\ RustPrepare(r, config[e]) = "prepared"
                              /\ normalizeRequestLimits(r.limits, config[e])
                                    = RustLimits(r.limits, config[e])
    BY DEF HostsLimitAlike
  <2>1. RustConfigAccepted(config[e])
    BY DEF EmbeddingInv, StartupInv, SoundConfigs, Delivered, Configured, Live
  <2>2. \A r \in Requests : r \in RequestType
    BY RequestsAssumption
  <2> QED BY <2>1, <2>2, PreparedAlike
<1> QED BY <1>1, EmbeddingInvariant, PTL

\* An error reaches the caller as the longest beginning of its message that fits, and the
\* host never refuses to read it: for every pattern of characters, every number of them and
\* every limit a request may set.
THEOREM AnswersAreReadable == Spec => []AnswerReadable
<1>1. EmbeddingInv => AnswerReadable
  BY DEF EmbeddingInv, ErrorsInv
<1> QED BY <1>1, EmbeddingInvariant, PTL
=============================================================================
