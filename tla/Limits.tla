-------------------------------- MODULE Limits --------------------------------
(***************************************************************************)
(* The resource limits of both hosts: the ceilings of an engine            *)
(* (engine.go, normalizeConfig; config.rs, EngineConfig::validate) and the *)
(* limits of one request under them (engine.go, normalizeRequestLimits;    *)
(* config.rs, RequestLimits::resolve).  The numbers are those of the       *)
(* source, with fuel counted in hundreds.                                  *)
(*                                                                         *)
(* The Go host reads a zero as "not set"; the Rust host refuses it in a    *)
(* configuration.  Only MaxStack is a signed integer in Go, so only it can *)
(* be negative.                                                            *)
(***************************************************************************)
EXTENDS Integers

wasmPageSize        == 65536
minHostResponseSize == 256

defaultConfig ==
    [MaxMemoryBytes |-> 134217728, MaxWasmStackBytes |-> 50000000, MaxFuel |-> 1000000,
     MaxSourceBytes |-> 262144, MaxOutputBytes |-> 1048576, MaxStack |-> 256,
     MaxImports |-> 64, MaxImportBytes |-> 262144, MaxTotalImportBytes |-> 2097152,
     MaxCapabilityCalls |-> 128, MaxHostRequestBytes |-> 524288,
     MaxHostResponseBytes |-> 524288, MaxTraceBytes |-> 65536, MaxConcurrentEvaluations |-> 4]

hardCeilings ==
    [MaxMemoryBytes |-> 1073741824, MaxWasmStackBytes |-> 268435456, MaxFuel |-> 100000000,
     MaxSourceBytes |-> 16777216, MaxOutputBytes |-> 67108864, MaxStack |-> 4096,
     MaxImports |-> 4096, MaxImportBytes |-> 16777216, MaxTotalImportBytes |-> 67108864,
     MaxCapabilityCalls |-> 10000, MaxHostRequestBytes |-> 16777216,
     MaxHostResponseBytes |-> 33554432, MaxTraceBytes |-> 4194304,
     MaxConcurrentEvaluations |-> 1024]

EngineFields  == {"MaxMemoryBytes", "MaxWasmStackBytes", "MaxConcurrentEvaluations"}
RequestFields == {"MaxFuel", "MaxSourceBytes", "MaxOutputBytes", "MaxStack", "MaxImports",
                  "MaxImportBytes", "MaxTotalImportBytes", "MaxCapabilityCalls",
                  "MaxHostRequestBytes", "MaxHostResponseBytes", "MaxTraceBytes"}
Fields        == EngineFields \cup RequestFields

\* A zero selects the default of a configuration, or the engine's ceiling in a request.
Inherit(value, fallback) == IF value = 0 THEN fallback ELSE value

-----------------------------------------------------------------------------
(* The ceilings of an engine                                               *)

normalizeConfig(input) == [f \in Fields |-> Inherit(input[f], defaultConfig[f])]

\* Mutant of ConfigAccepted: the ceiling of the host's answers has no least value.
ConfigAcceptedTiny(input) ==
    /\ \A f \in Fields : 0 <= input[f] /\ input[f] <= hardCeilings[f]
    /\ normalizeConfig(input)["MaxMemoryBytes"] % wasmPageSize = 0

ConfigAccepted(input) ==
    /\ \A f \in Fields : 0 <= input[f] /\ input[f] <= hardCeilings[f]
    /\ normalizeConfig(input)["MaxMemoryBytes"] % wasmPageSize = 0
    /\ normalizeConfig(input)["MaxHostResponseBytes"] >= minHostResponseSize

\* EngineConfig::validate changes nothing: it accepts the configuration as given, or not.
RustConfigAccepted(input) ==
    /\ \A f \in Fields : 0 < input[f] /\ input[f] <= hardCeilings[f]
    /\ input["MaxMemoryBytes"] % wasmPageSize = 0
    /\ input["MaxHostResponseBytes"] >= minHostResponseSize

-----------------------------------------------------------------------------
(* The limits of a request                                                 *)

normalizeRequestLimits(input, ceiling) ==
    [f \in RequestFields |-> Inherit(input[f], ceiling[f])]

\* Mutant of LimitsAccepted: the sign of MaxStack is not looked at.
LimitsAcceptedSigned(input, ceiling) ==
    /\ \A f \in RequestFields : input[f] <= ceiling[f]
    /\ normalizeRequestLimits(input, ceiling)["MaxHostResponseBytes"] >= minHostResponseSize

LimitsAccepted(input, ceiling) ==
    /\ \A f \in RequestFields : 0 <= input[f] /\ input[f] <= ceiling[f]
    /\ normalizeRequestLimits(input, ceiling)["MaxHostResponseBytes"] >= minHostResponseSize

\* RequestLimits::resolve, whose fields are all unsigned.
RustLimits(input, ceiling) == [f \in RequestFields |-> Inherit(input[f], ceiling[f])]

RustLimitsAccepted(input, ceiling) ==
    /\ \A f \in RequestFields : 0 <= input[f] /\ input[f] <= ceiling[f]
    /\ RustLimits(input, ceiling)["MaxHostResponseBytes"] >= minHostResponseSize
=============================================================================
