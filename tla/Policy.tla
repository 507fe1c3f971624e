-------------------------------- MODULE Policy --------------------------------
(***************************************************************************)
(* The policy of the command line (policy.go): the defaults of the         *)
(* library, a policy file decoded over them, then the flags in their       *)
(* order, and the result normalized.  A size is its digits and the scale   *)
(* of its suffix.                                                          *)
(*                                                                         *)
(* The machine's words are as wide as MaxUint64 and MaxUint32 say, and a   *)
(* product wraps, and is narrowed, as it is there.                         *)
(***************************************************************************)
EXTENDS Limits, Sequences

CONSTANTS
    MaxUint64,      \* the largest value of the wide word
    MaxUint32       \* the largest value of the narrow word

ASSUME WordsAssumption == MaxUint32 \in Nat /\ MaxUint64 \in Nat /\ MaxUint32 < MaxUint64

\* policyFlags, and -s: whether a ceiling is set by a size or a count, and in which word.
SizeFlags  == {"MaxMemoryBytes", "MaxWasmStackBytes", "MaxSourceBytes", "MaxOutputBytes",
               "MaxImportBytes", "MaxTotalImportBytes", "MaxHostRequestBytes",
               "MaxHostResponseBytes", "MaxTraceBytes"}
CountFlags == {"MaxFuel", "MaxImports", "MaxCapabilityCalls", "MaxStack"}
WideFlags  == {"MaxMemoryBytes", "MaxWasmStackBytes", "MaxTotalImportBytes", "MaxFuel"}
maxInt     == MaxUint64 \div 2        \* of -s, which is signed and then compared

\* The factor of a suffix; a count has none.
Scale(flag) == IF flag.field \in CountFlags THEN 1 ELSE flag.scale

\* Mutant of Parses: the product is compared after it was taken.
ParsesWrapped(flag) ==
    /\ flag.field \in SizeFlags \cup CountFlags
    /\ flag.digits \in 1..MaxUint64
    /\ (flag.digits * Scale(flag)) % (MaxUint64 + 1) > 0
    /\ \/ flag.field \in WideFlags
       \/ flag.field = "MaxStack" /\ flag.digits <= maxInt
       \/ (flag.digits * Scale(flag)) % (MaxUint64 + 1) <= MaxUint32

\* byteSize32, byteSize64, count32, count64, and Atoi for -s: what parses at all.
Parses(flag) ==
    /\ flag.field \in SizeFlags \cup CountFlags
    /\ flag.digits \in 1..MaxUint64                       \* strconv.ParseUint, not zero
    /\ flag.digits <= MaxUint64 \div Scale(flag)
    /\ \/ flag.field \in WideFlags
       \/ flag.field = "MaxStack" /\ flag.digits <= maxInt
       \/ flag.digits * Scale(flag) <= MaxUint32

\* The value of a flag that parses, as the machine multiplies it.
parseByteSize(flag) == (flag.digits * Scale(flag)) % (MaxUint64 + 1)

\* What it sets: a field of the narrow word keeps the low bits.
Narrowed(flag) ==
    IF flag.field \in WideFlags \cup {"MaxStack"} THEN parseByteSize(flag)
    ELSE parseByteSize(flag) % (MaxUint32 + 1)

\* A JSON object over the defaults: an absent field keeps its default.
loadPolicyFile(file) == [f \in Fields |-> IF f \in DOMAIN file THEN file[f] ELSE defaultConfig[f]]

\* The overrides, applied in their order.
Override(policy, flags) ==
    LET after[i \in 0..Len(flags)] ==
            IF i = 0 THEN policy
            ELSE [after[i - 1] EXCEPT ![flags[i].field] = Narrowed(flags[i])]
    IN  after[Len(flags)]

resolvePolicy(file, flags) == Override(loadPolicyFile(file), flags)

\* What the operator asked of a ceiling: the last flag that names it, else the file unless
\* it says zero there, else the default.
Asked(f, file, flags) ==
    LET naming == {i \in 1..Len(flags) : flags[i].field = f}
        last   == flags[CHOOSE i \in naming : \A j \in naming : j <= i]
    IN  IF naming # {} THEN last.digits * Scale(last)
        ELSE IF f \in DOMAIN file /\ file[f] # 0 THEN file[f]
        ELSE defaultConfig[f]
=============================================================================
