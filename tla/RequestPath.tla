------------------------------ MODULE RequestPath ------------------------------
(***************************************************************************)
(* What one request goes through on its way to the evaluator and what one  *)
(* error goes through on its way back: the host prepares the request       *)
(* (engine.go, prepareRequestMode; lib.rs, prepare_request), the guest     *)
(* checks it again (main_wasm.go, requestAlloc and evaluate), the guest    *)
(* cuts its error to the size of an answer (setGuestError), and the host   *)
(* reads no more than that size (readGuestResult).                         *)
(*                                                                         *)
(* A text is its sizes: a request says how long its source is and how long *)
(* it is encoded, an error is a pattern of characters repeated, each with  *)
(* its bytes in UTF-8 and its bytes once escaped for JSON.                 *)
(***************************************************************************)
EXTENDS Limits, Sequences, FiniteSets

\* The ceilings compiled into the guest.
maxRequestAllocation      == 16777216
maxHostResponseAllocation == 33554432
maxOutputBytes            == 67108864
maxStackDepth             == 4096
maxErrorBytes             == 65536

InputFile   == 1
InputModes  == 0..2
OutputModes == 0..2

Least(a, b) == IF a < b THEN a ELSE b

-----------------------------------------------------------------------------
(* The host prepares a request                                             *)

Addressed(r) ==
    /\ r.filename # "illegal"              \* an empty one becomes snippet.jsonnet
    /\ r.inputMode = InputFile => r.source = 0

\* What is wrong with a request, in the order of the checks.
Prepare(r, config) ==
    LET limits == normalizeRequestLimits(r.limits, config)
    IN  IF \/ ~Addressed(r) \/ r.outputMode \notin OutputModes
           \/ r.inputMode \notin InputModes \/ ~LimitsAccepted(r.limits, config)
           \/ ~r.sourceUTF8                           THEN "invalid request"
        ELSE IF r.source > limits["MaxSourceBytes"]       THEN "limit"
        ELSE IF ~r.textsUTF8 \/ ~r.capabilities           THEN "invalid request"
        ELSE IF r.encoded > limits["MaxHostRequestBytes"] THEN "limit"
        ELSE "prepared"

\* The Rust host: texts are UTF-8 and modes are enumerations by their types.
RustPrepare(r, config) ==
    LET limits == RustLimits(r.limits, config)
    IN  IF ~Addressed(r) \/ ~RustLimitsAccepted(r.limits, config) THEN "invalid request"
        ELSE IF r.source > limits["MaxSourceBytes"]       THEN "limit"
        ELSE IF ~r.capabilities                           THEN "invalid request"
        ELSE IF r.encoded > limits["MaxHostRequestBytes"] THEN "limit"
        ELSE "prepared"

-----------------------------------------------------------------------------
(* The guest checks it again                                               *)

requestAlloc(size) == size \in 1..maxRequestAllocation

WithinABICeilings(l) ==
    /\ l["MaxStack"] \in 1..maxStackDepth
    /\ l["MaxOutputBytes"] \in 1..maxOutputBytes
    /\ l["MaxHostRequestBytes"] \in 1..maxRequestAllocation
    /\ l["MaxHostResponseBytes"] \in 1..maxHostResponseAllocation
    /\ l["MaxTraceBytes"] \in 1..maxOutputBytes

GuestAccepts(r, limits) ==
    /\ requestAlloc(r.encoded)
    /\ WithinABICeilings(limits)
    /\ r.inputMode \in InputModes /\ r.outputMode \in OutputModes
    /\ r.inputMode = InputFile => r.source = 0
    /\ r.encoded <= limits["MaxHostRequestBytes"]
    /\ r.capabilities

-----------------------------------------------------------------------------
(* The guest cuts an error                                                 *)

\* A character has its bytes in UTF-8 and its bytes once escaped; an error has the bytes of
\* its JSON object without the message, which are its kind and at most two numbers.
Character   == [utf8 : 1..4, json : 1..6]
maxEnvelope == 147
ErrorType   == [envelope : 0..maxEnvelope, times : Nat, pattern : Seq(Character) \ {<<>>}]

\* The sizes of the beginnings of a pattern, in bytes ("utf8") or escaped ("json").
SizesOf(p, unit) ==
    LET upTo[i \in 0..Len(p)] == IF i = 0 THEN 0 ELSE upTo[i - 1] + p[i][unit]
    IN  upTo

\* The size of the first n characters.
SizeOf(message, n, unit) ==
    LET p     == message.pattern
        sizes == SizesOf(p, unit)
    IN  (n \div Len(p)) * sizes[Len(p)] + sizes[n % Len(p)]

Characters(message) == message.times * Len(message.pattern)

\* truncateUTF8: the characters that fit whole in so many bytes.
WholeCharacters(message, bytes) ==
    LET p     == message.pattern
        sizes == SizesOf(p, "utf8")
        round == sizes[Len(p)]
        rest  == {i \in 0..Len(p) - 1 : sizes[i] <= bytes % round}
    IN  Least(Characters(message),
              (bytes \div round) * Len(p) + (CHOOSE i \in rest : \A j \in rest : j <= i))

\* The JSON object of an error: its kind and numbers, and the first n characters.
Encoded(error, n) == error.envelope + SizeOf(error, n, "json")

resultLimit(limits) == Least(maxErrorBytes, limits["MaxHostResponseBytes"])

Fallback == [size |-> 60, kept |-> 0]

\* The bytes of the message once it is cut to the buffer, and the answer with so many of them.
Length(error)   == SizeOf(error, WholeCharacters(error, maxErrorBytes), "utf8")
Tried(error, n) == Encoded(error, WholeCharacters(error, n))

\* Mutant of SetGuestError: the search wants room to spare.
SetGuestErrorShort(error, limit) ==
    LET length == Length(error)
        search[b \in [low : 0..length + 1, high : -1..length]] ==
            LET mid == b.low + (b.high - b.low) \div 2
            IN  IF b.low > b.high THEN b.low
                ELSE IF Tried(error, mid) < limit
                     THEN search[[low |-> mid + 1, high |-> b.high]]
                     ELSE search[[low |-> b.low, high |-> mid - 1]]
        cut == IF Tried(error, length) <= limit THEN length
               ELSE search[[low |-> 0, high |-> length]] - 1
    IN  IF cut < 0 THEN Fallback
        ELSE [size |-> Tried(error, cut), kept |-> WholeCharacters(error, cut)]

\* The binary search over the bytes of the message; it ends one past the longest that fits.
SetGuestError(error, limit) ==
    LET length == Length(error)
        search[b \in [low : 0..length + 1, high : -1..length]] ==
            LET mid == b.low + (b.high - b.low) \div 2
            IN  IF b.low > b.high THEN b.low
                ELSE IF Tried(error, mid) <= limit
                     THEN search[[low |-> mid + 1, high |-> b.high]]
                     ELSE search[[low |-> b.low, high |-> mid - 1]]
        cut == IF Tried(error, length) <= limit THEN length
               ELSE search[[low |-> 0, high |-> length]] - 1
    IN  IF cut < 0 THEN Fallback
        ELSE [size |-> Tried(error, cut), kept |-> WholeCharacters(error, cut)]

\* What the host accepts to copy out of the guest for an answer that is not a success.
HostReads(size, limits) == size <= limits["MaxHostResponseBytes"]
=============================================================================
