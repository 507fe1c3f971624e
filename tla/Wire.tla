---------------------------------- MODULE Wire ----------------------------------
(***************************************************************************)
(* How several outputs travel from the guest to the host in one payload    *)
(* (protocol.go): a count, and then each name and content, or each         *)
(* document, behind its length.  The host decodes what a guest sends, so   *)
(* it believes neither the count nor the lengths.                          *)
(*                                                                         *)
(* A payload is a sequence of bytes, and a word of it, four bytes in the   *)
(* code, is one byte here, enough for every count and length that occurs.  *)
(***************************************************************************)
EXTENDS Integers, SequencesExt

CONSTANT Payloads       \* what may arrive at the host

ASSUME PayloadsAssumption == Payloads \subseteq Seq(Nat)

-----------------------------------------------------------------------------
(* Encoding                                                                *)

appendFramedString(payload, text) == payload \o <<Len(text)>> \o text

\* The texts in their order, each in a frame.
Framed(texts) ==
    LET after[k \in 0..Len(texts)] ==
            IF k = 0 THEN <<>> ELSE appendFramedString(after[k - 1], texts[k])
    IN  after[Len(texts)]

EncodeStreamOutput(documents) == <<Len(documents)>> \o Framed(documents)

\* Each name, and behind it the content of the file.
NamesAndContents(names, files) ==
    [k \in 1..2 * Len(names) |->
        LET name == names[(k + 1) \div 2] IN IF k % 2 = 1 THEN name ELSE files[name]]

\* The names of the files, in the order of sort.Strings.
EncodeMultiOutput(names, files) ==
    <<Len(names)>> \o Framed(NamesAndContents(names, files))

-----------------------------------------------------------------------------
(* Decoding                                                                *)

\* One frame more: the texts, and what is left of the payload.
consumeBytes(read) ==
    IF ~read.ok \/ read.rest = <<>> \/ Head(read.rest) \notin 0..Len(read.rest) - 1
    THEN [ok |-> FALSE, texts |-> read.texts, rest |-> read.rest]
    ELSE LET length == Head(read.rest)
         IN  [ok    |-> TRUE,
              texts |-> Append(read.texts, SubSeq(read.rest, 2, 1 + length)),
              rest  |-> SubSeq(read.rest, 2 + length, Len(read.rest))]

\* The loop of the decoders: n frames, or the first that fails.
Consumed(payload, n) ==
    LET after[k \in 0..n] ==
            IF k = 0 THEN [ok |-> TRUE, texts |-> <<>>, rest |-> payload]
            ELSE consumeBytes(after[k - 1])
    IN  after[n]

\* What a payload can mean: nothing, if it is refused.
DecodeStreamOutput(payload) ==
    IF payload = <<>> \/ Head(payload) \notin 0..Len(payload) - 1 THEN {}
    ELSE LET read == Consumed(Tail(payload), Head(payload))
         IN  IF read.ok /\ read.rest = <<>> THEN {read.texts} ELSE {}

\* The files of a sequence of names and contents, unless a name comes twice.
Files(texts, count) ==
    LET names == {texts[2 * k - 1] : k \in 1..count}
        at(n) == CHOOSE k \in 1..count : texts[2 * k - 1] = n
    IN  IF Cardinality(names) = count THEN {[n \in names |-> texts[2 * at(n)]]} ELSE {}

\* Mutant of DecodeMultiOutput: a name or a content is taken to be never empty.
DecodeMultiOutputWide(payload) ==
    IF payload = <<>> \/ Head(payload) \notin 0..((Len(payload) - 1) \div 3) THEN {}
    ELSE LET read == Consumed(Tail(payload), 2 * Head(payload))
         IN  IF read.ok /\ read.rest = <<>> THEN Files(read.texts, Head(payload)) ELSE {}

DecodeMultiOutput(payload) ==
    IF payload = <<>> \/ Head(payload) \notin 0..((Len(payload) - 1) \div 2) THEN {}
    ELSE LET read == Consumed(Tail(payload), 2 * Head(payload))
         IN  IF read.ok /\ read.rest = <<>> THEN Files(read.texts, Head(payload)) ELSE {}

-----------------------------------------------------------------------------

\* The texts that some payload carries.
Texts == UNION {{SubSeq(p, i, j) : i \in 1..Len(p) + 1, j \in 0..Len(p)} : p \in Payloads}

\* What the host takes from a payload, the guest frames to that payload, and a payload
\* cut short is never taken for a whole one.
Exact(payload) ==
    /\ \A d \in DecodeStreamOutput(payload) : EncodeStreamOutput(d) = payload
    /\ \A f \in DecodeMultiOutput(payload) :
        \E names \in SetToSeqs(DOMAIN f) : EncodeMultiOutput(names, f) = payload
    /\ DecodeStreamOutput(payload) # {} =>
        \A q \in Prefixes(payload) \ {payload} : DecodeStreamOutput(q) = {}
    /\ DecodeMultiOutput(payload) # {} =>
        \A q \in Prefixes(payload) \ {payload} : DecodeMultiOutput(q) = {}

\* Whatever two texts the guest frames, empty ones too, the host unframes to the same.
RoundTrips ==
    \A a, b \in {t \in Texts : Len(t) <= 2} :
        /\ \A d \in {<<>>, <<a>>, <<a, b>>} : DecodeStreamOutput(EncodeStreamOutput(d)) = {d}
        /\ LET two == [n \in {a, <<>>} |-> b]
           IN  DecodeMultiOutput(EncodeMultiOutput(SetToSeq({a, <<>>}), two)) = {two}

PayloadsExact == \A p \in Payloads : Exact(p)
===============================================================================
