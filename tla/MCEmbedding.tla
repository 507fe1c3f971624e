------------------------------ MODULE MCEmbedding ------------------------------
(* A small instance of Embedding for TLC. *)
EXTENDS Embedding, TLC

Unset == [f \in Fields |-> 0]

\* Nothing set; the ceilings, with another stack size and the least answer; refused ones.
MCConfigs ==
    {Unset,
     [hardCeilings EXCEPT !["MaxWasmStackBytes"] = 65536, !["MaxHostResponseBytes"] = 256],
     [Unset EXCEPT !["MaxHostResponseBytes"] = 255],
     [Unset EXCEPT !["MaxMemoryBytes"] = 65535],
     [Unset EXCEPT !["MaxStack"] = 4097]}

NoLimits == [f \in RequestFields |-> 0]

Plain ==
    [filename |-> "empty", inputMode |-> 0, outputMode |-> 2, source |-> 100, encoded |-> 400,
     sourceUTF8 |-> TRUE, textsUTF8 |-> TRUE, capabilities |-> TRUE, limits |-> NoLimits,
     maxStack |-> 0]

MCRequests ==
    {Plain,
     [Plain EXCEPT !.limits = [NoLimits EXCEPT !["MaxHostResponseBytes"] = 256,
                                               !["MaxStack"] = -1], !.maxStack = 7],
     [Plain EXCEPT !.maxStack = -1],
     [Plain EXCEPT !.limits = [NoLimits EXCEPT !["MaxStack"] = 4097]],
     [Plain EXCEPT !.limits = [NoLimits EXCEPT !["MaxHostResponseBytes"] = 255]],
     [Plain EXCEPT !.filename = "illegal"],
     [Plain EXCEPT !.inputMode = 1],
     [Plain EXCEPT !.inputMode = 1, !.source = 0],
     [Plain EXCEPT !.outputMode = 3],
     [Plain EXCEPT !.sourceUTF8 = FALSE],
     [Plain EXCEPT !.textsUTF8 = FALSE],
     [Plain EXCEPT !.capabilities = FALSE],
     [Plain EXCEPT !.source = 262145, !.encoded = 262445],
     [Plain EXCEPT !.encoded = 524289],
     [Plain EXCEPT !.encoded = 16777217]}

\* An error of 40 000 characters, a third of them escaped to six bytes each, and a short
\* one, which fits all answers but the least, and fills that one to the byte once its last
\* character is cut.
MCErrors ==
    {[envelope |-> 31, times |-> 10000,
      pattern |-> <<[utf8 |-> 1, json |-> 1], [utf8 |-> 2, json |-> 2],
                    [utf8 |-> 1, json |-> 6], [utf8 |-> 3, json |-> 3]>>],
     [envelope |-> 32, times |-> 113, pattern |-> <<[utf8 |-> 1, json |-> 2]>>]}
=============================================================================
