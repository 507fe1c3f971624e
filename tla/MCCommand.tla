------------------------------- MODULE MCCommand -------------------------------
(* A small instance of Command for TLC. *)
EXTENDS Command

MCNames == <<<<"..", "x">>, <<"a">>, <<"d">>, <<"d", "f">>>>

\* A result and its successor, a file where the other has a directory, an unsafe name.
MCMultiResults ==
    {<<"a">> :> <<"1">> @@ <<"d", "f">> :> <<"1">>,
     <<"a">> :> <<"2", "2">> @@ <<"d", "f">> :> <<"1">>,
     <<"a">> :> <<"1">> @@ <<"d">> :> <<"2">>, <<"d">> :> <<>> @@ <<"d", "f">> :> <<"1">>,
     <<"..", "x">> :> <<"1">> @@ <<"a">> :> <<"2">>}

MCDocuments == {<<>>, <<<<"1">>>>, <<<<"1">>, <<"2">>>>}

MCPayloads == UNION {[1..n -> 0..2] : n \in 0..6}

Bare ==
    [file |-> None, flags |-> <<>>, print |-> FALSE, multi |-> FALSE, stream |-> FALSE,
     omit |-> FALSE, toFile |-> FALSE, create |-> FALSE, noCache |-> TRUE, explicitCache |-> FALSE,
     input |-> "file", root |-> FALSE, jpath |-> FALSE, sizes |-> {}]

Flag(f, d, s) == [field |-> f, digits |-> d, scale |-> s]

Evaluating ==
    {[Bare EXCEPT !.multi = TRUE, !.toFile = TRUE, !.create = TRUE],
     [Bare EXCEPT !.multi = TRUE, !.input = "stdin", !.noCache = FALSE],
     [Bare EXCEPT !.toFile = TRUE, !.noCache = FALSE, !.explicitCache = TRUE],
     [Bare EXCEPT !.stream = TRUE, !.toFile = TRUE, !.create = TRUE, !.jpath = TRUE]}

Failing ==
    {[Bare EXCEPT !.multi = TRUE, !.stream = TRUE], [Bare EXCEPT !.create = TRUE],
     [Bare EXCEPT !.stream = TRUE, !.omit = TRUE],
     [Bare EXCEPT !.explicitCache = TRUE],
     [Bare EXCEPT !.sizes = {10, 2049}, !.flags = <<Flag("MaxSourceBytes", 2, 1024)>>],
     [Bare EXCEPT !.input = "exec", !.jpath = TRUE]}

\* Flags over a file, the last of two flags, zero and negative fields of a file, sizes at
\* the edge of both words.
Printing ==
    {[Bare EXCEPT !.print = TRUE, !.file = p.file, !.flags = p.flags] :
        p \in [file : {None, "MaxStack" :> 5 @@ "MaxSourceBytes" :> 0 @@ "MaxFuel" :> 9},
               flags : {<<>>, <<Flag("MaxSourceBytes", 3, 1000), Flag("MaxSourceBytes", 2, 1024)>>,
                        <<Flag("MaxStack", 7, 1)>>}]
             \cup [file : {None, "MaxStack" :> -1},
                   flags : {<<>>, <<Flag("MaxStack", 0, 1)>>,
                            <<Flag("MaxImportBytes", 1048577, 1024)>>,
                            <<Flag("MaxMemoryBytes", 1048575, 1024)>>,
                            <<Flag("MaxMemoryBytes", 64, 1048576), Flag("MaxImports", 2, 1000)>>,
                            <<Flag("MaxTraceBytes", 131072, 1024)>>,
                            <<Flag("MaxOutputBytes", 65536, 1024)>>}]}

MCInvocations == Evaluating \cup Failing \cup Printing
=============================================================================
