-------------------------------- MODULE Command --------------------------------
(***************************************************************************)
(* The sonnetbox command (cli.go, policy.go, errors.go): it resolves its   *)
(* policy, reads what the operator granted, evaluates once, and writes the *)
(* result; when the result is of several files, a line of the manifest and *)
(* then a file at a time.                                                  *)
(*                                                                         *)
(* Nothing of this is atomic.  Any call may fail, the process may be       *)
(* killed between any two steps, and what it wrote stays for the next one: *)
(* a file truncated and not yet filled is torn.  The machine itself does   *)
(* not crash: nothing is synced, so after that some of the writes are      *)
(* lost, the earlier perhaps and not the later.  A directory and a file    *)
(* cannot have the same name.                                              *)
(*                                                                         *)
(* A name is its segments.  A line, of the manifest or of a document, is   *)
(* written as a name too.  The -o file is outside the directory of -m.     *)
(***************************************************************************)
EXTENDS Policy, Wire

CONSTANTS
    Invocations,    \* the command lines
    MultiResults,   \* what a template for -m may come to: contents by name
    Documents,      \* what another may come to: a sequence of documents
    Names,          \* the names beneath the directory of -m, in the order of sort.Strings
    MaxStarts       \* how many times the command is started

ASSUME StartsAssumption == MaxStarts \in Nat

\* The separators of a stream are named, since no prover knows a literal to be in STRING.
Words == STRING \cup {"---", "..."}
Lines == Seq(Words)
ASSUME NamesAssumption ==
    Names \in Seq(Lines) /\ \A i, j \in 1..Len(Names) : Names[i] = Names[j] => i = j
ASSUME DocumentsAssumption == Documents \subseteq Seq(Lines)

\* A suffix multiplies, and a policy file sets ceilings to whole numbers.
ASSUME InvocationsAssumption ==
    \A i \in Invocations :
        /\ i.flags \in Seq([field : STRING, digits : Nat, scale : Nat \ {0}])
        /\ DOMAIN i.file \subseteq Fields
        /\ \A f \in DOMAIN i.file : i.file[f] \in Int

VARIABLES
    pc,        \* where the process is
    inv,       \* its command line
    policy,    \* the effective policy
    opened,    \* what it holds open, in the order it was opened
    result,    \* what the evaluation came to: lines to write, and files
    sink,      \* the lines written, to the -o file or to stdout
    placed,    \* the files truncated or created
    status,    \* the exit status
    out,       \* the -o file
    disk,      \* the directory of -m
    starts     \* how many times the command was started

vars == <<pc, inv, policy, opened, result, sink, placed, status, out, disk, starts>>

Absent == <<"(absent)">>
Dir    == <<"(directory)">>
Torn   == <<"(torn)">>       \* whatever is in it: equal to no content
NoFile == <<Absent>>
None   == [x \in {} |-> 0]

\* What a file contains is not what stands for no content.
ASSUME ResultsAssumption ==
    \A files \in MultiResults :
        \E among \in SUBSET ToSet(Names) : files \in [among -> Lines \ {Absent, Dir, Torn}]

Init ==
    /\ pc = "idle" /\ inv = None /\ policy = None /\ opened = <<>> /\ result = None
    /\ sink = <<>> /\ placed = {} /\ status = 0 /\ starts = 0
    /\ out = NoFile
    /\ disk = [n \in ToSet(Names) |-> Absent]

Disks == <<out, disk>>

Exit(s) == pc' = "leaving" /\ status' = s

-----------------------------------------------------------------------------
(* Before the evaluation                                                   *)

Start ==
    /\ pc \in {"idle", "exited", "killed"}
    /\ starts < MaxStarts
    /\ starts' = starts + 1
    /\ inv' \in Invocations
    /\ pc' = "started"
    /\ policy' = None /\ opened' = <<>> /\ result' = None /\ sink' = <<>> /\ placed' = {}
    /\ status' = 0
    /\ UNCHANGED Disks

\* parseArgs: every policy flag parses, and no two options contradict each other, though
\* --print-policy is not asked about the output.
WellFormed(i) ==
    /\ \A k \in 1..Len(i.flags) : Parses(i.flags[k])
    /\ ~(i.explicitCache /\ i.noCache)
    /\ \/ i.print
       \/ /\ ~(i.stream /\ i.multi) /\ ~(i.stream /\ i.omit)
          /\ i.create => i.toFile \/ i.multi

ParseArgs ==
    /\ pc = "started"
    /\ IF WellFormed(inv) THEN pc' = "resolving" /\ UNCHANGED status ELSE Exit(1)
    /\ UNCHANGED <<inv, policy, opened, result, sink, placed, starts, Disks>>

\* --print-policy prints what an evaluation would run under, and ends.
ResolvePolicy ==
    LET asked == resolvePolicy(inv.file, inv.flags)
    IN  /\ pc = "resolving"
        /\ IF ~ConfigAccepted(asked)
           THEN Exit(1) /\ UNCHANGED policy
           ELSE /\ policy' = normalizeConfig(asked)
                /\ IF inv.print THEN Exit(0) ELSE pc' = "reading" /\ UNCHANGED status
        /\ UNCHANGED <<inv, opened, result, sink, placed, starts, Disks>>

\* fileWorkspace: a file input without --root grants its own directory.
HasRoot(i) == i.input = "file" \/ i.root

\* loadVarFiles, prepareInput: no file and no standard input beyond the source limit.
ReadInputs ==
    /\ pc = "reading"
    /\ IF /\ \A size \in inv.sizes : size <= policy["MaxSourceBytes"]
          /\ inv.jpath => HasRoot(inv)
       THEN /\ pc' = "caching"
            /\ opened' = IF HasRoot(inv) THEN <<"importer">> ELSE <<>>
            /\ UNCHANGED status
       ELSE Exit(1) /\ UNCHANGED opened
    /\ UNCHANGED <<inv, policy, result, sink, placed, starts, Disks>>

\* A cache the operator did not name is an optimization: without it the command goes on.
OpenCache ==
    /\ pc = "caching"
    /\ \/ ~inv.noCache /\ opened' = Append(opened, "cache")
       \/ ~inv.explicitCache /\ UNCHANGED opened
    /\ pc' = "creating"
    /\ UNCHANGED <<inv, policy, result, sink, placed, status, starts, Disks>>

NewEngine ==
    /\ pc = "creating"
    /\ ConfigAccepted(policy)
    /\ policy' = normalizeConfig(policy)
    /\ opened' = Append(opened, "engine")
    /\ pc' = "evaluating"
    /\ UNCHANGED <<inv, result, sink, placed, status, starts, Disks>>

-----------------------------------------------------------------------------
(* The evaluation                                                          *)

\* What writeResult writes for a stream.
StreamLines(documents) ==
    IF documents = <<>> THEN <<>>
    ELSE [k \in 1..2 * Len(documents) + 1 |->
             IF k = 2 * Len(documents) + 1 THEN <<"...">>
             ELSE IF k % 2 = 1             THEN <<"---">>
             ELSE documents[k \div 2]]

\* The names of the files, in their order.
Sorted(files) ==
    LET upTo[k \in 0..Len(Names)] ==
            CASE k = 0 -> <<>>
              [] k > 0 /\ Names[k] \in DOMAIN files -> Append(upTo[k - 1], Names[k])
              [] OTHER -> upTo[k - 1]
    IN  upTo[Len(Names)]

\* The guest frames several outputs, and the host unframes them; one output is sent bare.
EvaluationSucceeds ==
    /\ pc = "evaluating"
    /\ pc' = "tracing"
    /\ \/ /\ inv.multi
          /\ \E files \in MultiResults :
             \E received \in DecodeMultiOutput(EncodeMultiOutput(Sorted(files), files)) :
                result' = [files |-> received, lines |-> Sorted(received)]
       \/ /\ inv.stream
          /\ \E documents \in Documents :
             \E received \in DecodeStreamOutput(EncodeStreamOutput(documents)) :
                result' = [files |-> None, lines |-> StreamLines(received)]
       \/ /\ ~inv.multi /\ ~inv.stream
          /\ \E document \in UNION {ToSet(d) : d \in Documents} :
                result' = [files |-> None, lines |-> <<document>>]
    /\ UNCHANGED <<inv, policy, opened, sink, placed, status, starts, Disks>>

\* classifyError: the first of these an error wraps, and 1 for every other.
Classes == <<[kind |-> "cancellation", status |-> 5], [kind |-> "limit", status |-> 3],
             [kind |-> "import_denied", status |-> 4], [kind |-> "import", status |-> 1],
             [kind |-> "capability", status |-> 1], [kind |-> "evaluation", status |-> 2]>>

classifyError(wrapped) ==
    LET found == {k \in 1..Len(Classes) : Classes[k].kind \in wrapped}
    IN  IF found = {} THEN 1 ELSE Classes[CHOOSE k \in found : \A j \in found : k <= j].status

EvaluationErrors ==
    {{"cancellation"}, {"limit"}, {"import_denied"}, {"evaluation"}, {"guest_trap"},
     {"capability", "limit"}, {"import", "cancellation"}}

\* The deadline of --timeout covers this step alone; the trace of a failure is dropped.
EvaluationFails ==
    /\ pc = "evaluating"
    /\ \E wrapped \in EvaluationErrors : Exit(classifyError(wrapped))
    /\ UNCHANGED <<inv, policy, opened, result, sink, placed, starts, Disks>>

WriteTrace ==
    /\ pc = "tracing"
    /\ pc' = "opening"
    /\ UNCHANGED <<inv, policy, opened, result, sink, placed, status, starts, Disks>>

-----------------------------------------------------------------------------
(* writeResult, writeMulti                                                 *)

\* validateOutputName
Safe(n) == n # <<>> /\ \A k \in 1..Len(n) : n[k] \notin {"", ".", ".."}

\* outputWriter truncates the -o file; only then are the names of the result looked at.
OpenSink ==
    /\ pc = "opening"
    /\ out' = IF inv.toFile THEN <<>> ELSE out
    /\ IF \A n \in DOMAIN result.files : Safe(n)
       THEN pc' = "writing" /\ UNCHANGED status
       ELSE Exit(1)
    /\ UNCHANGED <<inv, policy, opened, result, sink, placed, starts, disk>>

\* Mutant of WriteLine: the manifest is buffered.
WriteLineBuffered ==
    /\ pc = "writing"
    /\ Len(sink) < Len(result.lines)
    /\ sink' = Append(sink, result.lines[Len(sink) + 1])
    /\ out' = out
    /\ pc' = IF inv.multi THEN "placing" ELSE "writing"
    /\ UNCHANGED <<inv, policy, opened, result, placed, status, starts, disk>>

WriteLine ==
    /\ pc = "writing"
    /\ Len(sink) < Len(result.lines)
    /\ sink' = Append(sink, result.lines[Len(sink) + 1])
    /\ out' = IF inv.toFile THEN sink' ELSE out
    /\ pc' = IF inv.multi THEN "placing" ELSE "writing"
    /\ UNCHANGED <<inv, policy, opened, result, placed, status, starts, disk>>

File    == Last(sink)
Content == result.files[File]
Parents(n) == {SubSeq(n, 1, k) : k \in 1..Len(n) - 1}

\* Mutant of Same: a file that is there is taken for written.
SameName == disk[File] \notin {Absent, Dir}

\* Mutant of Same: every file is written again.
SameNever == FALSE

\* The file is there already with these bytes, and is left alone.
Same == disk[File] = Content

\* It cannot be read, for another reason than that it is not there.
Blocked == disk[File] = Dir \/ \E p \in Parents(File) : disk[p] \notin {Absent, Dir}

Place ==
    /\ pc = "placing"
    /\ \/ Same /\ pc' = "writing" /\ UNCHANGED <<status, disk>>
       \/ ~Same /\ Blocked /\ Exit(1) /\ UNCHANGED disk
       \/ /\ ~Same /\ ~Blocked
          /\ pc' = "truncating"
          /\ disk' = IF inv.create
                     THEN [n \in DOMAIN disk |-> IF n \in Parents(File) THEN Dir ELSE disk[n]]
                     ELSE disk
          /\ UNCHANGED status
    /\ UNCHANGED <<inv, policy, opened, result, sink, placed, starts, out>>

Truncate ==
    /\ pc = "truncating"
    /\ \A p \in Parents(File) : disk[p] = Dir
    /\ disk' = [disk EXCEPT ![File] = Torn]
    /\ placed' = placed \cup {File}
    /\ pc' = "filling"
    /\ UNCHANGED <<inv, policy, opened, result, sink, status, starts, out>>

Fill ==
    /\ pc = "filling"
    /\ disk' = [disk EXCEPT ![File] = Content]
    /\ pc' = "writing"
    /\ UNCHANGED <<inv, policy, opened, result, sink, placed, status, starts, out>>

Finish ==
    /\ pc = "writing"
    /\ Len(sink) = Len(result.lines)
    /\ Exit(0)
    /\ UNCHANGED <<inv, policy, opened, result, sink, placed, starts, Disks>>

-----------------------------------------------------------------------------
(* The end                                                                 *)

Calling == {"resolving", "reading", "creating", "tracing", "opening", "writing", "placing",
            "truncating", "filling"}

\* A call fails; a NewEngine whose context was done says so.
CallFails ==
    /\ pc \in Calling \/ (pc = "caching" /\ inv.explicitCache)
    /\ \E s \in {1} \cup (IF pc = "creating" THEN {5} ELSE {}) : Exit(s)
    /\ UNCHANGED <<inv, policy, opened, result, sink, placed, starts, Disks>>

\* The deferred calls of execute, and then the exit.
Release ==
    /\ pc = "leaving"
    /\ opened' = IF opened = <<>> THEN <<>> ELSE Front(opened)
    /\ pc' = IF opened = <<>> THEN "exited" ELSE "leaving"
    /\ UNCHANGED <<inv, policy, result, sink, placed, status, starts, Disks>>

\* The process dies, of a signal that is not handled: nothing deferred runs, and what it
\* wrote stays.
Kill ==
    /\ pc \notin {"idle", "exited", "killed"}
    /\ pc' = "killed"
    /\ opened' = <<>>
    /\ UNCHANGED <<inv, policy, result, sink, placed, status, starts, Disks>>

Next ==
    \/ Start \/ ParseArgs \/ ResolvePolicy \/ ReadInputs \/ OpenCache \/ NewEngine
    \/ EvaluationSucceeds \/ EvaluationFails \/ WriteTrace
    \/ OpenSink \/ WriteLine \/ Place \/ Truncate \/ Fill \/ Finish
    \/ CallFails \/ Release \/ Kill

Spec == Init /\ [][Next]_vars

-----------------------------------------------------------------------------
(* Properties                                                              *)

\* The policy an evaluation runs under, and --print-policy prints, is to the byte what the
\* operator asked for and never what a product wrapped to, and a second normalization, by
\* NewEngine, accepts it and changes nothing.
PolicyInForce ==
    policy # None =>
        /\ ConfigAccepted(policy) /\ normalizeConfig(policy) = policy
        /\ \A f \in Fields : policy[f] = Asked(f, inv.file, inv.flags)

\* Every file this run truncated is in the manifest, and the manifest is in its file, at
\* every moment, so also when the process is killed.
ListedBeforeWritten ==
    /\ placed \subseteq ToSet(sink)
    /\ sink # <<>> /\ inv.toFile => out = sink

\* Status 0 means that all of the result is where it belongs, whatever earlier runs that
\* were killed or failed had left there.
DoneMeansWritten ==
    pc = "exited" /\ status = 0 /\ result # None =>
        /\ sink = result.lines
        /\ inv.toFile => out = result.lines
        /\ \A n \in DOMAIN result.files : disk[n] = result.files[n]

\* What the guest frames for a result means that result and nothing else.
ResultsExact == \A files \in MultiResults : Exact(EncodeMultiOutput(Sorted(files), files))

\* A text the guest frames arrives as it was, and what arrives means one thing only, for
\* every payload and every result: no length or count is off by one, no payload cut short
\* is taken for a whole one, and no file or document is lost on the way to this run.
FramesExact ==
    /\ RoundTrips /\ PayloadsExact /\ ResultsExact
    /\ result # None =>
        /\ result.files \in MultiResults \cup {None}
        /\ inv.stream => \E documents \in Documents : result.lines = StreamLines(documents)

\* A file that has its bytes already is not rewritten, so what watches it sees no change
\* and the death of the process cannot tear it.
UnchangedKept ==
    [][result' # None =>
         \A n \in DOMAIN result'.files :
             disk[n] = result'.files[n] => disk'[n] = disk[n]]_vars
=============================================================================
