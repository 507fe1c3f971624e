----------------------- MODULE WorkspaceImporterProofs ------------------------
(***************************************************************************)
(* Theorems about the roots of a WorkspaceImporter, the names of files,    *)
(* where an import is searched for, and the two hosts' resolving of it,    *)
(* for any mounts, files, declarations and paths.                          *)
(***************************************************************************)
EXTENDS WorkspaceImporter, SequenceTheorems, DataInduction

Roots == Mounts \cup {Primary}

Declarations == [mount : Roots, path : Seq(STRING)]
SearchPaths  == [root : Roots, directory : Seq(STRING)]

\* The mounts of the first n declarations.
Granted(n) == {config[i].mount : i \in 1..n} \ {NoMount}

Typed ==
    /\ disk \in [Dirs -> SUBSET Files]
    /\ config \in Seq(Declarations)
    /\ mounts \in Seq(Mounts)
    /\ searches \in Seq(SearchPaths)
    /\ Len(searches) <= Len(config)

\* A call is a record with these fields.
CallShape ==
    call = [from |-> call.from, path |-> call.path, left |-> call.left, tried |-> call.tried,
            answer |-> call.answer, file |-> call.file]

\* The roots of an importer under construction are those of the declarations it has
\* come to, and it is not used before it is complete.
Construction ==
    /\ ToSet(mounts) = Granted(Len(searches))
    /\ phase = "declaring" => searches = <<>> /\ mounts = <<>>
    /\ phase \in {"declaring", "failed", "closed"} => roots = {}
    /\ phase \in {"opening", "open"} => roots = {Primary} \cup ToSet(mounts)
    /\ phase = "open" => Len(searches) = Len(config)
    /\ roots \subseteq {Primary} \cup ToSet(mounts)
    /\ phase \in {"declaring", "opening"} => call = NoCall

\* The workspace has no entry of a mount's name, but those that appeared.
Freed == \A m \in ToSet(mounts) : HasEntry(m) => m \in appeared

\* What is known of a served file.
Served ==
    call.answer = "served" =>
        /\ call.file.relative \in Files
        /\ \/ call.file.root \in ToSet(mounts)
           \/ /\ call.file.root = Primary
              /\ call.file.relative[1] \in ToSet(mounts) => call.file.relative[1] \in appeared

IInv == Typed /\ CallShape /\ Construction /\ Freed /\ Served

-----------------------------------------------------------------------------
(* Sequences                                                               *)

\* What Append does.
LEMMA Appended ==
  ASSUME NEW S, NEW s \in Seq(S), NEW x \in S
  PROVE  /\ Append(s, x) \in Seq(S)
         /\ Len(Append(s, x)) = Len(s) + 1
         /\ ToSet(Append(s, x)) = ToSet(s) \cup {x}
<1>1. /\ Append(s, x) \in Seq(S) /\ Len(Append(s, x)) = Len(s) + 1
      /\ DOMAIN Append(s, x) = 1..(Len(s) + 1) /\ DOMAIN s = 1..Len(s)
      /\ Len(s) \in Nat
      /\ \A i \in 1..Len(s) : Append(s, x)[i] = s[i]
      /\ Append(s, x)[Len(s) + 1] = x
  OBVIOUS
<1>2. QED
  BY <1>1 DEF ToSet

\* The elements of a sequence.
LEMMA Elements ==
  ASSUME NEW S, NEW s \in Seq(S)
  PROVE  /\ Len(s) \in Nat
         /\ \A i \in 1..Len(s) : s[i] \in S
OBVIOUS

-----------------------------------------------------------------------------
(* Paths                                                                   *)

\* A path is its directory and its last segment.
LEMMA FrontAndLast ==
  ASSUME NEW S, NEW p \in Seq(S), p # <<>>
  PROVE  /\ Front(p) \in Seq(S)
         /\ Front(p) \o <<p[Len(p)]>> = p
BY DEF Front

\* The segments of a path below a mount.
LEMMA BelowMount ==
  ASSUME NEW S, NEW p \in Seq(S), p # <<>>, NEW m \in S
  PROVE  LET name == <<m>> \o p
         IN  /\ Len(name) > 1
             /\ name[1] = m
             /\ Tail(name) = p
             /\ name[Len(name)] = p[Len(p)]
<1> DEFINE name == <<m>> \o p
<1>1. <<m>> \in Seq(S) /\ Len(<<m>>) = 1 /\ <<m>>[1] = m
  <2>1. <<m>> \in Seq(S)
    OBVIOUS
  <2>2. Len(<<m>>) = 1
    OBVIOUS
  <2>3. <<m>>[1] = m
    OBVIOUS
  <2>4. QED
    BY <2>1, <2>2, <2>3
<1>p. Len(p) \in Nat /\ Len(p) > 0
  <2>1. Len(p) \in Nat
    OBVIOUS
  <2>2. Len(p) # 0
    OBVIOUS
  <2>3. QED
    BY <2>1, <2>2
<1>2. /\ name \in Seq(S)
      /\ Len(name) = 1 + Len(p)
      /\ name[1] = m
      /\ \A i \in 2..Len(name) : name[i] = p[i - 1]
  <2>1. name \in Seq(S) /\ Len(name) = 1 + Len(p)
    BY <1>1, ConcatProperties
  <2>2. \A i \in 1..Len(name) : name[i] = IF i <= 1 THEN <<m>>[i] ELSE p[i - 1]
    BY <1>1, <1>p, <2>1, ConcatProperties
  <2>3. name[1] = m
    BY <1>1, <1>p, <2>1, <2>2
  <2>4. \A i \in 2..Len(name) : name[i] = p[i - 1]
    <3> HIDE DEF name
    <3>1. QED
      BY <1>p, <2>1, <2>2
  <2>5. QED
    BY <2>1, <2>3, <2>4
<1> HIDE DEF name
<1>3. Tail(name) \in Seq(S) /\ Len(Tail(name)) = Len(p)
      /\ \A i \in 1..Len(p) : Tail(name)[i] = name[i + 1]
  BY <1>p, <1>2, HeadTailProperties
<1>4. \A i \in 1..Len(p) : Tail(name)[i] = p[i]
  BY <1>p, <1>2, <1>3
<1>5. Tail(name) = p
  BY <1>3, <1>4, SeqEqual
<1>6. Len(name) > 1 /\ name[Len(name)] = p[Len(p)]
  BY <1>p, <1>2
<1>7. QED
  BY <1>2, <1>5, <1>6 DEF name

\* A file's name leads back to it, if its root is known by what stands first in it.
LEMMA NameLeadsBack ==
  ASSUME Typed, NEW file, file.relative \in Files,
         \/ file.root \in ToSet(mounts)
         \/ file.root = Primary /\ file.relative[1] \notin ToSet(mounts)
  PROVE  LET name == Virtual(file)
             at   == Locate(name)
         IN  at.root = file.root /\ at.directory \o <<name[Len(name)]>> = file.relative
<1> DEFINE rel == file.relative
           name == Virtual(file)
<1>1. rel \in Seq(STRING) /\ rel # <<>>
  BY PathAssumption
<1>2. Front(rel) \o <<rel[Len(rel)]>> = rel
  BY <1>1, FrontAndLast
<1>3. CASE file.root \in ToSet(mounts)
  <2>0. ToSet(mounts) \subseteq Mounts
    BY DEF Typed, ToSet
  <2>1. file.root \in STRING /\ file.root # Primary
    BY <1>3, <2>0, PathAssumption DEF Primary
  <2>2. name = <<file.root>> \o rel
    BY <2>1 DEF Virtual
  <2>3. Len(name) > 1 /\ name[1] = file.root /\ Tail(name) = rel /\ name[Len(name)] = rel[Len(rel)]
    BY <1>1, <2>1, <2>2, BelowMount
  <2>4. Locate(name) = [root |-> file.root, directory |-> Front(rel)]
    BY <1>1, <1>3, <2>3 DEF Locate, VirtualDirectory
  <2>5. QED
    BY <1>2, <2>3, <2>4
<1>4. CASE file.root = Primary /\ rel[1] \notin ToSet(mounts)
  <2>1. name = rel
    BY <1>4 DEF Virtual
  <2>2. Locate(name) = [root |-> Primary, directory |-> Front(rel)]
    BY <1>1, <1>4, <2>1 DEF Locate, VirtualDirectory
  <2>3. QED
    BY <1>2, <1>4, <2>1, <2>2
<1>5. QED
  BY <1>3, <1>4

-----------------------------------------------------------------------------
(* The invariant                                                           *)

\* The initial states.
LEMMA Initially == Init => IInv
<1> SUFFICES ASSUME Init PROVE IInv
  OBVIOUS
<1>1. Typed
  BY DEF Init, Typed
<1>2. CallShape
  BY DEF Init, CallShape, NoCall
<1>3. ToSet(mounts) = {} /\ Granted(Len(searches)) = {}
  BY DEF Init, ToSet, Granted
<1>4. Construction
  BY <1>3 DEF Init, Construction
<1>5. QED
  BY <1>1, <1>2, <1>3, <1>4 DEF Init, NoCall, IInv, Freed, Served

\* A declaration is appended to those before it.
LEMMA DeclareStep ==
  ASSUME IInv, NEW ok, NEW declared \in Declarations, Declare(ok, declared)
  PROVE  IInv'
<1> USE DEF IInv, Declare
<1>1. config' \in Seq(Declarations) /\ Len(config') >= Len(config)
  <2>1. config \in Seq(Declarations)
    BY DEF Typed
  <2>2. config' = config \/ config' = Append(config, declared)
    OBVIOUS
  <2>3. QED
    BY <2>1, <2>2, Appended, Elements
<1>2. Typed'
  BY <1>1 DEF Typed
<1>3. Granted(Len(searches))' = {}
  <2>1. searches' = <<>>
    BY DEF Construction
  <2>2. QED
    BY <2>1 DEF Granted
<1>4. Construction'
  BY <1>3 DEF Construction, Granted, ToSet
<1>5. CallShape' /\ Freed' /\ Served'
  BY DEF CallShape, Freed, HasEntry, Served
<1>6. QED
  BY <1>2, <1>4, <1>5

\* The roots opened so far are those of the declarations passed.
LEMMA AddSearchPathStep ==
  ASSUME IInv, AddSearchPath
  PROVE  IInv'
<1> USE DEF IInv
<1> DEFINE n        == Len(searches)
           declared == config[n + 1]
<1>1. /\ n \in Nat /\ n + 1 \in 1..Len(config)
      /\ declared.mount \in Roots /\ declared.path \in Seq(STRING)
  <2>1. config \in Seq(Declarations) /\ searches \in Seq(SearchPaths) /\ n < Len(config)
    BY DEF AddSearchPath, Typed
  <2>2. n \in Nat /\ n + 1 \in 1..Len(config)
    BY <2>1, Elements
  <2>3. declared \in Declarations
    BY <2>1, <2>2, Elements
  <2>4. QED
    BY <2>2, <2>3 DEF Declarations
<1>2. Granted(n + 1) = Granted(n) \cup ({declared.mount} \ {NoMount})
  <2>1. 1..(n + 1) = 1..n \cup {n + 1}
    BY <1>1
  <2>2. QED
    BY <2>1 DEF Granted
<1>3. /\ phase = "opening" /\ call = NoCall
      /\ UNCHANGED <<disk, config, appeared, call>>
  BY DEF AddSearchPath, Construction
<1>4. CASE /\ declared.mount = NoMount
           /\ searches' = Append(searches, [root |-> Primary, directory |-> declared.path])
           /\ UNCHANGED <<phase, mounts, roots>>
  <2>1. searches' \in Seq(SearchPaths) /\ Len(searches') = n + 1
    <3>1. [root |-> Primary, directory |-> declared.path] \in SearchPaths
      BY <1>1 DEF SearchPaths, Roots
    <3>2. searches \in Seq(SearchPaths)
      BY DEF Typed
    <3>3. QED
      BY <1>4, <3>1, <3>2, Appended
  <2>2. Typed'
    BY <1>1, <1>3, <1>4, <2>1 DEF Typed
  <2>3. ToSet(mounts)' = Granted(Len(searches))'
    <3>1. Granted(n + 1) = Granted(n)
      BY <1>2, <1>4
    <3>2. Granted(Len(searches))' = Granted(n + 1)
      BY <1>3, <2>1 DEF Granted
    <3>3. ToSet(mounts)' = ToSet(mounts)
      BY <1>4 DEF ToSet
    <3>4. QED
      BY <3>1, <3>2, <3>3 DEF Construction
  <2>4. Construction'
    BY <1>3, <1>4, <2>3 DEF Construction, ToSet
  <2>5. QED
    BY <1>3, <1>4, <2>2, <2>4 DEF CallShape, Freed, HasEntry, Served, ToSet
<1>5. CASE /\ declared.mount # NoMount /\ MountIsFree(declared.mount)
           /\ mounts' = Append(mounts, declared.mount)
           /\ searches' = Append(searches, [root |-> declared.mount, directory |-> <<>>])
           /\ roots' = roots \cup {declared.mount}
           /\ UNCHANGED phase
  <2>1. searches' \in Seq(SearchPaths) /\ Len(searches') = n + 1
    <3>1. [root |-> declared.mount, directory |-> <<>>] \in SearchPaths
      BY <1>1 DEF SearchPaths
    <3>2. searches \in Seq(SearchPaths)
      BY DEF Typed
    <3>3. QED
      BY <1>5, <3>1, <3>2, Appended
  <2>2. declared.mount \in Mounts
    BY <1>1, <1>5 DEF Roots, Primary
  <2>3. mounts' \in Seq(Mounts) /\ ToSet(mounts') = ToSet(mounts) \cup {declared.mount}
    <3>1. mounts \in Seq(Mounts)
      BY DEF Typed
    <3>2. QED
      BY <1>5, <2>2, <3>1, Appended
  <2>4. Typed'
    BY <1>1, <1>3, <2>1, <2>3 DEF Typed
  <2>5. ToSet(mounts') = Granted(Len(searches))'
    <3>1. Granted(Len(searches))' = Granted(n + 1)
      BY <1>3, <2>1 DEF Granted
    <3>2. QED
      BY <1>2, <1>5, <2>3, <3>1 DEF Construction
  <2>6. Construction'
    BY <1>3, <1>5, <2>3, <2>5 DEF Construction
  <2>7. Freed'
    BY <1>3, <1>5, <2>3 DEF Freed, HasEntry, MountIsFree
  <2>8. QED
    BY <1>3, <2>4, <2>6, <2>7 DEF CallShape, Served, NoCall
<1>6. CASE FailOpening /\ UNCHANGED <<mounts, searches, roots>>
  <2>1. Typed' /\ CallShape' /\ Freed' /\ Served'
    BY <1>3, <1>6 DEF Typed, CallShape, Freed, HasEntry, Served
  <2>2. Construction'
    BY <1>3, <1>6 DEF FailOpening, Construction, Granted
  <2>3. QED
    BY <2>1, <2>2
<1>7. QED
  BY <1>4, <1>5, <1>6 DEF AddSearchPath

\* Closing a root takes it from those that are open.
LEMMA CloseNextStep ==
  ASSUME IInv, CloseNext
  PROVE  IInv'
<1> USE DEF IInv
<1>1. Typed' /\ CallShape' /\ Freed' /\ Served'
  BY DEF CloseNext, Typed, CallShape, Freed, HasEntry, Served
<1>2. PICK root \in roots :
         /\ roots' = roots \ {root}
         /\ phase' = IF roots # {root} THEN phase
                     ELSE IF phase = "closing" THEN "closed" ELSE "failed"
  BY DEF CloseNext
<1>3. Construction'
  BY <1>2 DEF CloseNext, Construction, Granted
<1>4. QED
  BY <1>1, <1>3

\* An import leaves the importer as it is, and serves what it finds in an open root.
LEMMA ImportStep ==
  ASSUME IInv, \/ \E from \in Froms, p \in Imported : Begin(from, p)
               \/ Skip \/ Read \/ Missing \/ Return
  PROVE  IInv'
<1> USE DEF IInv
<1>1. UnchangedByImport
  BY DEF Begin, Skip, Read, Missing, Return
<1>2. Typed' /\ Freed'
  BY <1>1 DEF UnchangedByImport, Typed, Freed, HasEntry
<1>3. phase \notin {"declaring", "opening"}
  <2>1. CASE \E from \in Froms, p \in Imported : Begin(from, p)
    BY <2>1 DEF Begin
  <2>2. CASE Skip \/ Read \/ Missing \/ Return
    <3>1. NoCall.left = <<>> /\ NoCall.answer = "none"
      BY DEF NoCall
    <3>2. call # NoCall
      BY <2>2, <3>1 DEF Skip, Read, Missing, Return
    <3>3. QED
      BY <3>2 DEF Construction
  <2>3. QED
    BY <2>1, <2>2
<1>4. Construction'
  BY <1>1, <1>3 DEF UnchangedByImport, Construction, Granted
<1>5. CallShape' /\ Served'
  <2>1. CASE \E from \in Froms, p \in Imported : Begin(from, p)
    BY <2>1 DEF Begin, NoCall, CallShape, Served
  <2>2. CASE Skip
    BY <1>1, <2>2 DEF Skip, UnchangedByImport, CallShape, Served
  <2>3. CASE Missing
    <3>1. call' = [call EXCEPT !.answer = "missing", !.left = <<>>, !.file = call.file]
      BY <2>3 DEF Missing, Answer
    <3>2. QED
      BY <3>1 DEF CallShape, Served
  <2>4. CASE Return
    BY <2>4 DEF Return, NoCall, CallShape, Served
  <2>5. CASE Read
    <3> DEFINE file == call.left[1]
    <3>1. CASE /\ file.root \in roots /\ file.relative \in disk[DirOf(file.root)]
               /\ Answer("served", file)
      <4>1. file.root = Primary \/ file.root \in ToSet(mounts)
        BY <3>1 DEF Construction
      <4>2. DirOf(file.root) \in Dirs
        BY <4>1 DEF DirOf, Dirs, Typed, ToSet
      <4>3. file.relative \in Files
        BY <3>1, <4>2 DEF Typed
      <4>4. file.root = Primary /\ file.relative[1] \in ToSet(mounts)
            => file.relative[1] \in appeared
        BY <3>1 DEF Freed, HasEntry, DirOf
      <4>5. call'.answer = "served" /\ call'.file = file /\ CallShape'
        BY <3>1 DEF Answer, CallShape
      <4>6. QED
        BY <1>1, <4>1, <4>3, <4>4, <4>5 DEF UnchangedByImport, Served
    <3>2. CASE call' = [call EXCEPT !.left = Tail(call.left), !.tried = @ \cup {file}]
      BY <1>1, <3>2 DEF UnchangedByImport, CallShape, Served
    <3>3. CASE Answer("canceled", call.file) \/ Answer("unreadable", call.file)
      BY <3>3 DEF Answer, CallShape, Served
    <3>4. QED
      BY <2>5, <3>1, <3>2, <3>3 DEF Read
  <2>6. QED
    BY <2>1, <2>2, <2>3, <2>4, <2>5
<1>6. QED
  BY <1>2, <1>4, <1>5

\* What comes into the workspace under the name of a mount has appeared.
LEMMA DiskStep ==
  ASSUME IInv, NEW d \in Dirs, NEW f \in Files, AddFile(d, f) \/ RemoveFile(d, f)
  PROVE  IInv'
<1> USE DEF IInv
<1>1. Typed' /\ CallShape'
  BY DEF AddFile, RemoveFile, Typed, CallShape
<1>2. Construction' /\ appeared \subseteq appeared'
  BY DEF AddFile, RemoveFile, Construction, Granted
<1>3. Served'
  BY <1>2 DEF AddFile, RemoveFile, Served
<1>4. Freed'
  <2> SUFFICES ASSUME NEW m \in ToSet(mounts), HasEntry(m)' PROVE m \in appeared'
    BY DEF AddFile, RemoveFile, Freed
  <2>1. Workspace \in Dirs /\ phase # "declaring" /\ m \in Mounts
    BY DEF Dirs, Construction, Typed, ToSet
  <2>2. PICK g \in disk'[Workspace] : g[1] = m
    BY DEF HasEntry
  <2>3. CASE g \in disk[Workspace]
    BY <1>2, <2>2, <2>3 DEF Freed, HasEntry
  <2>4. CASE g \notin disk[Workspace]
    BY <2>1, <2>2, <2>4 DEF AddFile, RemoveFile, Typed
  <2>5. QED
    BY <2>3, <2>4
<1>5. QED
  BY <1>1, <1>2, <1>3, <1>4

\* Every step keeps the invariant.
LEMMA Inductive == IInv /\ [Next]_vars => IInv'
<1> SUFFICES ASSUME IInv, [Next]_vars PROVE IInv'
  OBVIOUS
<1>1. CASE UNCHANGED vars
  BY <1>1 DEF vars, IInv, Typed, CallShape, Construction, Granted, Freed, HasEntry, Served
<1>2. ASSUME NEW p \in LibraryPaths, WithLibraryPaths(p) PROVE IInv'
  <2>1. [path |-> p, mount |-> NoMount] \in Declarations
    BY PathAssumption DEF Declarations, Roots, Primary
  <2>2. QED
    BY <1>2, <2>1, DeclareStep DEF WithLibraryPaths
<1>3. ASSUME NEW m \in Mounts, WithSearchRoot(m) PROVE IInv'
  <2>1. [path |-> <<>>, mount |-> m] \in Declarations
    BY DEF Declarations, Roots
  <2>2. QED
    BY <1>3, <2>1, DeclareStep DEF WithSearchRoot
<1>4. CASE OpenPrimary
  <2>1. Typed' /\ CallShape' /\ Freed' /\ Served'
    BY <1>4 DEF OpenPrimary, IInv, Typed, CallShape, Freed, HasEntry, Served
  <2>2. Construction'
    BY <1>4 DEF OpenPrimary, IInv, Construction, Granted, ToSet
  <2>3. QED
    BY <2>1, <2>2 DEF IInv
<1>5. CASE AddSearchPath
  BY <1>5, AddSearchPathStep
<1>6. CASE Opened \/ Close
  BY <1>6 DEF Opened, Close, IInv, Typed, CallShape, Construction, Granted, Freed, HasEntry, Served
<1>7. CASE CloseNext
  BY <1>7, CloseNextStep
<1>8. CASE \/ \E from \in Froms, p \in Imported : Begin(from, p)
           \/ Skip \/ Read \/ Missing \/ Return
  BY <1>8, ImportStep
<1>9. ASSUME NEW d \in Dirs, NEW f \in Files, AddFile(d, f) \/ RemoveFile(d, f) PROVE IInv'
  BY <1>9, DiskStep
<1>10. QED
  BY <1>1, <1>2, <1>3, <1>4, <1>5, <1>6, <1>7, <1>8, <1>9 DEF Next

\* The invariant says what the properties say.
LEMMA InvariantSuffices == IInv => RootsOfImporter /\ NamesTellRoots
<1> SUFFICES ASSUME IInv PROVE RootsOfImporter /\ NamesTellRoots
  OBVIOUS
<1> USE DEF IInv
<1>1. RootsOfImporter
  <2>1. DOMAIN config = 1..Len(config)
    BY DEF Typed
  <2>2. QED
    BY <2>1 DEF Construction, Granted, RootsOfImporter
<1>2. NamesTellRoots
  <2> SUFFICES ASSUME call.answer = "served",
                      Virtual(call.file)[1] \notin appeared
               PROVE  LET name == Virtual(call.file)
                          at   == Locate(name)
                      IN  /\ at.root = call.file.root
                          /\ at.directory \o <<name[Len(name)]>> = call.file.relative
    BY DEF NamesTellRoots
  <2>1. call.file.root = Primary => Virtual(call.file) = call.file.relative
    BY DEF Virtual
  <2>2. \/ call.file.root \in ToSet(mounts)
        \/ call.file.root = Primary /\ call.file.relative[1] \notin ToSet(mounts)
    BY <2>1 DEF Served
  <2>3. QED
    BY <2>2, NameLeadsBack DEF Served
<1>3. QED
  BY <1>1, <1>2

-----------------------------------------------------------------------------
(* Resolving a path, segment by segment                                    *)

\* A recursion over the segments of a path stays among the paths.
LEMMA CleanedBySegment ==
  ASSUME NEW S, NEW p \in Seq(S)
  PROVE  \E f \in [0..Len(p) -> Seq(S)] :
            /\ f[0] = <<>>
            /\ \A i \in 1..Len(p) : f[i] = CleanOnto(f[i - 1], p[i])
            /\ Cleaned(p) = f[Len(p)]
<1> DEFINE n == Len(p)
           step == [i \in 1..n |-> [done \in Seq(S) |-> CleanOnto(done, p[i])]]
           Cleans(f) == f = [i \in 0..n |-> IF i = 0 THEN <<>> ELSE CleanOnto(f[i - 1], p[i])]
<1>1. n \in Nat /\ <<>> \in Seq(S) /\ \A i \in 1..n : p[i] \in S
  OBVIOUS
<1>2. Cleaned(p) = (CHOOSE f : Cleans(f))[n]
  BY Zenon DEF Cleaned
<1> HIDE DEF n
<1>3. ASSUME NEW i \in 1..n, NEW done \in Seq(S) PROVE CleanOnto(done, p[i]) \in Seq(S)
  <2>1. Append(done, p[i]) \in Seq(S)
    BY <1>1
  <2>2. done # <<>> => Front(done) \in Seq(S)
    BY FrontAndLast
  <2> QED
    BY <2>1, <2>2 DEF CleanOnto
<1>4. step \in [1..n -> [Seq(S) -> Seq(S)]]
  BY <1>3
<1>5. \A i \in 1..n, done \in Seq(S) : step[i][done] = CleanOnto(done, p[i])
  OBVIOUS
<1> HIDE DEF step
<1>6. PICK f \in [0..n -> Seq(S)] : Iterates(f, n, <<>>, step)
  BY <1>1, <1>4, Iteration
<1>7. f[0] = <<>> /\ \A i \in 1..n : f[i - 1] \in Seq(S) /\ f[i] = step[i][f[i - 1]]
  BY <1>1, <1>6 DEF Iterates
<1>8. \A i \in 1..n : f[i] = CleanOnto(f[i - 1], p[i])
  BY <1>5, <1>7
<1>9. Cleans(f)
  <2>1. f = [i \in 0..n |-> f[i]]
    OBVIOUS
  <2>2. \A i \in 0..n : f[i] = IF i = 0 THEN <<>> ELSE CleanOnto(f[i - 1], p[i])
    BY <1>1, <1>7, <1>8
  <2> QED
    BY <2>1, <2>2
<1> DEFINE g == CHOOSE h : Cleans(h)
<1>10. Cleans(g)
  BY <1>9
<1> HIDE DEF g
<1>11. g[0] = <<>> /\ \A i \in 1..n : g[i] = CleanOnto(g[i - 1], p[i])
  BY <1>1, <1>10
<1>12. GoOnAlike(f, g, n)
  BY <1>7, <1>8, <1>11 DEF GoOnAlike
<1>13. Alike(f, g, n)
  BY <1>1, <1>12, OneIteration
<1>14. Cleaned(p) = f[n]
  BY <1>1, <1>2, <1>13 DEF g, Alike
<1> QED
  BY <1>7, <1>8, <1>14 DEF n

\* The states of the Rust host's resolving.
JoinStates(S) == Seq(S) \cup {Escaped}

\* The same of the Rust host, whose stages are parts or an escape.
LEMMA JoinedBySegment ==
  ASSUME NEW S, NEW directory \in Seq(S), NEW p \in Seq(S)
  PROVE  \E f \in [0..Len(p) -> JoinStates(S)] :
            /\ f[0] = directory
            /\ \A i \in 1..Len(p) : f[i] = PopOrPush(f[i - 1], p[i])
            /\ Joined(directory, p) = f[Len(p)]
<1> DEFINE n == Len(p)
           T == JoinStates(S)
           step == [i \in 1..n |-> [parts \in T |-> PopOrPush(parts, p[i])]]
           Joins(f) == f = [i \in 0..n |-> IF i = 0 THEN directory ELSE PopOrPush(f[i - 1], p[i])]
<1>1. n \in Nat /\ directory \in T /\ \A i \in 1..n : p[i] \in S
  BY DEF JoinStates
<1>2. Joined(directory, p) = (CHOOSE f : Joins(f))[n]
  BY Zenon DEF Joined
<1> HIDE DEF n
<1>3. ASSUME NEW i \in 1..n, NEW parts \in T PROVE PopOrPush(parts, p[i]) \in T
  <2>1. CASE parts = Escaped
    <3>1. PopOrPush(parts, p[i]) = parts
      BY <2>1 DEF PopOrPush
    <3> QED
      BY <3>1
  <2>2. CASE parts \in Seq(S)
    <3>1. Append(parts, p[i]) \in Seq(S)
      BY <1>1, <2>2
    <3>2. parts # <<>> => Front(parts) \in Seq(S)
      BY <2>2, FrontAndLast
    <3> QED
      BY <2>2, <3>1, <3>2 DEF PopOrPush, JoinStates
  <2> QED
    BY <2>1, <2>2 DEF JoinStates
<1> HIDE DEF T
<1>4. step \in [1..n -> [T -> T]]
  BY <1>3
<1>5. \A i \in 1..n, parts \in T : step[i][parts] = PopOrPush(parts, p[i])
  OBVIOUS
<1> HIDE DEF step
<1>6. PICK f \in [0..n -> T] : Iterates(f, n, directory, step)
  BY <1>1, <1>4, Iteration
<1>7. f[0] = directory /\ \A i \in 1..n : f[i - 1] \in T /\ f[i] = step[i][f[i - 1]]
  BY <1>1, <1>6 DEF Iterates
<1>8. \A i \in 1..n : f[i] = PopOrPush(f[i - 1], p[i])
  BY <1>5, <1>7
<1>9. Joins(f)
  <2>1. f = [i \in 0..n |-> f[i]]
    OBVIOUS
  <2>2. \A i \in 0..n : f[i] = IF i = 0 THEN directory ELSE PopOrPush(f[i - 1], p[i])
    BY <1>1, <1>7, <1>8
  <2> QED
    BY <2>1, <2>2
<1> DEFINE g == CHOOSE h : Joins(h)
<1>10. Joins(g)
  BY <1>9
<1> HIDE DEF g
<1>11. g[0] = directory /\ \A i \in 1..n : g[i] = PopOrPush(g[i - 1], p[i])
  BY <1>1, <1>10
<1>12. GoOnAlike(f, g, n)
  BY <1>7, <1>8, <1>11 DEF GoOnAlike
<1>13. Alike(f, g, n)
  BY <1>1, <1>12, OneIteration
<1>14. Joined(directory, p) = f[n]
  BY <1>1, <1>2, <1>13 DEF g, Alike
<1> QED
  BY <1>7, <1>8, <1>14 DEF n, T

\* No segment is a dot, two dots or nothing.
Proper(p) == \A i \in 1..Len(p) : p[i] \notin Dots

\* One segment onto proper ones.
LEMMA CleanOntoProper ==
  ASSUME NEW done, NEW segment, segment \notin Dots
  PROVE  CleanOnto(done, segment) = Append(done, segment)
BY DEF CleanOnto, Dots

\* The stages of cleaning a path below a directory.
CleanStages(f, d, p) ==
    /\ f[0] = d
    /\ \A i \in 1..Len(p) : f[i] = CleanOnto(f[i - 1], p[i])
    /\ Cleaned(d \o p) = f[Len(p)]

\* What is proper stays as it is, and the path goes on from there.
LEMMA CleanedBelow ==
  ASSUME NEW S, NEW d \in Seq(S), Proper(d), NEW p \in Seq(S)
  PROVE  \E f \in [0..Len(p) -> Seq(S)] : CleanStages(f, d, p)
<1> DEFINE whole == d \o p
           m == Len(d)
           n == Len(p)
<1>1. /\ whole \in Seq(S) /\ Len(whole) = m + n /\ m \in Nat /\ n \in Nat
      /\ \A i \in 1..m + n : whole[i] = IF i <= m THEN d[i] ELSE p[i - m]
  BY ConcatProperties
<1> HIDE DEF whole
<1>2. PICK g \in [0..Len(whole) -> Seq(S)] :
         /\ g[0] = <<>>
         /\ \A i \in 1..Len(whole) : g[i] = CleanOnto(g[i - 1], whole[i])
         /\ Cleaned(whole) = g[Len(whole)]
  BY <1>1, CleanedBySegment
<1> DEFINE T == {i \in 0..m : g[i] = SubSeq(d, 1, i)}
<1>3. 0 \in T
  <2>1. SubSeq(d, 1, 0) = <<>> /\ 0 \in 0..m
    BY <1>1
  <2> QED
    BY <1>2, <2>1
<1>4. ASSUME NEW i \in 1..m, i - 1 \in T PROVE i \in T
  <2>1. whole[i] = d[i] /\ d[i] \notin Dots /\ i \in 1..Len(whole)
    BY <1>1 DEF Proper
  <2>2. g[i] = Append(SubSeq(d, 1, i - 1), d[i])
    BY <1>2, <1>4, <2>1, CleanOntoProper
  <2>3. Append(SubSeq(d, 1, i - 1), d[i]) = SubSeq(d, 1, i)
    BY <1>1
  <2>4. g[i] = SubSeq(d, 1, i) /\ i \in 0..m
    BY <1>1, <2>2, <2>3
  <2> QED
    BY <2>4
<1> HIDE DEF T
<1>5. 0..m \subseteq T
  BY <1>1, <1>3, <1>4, UpTo
<1>6. g[m] = d
  <2>1. m \in T
    BY <1>1, <1>5
  <2>2. SubSeq(d, 1, m) = d
    OBVIOUS
  <2> QED
    BY <2>1, <2>2 DEF T
<1> HIDE DEF m, n
<1> DEFINE f == [i \in 0..n |-> g[m + i]]
<1>7. f \in [0..n -> Seq(S)]
  BY <1>1, <1>2
<1>8. f[0] = d
  BY <1>1, <1>6
<1>9. ASSUME NEW i \in 1..n PROVE f[i] = CleanOnto(f[i - 1], p[i])
  <2>1. /\ m + i \in 1..Len(whole) /\ m + i \in 1..m + n /\ ~ (m + i <= m) /\ (m + i) - m = i
        /\ (m + i) - 1 = m + (i - 1) /\ i \in 0..n /\ i - 1 \in 0..n
    BY <1>1
  <2>2. whole[m + i] = p[i]
    BY <1>1, <2>1
  <2>3. g[m + i] = CleanOnto(g[(m + i) - 1], whole[m + i])
    BY <1>2, <2>1
  <2> QED
    BY <2>1, <2>2, <2>3
<1>10. Cleaned(whole) = f[n]
  BY <1>1, <1>2
<1> QED
  BY <1>7, <1>8, <1>9, <1>10 DEF n, whole, CleanStages

-----------------------------------------------------------------------------
(* The two hosts                                                           *)

\* What stands in the two hosts for the same path: the same parts, or an escape.
Meet(done, parts) ==
    IF parts = Escaped THEN done # <<>> /\ done[1] = ".." ELSE done = parts /\ Proper(parts)

\* A path without its last segment.
LEMMA FrontOf ==
  ASSUME NEW S, NEW p \in Seq(S), p # <<>>
  PROVE  /\ Len(p) \in Nat /\ Len(p) >= 1
         /\ Front(p) \in Seq(S) /\ Len(Front(p)) = Len(p) - 1
         /\ \A i \in 1..Len(p) - 1 : Front(p)[i] = p[i]
<1>1. Len(p) \in Nat /\ Len(p) >= 1
  <2>1. Len(p) \in Nat
    OBVIOUS
  <2>2. Len(p) # 0
    OBVIOUS
  <2> QED
    BY <2>1, <2>2
<1>2. /\ SubSeq(p, 1, Len(p) - 1) \in Seq(S) /\ Len(SubSeq(p, 1, Len(p) - 1)) = Len(p) - 1
      /\ \A i \in 1..Len(p) - 1 : SubSeq(p, 1, Len(p) - 1)[i] = p[i]
  <2> DEFINE k == Len(p) - 1
  <2>1. k \in Nat /\ \A i \in 1..k : p[i] \in S
    BY <1>1
  <2> HIDE DEF k
  <2>2. /\ SubSeq(p, 1, k) \in Seq(S)
        /\ Len(SubSeq(p, 1, k)) = IF 1 <= k THEN k - 1 + 1 ELSE 0
        /\ \A i \in 1..k - 1 + 1 : SubSeq(p, 1, k)[i] = p[1 + i - 1]
    BY <2>1, SubSeqProperties
  <2>3. Len(SubSeq(p, 1, k)) = k /\ \A i \in 1..k : SubSeq(p, 1, k)[i] = p[i]
    BY <2>1, <2>2
  <2> QED
    BY <2>2, <2>3 DEF k
<1> QED
  BY <1>1, <1>2 DEF Front

\* Proper parts are neither an escape nor the directory itself.
LEMMA ProperIsBelow ==
  ASSUME NEW S, NEW p \in Seq(S), Proper(p)
  PROVE  p # Escaped /\ p # <<".">>
<1>1. Len(<<"..">>) = 1 /\ <<"..">>[1] = ".." /\ Len(<<".">>) = 1 /\ <<".">>[1] = "."
  OBVIOUS
<1>2. p # <<"..">>
  <2> SUFFICES ASSUME p = <<"..">> PROVE FALSE
    OBVIOUS
  <2>1. 1 \in 1..Len(p) /\ p[1] = ".."
    BY <1>1
  <2> QED
    BY <2>1 DEF Proper, Dots
<1>3. p # <<".">>
  <2> SUFFICES ASSUME p = <<".">> PROVE FALSE
    OBVIOUS
  <2>1. 1 \in 1..Len(p) /\ p[1] = "."
    BY <1>1
  <2> QED
    BY <2>1 DEF Proper, Dots
<1> QED
  BY <1>2, <1>3 DEF Escaped

\* A segment more, and they still meet.
LEMMA MeetAgain ==
  ASSUME NEW S, NEW done \in Seq(S), NEW parts \in JoinStates(S), NEW segment \in S,
         Meet(done, parts)
  PROVE  Meet(CleanOnto(done, segment), PopOrPush(parts, segment))
<1>1. CASE segment \in {"", "."}
  BY <1>1 DEF CleanOnto, PopOrPush
<1>2. CASE segment = ".." /\ parts # Escaped
  <2>1. done = parts /\ Proper(parts) /\ parts \in Seq(S)
    BY <1>2 DEF Meet, JoinStates
  <2>2. CASE parts = <<>>
    <3>1. CleanOnto(done, segment) = Append(<<>>, "..") /\ PopOrPush(parts, segment) = Escaped
      BY <1>2, <2>1, <2>2 DEF CleanOnto, PopOrPush
    <3>2. Append(<<>>, "..") # <<>> /\ Append(<<>>, "..")[1] = ".."
      OBVIOUS
    <3> QED
      BY <3>1, <3>2 DEF Meet
  <2>3. CASE parts # <<>>
    <3>1. Len(done) \in 1..Len(done) /\ done[Len(done)] # ".."
      <4>1. Len(parts) \in 1..Len(parts)
        BY <2>1, <2>3, FrontOf
      <4>2. parts[Len(parts)] \notin Dots
        BY <2>1, <4>1 DEF Proper
      <4> QED
        BY <2>1, <4>1, <4>2 DEF Dots
    <3>2. CleanOnto(done, segment) = Front(done) /\ PopOrPush(parts, segment) = Front(parts)
      BY <1>2, <2>1, <2>3, <3>1 DEF CleanOnto, PopOrPush
    <3>3. Proper(Front(parts)) /\ Front(parts) # Escaped
      <4>1. /\ Len(Front(parts)) = Len(parts) - 1
            /\ \A i \in 1..Len(parts) - 1 : Front(parts)[i] = parts[i]
        BY <2>1, <2>3, FrontOf
      <4>2. Proper(Front(parts))
        BY <2>1, <4>1 DEF Proper
      <4>3. Front(parts) # Escaped
        BY <2>1, <2>3, <4>2, FrontOf, ProperIsBelow
      <4> QED
        BY <4>2, <4>3
    <3> QED
      BY <2>1, <3>2, <3>3 DEF Meet
  <2> QED
    BY <2>2, <2>3
<1>3. CASE segment \notin Dots /\ parts # Escaped
  <2>1. done = parts /\ Proper(parts) /\ parts \in Seq(S)
    BY <1>3 DEF Meet, JoinStates
  <2>2. /\ CleanOnto(done, segment) = Append(parts, segment)
        /\ PopOrPush(parts, segment) = Append(parts, segment)
    BY <1>3, <2>1, CleanOntoProper DEF PopOrPush, Dots
  <2>3. Proper(Append(parts, segment))
    BY <1>3, <2>1 DEF Proper
  <2>4. Append(parts, segment) # Escaped
    <3>1. Append(parts, segment) \in Seq(S)
      BY <2>1
    <3> QED
      BY <2>3, <3>1, ProperIsBelow
  <2> QED
    BY <2>2, <2>3, <2>4 DEF Meet
<1>4. CASE segment \notin {"", "."} /\ parts = Escaped
  <2>1. done # <<>> /\ done[1] = ".." /\ PopOrPush(parts, segment) = Escaped
    BY <1>4 DEF Meet, PopOrPush
  <2>2. CASE segment = ".." /\ done[Len(done)] # ".."
    <3>1. CleanOnto(done, segment) = Front(done)
      BY <2>1, <2>2 DEF CleanOnto
    <3>2. Len(done) \in Nat /\ Len(done) > 1
      BY <2>1, <2>2, FrontOf
    <3>3. 1 \in 1..Len(done) - 1 /\ Len(Front(done)) # 0 /\ Front(done)[1] = ".."
      BY <2>1, <3>2, FrontOf
    <3>4. Front(done) # <<>>
      BY <3>3
    <3> QED
      BY <2>1, <3>1, <3>3, <3>4 DEF Meet
  <2>3. CASE ~ (segment = ".." /\ done[Len(done)] # "..")
    <3>1. CleanOnto(done, segment) = Append(done, segment)
      BY <1>4, <2>1, <2>3 DEF CleanOnto
    <3>2. Append(done, segment) # <<>> /\ Append(done, segment)[1] = ".."
      BY <2>1
    <3> QED
      BY <2>1, <3>1, <3>2 DEF Meet
  <2> QED
    BY <2>2, <2>3
<1> QED
  BY <1>1, <1>2, <1>3, <1>4 DEF Dots

\* What path.Clean makes of a path below a directory is what the Rust host joins to it.
LEMMA HostsMeet ==
  ASSUME NEW S, NEW d \in Seq(S), Proper(d), NEW p \in Seq(S)
  PROVE  /\ Meet(Cleaned(d \o p), Joined(d, p))
         /\ Cleaned(d \o p) \in Seq(S) /\ Joined(d, p) \in JoinStates(S)
<1>0. PICK f \in [0..Len(p) -> Seq(S)] : CleanStages(f, d, p)
  BY CleanedBelow
<1>1. /\ f[0] = d
      /\ \A i \in 1..Len(p) : f[i] = CleanOnto(f[i - 1], p[i])
      /\ Cleaned(d \o p) = f[Len(p)]
  BY <1>0 DEF CleanStages
<1>2. PICK g \in [0..Len(p) -> JoinStates(S)] :
         /\ g[0] = d
         /\ \A i \in 1..Len(p) : g[i] = PopOrPush(g[i - 1], p[i])
         /\ Joined(d, p) = g[Len(p)]
  BY JoinedBySegment
<1> DEFINE n == Len(p)
<1>3. n \in Nat /\ \A i \in 1..n : p[i] \in S
  OBVIOUS
<1> HIDE DEF n
<1> DEFINE T == {i \in 0..n : Meet(f[i], g[i])}
<1>4. 0 \in T
  <2>1. d # Escaped
    BY ProperIsBelow
  <2>2. Meet(d, d)
    BY <2>1 DEF Meet
  <2> QED
    BY <1>1, <1>2, <1>3, <2>2
<1>5. ASSUME NEW i \in 1..n, i - 1 \in T PROVE i \in T
  <2>1. f[i - 1] \in Seq(S) /\ g[i - 1] \in JoinStates(S) /\ i \in 0..n
    <3>1. i \in 0..n /\ i - 1 \in 0..n
      BY <1>3
    <3> QED
      BY <3>1 DEF n
  <2>2. Meet(CleanOnto(f[i - 1], p[i]), PopOrPush(g[i - 1], p[i]))
    BY <1>3, <1>5, <2>1, MeetAgain
  <2> QED
    BY <1>1, <1>2, <2>1, <2>2 DEF n
<1> HIDE DEF T
<1>6. 0..n \subseteq T
  BY <1>3, <1>4, <1>5, UpTo
<1>7. n \in T /\ n \in 0..n
  BY <1>3, <1>6
<1> QED
  BY <1>1, <1>2, <1>7 DEF T, n

\* Cleaning a proper path leaves it.
LEMMA CleanedProper ==
  ASSUME NEW S, NEW d \in Seq(S), Proper(d)
  PROVE  Cleaned(d) = d
<1>1. <<>> \in Seq(S) /\ Len(<<>>) = 0 /\ d \o <<>> = d
  OBVIOUS
<1> DEFINE empty == <<>>
<1>2. empty \in Seq(S)
  OBVIOUS
<1> HIDE DEF empty
<1>3. PICK f \in [0..Len(empty) -> Seq(S)] : CleanStages(f, d, empty)
  BY <1>2, CleanedBelow
<1> QED
  BY <1>1, <1>3 DEF empty, CleanStages

\* The segments of names without a volume, where it matters.
Plainly(S) == Windows \/ Volume \notin S

\* The paths that the two hosts take.
LEMMA VirtualAlike ==
  ASSUME NEW S, Plainly(S), NEW p \in Seq(S)
  PROVE  (IsVirtualPath(p) <=> IsRustVirtualPath(p)) /\ (IsRelative(p) <=> IsRustRelative(p))
<1>1. IsRelative(p) <=> IsRustRelative(p)
  <2>1. p # <<>> => p[1] \in S
    OBVIOUS
  <2> QED
    BY <2>1 DEF IsRelative, IsRustRelative, IsPlain, Plainly
<1>2. DOMAIN p = 1..Len(p)
  OBVIOUS
<1>3. p # <<>> /\ Proper(p) => Clean(p) = p
  BY CleanedProper DEF Clean
<1> QED
  BY <1>1, <1>2, <1>3 DEF IsVirtualPath, IsRustVirtualPath, IsRelative, IsPlain, Proper

\* A virtual path is proper, and so is its directory.
LEMMA DirectoryProper ==
  ASSUME NEW S, NEW p \in Seq(S), p = <<>> \/ IsVirtualPath(p)
  PROVE  VirtualDirectory(p) \in Seq(S) /\ Proper(VirtualDirectory(p))
<1>1. CASE p = <<>>
  BY <1>1 DEF VirtualDirectory, Proper
<1>2. CASE p # <<>> /\ IsVirtualPath(p)
  <2>1. /\ Front(p) \in Seq(S) /\ Len(Front(p)) = Len(p) - 1
        /\ \A i \in 1..Len(p) - 1 : Front(p)[i] = p[i]
    BY <1>2, FrontOf
  <2>2. DOMAIN p = 1..Len(p) /\ VirtualDirectory(p) = Front(p)
    BY <1>2 DEF VirtualDirectory
  <2> QED
    BY <1>2, <2>1, <2>2 DEF IsVirtualPath, Proper
<1> QED
  BY <1>1, <1>2

\* ResolveVirtualImport and resolve_virtual_import are one function of such names.
LEMMA ResolvedAlike ==
  ASSUME NEW S, Plainly(S), NEW from \in Seq(S), NEW p \in Seq(S)
  PROVE  /\ ResolveVirtualImport(from, p) = RustResolveVirtualImport(from, p)
         /\ ResolveVirtualImport(from, p) \in Seq(S)
<1> DEFINE d     == VirtualDirectory(from)
           done  == Cleaned(d \o p)
           parts == Joined(d, p)
<1>0. Refusal \in Seq(S)
  BY DEF Refusal
<1>1. (from = <<>> \/ IsVirtualPath(from)) <=> (from = <<>> \/ IsRustVirtualPath(from))
  BY VirtualAlike
<1>2. IsRelative(p) <=> IsRustRelative(p)
  BY VirtualAlike
<1>3. CASE (from # <<>> /\ ~IsVirtualPath(from)) \/ ~IsRelative(p)
  <2>1. ResolveVirtualImport(from, p) = Refusal
    BY <1>3 DEF ResolveVirtualImport
  <2>2. RustResolveVirtualImport(from, p) = Refusal
    BY <1>1, <1>2, <1>3 DEF RustResolveVirtualImport
  <2> QED
    BY <1>0, <2>1, <2>2
<1>4. CASE (from = <<>> \/ IsVirtualPath(from)) /\ IsRelative(p)
  <2>1. d \in Seq(S) /\ Proper(d)
    BY <1>4, DirectoryProper
  <2> HIDE DEF d
  <2>2. Meet(done, parts) /\ done \in Seq(S) /\ parts \in JoinStates(S)
    BY <2>1, HostsMeet
  <2> HIDE DEF done, parts
  <2>3. ResolveVirtualImport(from, p) =
          LET canonical == IF done = <<>> THEN <<".">> ELSE done
          IN  IF canonical = <<".">> \/ canonical[1] = ".." \/ ~IsVirtualPath(canonical)
              THEN Refusal ELSE canonical
    BY <1>4 DEF ResolveVirtualImport, ResolveAgainst, Clean, done, d
  <2>4. RustResolveVirtualImport(from, p) =
          IF parts = <<>> \/ parts = Escaped \/ ~IsRustVirtualPath(parts) THEN Refusal ELSE parts
    BY <1>1, <1>2, <1>4 DEF RustResolveVirtualImport, parts, d
  <2>5. CASE parts = Escaped
    <3>1. done # <<>> /\ done[1] = ".."
      BY <2>2, <2>5 DEF Meet
    <3> QED
      BY <1>0, <2>3, <2>4, <2>5, <3>1
  <2>6. CASE parts = <<>>
    <3>1. done = <<>>
      BY <2>2, <2>6 DEF Meet, Escaped
    <3> QED
      BY <1>0, <2>3, <2>4, <2>6, <3>1
  <2>7. CASE parts # Escaped /\ parts # <<>>
    <3>1. done = parts /\ Proper(parts)
      BY <2>2, <2>7 DEF Meet
    <3>2. parts \in Seq(S) /\ parts[1] \notin Dots
      BY <2>2, <2>7, <3>1 DEF Proper
    <3>3. done # <<".">> /\ done[1] # ".."
      BY <2>2, <3>1, <3>2, ProperIsBelow DEF Dots
    <3>4. IsVirtualPath(done) <=> IsRustVirtualPath(parts)
      BY <3>1, <3>2, VirtualAlike
    <3> QED
      BY <1>0, <2>3, <2>4, <2>7, <3>1, <3>2, <3>3, <3>4
  <2> QED
    BY <2>5, <2>6, <2>7
<1> QED
  BY <1>3, <1>4

-----------------------------------------------------------------------------
(* One path from two directories                                           *)

\* A path that has left the root.
Escapes(done) == done # <<>> /\ done[1] = ".."

\* It does not come back.
LEMMA EscapeStays ==
  ASSUME NEW S, NEW done \in Seq(S), NEW segment \in S, Escapes(done)
  PROVE  Escapes(CleanOnto(done, segment))
<1>1. done # <<>> /\ done[1] = ".."
  BY DEF Escapes
<1>2. CASE segment \in {"", "."}
  BY <1>1, <1>2 DEF CleanOnto, Escapes
<1>3. CASE segment = ".." /\ done[Len(done)] # ".."
  <2>1. CleanOnto(done, segment) = Front(done)
    BY <1>1, <1>3 DEF CleanOnto
  <2>2. Len(done) \in Nat /\ Len(done) > 1
    BY <1>1, <1>3, FrontOf
  <2>3. 1 \in 1..Len(done) - 1 /\ Len(Front(done)) # 0 /\ Front(done)[1] = ".."
    BY <1>1, <2>2, FrontOf
  <2>4. Front(done) # <<>>
    BY <2>3
  <2> QED
    BY <2>1, <2>3, <2>4 DEF Escapes
<1>4. CASE segment \notin {"", "."} /\ ~ (segment = ".." /\ done[Len(done)] # "..")
  <2>1. CleanOnto(done, segment) = Append(done, segment)
    BY <1>1, <1>4 DEF CleanOnto
  <2>2. Append(done, segment) # <<>> /\ Append(done, segment)[1] = ".."
    BY <1>1
  <2> QED
    BY <2>1, <2>2 DEF Escapes
<1> QED
  BY <1>2, <1>3, <1>4

\* One step up, from proper parts.
LEMMA OneUp ==
  ASSUME NEW S, NEW done \in Seq(S), Proper(done)
  PROVE  IF done = <<>> THEN Escapes(CleanOnto(done, ".."))
         ELSE CleanOnto(done, "..") = Front(done) /\ Proper(Front(done))
<1>1. CASE done = <<>>
  <2>1. CleanOnto(done, "..") = Append(<<>>, "..")
    BY <1>1 DEF CleanOnto
  <2>2. Append(<<>>, "..") # <<>> /\ Append(<<>>, "..")[1] = ".."
    OBVIOUS
  <2> QED
    BY <1>1, <2>1, <2>2 DEF Escapes
<1>2. CASE done # <<>>
  <2>1. Len(done) \in 1..Len(done)
    BY <1>2, FrontOf
  <2>2. done[Len(done)] \notin Dots
    BY <2>1 DEF Proper
  <2>3. CleanOnto(done, "..") = Front(done)
    BY <1>2, <2>2 DEF CleanOnto, Dots
  <2>4. Proper(Front(done))
    BY <1>2, FrontOf DEF Proper
  <2> QED
    BY <1>2, <2>3, <2>4
<1> QED
  BY <1>1, <1>2

\* One step down.
LEMMA OneDown ==
  ASSUME NEW S, NEW x \in Seq(S), Proper(x), NEW segment \in S, segment \notin Dots
  PROVE  /\ CleanOnto(x, segment) = Append(x, segment)
         /\ Proper(Append(x, segment)) /\ Len(Append(x, segment)) = Len(x) + 1
         /\ \A i \in 1..Len(x) : Append(x, segment)[i] = x[i]
<1> DEFINE X == Append(x, segment)
<1>1. /\ Len(x) \in Nat /\ Len(X) = Len(x) + 1 /\ X[Len(x) + 1] = segment
      /\ \A i \in 1..Len(x) : X[i] = x[i]
  OBVIOUS
<1> HIDE DEF X
<1>2. Proper(X)
  <2> SUFFICES ASSUME NEW i \in 1..Len(x) + 1 PROVE X[i] \notin Dots
    BY <1>1 DEF Proper
  <2>1. CASE i \in 1..Len(x)
    BY <1>1, <2>1 DEF Proper
  <2>2. CASE i = Len(x) + 1
    BY <1>1, <2>2
  <2> QED
    BY <1>1, <2>1, <2>2
<1> QED
  BY <1>1, <1>2, CleanOntoProper DEF X

\* Where the same path has come to from two directories: out of the root from one of them,
\* or as far below each of them as below the other.
Abreast(d, e, x, y) ==
    \/ Escapes(x) \/ Escapes(y)
    \/ /\ Proper(x) /\ Proper(y)
       /\ Len(x) - Len(y) = Len(d) - Len(e)
       /\ Len(d) > Len(e) => x[1] = d[1]

\* A difference stays when both grow by one.
LEMMA OneMore ==
  ASSUME NEW a \in Nat, NEW b \in Nat, NEW difference, a - b = difference,
         NEW A, NEW B, A = a + 1, B = b + 1
  PROVE  A - B = difference
OBVIOUS

\* A segment more, and they are still so far apart.
LEMMA StayAbreast ==
  ASSUME NEW S, NEW d \in Seq(S), NEW e \in Seq(S), NEW x \in Seq(S), NEW y \in Seq(S),
         NEW segment \in S, Abreast(d, e, x, y)
  PROVE  Abreast(d, e, CleanOnto(x, segment), CleanOnto(y, segment))
<1> DEFINE X == CleanOnto(x, segment)
           Y == CleanOnto(y, segment)
<1>1. CASE Escapes(x) \/ Escapes(y)
  BY <1>1, EscapeStays DEF Abreast
<1>2. CASE ~Escapes(x) /\ ~Escapes(y)
  <2>1. /\ Proper(x) /\ Proper(y) /\ Len(x) - Len(y) = Len(d) - Len(e)
        /\ Len(d) > Len(e) => x[1] = d[1]
    BY <1>2 DEF Abreast
  <2>2. Len(x) \in Nat /\ Len(y) \in Nat /\ Len(d) \in Nat /\ Len(e) \in Nat
    OBVIOUS
  <2>3. CASE segment \in {"", "."}
    <3>1. X = x /\ Y = y
      BY <2>3 DEF CleanOnto
    <3> QED
      BY <2>1, <3>1 DEF Abreast
  <2>4. CASE segment = ".." /\ (x = <<>> \/ y = <<>>)
    BY <2>1, <2>4, OneUp DEF Abreast
  <2>5. CASE segment = ".." /\ x # <<>> /\ y # <<>>
    <3>1. X = Front(x) /\ Proper(X) /\ Y = Front(y) /\ Proper(Y)
      BY <2>1, <2>5, OneUp
    <3>2. /\ Len(X) = Len(x) - 1 /\ Len(Y) = Len(y) - 1 /\ Len(y) >= 1
          /\ \A i \in 1..Len(x) - 1 : X[i] = x[i]
      BY <2>5, <3>1, FrontOf
    <3>3. Len(X) - Len(Y) = Len(d) - Len(e)
      BY <2>1, <2>2, <3>2
    <3>4. ASSUME Len(d) > Len(e) PROVE X[1] = d[1]
      <4>1. 1 \in 1..Len(x) - 1
        BY <2>1, <2>2, <3>2, <3>4
      <4> QED
        BY <2>1, <3>2, <3>4, <4>1
    <3> QED
      BY <3>1, <3>3, <3>4 DEF Abreast
  <2>6. CASE segment \notin Dots
    <3>a. /\ X = Append(x, segment) /\ Proper(Append(x, segment))
          /\ Len(Append(x, segment)) = Len(x) + 1
          /\ \A i \in 1..Len(x) : Append(x, segment)[i] = x[i]
      BY <2>1, <2>6, OneDown
    <3>b. /\ Y = Append(y, segment) /\ Proper(Append(y, segment))
          /\ Len(Append(y, segment)) = Len(y) + 1
      BY <2>1, <2>6, OneDown
    <3> HIDE DEF X, Y
    <3>1. Proper(X) /\ Proper(Y) /\ \A i \in 1..Len(x) : X[i] = x[i]
      BY <3>a, <3>b
    <3>c. Len(X) = Len(x) + 1 /\ Len(Y) = Len(y) + 1
      BY <3>a, <3>b
    <3>2. Len(x) - Len(y) = Len(d) - Len(e)
      BY <2>1
    <3>3. Len(X) - Len(Y) = Len(d) - Len(e)
      BY <2>2, <3>c, <3>2, OneMore
    <3>4. ASSUME Len(d) > Len(e) PROVE X[1] = d[1]
      <4>1. 1 \in 1..Len(x)
        BY <2>2, <3>2, <3>4
      <4> QED
        BY <2>1, <3>1, <3>4, <4>1
    <3>5. Abreast(d, e, X, Y)
      BY <3>1, <3>3, <3>4 DEF Abreast
    <3> QED
      BY <3>5 DEF X, Y
  <2> QED
    BY <2>3, <2>4, <2>5, <2>6 DEF Dots
<1> QED
  BY <1>1, <1>2

\* A path is nowhere longer than from a longer directory, with which it begins.
LEMMA CleanedAbreast ==
  ASSUME NEW S, NEW d \in Seq(S), Proper(d), NEW e \in Seq(S), Proper(e), NEW p \in Seq(S)
  PROVE  Abreast(d, e, Cleaned(d \o p), Cleaned(e \o p))
<1>a. PICK f \in [0..Len(p) -> Seq(S)] : CleanStages(f, d, p)
  BY CleanedBelow
<1>b. PICK g \in [0..Len(p) -> Seq(S)] : CleanStages(g, e, p)
  BY CleanedBelow
<1>1. /\ f[0] = d
      /\ \A i \in 1..Len(p) : f[i] = CleanOnto(f[i - 1], p[i])
      /\ Cleaned(d \o p) = f[Len(p)]
  BY <1>a DEF CleanStages
<1>2. /\ g[0] = e
      /\ \A i \in 1..Len(p) : g[i] = CleanOnto(g[i - 1], p[i])
      /\ Cleaned(e \o p) = g[Len(p)]
  BY <1>b DEF CleanStages
<1> DEFINE n == Len(p)
<1>3. n \in Nat /\ \A i \in 1..n : p[i] \in S
  OBVIOUS
<1> HIDE DEF n
<1> DEFINE T == {i \in 0..n : Abreast(d, e, f[i], g[i])}
<1>4. 0 \in T
  <2>1. Abreast(d, e, d, e)
    BY DEF Abreast
  <2> QED
    BY <1>1, <1>2, <1>3, <2>1
<1>5. ASSUME NEW i \in 1..n, i - 1 \in T PROVE i \in T
  <2>1. i \in 0..n /\ i - 1 \in 0..n
    BY <1>3
  <2>2. f[i - 1] \in Seq(S) /\ g[i - 1] \in Seq(S)
    BY <2>1 DEF n
  <2>3. Abreast(d, e, CleanOnto(f[i - 1], p[i]), CleanOnto(g[i - 1], p[i]))
    BY <1>3, <1>5, <2>2, StayAbreast
  <2> QED
    BY <1>1, <1>2, <2>1, <2>3 DEF n
<1> HIDE DEF T
<1>6. 0..n \subseteq T
  BY <1>3, <1>4, <1>5, UpTo
<1>7. n \in T /\ n \in 0..n
  BY <1>3, <1>6
<1> QED
  BY <1>1, <1>2, <1>7 DEF T, n

\* What a path that was resolved says of where it was resolved from.
LEMMA ResolvedAbreast ==
  ASSUME NEW S, NEW d \in Seq(S), Proper(d), NEW e \in Seq(S), Proper(e), NEW p \in Seq(S),
         ResolveAgainst(d, p) # Refusal, ResolveAgainst(e, p) # Refusal
  PROVE  /\ ResolveAgainst(d, p) \in Seq(S) \ {<<>>}
         /\ Len(ResolveAgainst(d, p)) > Len(ResolveAgainst(e, p)) =>
               d # <<>> /\ ResolveAgainst(d, p)[1] = d[1]
<1> DEFINE x == Cleaned(d \o p)
           y == Cleaned(e \o p)
<1>1. x \in Seq(S) /\ y \in Seq(S) /\ Abreast(d, e, x, y)
  BY HostsMeet, CleanedAbreast
<1>2. ResolveAgainst(d, p) = x /\ x # <<>> /\ x[1] # ".."
  BY DEF ResolveAgainst, Clean
<1>3. ResolveAgainst(e, p) = y /\ y # <<>> /\ y[1] # ".."
  BY DEF ResolveAgainst, Clean
<1> HIDE DEF x, y
<1>4. Len(x) - Len(y) = Len(d) - Len(e) /\ (Len(d) > Len(e) => x[1] = d[1])
  BY <1>1, <1>2, <1>3 DEF Abreast, Escapes
<1>5. ASSUME Len(x) > Len(y) PROVE d # <<>> /\ x[1] = d[1]
  <2>1. Len(x) \in Nat /\ Len(y) \in Nat /\ Len(d) \in Nat /\ Len(e) \in Nat
    BY <1>1
  <2>2. Len(d) > Len(e) /\ Len(d) # 0
    BY <1>4, <1>5, <2>1
  <2> QED
    BY <1>4, <2>2
<1> QED
  BY <1>1, <1>2, <1>3, <1>5

-----------------------------------------------------------------------------
(* What holds of a search                                                  *)

\* What an import was asked with is a path.
Asked == call.from \in Seq(STRING) /\ call.path \in Seq(STRING)

\* A declaration is a mount or a library path, and the searches are the declarations that
\* the construction has come to.
Declared ==
    \A i \in 1..Len(config) :
        IF config[i].mount = NoMount THEN IsVirtualPath(config[i].path) ELSE config[i].path = <<>>

Follows ==
    \A i \in 1..Len(searches) :
        searches[i] = [root |-> config[i].mount, directory |-> config[i].path]

\* An importer in use has them all, and only that is asked.
InUse ==
    /\ phase \in {"open", "closing", "closed"} => Len(searches) = Len(config)
    /\ call # NoCall => phase \in {"open", "closing", "closed"}

\* An import that has passed the first k of its candidates: the ones it tried are among
\* them, and none has another name.
Passed(all, k) ==
    /\ call.tried \subseteq {all[i] : i \in 1..k}
    /\ \A i \in 1..k : \E t \in call.tried : Virtual(t) = Virtual(all[i])
    /\ call.answer = "reading" => call.left = SubSeq(all, k + 1, Len(all))
    /\ call.answer = "served"  => k < Len(all) /\ call.file = all[k + 1]
    /\ call.answer = "missing" => k = Len(all)

\* An import that looks for files comes from a file, and has passed some of its candidates.
Progress ==
    /\ call.left # <<>> => call.answer = "reading"
    /\ call.answer \in {"reading", "served", "missing"} =>
         /\ call.from = <<>> \/ IsVirtualPath(call.from)
         /\ LET all == Candidates(call.from, call.path)
            IN  \E k \in 0..Len(all) : Passed(all, k)

SInv == Asked /\ Declared /\ Follows /\ InUse /\ Progress

-----------------------------------------------------------------------------
(* Candidates                                                              *)

\* A place, and the file that a path is in it.
FileAt(place, p) == [root |-> place.root, relative |-> ResolveAgainst(place.directory, p)]

\* The files that a path is in those of some places where it does not lead out.
FilesAt(places, p) ==
    {FileAt(place, p) : place \in {q \in places : ResolveAgainst(q.directory, p) # Refusal}}

\* resolveCandidate, of each place: no file but those, and each below its root.
LEMMA ResolvedPlaces ==
  ASSUME NEW P, NEW places \in Seq(P), NEW p
  PROVE  Resolved(places, p) \in Seq(FilesAt(P, p))
<1> DEFINE n == Len(places)
           F == FilesAt(P, p)
           file(i) == [root |-> places[i].root, relative |-> ResolveAgainst(places[i].directory, p)]
           Onto(i, done) == IF file(i).relative # Refusal THEN Append(done, file(i)) ELSE done
           step == [i \in 1..n |-> [done \in Seq(F) |-> Onto(i, done)]]
           Collects(f) == f = [i \in 0..n |-> IF i = 0 THEN <<>> ELSE Onto(i, f[i - 1])]
<1>1. n \in Nat /\ <<>> \in Seq(F) /\ \A i \in 1..n : places[i] \in P
  OBVIOUS
<1>2. Resolved(places, p) = (CHOOSE f : Collects(f))[n]
  BY Zenon DEF Resolved
<1>3. \A i \in 1..n : file(i).relative # Refusal => file(i) \in F
  BY <1>1 DEF FilesAt, FileAt
<1> HIDE DEF n, F, file
<1>4. \A i \in 1..n, done \in Seq(F) : Onto(i, done) \in Seq(F)
  BY <1>3
<1> HIDE DEF Onto
<1>5. step \in [1..n -> [Seq(F) -> Seq(F)]]
  BY <1>4
<1>6. \A i \in 1..n, done \in Seq(F) : step[i][done] = Onto(i, done)
  OBVIOUS
<1> HIDE DEF step
<1>7. PICK f \in [0..n -> Seq(F)] : Iterates(f, n, <<>>, step)
  BY <1>1, <1>5, Iteration
<1>8. f[0] = <<>> /\ \A i \in 1..n : f[i - 1] \in Seq(F) /\ f[i] = step[i][f[i - 1]]
  BY <1>1, <1>7 DEF Iterates
<1>9. \A i \in 1..n : f[i] = Onto(i, f[i - 1])
  BY <1>6, <1>8
<1>10. Collects(f)
  <2>1. f = [i \in 0..n |-> f[i]]
    OBVIOUS
  <2>2. \A i \in 0..n : f[i] = IF i = 0 THEN <<>> ELSE Onto(i, f[i - 1])
    BY <1>1, <1>8, <1>9
  <2> QED
    BY <2>1, <2>2
<1> DEFINE g == CHOOSE h : Collects(h)
<1>11. Collects(g)
  BY <1>10
<1> HIDE DEF g
<1>12. g[0] = <<>> /\ \A i \in 1..n : g[i] = Onto(i, g[i - 1])
  BY <1>1, <1>11
<1>13. GoOnAlike(f, g, n)
  BY <1>8, <1>9, <1>12 DEF GoOnAlike
<1>14. Alike(f, g, n)
  BY <1>1, <1>13, OneIteration
<1>15. Resolved(places, p) = f[n]
  BY <1>1, <1>2, <1>14 DEF g, Alike
<1> QED
  BY <1>1, <1>7, <1>15 DEF F

\* The places in which an import from somewhere is looked for.
PlacesOf(from) == {Locate(from)} \cup ToSet(searches)

\* The candidates of an import are files in its places.
LEMMA CandidatesAreFiles ==
  ASSUME Typed, NEW from, NEW p
  PROVE  Candidates(from, p) \in Seq(FilesAt(PlacesOf(from), p))
<1>1. searches \in Seq(ToSet(searches))
  BY DEF Typed, ToSet
<1>2. Reverse(searches) \in Seq(ToSet(searches))
  BY <1>1 DEF Reverse
<1>3. <<Locate(from)>> \o Reverse(searches) \in Seq(PlacesOf(from))
  BY <1>2 DEF PlacesOf
<1> QED
  BY <1>3, ResolvedPlaces DEF Candidates

\* The candidates are looked for in the declared order, the last one first.
LEMMA SamePlaces ==
  ASSUME Typed, Follows, Len(searches) = Len(config), NEW from, NEW p
  PROVE  Candidates(from, p) = Resolved(Places(from), p)
<1>1. DOMAIN config = 1..Len(config) /\ Len(config) \in Nat
  BY DEF Typed
<1>2. Reverse(searches) = [i \in 1..Len(config) |-> searches[Len(config) - i + 1]]
  BY DEF Reverse
<1>3. \A i \in 1..Len(config) : Len(config) - i + 1 \in 1..Len(searches)
  BY <1>1
<1>4. Reverse(searches) = [i \in DOMAIN config |->
                             [root      |-> config[Len(config) - i + 1].mount,
                              directory |-> config[Len(config) - i + 1].path]]
  BY <1>1, <1>2, <1>3 DEF Follows
<1> QED
  BY <1>4, Zenon DEF Candidates, Places

\* A path with a mount before it, when the mount is no prefix.
LEMMA NotPrefixed ==
  ASSUME NEW S, NEW p \in Seq(S), p # <<>>, NEW m, ~IsPrefix(<<m>>, p)
  PROVE  p[1] # m
<1>1. Len(p) \in Nat /\ Len(p) >= 1
  BY FrontOf
<1> SUFFICES ASSUME p[1] = m PROVE IsPrefix(<<m>>, p)
  OBVIOUS
<1> DEFINE one == <<m>>
<1>2. one \in Seq(S) /\ Len(one) = 1 /\ one[1] = m
  <2>1. p[1] \in S
    BY <1>1
  <2> QED
    BY <2>1
<1> HIDE DEF one
<1>3. /\ SubSeq(p, 1, 1) \in Seq(S) /\ Len(SubSeq(p, 1, 1)) = 1
      /\ SubSeq(p, 1, 1)[1] = p[1]
  BY <1>1, SubSeqProperties
<1>4. /\ SubSeq(one, 1, 1) \in Seq(S) /\ Len(SubSeq(one, 1, 1)) = 1
      /\ SubSeq(one, 1, 1)[1] = one[1]
  BY <1>2, SubSeqProperties
<1>5. SubSeq(one, 1, 1) = SubSeq(p, 1, 1)
  BY <1>2, <1>3, <1>4, SeqEqual
<1>6. IsPrefix(one, p)
  BY <1>1, <1>2, <1>5 DEF IsPrefix
<1> QED
  BY <1>6 DEF one

\* Where a place lies: in a mount, or in the workspace and not below the name of a mount.
WellPlaced(place) ==
    /\ place.directory \in Seq(STRING) /\ Proper(place.directory)
    /\ place.root # Primary => place.root \in ToSet(mounts)
    /\ place.root = Primary /\ place.directory # <<>> => place.directory[1] \notin ToSet(mounts)

\* Every place of an import is such a place, when no mount is shadowed.
LEMMA PlacesAreWell ==
  ASSUME IInv, Declared, Follows, Unshadowed,
         NEW from \in Seq(STRING), from = <<>> \/ IsVirtualPath(from),
         NEW place \in PlacesOf(from)
  PROVE  WellPlaced(place)
<1> USE DEF IInv
<1>a. ToSet(mounts) \subseteq Mounts
  BY DEF Typed, ToSet
<1>0. ToSet(mounts) \subseteq STRING \ {Primary}
  BY <1>a, PathAssumption DEF Primary
<1>1. CASE place = Locate(from) /\ Len(from) > 1 /\ from[1] \in ToSet(mounts)
  <2>1. from # <<>> /\ IsVirtualPath(from) /\ DOMAIN from = 1..Len(from) /\ Len(from) \in Nat
    BY <1>1
  <2>2. /\ Tail(from) \in Seq(STRING) /\ Len(Tail(from)) = Len(from) - 1
        /\ \A i \in 1..Len(from) - 1 : Tail(from)[i] = from[i + 1]
    BY <2>1, HeadTailProperties
  <2>3. Tail(from) # <<>>
    BY <1>1, <2>1, <2>2
  <2>4. /\ Front(Tail(from)) \in Seq(STRING) /\ Len(Front(Tail(from))) = Len(from) - 2
        /\ \A i \in 1..Len(from) - 2 : Front(Tail(from))[i] = from[i + 1]
    <3> DEFINE rest == Tail(from)
    <3>1. rest \in Seq(STRING) /\ rest # <<>>
      BY <2>2, <2>3
    <3> HIDE DEF rest
    <3>2. /\ Front(rest) \in Seq(STRING) /\ Len(Front(rest)) = Len(rest) - 1
          /\ \A i \in 1..Len(rest) - 1 : Front(rest)[i] = rest[i]
      BY <3>1, FrontOf
    <3>3. Len(rest) = Len(from) - 1 /\ \A i \in 1..Len(from) - 1 : rest[i] = from[i + 1]
      BY <2>2 DEF rest
    <3>4. Len(Front(rest)) = Len(from) - 2
      BY <2>1, <3>2, <3>3
    <3>5. \A i \in 1..Len(from) - 2 : Front(rest)[i] = from[i + 1]
      BY <2>1, <3>2, <3>3
    <3> QED
      BY <3>2, <3>4, <3>5 DEF rest
  <2>5. place = [root |-> from[1], directory |-> Front(Tail(from))]
    BY <1>1, <2>3 DEF Locate, VirtualDirectory
  <2>6. \A i \in 1..Len(from) : from[i] \notin Dots
    BY <2>1 DEF IsVirtualPath
  <2>7. Proper(Front(Tail(from)))
    BY <2>1, <2>4, <2>6 DEF Proper
  <2> QED
    BY <1>0, <1>1, <2>4, <2>5, <2>7 DEF WellPlaced
<1>2. CASE place = Locate(from) /\ ~ (Len(from) > 1 /\ from[1] \in ToSet(mounts))
  <2>1. place = [root |-> Primary, directory |-> VirtualDirectory(from)]
    BY <1>2 DEF Locate
  <2>2. VirtualDirectory(from) \in Seq(STRING) /\ Proper(VirtualDirectory(from))
    BY DirectoryProper
  <2>3. VirtualDirectory(from) # <<>> => Len(from) > 1 /\ VirtualDirectory(from)[1] = from[1]
    <3> SUFFICES ASSUME VirtualDirectory(from) # <<>>
                 PROVE  Len(from) > 1 /\ VirtualDirectory(from)[1] = from[1]
      OBVIOUS
    <3>1. from # <<>> /\ VirtualDirectory(from) = Front(from)
      BY DEF VirtualDirectory
    <3>2. /\ Len(from) \in Nat /\ Len(Front(from)) = Len(from) - 1 /\ Front(from) \in Seq(STRING)
          /\ \A i \in 1..Len(from) - 1 : Front(from)[i] = from[i]
      BY <3>1, FrontOf
    <3>3. Len(Front(from)) \in Nat /\ Len(Front(from)) # 0
      BY <3>1, <3>2
    <3>4. 1 \in 1..Len(from) - 1
      BY <3>2, <3>3
    <3> QED
      BY <3>1, <3>2, <3>4
  <2> QED
    BY <1>2, <2>1, <2>2, <2>3 DEF WellPlaced
<1>3. CASE place \in ToSet(searches)
  <2>1. PICK i \in 1..Len(searches) : place = searches[i]
    BY <1>3 DEF Typed, ToSet
  <2>2. /\ Len(searches) \in Nat /\ i \in 1..Len(config) /\ config[i] \in Declarations
        /\ DOMAIN config = 1..Len(config)
    BY DEF Typed
  <2>3. place.root = config[i].mount /\ place.directory = config[i].path
    <3>1. place = [root |-> config[i].mount, directory |-> config[i].path]
      BY <2>1 DEF Follows
    <3> QED
      BY <3>1
  <2>4. config[i].path \in Seq(STRING)
    BY <2>2 DEF Declarations
  <2>5. CASE config[i].mount # NoMount
    <3>1. config[i].path = <<>>
      BY <2>2, <2>5 DEF Declared
    <3>2. config[i].mount \in ToSet(mounts)
      BY <2>5 DEF Construction, Granted
    <3>3. Proper(<<>>)
      BY DEF Proper
    <3> QED
      BY <2>3, <2>4, <2>5, <3>1, <3>2, <3>3 DEF WellPlaced, Primary
  <2>6. CASE config[i].mount = NoMount
    <3>1. IsVirtualPath(config[i].path)
      BY <2>2, <2>6 DEF Declared
    <3>2. Proper(config[i].path) /\ config[i].path # <<>>
      <4>1. DOMAIN config[i].path = 1..Len(config[i].path)
        BY <2>4
      <4> QED
        BY <3>1, <4>1 DEF IsVirtualPath, IsRelative, IsPlain, Proper
    <3>3. ASSUME NEW m \in ToSet(mounts) PROVE config[i].path[1] # m
      <4>1. PICK j \in 1..Len(searches) : config[j].mount = m /\ m # NoMount
        BY <3>3 DEF Construction, Granted
      <4>2. j \in DOMAIN config
        BY <2>2 DEF Typed
      <4>3. ~IsPrefix(<<m>>, config[i].path)
        BY <2>2, <4>1, <4>2 DEF Unshadowed
      <4> QED
        BY <2>4, <3>2, <4>3, NotPrefixed
    <3> QED
      BY <2>3, <2>4, <2>6, <3>2, <3>3 DEF WellPlaced, Primary
  <2> QED
    BY <2>5, <2>6
<1> QED
  BY <1>1, <1>2, <1>3 DEF PlacesOf

\* Two files of an import that have one name are one file, when no mount is shadowed.
LEMMA OneNameOneFile ==
  ASSUME NEW p \in Seq(STRING), NEW q, NEW r, WellPlaced(q), WellPlaced(r),
         \A m \in ToSet(mounts) : m \in STRING,
         ResolveAgainst(q.directory, p) # Refusal, ResolveAgainst(r.directory, p) # Refusal,
         Virtual(FileAt(q, p)) = Virtual(FileAt(r, p))
  PROVE  FileAt(q, p) = FileAt(r, p)
<1> DEFINE x == ResolveAgainst(q.directory, p)
           y == ResolveAgainst(r.directory, p)
<1>1. /\ x \in Seq(STRING) /\ x # <<>> /\ y \in Seq(STRING) /\ y # <<>>
      /\ Len(x) > Len(y) => q.directory # <<>> /\ x[1] = q.directory[1]
      /\ Len(y) > Len(x) => r.directory # <<>> /\ y[1] = r.directory[1]
  BY ResolvedAbreast DEF WellPlaced
<1>2. /\ FileAt(q, p) = [root |-> q.root, relative |-> x]
      /\ FileAt(r, p) = [root |-> r.root, relative |-> y]
  BY DEF FileAt
<1> HIDE DEF x, y
<1>3. (IF q.root = Primary THEN x ELSE <<q.root>> \o x)
        = (IF r.root = Primary THEN y ELSE <<r.root>> \o y)
  BY <1>2 DEF Virtual
<1>4. ASSUME NEW m \in ToSet(mounts), NEW z \in Seq(STRING), z # <<>>
      PROVE  LET name == <<m>> \o z
             IN  Len(z) \in Nat /\ Len(name) = Len(z) + 1 /\ name[1] = m /\ Tail(name) = z
  <2>1. m \in STRING
    OBVIOUS
  <2>2. (<<m>> \o z)[1] = m /\ Tail(<<m>> \o z) = z
    BY <1>4, <2>1, BelowMount
  <2>3. Len(z) \in Nat /\ Len(<<m>> \o z) = Len(z) + 1
    OBVIOUS
  <2> QED
    BY <2>2, <2>3
<1>5. CASE q.root = Primary /\ r.root = Primary
  BY <1>2, <1>3, <1>5
<1>6. CASE q.root # Primary /\ r.root # Primary
  <2>1. q.root \in ToSet(mounts) /\ r.root \in ToSet(mounts)
    BY <1>6 DEF WellPlaced
  <2>2. <<q.root>> \o x = <<r.root>> \o y
    BY <1>3, <1>6
  <2>3. (<<q.root>> \o x)[1] = q.root /\ Tail(<<q.root>> \o x) = x
    BY <1>1, <1>4, <2>1
  <2>4. (<<r.root>> \o y)[1] = r.root /\ Tail(<<r.root>> \o y) = y
    BY <1>1, <1>4, <2>1
  <2>5. q.root = r.root /\ x = y
    BY <2>2, <2>3, <2>4
  <2> QED
    BY <1>2, <2>5
<1>7. CASE q.root = Primary /\ r.root # Primary
  <2>1. r.root \in ToSet(mounts)
    BY <1>7 DEF WellPlaced
  <2>2. x = <<r.root>> \o y
    BY <1>3, <1>7
  <2>3. Len(y) \in Nat /\ Len(x) = Len(y) + 1 /\ x[1] = r.root
    BY <1>1, <1>4, <2>1, <2>2
  <2>4. q.directory # <<>> /\ q.directory[1] = r.root
    BY <1>1, <2>3
  <2> QED
    BY <1>7, <2>1, <2>4 DEF WellPlaced
<1>8. CASE q.root # Primary /\ r.root = Primary
  <2>1. q.root \in ToSet(mounts)
    BY <1>8 DEF WellPlaced
  <2>2. y = <<q.root>> \o x
    BY <1>3, <1>8
  <2>3. Len(x) \in Nat /\ Len(y) = Len(x) + 1 /\ y[1] = q.root
    BY <1>1, <1>4, <2>1, <2>2
  <2>4. r.directory # <<>> /\ r.directory[1] = q.root
    BY <1>1, <2>3
  <2> QED
    BY <1>8, <2>1, <2>4 DEF WellPlaced
<1> QED
  BY <1>5, <1>6, <1>7, <1>8

\* The name of a candidate is its own.
LEMMA CandidateNames ==
  ASSUME IInv, Declared, Follows, Unshadowed,
         NEW from \in Seq(STRING), from = <<>> \/ IsVirtualPath(from), NEW p \in Seq(STRING),
         NEW a \in FilesAt(PlacesOf(from), p), NEW b \in FilesAt(PlacesOf(from), p),
         Virtual(a) = Virtual(b)
  PROVE  a = b
<1>1. PICK q \in PlacesOf(from) : a = FileAt(q, p) /\ ResolveAgainst(q.directory, p) # Refusal
  BY DEF FilesAt
<1>2. PICK r \in PlacesOf(from) : b = FileAt(r, p) /\ ResolveAgainst(r.directory, p) # Refusal
  BY DEF FilesAt
<1>3. WellPlaced(q) /\ WellPlaced(r)
  BY PlacesAreWell
<1>4. \A m \in ToSet(mounts) : m \in STRING
  <2>1. ToSet(mounts) \subseteq Mounts
    BY DEF IInv, Typed, ToSet
  <2> QED
    BY <2>1, PathAssumption
<1> QED
  BY <1>1, <1>2, <1>3, <1>4, OneNameOneFile


\* The first k of a sequence, and what is left of it.
LEMMA LeftOf ==
  ASSUME NEW S, NEW all \in Seq(S), NEW k \in 0..Len(all), SubSeq(all, k + 1, Len(all)) # <<>>
  PROVE  /\ k < Len(all) /\ k + 1 \in 0..Len(all)
         /\ SubSeq(all, k + 1, Len(all))[1] = all[k + 1]
         /\ Tail(SubSeq(all, k + 1, Len(all))) = SubSeq(all, k + 2, Len(all))
         /\ all[k + 1] \in S
<1> DEFINE n == Len(all)
           left == SubSeq(all, k + 1, n)
           rest == SubSeq(all, k + 2, n)
<1>1. n \in Nat /\ k \in Nat /\ k <= n /\ \A i \in 1..n : all[i] \in S
  OBVIOUS
<1> HIDE DEF n
<1>2. /\ left \in Seq(S) /\ Len(left) = IF k + 1 <= n THEN n - k ELSE 0
      /\ \A i \in 1..n - k : left[i] = all[k + i]
  <2>1. k + 1 \in Int /\ n \in Int /\ \A i \in k + 1..n : all[i] \in S
    BY <1>1
  <2>2. /\ left \in Seq(S) /\ Len(left) = IF k + 1 <= n THEN n - (k + 1) + 1 ELSE 0
        /\ \A i \in 1..n - (k + 1) + 1 : left[i] = all[(k + 1) + i - 1]
    BY <2>1, SubSeqProperties
  <2> HIDE DEF left
  <2>3. n - (k + 1) + 1 = n - k /\ \A i \in 1..n - k : (k + 1) + i - 1 = k + i
    BY <1>1
  <2> QED
    BY <2>2, <2>3
<1>3. /\ rest \in Seq(S) /\ Len(rest) = IF k + 2 <= n THEN n - k - 1 ELSE 0
      /\ \A i \in 1..n - k - 1 : rest[i] = all[k + 1 + i]
  <2>1. k + 2 \in Int /\ n \in Int /\ \A i \in k + 2..n : all[i] \in S
    BY <1>1
  <2>2. /\ rest \in Seq(S) /\ Len(rest) = IF k + 2 <= n THEN n - (k + 2) + 1 ELSE 0
        /\ \A i \in 1..n - (k + 2) + 1 : rest[i] = all[(k + 2) + i - 1]
    BY <2>1, SubSeqProperties
  <2> HIDE DEF rest
  <2>3. n - (k + 2) + 1 = n - k - 1 /\ \A i \in 1..n - k - 1 : (k + 2) + i - 1 = k + 1 + i
    BY <1>1
  <2> QED
    BY <2>2, <2>3
<1>a. left # <<>>
  BY DEF n
<1> HIDE DEF left, rest
<1>4. k < n
  BY <1>1, <1>2, <1>a
<1>5. Len(left) = n - k /\ left[1] = all[k + 1] /\ all[k + 1] \in S
  BY <1>1, <1>2, <1>4
<1>6. /\ Tail(left) \in Seq(S) /\ Len(Tail(left)) = n - k - 1
      /\ \A i \in 1..n - k - 1 : Tail(left)[i] = left[i + 1]
  BY <1>1, <1>2, <1>4, <1>5, <1>a, HeadTailProperties
<1>7. \A i \in 1..n - k - 1 : Tail(left)[i] = rest[i]
  BY <1>1, <1>2, <1>3, <1>6
<1>8. Len(rest) = n - k - 1
  BY <1>1, <1>3, <1>4
<1>9. Tail(left) = rest
  BY <1>3, <1>6, <1>7, <1>8, SeqEqual
<1> QED
  BY <1>1, <1>4, <1>5, <1>9 DEF n, left, rest

-----------------------------------------------------------------------------
(* The invariant of a search                                               *)

\* Before the construction nothing is asked.
LEMMA SearchInitially == Init => SInv
<1> SUFFICES ASSUME Init PROVE SInv
  OBVIOUS
<1>1. config = <<>> /\ searches = <<>> /\ phase = "declaring" /\ call = NoCall
  BY DEF Init
<1>2. call.from = <<>> /\ call.path = <<>> /\ call.left = <<>> /\ call.answer = "none"
  BY <1>1 DEF NoCall
<1>3. Asked
  BY <1>2 DEF Asked
<1>4. Declared /\ Follows
  BY <1>1 DEF Declared, Follows
<1>5. InUse /\ Progress
  BY <1>1, <1>2 DEF InUse, Progress
<1> QED
  BY <1>3, <1>4, <1>5 DEF SInv

\* Nothing has been passed before an import.
LEMMA NothingPassed ==
  ASSUME call = NoCall
  PROVE  Asked /\ Progress
<1>1. call.from = <<>> /\ call.path = <<>> /\ call.left = <<>> /\ call.answer = "none"
  BY DEF NoCall
<1> QED
  BY <1>1 DEF Asked, Progress

\* What an import has passed stays, while the importer stays.
LEMMA PassedStays ==
  ASSUME Asked, Progress, UNCHANGED <<config, mounts, searches, call>>
  PROVE  Asked' /\ Progress'
<1>1. PICK all : all = Candidates(call.from, call.path)
  OBVIOUS
<1>2. Candidates(call.from, call.path)' = all
  BY <1>1 DEF Candidates, Locate
<1>3. \A k : Passed(all, k) => Passed(all, k)'
  BY DEF Passed
<1> QED
  BY <1>1, <1>2, <1>3 DEF Asked, Progress

\* A declaration more; it was validated.
LEMMA SearchDeclareStep ==
  ASSUME IInv, SInv, NEW ok, NEW declared \in Declarations, Declare(ok, declared),
         ok => IF declared.mount = NoMount
               THEN IsVirtualPath(declared.path) ELSE declared.path = <<>>
  PROVE  SInv'
<1> USE DEF SInv
<1>1. call' = call /\ call = NoCall /\ searches' = <<>> /\ phase' \in {"declaring", "failed"}
  BY DEF Declare, IInv, Construction
<1>2. Asked' /\ Progress'
  BY <1>1, NothingPassed DEF Asked, Progress, NoCall
<1>3. Follows' /\ InUse'
  BY <1>1 DEF Follows, InUse
<1>4. Declared'
  <2>1. CASE ok
    <3>1. config' = Append(config, declared) /\ config \in Seq(Declarations)
      BY <2>1 DEF Declare, IInv, Typed
    <3>2. /\ Len(config) \in Nat /\ Len(config') = Len(config) + 1
          /\ config'[Len(config) + 1] = declared /\ \A i \in 1..Len(config) : config'[i] = config[i]
      BY <3>1
    <3>3. \A i \in 1..Len(config') : i \in 1..Len(config) \/ i = Len(config) + 1
      BY <3>2
    <3> QED
      BY <2>1, <3>2, <3>3 DEF Declared
  <2>2. CASE ~ok
    BY <2>2 DEF Declare, Declared
  <2> QED
    BY <2>1, <2>2
<1> QED
  BY <1>2, <1>3, <1>4

\* The next search is the next declaration, which has a mount or a path, and not both.
LEMMA SearchAddStep ==
  ASSUME IInv, SInv, AddSearchPath
  PROVE  SInv'
<1> USE DEF SInv
<1>1. /\ call' = call /\ config' = config /\ call = NoCall /\ phase = "opening"
      /\ phase' \in {"opening", "failing"}
  BY DEF AddSearchPath, FailOpening, IInv, Construction
<1>2. Asked' /\ Progress'
  BY <1>1, NothingPassed DEF Asked, Progress, NoCall
<1>3. Declared' /\ InUse'
  BY <1>1 DEF Declared, InUse
<1>4. Follows'
  <2> DEFINE n == Len(searches)
             next == [root |-> config[n + 1].mount, directory |-> config[n + 1].path]
  <2>1. /\ searches \in Seq(SearchPaths) /\ n \in Nat /\ n + 1 \in 1..Len(config)
    <3>1. searches \in Seq(SearchPaths) /\ config \in Seq(Declarations) /\ n < Len(config)
      BY DEF IInv, Typed, AddSearchPath
    <3> QED
      BY <3>1, Elements
  <2>2. CASE searches' = searches
    BY <1>1, <2>2 DEF Follows
  <2>3. CASE searches' # searches
    <3>1. \/ /\ config[n + 1].mount = NoMount
             /\ searches' = Append(searches, [root |-> Primary, directory |-> config[n + 1].path])
          \/ /\ config[n + 1].mount # NoMount
             /\ searches' = Append(searches, [root |-> config[n + 1].mount, directory |-> <<>>])
      BY <2>3 DEF AddSearchPath
    <3>2. config[n + 1].mount # NoMount => config[n + 1].path = <<>>
      BY <2>1 DEF Declared
    <3>3. searches' = Append(searches, next)
      BY <3>1, <3>2 DEF Primary
    <3> HIDE DEF next, n
    <3>4. /\ Len(searches') = n + 1 /\ searches'[n + 1] = next
          /\ \A i \in 1..n : searches'[i] = searches[i]
      BY <2>1, <3>3 DEF n
    <3>5. \A i \in 1..n + 1 : i \in 1..n \/ i = n + 1
      BY <2>1
    <3> QED
      BY <1>1, <3>4, <3>5 DEF Follows, next, n
  <2> QED
    BY <2>2, <2>3
<1> QED
  BY <1>2, <1>3, <1>4

\* An import that begins has all its candidates before it.
LEMMA BeginStep ==
  ASSUME IInv, SInv, NEW from \in Froms, NEW p \in Imported, Begin(from, p)
  PROVE  SInv'
<1> USE DEF SInv
<1>1. /\ UNCHANGED <<config, phase, mounts, searches>>
      /\ phase \in {"open", "closing", "closed"}
      /\ \/ call' = [NoCall EXCEPT !.from = from, !.path = p, !.answer = "canceled"]
         \/ call' = [NoCall EXCEPT !.from = from, !.path = p, !.answer = "denied"]
         \/ /\ from = <<>> \/ IsVirtualPath(from)
            /\ call' = [NoCall EXCEPT !.from = from, !.path = p, !.answer = "reading",
                                      !.left = Candidates(from, p)]
  BY DEF Begin, UnchangedByImport
<1>2. from \in Seq(STRING) /\ p \in Seq(STRING)
  BY PathAssumption
<1>3. call'.from = from /\ call'.path = p /\ call'.tried = {}
  BY <1>1 DEF NoCall
<1>4. Asked' /\ Declared' /\ Follows' /\ InUse'
  BY <1>1, <1>2, <1>3 DEF Asked, Declared, Follows, InUse
<1>5. CASE call'.answer # "reading"
  <2>1. call'.answer \in {"canceled", "denied"} /\ call'.left = <<>>
    BY <1>1, <1>5 DEF NoCall
  <2>2. Progress'
    BY <2>1 DEF Progress
  <2> QED
    BY <1>4, <2>2
<1>6. CASE call'.answer = "reading"
  <2>0. PICK all : all = Candidates(from, p)
    OBVIOUS
  <2>1. (from = <<>> \/ IsVirtualPath(from)) /\ call'.left = all
    BY <1>1, <1>6, <2>0 DEF NoCall
  <2>2. all \in Seq(FilesAt(PlacesOf(from), p))
    BY <2>0, CandidatesAreFiles DEF IInv
  <2>3. Candidates(call.from, call.path)' = all
    BY <1>1, <1>3, <2>0 DEF Candidates, Locate
  <2>4. SubSeq(all, 0 + 1, Len(all)) = all /\ 0 \in 0..Len(all)
    BY <2>2
  <2>5. {all[i] : i \in 1..0} = {}
    OBVIOUS
  <2>6. Passed(all, 0)'
    BY <1>3, <1>6, <2>1, <2>4, <2>5 DEF Passed
  <2>7. Progress'
    BY <1>3, <1>6, <2>1, <2>3, <2>4, <2>6 DEF Progress
  <2> QED
    BY <1>4, <2>7
<1> QED
  BY <1>5, <1>6

\* An import's candidates do not change under it, nor do the rest of what is asked.
LEMMA SameSearch ==
  ASSUME SInv, UnchangedByImport, call # NoCall, call'.from = call.from, call'.path = call.path,
         Progress'
  PROVE  SInv'
BY DEF SInv, UnchangedByImport, Asked, Declared, Follows, InUse

\* The next candidate of an import that is reading, and what is known of all of them.
LEMMA SkipOrReadStep ==
  ASSUME IInv, SInv, Skip \/ Read
  PROVE  SInv'
<1> USE DEF SInv
<1>1. call.left # <<>> /\ UnchangedByImport /\ call.answer = "reading" /\ call # NoCall
  <2>1. call.left # <<>> /\ UnchangedByImport
    BY DEF Skip, Read
  <2> QED
    BY <2>1 DEF Progress, NoCall
<1>2. PICK all : all = Candidates(call.from, call.path)
  OBVIOUS
<1>3. PICK k \in 0..Len(all) : Passed(all, k)
  BY <1>1, <1>2 DEF Progress
<1>4. PICK F : F = FilesAt(PlacesOf(call.from), call.path)
  OBVIOUS
<1>5. all \in Seq(F)
  BY <1>2, <1>4, CandidatesAreFiles DEF IInv
<1>6. call.left = SubSeq(all, k + 1, Len(all))
  BY <1>1, <1>3 DEF Passed
<1>7. /\ k < Len(all) /\ k + 1 \in 0..Len(all) /\ call.left[1] = all[k + 1]
      /\ Tail(call.left) = SubSeq(all, (k + 1) + 1, Len(all)) /\ all[k + 1] \in F
  <2>1. k + 2 = (k + 1) + 1
    OBVIOUS
  <2> QED
    BY <1>1, <1>5, <1>6, <2>1, LeftOf
<1>8. /\ call.from = <<>> \/ IsVirtualPath(call.from)
      /\ call.from \in Seq(STRING) /\ call.path \in Seq(STRING)
  BY <1>1 DEF Progress, Asked
<1>9. \A i \in 1..k + 1 : i \in 1..k \/ i = k + 1
  BY <1>7
<1>10. {all[i] : i \in 1..k + 1} = {all[i] : i \in 1..k} \cup {all[k + 1]}
  <2>1. 1..k + 1 = 1..k \cup {k + 1}
    BY <1>7
  <2> QED
    BY <2>1
<1>11. ASSUME call'.from = call.from, call'.path = call.path
       PROVE  Candidates(call.from, call.path)' = all
  BY <1>1, <1>2, <1>11 DEF UnchangedByImport, Candidates, Locate
<1>12. CallShape
  BY DEF IInv
\* On to the next one, which has been tried now, or whose name was tried before.
<1>13. ASSUME call' = [call EXCEPT !.left = Tail(call.left), !.tried = call'.tried],
              call.tried \subseteq call'.tried, call'.tried \subseteq call.tried \cup {all[k + 1]},
              \E t \in call'.tried : Virtual(t) = Virtual(all[k + 1])
       PROVE  SInv'
  <2>1. /\ call'.from = call.from /\ call'.path = call.path /\ call'.answer = "reading"
        /\ call'.left = SubSeq(all, (k + 1) + 1, Len(all))
    BY <1>1, <1>7, <1>12, <1>13 DEF CallShape
  <2>2. Passed(all, k + 1)'
    <3>1. call'.tried \subseteq {all[i] : i \in 1..k + 1}
      BY <1>3, <1>10, <1>13 DEF Passed
    <3>2. \A i \in 1..k + 1 : \E t \in call'.tried : Virtual(t) = Virtual(all[i])
      BY <1>3, <1>9, <1>13 DEF Passed
    <3> QED
      BY <2>1, <3>1, <3>2 DEF Passed
  <2>3. Progress'
    BY <1>7, <1>8, <1>11, <2>1, <2>2 DEF Progress
  <2> QED
    BY <1>1, <2>1, <2>3, SameSearch
\* The end of the import.
<1>14. ASSUME NEW answer, NEW file, Answer(answer, file), answer # "reading", answer # "missing",
              answer = "served" => file = all[k + 1]
       PROVE  SInv'
  <2>1. /\ call'.from = call.from /\ call'.path = call.path /\ call'.answer = answer
        /\ call'.left = <<>> /\ call'.tried = call.tried /\ call'.file = file
    BY <1>12, <1>14 DEF CallShape, Answer
  <2>2. Passed(all, k)'
    BY <1>3, <1>7, <1>14, <2>1 DEF Passed
  <2>3. Progress'
    BY <1>8, <1>11, <1>14, <2>1, <2>2 DEF Progress
  <2> QED
    BY <1>1, <2>1, <2>3, SameSearch
<1>15. CASE Skip
  <2>1. PICK t \in call.tried : Virtual(t) = Virtual(all[k + 1])
    BY <1>7, <1>15 DEF Skip
  <2>2. /\ call' = [call EXCEPT !.left = Tail(call.left), !.tried = call'.tried]
        /\ call'.tried = call.tried
    BY <1>12, <1>15 DEF Skip, CallShape
  <2> QED
    BY <1>13, <2>1, <2>2
<1>16. CASE Read
  <2>1. \/ Answer("served", all[k + 1])
        \/ call' = [call EXCEPT !.left = Tail(call.left), !.tried = call.tried \cup {all[k + 1]}]
        \/ Answer("canceled", call.file)
        \/ Answer("unreadable", call.file)
    BY <1>7, <1>16 DEF Read
  <2>2. CASE call' = [call EXCEPT !.left = Tail(call.left), !.tried = call.tried \cup {all[k + 1]}]
    <3>1. /\ call' = [call EXCEPT !.left = Tail(call.left), !.tried = call'.tried]
          /\ call'.tried = call.tried \cup {all[k + 1]}
      BY <1>12, <2>2 DEF CallShape
    <3> QED
      BY <1>13, <3>1
  <2>3. CASE Answer("served", all[k + 1])
    BY <1>14, <2>3
  <2>4. CASE Answer("canceled", call.file) \/ Answer("unreadable", call.file)
    BY <1>14, <2>4
  <2> QED
    BY <2>1, <2>2, <2>3, <2>4
<1> QED
  BY <1>15, <1>16

\* An import that has none left has passed them all.
LEMMA MissingStep ==
  ASSUME IInv, SInv, Missing
  PROVE  SInv'
<1> USE DEF SInv
<1>1. /\ call.left = <<>> /\ call.answer = "reading" /\ UnchangedByImport
      /\ Answer("missing", call.file) /\ CallShape /\ call # NoCall
  BY DEF Missing, IInv, NoCall
<1>2. PICK all : all = Candidates(call.from, call.path)
  OBVIOUS
<1>3. PICK k \in 0..Len(all) : Passed(all, k)
  BY <1>1, <1>2 DEF Progress
<1>4. PICK F : all \in Seq(F)
  BY <1>2, CandidatesAreFiles DEF IInv
<1>5. k = Len(all)
  <2>1. SubSeq(all, k + 1, Len(all)) = <<>>
    BY <1>1, <1>3 DEF Passed
  <2>2. Len(all) \in Nat /\ k \in Nat /\ k <= Len(all)
    BY <1>4
  <2>3. \A i \in k + 1..Len(all) : all[i] \in F
    BY <1>4, <2>2
  <2>4. Len(SubSeq(all, k + 1, Len(all))) = IF k + 1 <= Len(all) THEN Len(all) - (k + 1) + 1 ELSE 0
    BY <2>2, <2>3, SubSeqProperties
  <2>5. Len(SubSeq(all, k + 1, Len(all))) = 0
    BY <2>1
  <2> QED
    BY <2>2, <2>4, <2>5
<1>6. /\ call'.from = call.from /\ call'.path = call.path /\ call'.answer = "missing"
      /\ call'.left = <<>> /\ call'.tried = call.tried
  BY <1>1 DEF CallShape, Answer
<1>8. Candidates(call.from, call.path)' = all
  BY <1>1, <1>2, <1>6 DEF UnchangedByImport, Candidates, Locate
<1>9. Passed(all, k)'
  BY <1>3, <1>5, <1>6 DEF Passed
<1>10. Progress'
  BY <1>1, <1>6, <1>8, <1>9 DEF Progress
<1> QED
  BY <1>1, <1>6, <1>10, SameSearch

\* After an import nothing is asked.
LEMMA ReturnStep ==
  ASSUME SInv, Return
  PROVE  SInv'
<1>1. call' = NoCall /\ UnchangedByImport
  BY DEF Return
<1>2. call'.from = <<>> /\ call'.path = <<>> /\ call'.left = <<>> /\ call'.answer = "none"
  BY <1>1 DEF NoCall
<1>3. Asked' /\ Progress'
  BY <1>2 DEF Asked, Progress
<1>4. Declared' /\ Follows' /\ InUse'
  BY <1>1 DEF SInv, UnchangedByImport, Declared, Follows, InUse
<1> QED
  BY <1>3, <1>4 DEF SInv

\* The steps that leave the searches and the import as they are.
LEMMA ElsewhereStep ==
  ASSUME IInv, SInv, UNCHANGED <<config, mounts, searches, call>>,
         \/ phase' = phase
         \/ phase' \in {"opening", "failing", "failed"} /\ call = NoCall
         \/ phase' = "open" /\ Len(searches) = Len(config)
         \/ phase' \in {"closing", "closed"} /\ phase \in {"open", "closing"}
  PROVE  SInv'
<1>1. Asked' /\ Progress'
  BY PassedStays DEF SInv
<1>2. Declared' /\ Follows'
  BY DEF SInv, Declared, Follows
<1>3. InUse'
  BY DEF SInv, InUse
<1> QED
  BY <1>1, <1>2, <1>3 DEF SInv

\* Every step keeps the invariant of the search, given the one of the roots.
LEMMA SearchInductive == IInv /\ SInv /\ [Next]_vars => SInv'
<1> SUFFICES ASSUME IInv, SInv, [Next]_vars PROVE SInv'
  OBVIOUS
<1>1. CASE UNCHANGED vars
  BY <1>1, ElsewhereStep DEF vars
<1>2. ASSUME NEW p \in LibraryPaths, WithLibraryPaths(p) PROVE SInv'
  <2> DEFINE declared == [path |-> p, mount |-> NoMount]
  <2>1. declared \in Declarations /\ declared.mount = NoMount /\ declared.path = p
    BY PathAssumption DEF Declarations, Roots, Primary
  <2>2. Declare(IsVirtualPath(p), declared)
    BY <1>2 DEF WithLibraryPaths
  <2> HIDE DEF declared
  <2> QED
    BY <2>1, <2>2, SearchDeclareStep
<1>3. ASSUME NEW m \in Mounts, WithSearchRoot(m) PROVE SInv'
  <2> DEFINE declared == [path |-> <<>>, mount |-> m]
             ok       == IsVirtualPath(<<m>>) /\ \A i \in DOMAIN config : config[i].mount # m
  <2>1. declared \in Declarations /\ declared.mount = m /\ declared.path = <<>> /\ m # NoMount
    BY PathAssumption DEF Declarations, Roots, Primary
  <2>2. Declare(ok, declared)
    BY <1>3 DEF WithSearchRoot
  <2> HIDE DEF declared, ok
  <2> QED
    BY <2>1, <2>2, SearchDeclareStep
<1>4. CASE OpenPrimary
  <2>1. call = NoCall
    BY <1>4 DEF OpenPrimary, IInv, Construction
  <2> QED
    BY <1>4, <2>1, ElsewhereStep DEF OpenPrimary
<1>5. CASE AddSearchPath
  BY <1>5, SearchAddStep
<1>6. CASE Opened \/ Close
  BY <1>6, ElsewhereStep DEF Opened, Close
<1>7. CASE CloseNext
  <2>1. phase = "failing" => call = NoCall
    BY DEF SInv, InUse
  <2> QED
    BY <1>7, <2>1, ElsewhereStep DEF CloseNext
<1>8. ASSUME NEW from \in Froms, NEW p \in Imported, Begin(from, p) PROVE SInv'
  BY <1>8, BeginStep
<1>9. CASE Skip \/ Read \/ Missing \/ Return
  BY <1>9, SkipOrReadStep, MissingStep, ReturnStep
<1>10. ASSUME NEW d \in Dirs, NEW f \in Files, AddFile(d, f) \/ RemoveFile(d, f) PROVE SInv'
  BY <1>10, ElsewhereStep DEF AddFile, RemoveFile
<1> QED
  BY <1>1, <1>2, <1>3, <1>4, <1>5, <1>6, <1>7, <1>8, <1>9, <1>10 DEF Next

\* What has been passed is what stands before the served file, or everything.
LEMMA SearchSuffices == IInv /\ SInv => SearchOrder
<1> SUFFICES ASSUME IInv, SInv, call.answer \in {"served", "missing"} PROVE SearchOrder
  BY DEF SearchOrder
<1> USE DEF SInv
<1>1. PICK all : all = Candidates(call.from, call.path)
  OBVIOUS
<1>2. PICK k \in 0..Len(all) : Passed(all, k)
  BY <1>1 DEF Progress
<1>3. PICK F : F = FilesAt(PlacesOf(call.from), call.path)
  OBVIOUS
<1>4. all \in Seq(F)
  BY <1>1, <1>3, CandidatesAreFiles DEF IInv
<1>5. all = Resolved(Places(call.from), call.path)
  <2>1. Len(searches) = Len(config)
    BY DEF InUse, NoCall
  <2> QED
    BY <1>1, <2>1, SamePlaces DEF IInv
<1>6. /\ Len(all) \in Nat /\ k \in Nat /\ k <= Len(all) /\ k + 1 \in 1..(Len(all) + 1)
      /\ (k + 1) - 1 = k /\ \A i \in 1..k : all[i] \in F
  BY <1>4
<1>7. call.tried \subseteq {all[i] : i \in 1..k} /\ call.tried \subseteq F
  BY <1>2, <1>6 DEF Passed
<1>8. ASSUME NEW i \in 1..k PROVE NotThere(all[i])
  <2>1. PICK t \in call.tried : Virtual(t) = Virtual(all[i])
    BY <1>2 DEF Passed
  <2>2. t \in F /\ all[i] \in F
    BY <1>6, <1>7
  <2>3. ASSUME Unshadowed PROVE t = all[i]
    <3>1. /\ call.from = <<>> \/ IsVirtualPath(call.from)
          /\ call.from \in Seq(STRING) /\ call.path \in Seq(STRING)
      BY DEF Progress, Asked
    <3> QED
      BY <1>3, <2>1, <2>2, <2>3, <3>1, CandidateNames
  <2> QED
    BY <2>1, <2>3 DEF NotThere
<1>9. IF call.answer = "missing" THEN k + 1 > Len(all)
      ELSE k + 1 <= Len(all) /\ all[k + 1] = call.file
  BY <1>2, <1>6 DEF Passed
<1> QED
  BY <1>5, <1>6, <1>7, <1>8, <1>9 DEF SearchOrder

\* The names of an import are paths, of which the two hosts make the same.
LEMMA AlikeSuffices == SInv => HostsResolveAlike
<1> SUFFICES ASSUME SInv, Windows \/ Volume \notin ToSet(call.from \o call.path)
             PROVE  LET files == {ResolveVirtualImport(call.from, call.path),
                                  RustResolveVirtualImport(call.from, call.path)} \ {Refusal}
                    IN  /\ MapImport(files, call.from, call.path)
                             = RustMapImport(files, call.from, call.path)
                        /\ \A p \in files \cup {call.path} :
                              MapImporterTakes({p}) <=> RustMapImporterTakes({p})
  BY DEF HostsResolveAlike
<1>1. PICK from \in Seq(STRING) : from = call.from
  BY DEF SInv, Asked
<1>2. PICK p \in Seq(STRING) : p = call.path
  BY DEF SInv, Asked
<1> DEFINE S == ToSet(from \o p)
<1>3. from \in Seq(S) /\ p \in Seq(S)
  <2>1. /\ Len(from \o p) = Len(from) + Len(p) /\ from \o p \in Seq(STRING)
        /\ Len(from) \in Nat /\ Len(p) \in Nat
        /\ \A i \in 1..Len(from) + Len(p) :
              (from \o p)[i] = IF i <= Len(from) THEN from[i] ELSE p[i - Len(from)]
    BY ConcatProperties
  <2>2. S = {(from \o p)[i] : i \in 1..Len(from) + Len(p)}
    BY <2>1 DEF ToSet
  <2>3. \A i \in 1..Len(from) : from[i] \in S
    BY <2>1, <2>2
  <2>4. ASSUME NEW i \in 1..Len(p) PROVE p[i] \in S
    <3>1. /\ Len(from) + i \in 1..Len(from) + Len(p) /\ ~(Len(from) + i <= Len(from))
          /\ (Len(from) + i) - Len(from) = i
      BY <2>1
    <3> QED
      BY <2>1, <2>2, <3>1
  <2> QED
    BY <2>3, <2>4
<1>4. Plainly(S)
  BY <1>1, <1>2 DEF Plainly
<1> HIDE DEF S
<1>5. PICK x \in Seq(S) : x = ResolveVirtualImport(from, p) /\ x = RustResolveVirtualImport(from, p)
  BY <1>3, <1>4, ResolvedAlike
<1>6. MapImport({x} \ {Refusal}, from, p) = RustMapImport({x} \ {Refusal}, from, p)
  BY <1>5 DEF MapImport, RustMapImport
<1>7. ASSUME NEW f \in {x, p} PROVE MapImporterTakes({f}) <=> RustMapImporterTakes({f})
  BY <1>3, <1>4, <1>5, VirtualAlike DEF MapImporterTakes, RustMapImporterTakes
<1> QED
  BY <1>1, <1>2, <1>5, <1>6, <1>7

-----------------------------------------------------------------------------
(* The values of the variables                                             *)

\* A file that is looked for: in a root of the importer, by a path that stays in it.
InRoot(file) == file.root \in Roots /\ IsVirtualPath(file.relative)

\* The files to look for, and those looked for, are such files.
Looked ==
    \E F : /\ \A file \in F : InRoot(file)
           /\ call.left \in Seq(F) /\ call.tried \subseteq F
           /\ call.file \in F \cup {NoCall.file}

\* What the proof of the types needs besides the invariant of the roots.
Kinds ==
    /\ Len(config) <= MaxDeclared
    /\ phase \in {"declaring", "opening", "open", "closing", "closed", "failing", "failed"}
    /\ appeared \subseteq Mounts
    /\ call.answer \in {"none", "reading", "served", "missing", "denied", "canceled", "unreadable"}
    /\ Looked

\* resolveAgainstVirtualDirectory: what it does not refuse is a virtual path.
LEMMA CandidatesStayInRoots ==
  ASSUME Typed, Construction, NEW from, NEW p, NEW file \in FilesAt(PlacesOf(from), p)
  PROVE  InRoot(file)
<1>1. PICK place \in PlacesOf(from) :
            ResolveAgainst(place.directory, p) # Refusal /\ file = FileAt(place, p)
  BY DEF FilesAt
<1>2. file.root = place.root /\ file.relative = ResolveAgainst(place.directory, p)
  BY <1>1 DEF FileAt
<1>3. IsVirtualPath(ResolveAgainst(place.directory, p))
  BY <1>1 DEF ResolveAgainst
<1>4. place.root \in Roots
  <2>1. CASE place = Locate(from)
    <3>1. ToSet(mounts) \subseteq Roots
      BY DEF Typed, ToSet, Roots
    <3> QED
      BY <2>1, <3>1 DEF Locate, Roots
  <2>2. CASE place \in ToSet(searches)
    <3>1. PICK i \in 1..Len(searches) : place = searches[i]
      BY <2>2 DEF Typed, ToSet
    <3>2. searches[i] \in SearchPaths
      BY <3>1 DEF Typed
    <3> QED
      BY <3>1, <3>2 DEF SearchPaths
  <2> QED
    BY <1>1, <2>1, <2>2 DEF PlacesOf
<1> QED
  BY <1>2, <1>3, <1>4 DEF InRoot

LEMMA KindsStart == Init => Kinds
<1> SUFFICES ASSUME Init PROVE Kinds
  OBVIOUS
<1>1. config = <<>> /\ phase = "declaring" /\ appeared = {} /\ call = NoCall
  BY DEF Init
<1>2. call.left = <<>> /\ call.tried = {} /\ call.answer = "none"
  BY <1>1 DEF NoCall
<1>3. Looked
  <2>1. call.left \in Seq({}) /\ call.tried \subseteq {} /\ call.file = NoCall.file
    BY <1>1, <1>2
  <2> QED
    BY <2>1 DEF Looked
<1>4. Len(config) <= MaxDeclared
  BY <1>1, PathAssumption
<1> QED
  BY <1>1, <1>2, <1>3, <1>4 DEF Kinds

\* An import goes on with what is left, or begins with its candidates.
LEMMA KindsOfImport ==
  ASSUME IInv, Kinds, UnchangedByImport, call'.answer \in {"none", "reading", "served", "missing",
                                                  "denied", "canceled", "unreadable"}, Looked'
  PROVE  Kinds'
BY DEF Kinds, UnchangedByImport

LEMMA KindsStep == IInv /\ Kinds /\ [Next]_vars => Kinds'
<1> SUFFICES ASSUME IInv, Kinds, [Next]_vars PROVE Kinds'
  OBVIOUS
<1>1. CASE UNCHANGED vars
  BY <1>1 DEF vars, Kinds, Looked
<1>2. ASSUME NEW ok, NEW declared, Declare(ok, declared) PROVE Kinds'
  <2>1. config \in Seq(Declarations) /\ MaxDeclared \in Nat /\ call' = call /\ appeared' = appeared
    BY <1>2, PathAssumption DEF Declare, IInv, Typed
  <2>2. Len(config') <= MaxDeclared
    <3>1. CASE ok
      <4>1. Len(Append(config, declared)) = Len(config) + 1 /\ Len(config) \in Nat
        BY <2>1
      <4> QED
        BY <1>2, <2>1, <3>1, <4>1 DEF Declare
    <3>2. CASE ~ok
      BY <1>2, <3>2 DEF Declare, Kinds
    <3> QED
      BY <3>1, <3>2
  <2>3. phase' \in {phase, "failed"}
    BY <1>2 DEF Declare
  <2> QED
    BY <2>1, <2>2, <2>3 DEF Kinds, Looked
<1>3. CASE \/ \E p \in LibraryPaths : WithLibraryPaths(p)
           \/ \E m \in Mounts : WithSearchRoot(m)
  BY <1>2, <1>3 DEF WithLibraryPaths, WithSearchRoot
<1>4. CASE OpenPrimary \/ AddSearchPath \/ Opened \/ Close \/ CloseNext
  <2>1. config' = config /\ call' = call /\ appeared' = appeared
    BY <1>4 DEF OpenPrimary, AddSearchPath, Opened, Close, CloseNext
  <2>2. phase' \in {"declaring", "opening", "open", "closing", "closed", "failing", "failed"}
    BY <1>4 DEF OpenPrimary, AddSearchPath, FailOpening, Opened, Close, CloseNext, Kinds
  <2> QED
    BY <2>1, <2>2 DEF Kinds, Looked
<1>5. ASSUME NEW from \in Froms, NEW p \in Imported, Begin(from, p) PROVE Kinds'
  <2> DEFINE asked == [NoCall EXCEPT !.from = from, !.path = p]
             F == FilesAt(PlacesOf(from), p)
  <2>1. Candidates(from, p) \in Seq(F) /\ \A file \in F : InRoot(file)
    BY CandidatesAreFiles, CandidatesStayInRoots DEF IInv
  <2>2. /\ UnchangedByImport /\ call'.tried = {} /\ call'.file = NoCall.file
        /\ call'.left \in {<<>>, Candidates(from, p)}
        /\ call'.answer \in {"canceled", "denied", "reading"}
    BY <1>5 DEF Begin, NoCall
  <2>3. <<>> \in Seq(F)
    OBVIOUS
  <2> HIDE DEF F
  <2>4. call'.left \in Seq(F) /\ call'.tried \subseteq F /\ call'.file = NoCall.file
    BY <2>1, <2>2, <2>3
  <2>5. \A file \in F : InRoot(file)'
    BY <2>1 DEF InRoot
  <2>6. Looked'
    BY <2>1, <2>4 DEF Looked, InRoot
  <2> QED
    BY <2>2, <2>6, KindsOfImport
<1>6. CASE Skip \/ Read
  <2>1. PICK F : /\ \A file \in F : InRoot(file)
                 /\ call.left \in Seq(F) /\ call.tried \subseteq F
                 /\ call.file \in F \cup {NoCall.file}
    BY DEF Kinds, Looked
  <2>2. call.left # <<>> /\ UnchangedByImport
    BY <1>6 DEF Skip, Read
  <2>3. call.left[1] \in F /\ Tail(call.left) \in Seq(F) /\ <<>> \in Seq(F)
    BY <2>1, <2>2
  <2>4. /\ call'.left \in {<<>>, Tail(call.left)}
        /\ call'.tried \in {call.tried, call.tried \cup {call.left[1]}}
        /\ call'.file \in {call.file, call.left[1]}
        /\ call'.answer \in {call.answer, "served", "canceled", "unreadable"}
    <3>1. CASE Skip
      BY <3>1 DEF Skip, IInv, CallShape
    <3>2. CASE Read
      BY <3>2 DEF Read, Answer, IInv, CallShape
    <3> QED
      BY <1>6, <3>1, <3>2
  <2>5. /\ call'.left \in Seq(F) /\ call'.tried \subseteq F
        /\ call'.file \in F \cup {NoCall.file}
    BY <2>1, <2>3, <2>4
  <2>6. Looked'
    BY <2>1, <2>5 DEF Looked, InRoot
  <2> QED
    BY <2>2, <2>4, <2>6, KindsOfImport DEF Kinds
<1>7. CASE Missing \/ Return
  <2>1. /\ UnchangedByImport /\ call'.left = <<>> /\ call'.tried \in {{}, call.tried}
        /\ call'.file \in {NoCall.file, call.file}
        /\ call'.answer \in {"missing", "none"}
    <3>1. CASE Missing
      BY <3>1 DEF Missing, Answer, IInv, CallShape
    <3>2. CASE Return
      BY <3>2 DEF Return, NoCall
    <3> QED
      BY <1>7, <3>1, <3>2
  <2>2. PICK F : /\ \A file \in F : InRoot(file)
                 /\ call.left \in Seq(F) /\ call.tried \subseteq F
                 /\ call.file \in F \cup {NoCall.file}
    BY DEF Kinds, Looked
  <2>3. /\ call'.left \in Seq(F) /\ call'.tried \subseteq F
        /\ call'.file \in F \cup {NoCall.file}
    BY <2>1, <2>2
  <2>4. Looked'
    BY <2>2, <2>3 DEF Looked, InRoot
  <2> QED
    BY <2>1, <2>4, KindsOfImport
<1>8. ASSUME NEW d \in Dirs, NEW f \in Files, AddFile(d, f) \/ RemoveFile(d, f) PROVE Kinds'
  <2>1. config' = config /\ phase' = phase /\ call' = call
        /\ appeared' \in {appeared, appeared \cup ({f[1]} \cap Mounts)}
    BY <1>8 DEF AddFile, RemoveFile
  <2> QED
    BY <2>1 DEF Kinds, Looked
<1> QED
  BY <1>1, <1>3, <1>4, <1>5, <1>6, <1>7, <1>8 DEF Next

-----------------------------------------------------------------------------
(* The theorems                                                            *)

\* The invariant holds.
LEMMA Invariance == Spec => []IInv
BY Initially, Inductive, PTL DEF Spec

\* NewWorkspaceImporter and Close: no root is left open by an importer that could not be
\* built or was closed, and one in use has every root it was granted.
THEOREM RootsAreAccounted == Spec => []RootsOfImporter
BY Invariance, InvariantSuffices, PTL

\* locate and virtual: a served path leads back to the file it was read from.
THEOREM NamesLeadBack == Spec => []NamesTellRoots
BY Invariance, InvariantSuffices, PTL

\* Both invariants hold.
LEMMA SearchInvariance == Spec => [](IInv /\ SInv)
<1>1. Init => IInv /\ SInv
  BY Initially, SearchInitially
<1>2. IInv /\ SInv /\ [Next]_vars => (IInv /\ SInv)'
  BY Inductive, SearchInductive
<1> QED
  BY <1>1, <1>2, PTL DEF Spec

\* candidates and Import: a served file is the first there is of its candidates, and a missing
\* one was looked for in every declared place, but for files of a name already looked for;
\* and no two have one name when no library path begins with the name of a mount.
THEOREM SearchIsInOrder == Spec => []SearchOrder
BY SearchInvariance, SearchSuffices, PTL

\* importer.go and lib.rs: the MapImporters of the two hosts answer every import alike, for
\* paths of any length, but for a volume where the Go host is not on Windows.
THEOREM HostsAgree == Spec => []HostsResolveAlike
<1>1. IInv /\ SInv => HostsResolveAlike
  BY AlikeSuffices
<1> QED
  BY <1>1, SearchInvariance, PTL

\* Both invariants hold.
LEMMA KindsInvariance == Spec => [](IInv /\ Kinds)
<1>1. Init => IInv /\ Kinds
  BY Initially, KindsStart
<1>2. IInv /\ Kinds /\ [Next]_vars => (IInv /\ Kinds)'
  BY Inductive, KindsStep
<1> QED
  BY <1>1, <1>2, PTL DEF Spec

\* The state of an importer is well typed, and no more is declared than there are options.
THEOREM ImporterTypeCorrect == Spec => []TypeOK
<1>1. IInv /\ Kinds => TypeOK
  <2> SUFFICES ASSUME IInv, Kinds PROVE TypeOK
    OBVIOUS
  <2>1. config \in Seq(Declarations) /\ DOMAIN config = 1..Len(config)
    BY DEF IInv, Typed
  <2>2. \A i \in DOMAIN config : config[i] \in Declarations
    BY <2>1
  <2>3. \A i \in DOMAIN config : config[i].mount \in Mounts \cup {NoMount}
    BY <2>2 DEF Declarations, Roots, Primary
  <2>4. ToSet(mounts) \subseteq Mounts
    BY DEF IInv, Typed, ToSet
  <2>5. roots \subseteq Mounts \cup {Primary}
    BY <2>4 DEF IInv, Construction
  <2> QED
    BY <2>3, <2>4, <2>5 DEF IInv, Typed, Kinds, TypeOK
<1> QED
  BY <1>1, KindsInvariance, PTL

\* resolveCandidate: every path looked for, in any root and for any import, stays in the
\* directory that was granted, however many ".." it has and wherever they stand.
THEOREM PathsStayInRoots == Spec => []StaysInRoots
<1>1. Kinds => StaysInRoots
  <2> SUFFICES ASSUME Kinds PROVE StaysInRoots
    OBVIOUS
  <2>1. PICK F : /\ \A file \in F : InRoot(file)
                 /\ call.left \in Seq(F) /\ call.tried \subseteq F
                 /\ call.file \in F \cup {NoCall.file}
    BY DEF Kinds, Looked
  <2>2. ToSet(call.left) \subseteq F
    BY <2>1 DEF ToSet
  <2>3. NoCall.file.root = Primary
    BY DEF NoCall
  <2> QED
    BY <2>1, <2>2, <2>3 DEF StaysInRoots, InRoot, Roots
<1> QED
  BY <1>1, KindsInvariance, PTL
=============================================================================
