-------------------------- MODULE WorkspaceImporter ---------------------------
(***************************************************************************)
(* The WorkspaceImporter of the Go host (importer.go): its declarations,   *)
(* its construction, one import at a time, and Close, over directories     *)
(* that change at any moment.                                              *)
(***************************************************************************)
EXTENDS VirtualPaths, FiniteSets

CONSTANTS
    MountDir,      \* a host directory for each mount name
    LibraryPaths,  \* the paths given to WithLibraryPaths
    Files,         \* the paths at which the directories may have files
    Froms,         \* what imports may come from
    Imported,      \* what they may ask for
    MaxDeclared    \* bounds the declared search paths

Mounts == DOMAIN MountDir

\* The directory of the workspace root, and its mount.
Workspace == "workspace"
NoMount   == ""

Dirs == {Workspace} \cup {MountDir[m] : m \in Mounts}

ASSUME PathAssumption ==
    /\ Windows \in BOOLEAN
    /\ Mounts \subseteq STRING \ {NoMount}
    /\ \A m \in Mounts : MountDir[m] # Workspace
    /\ LibraryPaths \subseteq Seq(STRING)
    /\ Files \subseteq Seq(STRING) \ {<<>>}
    /\ Froms \cup Imported \subseteq Seq(STRING)
    /\ MaxDeclared \in Nat

VARIABLES
    disk,      \* the files in each directory
    config,    \* workspaceConfig.searchPaths: mounts and library paths
    phase,     \* how far NewWorkspaceImporter and Close have come
    mounts,    \* WorkspaceImporter.mounts
    searches,  \* WorkspaceImporter.searches
    roots,     \* the mounts whose os.Root is open
    appeared,  \* names of mounts that came into the workspace since it was opened
    call       \* the import under way

vars == <<disk, config, phase, mounts, searches, roots, appeared, call>>

Primary == NoMount

NoCall == [from |-> <<>>, path |-> <<>>, left |-> <<>>, tried |-> {}, answer |-> "none",
           file |-> [root |-> Primary, relative |-> <<>>]]

Init ==
    /\ disk \in [Dirs -> SUBSET Files]
    /\ config = <<>>
    /\ phase = "declaring"
    /\ mounts = <<>>
    /\ searches = <<>>
    /\ roots = {}
    /\ appeared = {}
    /\ call = NoCall

DirOf(root) == IF root = Primary THEN Workspace ELSE MountDir[root]

-----------------------------------------------------------------------------
(* The construction                                                        *)

Declare(ok, declared) ==
    /\ phase = "declaring"
    /\ Len(config) < MaxDeclared
    /\ IF ok
       THEN config' = Append(config, declared) /\ UNCHANGED phase
       ELSE phase' = "failed" /\ UNCHANGED config
    /\ UNCHANGED <<disk, mounts, searches, roots, appeared, call>>

WithLibraryPaths(p) == Declare(IsVirtualPath(p), [path |-> p, mount |-> NoMount])

WithSearchRoot(m) ==
    Declare(IsVirtualPath(<<m>>) /\ \A i \in DOMAIN config : config[i].mount # m,
            [path |-> <<>>, mount |-> m])

\* NewWorkspaceImporter opens the workspace root, or cannot.
OpenPrimary ==
    /\ phase = "declaring"
    /\ \/ phase' = "opening" /\ roots' = {Primary}
       \/ phase' = "failed" /\ UNCHANGED roots
    /\ UNCHANGED <<disk, config, mounts, searches, appeared, call>>

HasEntry(name) == \E f \in disk[Workspace] : f[1] = name

\* Mutant of FailOpening: NewWorkspaceImporter returns without Close.
FailOpeningLeaks == phase' = "failed"

\* errors.Join(err, importer.Close()).
FailOpening == phase' = "failing"

\* Mutant of MountIsFree: the workspace is not asked.
MountIsNotAsked(m) == m \in Mounts

\* checkMountIsFree.
MountIsFree(m) == ~HasEntry(m)

\* addSearchPath of the next declaration; the granted directory may fail to open.
AddSearchPath ==
    /\ phase = "opening"
    /\ Len(searches) < Len(config)
    /\ LET declared == config[Len(searches) + 1]
           m == declared.mount
       IN  \/ /\ m = NoMount
              /\ searches' = Append(searches, [root |-> Primary, directory |-> declared.path])
              /\ UNCHANGED <<phase, mounts, roots>>
           \/ /\ m # NoMount /\ MountIsFree(m)
              /\ mounts' = Append(mounts, m)
              /\ searches' = Append(searches, [root |-> m, directory |-> <<>>])
              /\ roots' = roots \cup {m}
              /\ UNCHANGED phase
           \/ m # NoMount /\ FailOpening /\ UNCHANGED <<mounts, searches, roots>>
    /\ UNCHANGED <<disk, config, appeared, call>>

Opened ==
    /\ phase = "opening"
    /\ Len(searches) = Len(config)
    /\ phase' = "open"
    /\ UNCHANGED <<disk, config, mounts, searches, roots, appeared, call>>

Close ==
    /\ phase = "open"
    /\ phase' = "closing"
    /\ UNCHANGED <<disk, config, mounts, searches, roots, appeared, call>>

\* closeOnce.Do: the workspace root first, then every mount in order.
CloseNext ==
    /\ phase \in {"closing", "failing"}
    /\ \E root \in roots :
          /\ Primary \in roots => root = Primary
          /\ \A i, j \in DOMAIN mounts : i < j /\ root = mounts[j] => mounts[i] \notin roots
          /\ roots' = roots \ {root}
          /\ phase' = IF roots # {root} THEN phase
                      ELSE IF phase = "closing" THEN "closed" ELSE "failed"
    /\ UNCHANGED <<disk, config, mounts, searches, appeared, call>>

-----------------------------------------------------------------------------
(* An import                                                               *)

Virtual(file) == IF file.root = Primary THEN file.relative ELSE <<file.root>> \o file.relative

\* locate: the root that owns a path, and the directory to resolve against.
Locate(from) ==
    IF Len(from) > 1 /\ from[1] \in ToSet(mounts)
    THEN [root |-> from[1], directory |-> VirtualDirectory(Tail(from))]
    ELSE [root |-> Primary, directory |-> VirtualDirectory(from)]

\* resolveCandidate, of each place that has one.
Resolved(places, p) ==
    LET file(i) == [root |-> places[i].root, relative |-> ResolveAgainst(places[i].directory, p)]
        upTo[i \in 0..Len(places)] ==
            IF i = 0                            THEN <<>>
            ELSE IF file(i).relative # Refusal  THEN Append(upTo[i - 1], file(i))
            ELSE upTo[i - 1]
    IN  upTo[Len(places)]

\* Mutant of Candidates: search paths in the order of their declaration.
CandidatesForward(from, p) == Resolved(<<Locate(from)>> \o searches, p)

\* candidates.
Candidates(from, p) == Resolved(<<Locate(from)>> \o Reverse(searches), p)

Answer(answer, file) == call' = [call EXCEPT !.answer = answer, !.left = <<>>, !.file = file]

UnchangedByImport == UNCHANGED <<disk, config, phase, mounts, searches, roots, appeared>>

\* Import up to its candidates; the context may have ended.
Begin(from, p) ==
    /\ phase \in {"open", "closing", "closed"}
    /\ call = NoCall
    /\ \/ call' = [NoCall EXCEPT !.from = from, !.path = p, !.answer = "canceled"]
       \/ call' = IF (from # <<>> /\ ~IsVirtualPath(from)) \/ ~IsRelative(p)
                  THEN [NoCall EXCEPT !.from = from, !.path = p, !.answer = "denied"]
                  ELSE [NoCall EXCEPT !.from = from, !.path = p, !.answer = "reading",
                                      !.left = Candidates(from, p)]
    /\ UnchangedByImport

\* A candidate whose virtual path has been tried is left out.
Skip ==
    /\ call.left # <<>>
    /\ \E file \in call.tried : Virtual(file) = Virtual(call.left[1])
    /\ call' = [call EXCEPT !.left = Tail(call.left)]
    /\ UnchangedByImport

\* The file is read; or it is not there, and the next one is tried unless the context
\* has ended; or it cannot be read, as when its root is closed.
Read ==
    /\ call.left # <<>>
    /\ LET file == call.left[1]
           there == file.relative \in disk[DirOf(file.root)]
       IN  /\ \A t \in call.tried : Virtual(t) # Virtual(file)
           /\ \/ /\ file.root \in roots /\ there
                 /\ Answer("served", file)
              \/ /\ file.root \in roots /\ ~there
                 /\ call' = [call EXCEPT !.left = Tail(call.left), !.tried = @ \cup {file}]
              \/ Answer("canceled", call.file)
              \/ Answer("unreadable", call.file)
    /\ UnchangedByImport

Missing ==
    /\ call.answer = "reading" /\ call.left = <<>>
    /\ Answer("missing", call.file)
    /\ UnchangedByImport

Return ==
    /\ call.answer \notin {"none", "reading"}
    /\ call' = NoCall
    /\ UnchangedByImport

-----------------------------------------------------------------------------
(* The directories                                                         *)

AddFile(d, f) ==
    /\ f \notin disk[d]
    /\ disk' = [disk EXCEPT ![d] = @ \cup {f}]
    /\ appeared' = IF d = Workspace /\ phase # "declaring" THEN appeared \cup ({f[1]} \cap Mounts) ELSE appeared
    /\ UNCHANGED <<config, phase, mounts, searches, roots, call>>

RemoveFile(d, f) ==
    /\ f \in disk[d]
    /\ disk' = [disk EXCEPT ![d] = @ \ {f}]
    /\ UNCHANGED <<config, phase, mounts, searches, roots, appeared, call>>

-----------------------------------------------------------------------------

Next ==
    \/ \E p \in LibraryPaths : WithLibraryPaths(p)
    \/ \E m \in Mounts : WithSearchRoot(m)
    \/ OpenPrimary \/ AddSearchPath \/ Opened \/ Close \/ CloseNext
    \/ \E from \in Froms, p \in Imported : Begin(from, p)
    \/ Skip \/ Read \/ Missing \/ Return
    \/ \E d \in Dirs, f \in Files : AddFile(d, f) \/ RemoveFile(d, f)

Spec == Init /\ [][Next]_vars

-----------------------------------------------------------------------------
(* Properties                                                              *)

\* The values of the variables.
TypeOK ==
    /\ disk \in [Dirs -> SUBSET Files]
    /\ Len(config) <= MaxDeclared
    /\ \A i \in DOMAIN config : config[i].mount \in Mounts \cup {NoMount}
    /\ phase \in {"declaring", "opening", "open", "closing", "closed", "failing", "failed"}
    /\ ToSet(mounts) \subseteq Mounts
    /\ Len(searches) <= Len(config)
    /\ roots \subseteq Mounts \cup {Primary}
    /\ appeared \subseteq Mounts
    /\ call.answer \in {"none", "reading", "served", "missing", "denied", "canceled", "unreadable"}

\* An import looks for virtual paths alone, in directories that were granted: whatever is
\* declared and imported, no ".." and no path from the root leads out of them.
StaysInRoots ==
    \A file \in ToSet(call.left) \cup call.tried \cup {call.file} :
        /\ file.root \in Mounts \cup {Primary}
        /\ IsVirtualPath(file.relative) \/ file = NoCall.file

\* Who has an open root: nobody without an importer, and an importer in use all it was
\* granted, no more and no less.
RootsOfImporter ==
    /\ phase \in {"declaring", "failed", "closed"} => roots = {}
    /\ phase = "open" =>
         roots = {Primary} \cup ({config[i].mount : i \in DOMAIN config} \ {NoMount})

\* A served path leads back to the file it was read from, so that one path is one file
\* and relative imports stay in its root; unless an entry of the mount's name came into
\* the workspace behind the importer's back.
NamesTellRoots ==
    call.answer = "served" =>
        LET name == Virtual(call.file)
            at   == Locate(name)
        IN  \/ /\ at.root = call.file.root
               /\ at.directory \o <<name[Len(name)]>> = call.file.relative
            \/ name[1] \in appeared

\* Where a file is to be looked for: beside the importing one, then in the declared
\* places, the last one first.
Places(from) ==
    LET place(declared) == [root |-> declared.mount, directory |-> declared.path]
    IN  <<Locate(from)>> \o [i \in DOMAIN config |-> place(config[Len(config) - i + 1])]

\* No library path begins with the name of a search root.
Unshadowed ==
    \A i, j \in DOMAIN config :
        config[i].mount # NoMount => ~IsPrefix(<<config[i].mount>>, config[j].path)

\* A file, or another one of its name, was not there.
NotThere(file) == \E t \in call.tried : Virtual(t) = Virtual(file) /\ (Unshadowed => t = file)

\* A served file is the first one there is, and a missing one is nowhere; of the files of
\* one name only the first one is looked for, but then it is the only one, unless a library
\* path begins with the name of a search root.
SearchOrder ==
    call.answer \in {"served", "missing"} =>
        LET all == Resolved(Places(call.from), call.path)
        IN  \E n \in 1..(Len(all) + 1) :
               /\ call.tried \subseteq {all[i] : i \in 1..(n - 1)}
               /\ \A i \in 1..(n - 1) : NotThere(all[i])
               /\ IF call.answer = "missing" THEN n > Len(all) ELSE n <= Len(all) /\ all[n] = call.file

\* The MapImporters of the two hosts are alike: one takes a file's path if the other does,
\* and every import finds in one what it finds in the other. Only on Windows does the Go
\* host refuse a volume, as the Rust host does everywhere.
HostsResolveAlike ==
    call.answer # "none" /\ (Windows \/ Volume \notin ToSet(call.from \o call.path)) =>
        LET files == {ResolveVirtualImport(call.from, call.path),
                      RustResolveVirtualImport(call.from, call.path)} \ {Refusal}
        IN  /\ MapImport(files, call.from, call.path) = RustMapImport(files, call.from, call.path)
            /\ \A p \in files \cup {call.path} : MapImporterTakes({p}) <=> RustMapImporterTakes({p})

-----------------------------------------------------------------------------
(* What the documentation says and the code does not do                    *)

\* What importer.go's WithSearchRoot and README.md's "Importers" say of every declaration:
\* it is searched, so that an import is missing only if no place has the file.
MissingIsNowhere ==
    call.answer = "missing" =>
        \A file \in ToSet(Resolved(Places(call.from), call.path)) :
            file \in call.tried \/ file.relative \notin disk[DirOf(file.root)]
=============================================================================
