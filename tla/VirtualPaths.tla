----------------------------- MODULE VirtualPaths -----------------------------
(***************************************************************************)
(* The virtual paths of imports, in the Go host (importer.go) and in the   *)
(* Rust host (lib.rs). A path is the sequence of what stands between its   *)
(* slashes: the empty string is <<>>, and a leading slash an empty first   *)
(* segment.                                                                *)
(***************************************************************************)
EXTENDS Integers, SequencesExt

CONSTANT Windows  \* whether the hosts run on Windows, where the first segment may name a volume

\* A segment with a backslash, a NUL or invalid UTF-8 in it.
IllegalSegment == "\\"

\* A segment that is a letter and a colon.
Volume == "C:"

Dots == {"", ".", ".."}

\* What resolving yields when it refuses.
Refusal == <<>>

\* What validateRelativeSlashPath and validate_import_path have in common.
IsPlain(p) ==
    /\ p # <<>>
    /\ p[1] # ""
    /\ \A i \in DOMAIN p : p[i] # IllegalSegment

-----------------------------------------------------------------------------
(* The Go host                                                             *)

\* validateRelativeSlashPath.
IsRelative(p) == IsPlain(p) /\ (Windows => p[1] # Volume)

CleanOnto(done, segment) ==
    CASE segment \in {"", "."} -> done
      [] segment = ".." /\ done # <<>> /\ done[Len(done)] # ".." -> Front(done)
      [] OTHER -> Append(done, segment)

\* What the segments of a path come to.
Cleaned(p) ==
    LET upTo[i \in 0..Len(p)] == IF i = 0 THEN <<>> ELSE CleanOnto(upTo[i - 1], p[i])
    IN  upTo[Len(p)]

\* path.Clean of a path that is not rooted.
Clean(p) == IF Cleaned(p) = <<>> THEN <<".">> ELSE Cleaned(p)

IsVirtualPath(p) ==
    /\ IsRelative(p)
    /\ Clean(p) = p
    /\ \A i \in DOMAIN p : p[i] \notin Dots

VirtualDirectory(name) == IF name = <<>> THEN <<>> ELSE Front(name)

\* resolveAgainstVirtualDirectory.
ResolveAgainst(directory, p) ==
    LET canonical == Clean(directory \o p)
    IN  IF canonical = <<".">> \/ canonical[1] = ".." \/ ~IsVirtualPath(canonical)
        THEN Refusal
        ELSE canonical

ResolveVirtualImport(from, p) ==
    IF (from # <<>> /\ ~IsVirtualPath(from)) \/ ~IsRelative(p)
    THEN Refusal
    ELSE ResolveAgainst(VirtualDirectory(from), p)

\* Whether NewMapImporter takes these files.
MapImporterTakes(files) == \A f \in files : IsVirtualPath(f)

\* MapImporter.Import: the file an import finds, if any.
MapImport(files, from, p) ==
    LET canonical == ResolveVirtualImport(from, p)
    IN  IF canonical \in files THEN canonical ELSE Refusal

-----------------------------------------------------------------------------
(* The Rust host                                                           *)

\* validate_import_path, on every system.
IsRustRelative(p) == IsPlain(p) /\ p[1] # Volume

IsRustVirtualPath(p) ==
    /\ IsRustRelative(p)
    /\ \A i \in DOMAIN p : p[i] \notin Dots

\* No list of parts has this segment in it.
Escaped == <<"..">>

\* Mutant of PopOrPush: ".." at the root stays there.
PopOrPushAtRoot(parts, segment) ==
    CASE segment \in {"", "."} -> parts
      [] segment = ".." -> IF parts = <<>> THEN <<>> ELSE Front(parts)
      [] OTHER -> Append(parts, segment)

PopOrPush(parts, segment) ==
    IF parts = Escaped \/ segment \in {"", "."} THEN parts
    ELSE IF segment # ".."                       THEN Append(parts, segment)
    ELSE IF parts = <<>>                         THEN Escaped
    ELSE Front(parts)

\* The parts of a directory, and then the segments of a path.
Joined(directory, p) ==
    LET upTo[i \in 0..Len(p)] == IF i = 0 THEN directory ELSE PopOrPush(upTo[i - 1], p[i])
    IN  upTo[Len(p)]

\* resolve_virtual_import.
RustResolveVirtualImport(from, p) ==
    LET parts == Joined(VirtualDirectory(from), p)
    IN  IF \/ from # <<>> /\ ~IsRustVirtualPath(from)
           \/ ~IsRustRelative(p)
           \/ parts = <<>> \/ parts = Escaped
           \/ ~IsRustVirtualPath(parts)
        THEN Refusal
        ELSE parts

\* MapImporter::new and MapImporter::import.
RustMapImporterTakes(files) == \A f \in files : IsRustVirtualPath(f)

RustMapImport(files, from, p) ==
    LET canonical == RustResolveVirtualImport(from, p)
    IN  IF canonical \in files THEN canonical ELSE Refusal
=============================================================================
