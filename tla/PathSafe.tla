------------------------------- MODULE PathSafe -------------------------------
(***************************************************************************)
(* The path gates of deletion and of the directory browser                 *)
(* (api/pathsafe.go), over a file system with symbolic links.              *)
(*                                                                         *)
(* A path as it is given is [abs, parts]; a clean absolute path is the     *)
(* sequence of its names, "/" the empty one.  The file system is the set   *)
(* of the clean paths that exist.  What a path is and where it leads if it *)
(* leads anywhere is settled by the constants: the file system only        *)
(* shrinks, and a link that is gone leads nowhere.                         *)
(***************************************************************************)
EXTENDS Integers, Sequences, SequencesExt

CONSTANTS
    Names,          \* what files and directories are called
    Target,         \* where a clean path leads, its links followed
    Visited,        \* what is looked at on the way there, up to what blocks it
    Impassable,     \* paths blocked by a file, or by a loop of links
    Directories,    \* the clean paths that are directories, if they exist
    Roots           \* downloads.dirs and default_dir, as configured (absolute)

Slash == <<>>
NoPath == [abs |-> FALSE, parts |-> <<>>]

\* filepath.Clean of an absolute path.
Clean(parts) ==
    FoldLeft(LAMBDA done, name :
                 IF name # ".." THEN Append(done, name)
                 ELSE IF done = Slash THEN Slash ELSE Front(done),
             Slash, parts)

CleanRoots == {Clean(root.parts) : root \in Roots}

\* Where a path leads is a clean path, and resolving it again changes nothing.
ASSUME TargetsAreFinal ==
    /\ CleanRoots \subseteq DOMAIN Target
    /\ \A path \in DOMAIN Target :
           /\ Target[path] \in DOMAIN Target /\ Target[Target[path]] = Target[path]
           /\ Target[path] \in Seq(Names) /\ Clean(Target[path]) = Target[path]

-----------------------------------------------------------------------------
(* filepath.EvalSymlinks. *)

RealRoots == {Target[root] : root \in CleanRoots}

IsGone(path, tree) == ~(Visited[path] \subseteq tree)
Resolves(path, tree) == ~IsGone(path, tree) /\ path \notin Impassable

\* Unresolvable roots are dropped.
ResolvedRoots(tree) == {Target[root] : root \in {r \in CleanRoots : Resolves(r, tree)}}

\* resolveRoots drops "/" as well.
BrowseRoots(tree) == {Target[root] : root \in {r \in CleanRoots \ {Slash} : Resolves(r, tree)}}

-----------------------------------------------------------------------------
(* The delete gate. *)

StrictlyWithin(path, root) == root # Slash /\ IsStrictPrefix(root, path)
Within(path, root) == root # Slash /\ IsPrefix(root, path)

\* validateBasePath.
ValidateBasePath(base, roots) ==
    CASE base = NoPath -> "empty"
      [] base # NoPath /\ ~base.abs -> "not_absolute"
      [] base.abs -> IF \E root \in roots : StrictlyWithin(Clean(base.parts), root)
                     THEN "ok" ELSE "outside"

\* Mutant of ResolveAndRevalidate: what a link leads to is not looked at again.
ResolveOnly(clean, tree) ==
    IF IsGone(clean, tree) THEN "gone"
    ELSE IF Resolves(clean, tree) THEN "ok" ELSE "outside"

\* resolveAndRevalidate: the clean path, resolved, must be within the resolved
\* roots; one that no longer exists is nobody's fault.
ResolveAndRevalidate(clean, tree) ==
    CASE ResolvedRoots(tree) = {} -> "outside"
      [] ResolvedRoots(tree) # {} /\ IsGone(clean, tree) -> "gone"
      [] OTHER -> IF /\ Resolves(clean, tree)
                     /\ ValidateBasePath([abs |-> TRUE, parts |-> Target[clean]],
                                         ResolvedRoots(tree)) = "ok"
                  THEN "ok" ELSE "outside"

-----------------------------------------------------------------------------
(* The browse gate: a root itself may be listed. *)

\* validateBrowsePath.
ValidateBrowsePath(path, roots) ==
    CASE ~path.abs \/ Clean(path.parts) = Slash -> "bad_path"
      [] OTHER -> IF \E root \in roots : Within(Clean(path.parts), root)
                  THEN "ok" ELSE "outside"

\* Mutant of ResolveBrowsePath: what a link leads to is not looked at again.
ResolveBrowseOnly(clean, roots, tree) ==
    IF IsGone(clean, tree) THEN "not_found"
    ELSE IF Resolves(clean, tree) THEN "ok" ELSE "outside"

\* resolveBrowsePath.
ResolveBrowsePath(clean, roots, tree) ==
    CASE roots = {} -> "outside"
      [] roots # {} /\ IsGone(clean, tree) -> "not_found"
      [] OTHER -> IF /\ Resolves(clean, tree)
                     /\ ValidateBrowsePath([abs |-> TRUE, parts |-> Target[clean]], roots) = "ok"
                  THEN "ok" ELSE "outside"
=============================================================================
