---------------------------------- MODULE Sandbox ---------------------------------
(***************************************************************************)
(* Which file a path given to a tool denotes (lulu/tools/sandbox.py), and  *)
(* what glob and grep let through (lulu/tools/file_tools.py).  An absolute *)
(* path is the sequence of its segments; a path as a model spells it has   *)
(* "." and ".." in it and may go through symbolic links.  Both separators  *)
(* end a segment, as resolve_within_root makes them one.                   *)
(***************************************************************************)
EXTENDS Naturals, SequencesExt

CONSTANTS
  Root,     \* the project root, resolved
  Links,    \* symbolic link -> where it leads, resolved
  Escapes   \* PathEscapesRootError

Follow(path) == IF path \in DOMAIN Links THEN Links[path] ELSE path

\* One segment of Path.resolve(): a link is followed at once, so that ".." after it is the
\* parent of where it leads.
Walk(path, segment) ==
  CASE segment = "."                  -> path
    [] segment = ".." /\ path = <<>>  -> path
    [] segment = ".." /\ path # <<>>  -> Front(path)
    [] OTHER                          -> Follow(Append(path, segment))

Resolve(start, segments) == FoldLeft(Walk, start, segments)

\* path == root or root in path.parents, of a resolved path
IsWithinRoot(path) == IsPrefix(Root, path)

\* resolve_within_root: resolved first, from the root unless it is absolute; then contained.
ResolveWithinRoot(spelling) ==
  LET path == Resolve(IF spelling.absolute THEN <<>> ELSE Root, spelling.segments)
  IN  IF IsWithinRoot(path) THEN path ELSE Escapes

\* The glob tool: of the matches Path.glob() finds from the root, which a ".." in the
\* pattern takes out of it, the files within.
Glob(matches, files) ==
  {segments \in matches : /\ Resolve(Root, segments) \in files
                          /\ IsWithinRoot(Resolve(Root, segments))}

-----------------------------------------------------------------------------------
(* The grep tool over the files its filter found, in order: the lines that match, of a
   file that can be read, and an empty sequence of one that cannot.        *)

\* One matching line; the loops over lines and files are left at MAX_MATCHES.
Matched(matches, line, max) == IF Len(matches) < max THEN Append(matches, line) ELSE matches

Grep(files, max) ==
  FoldLeft(LAMBDA matches, lines :
             FoldLeft(LAMBDA found, line : Matched(found, line, max), matches, lines),
           <<>>, files)

===================================================================================
