------------------------------- MODULE MCFileLocks --------------------------------
(***************************************************************************)
(* Two sessions, each in a process of its own, on one file, by one or two  *)
(* spellings of its path.  And what the sandbox makes of every path of up  *)
(* to four segments in a project with a link out of it and one within it.  *)
(***************************************************************************)
EXTENDS FileLocks, Sequences, TLC

CONSTANTS p1, p2, alice, bob, direct, detour

MCSessionOf == p1 :> alice @@ p2 :> bob

-----------------------------------------------------------------------------------
(* A file system: /home with /home/secret and the project /home/lulu, whose src is a
   directory, lib a link to src, and out a link to /home.                  *)

Links == <<"home", "lulu", "lib">> :> <<"home", "lulu", "src">>
         @@ <<"home", "lulu", "out">> :> <<"home">>

S == INSTANCE Sandbox WITH Root <- <<"home", "lulu">>, Escapes <- "escapes"

\* The same as a graph, the way an operating system walks it: where a name leads from a
\* directory, and each directory's parent.
PathOf == "/"      :> <<>>               @@ "home" :> <<"home">>
       @@ "lulu"   :> <<"home", "lulu">> @@ "src"  :> <<"home", "lulu", "src">>
       @@ "secret" :> <<"home", "secret">>
Parent == "/" :> "/" @@ "home" :> "/" @@ "lulu" :> "home" @@ "src" :> "lulu" @@ "secret" :> "home"
Child  == <<"/", "home">> :> "home" @@ <<"home", "lulu">> :> "lulu" @@ <<"home", "secret">> :> "secret"
       @@ <<"lulu", "src">> :> "src" @@ <<"lulu", "lib">> :> "src" @@ <<"lulu", "out">> :> "home"

\* The nodes a walk passes; the empty set is where it comes to nothing.
Steps(nodes, segment) ==
  UNION {CASE segment = "."  -> {node}
           [] segment = ".." -> {Parent[node]}
           [] OTHER -> IF <<node, segment>> \in DOMAIN Child THEN {Child[<<node, segment>>]} ELSE {} :
         node \in nodes}
Opened(spelling) == S!FoldLeft(Steps, {IF spelling.absolute THEN "/" ELSE "lulu"}, spelling.segments)

Spellings == [absolute : BOOLEAN,
              segments : S!SeqOf({".", "..", "home", "lulu", "src", "lib", "out", "secret"}, 4)]

Within(node) == node \in {"lulu", "src"}

\* The path the check was made on is the one the operating system opens, and it is within
\* the root: a path that leads somewhere is let through if and only if it leads there.
ASSUME SandboxIsSound ==
  \A spelling \in Spellings : \A node \in Opened(spelling) :
    S!ResolveWithinRoot(spelling) = IF Within(node) THEN PathOf[node] ELSE "escapes"

\* Whatever it leads to, a path let through is under the root and resolves to itself, so
\* that two spellings of a file come out as one.
ASSUME SandboxIsCanonical ==
  \A spelling \in Spellings :
    LET resolved == S!ResolveWithinRoot(spelling) IN
    resolved # "escapes" => /\ S!IsPrefix(<<"home", "lulu">>, resolved)
                            /\ S!Resolve(<<>>, resolved) = resolved

\* glob never reports a file outside the root, and any match inside.
ASSUME GlobStaysInside ==
  LET matches == {spelling.segments : spelling \in {s \in Spellings : ~s.absolute}}
      files   == {PathOf["src"], PathOf["secret"]}
  IN  {S!Resolve(<<"home", "lulu">>, match) : match \in S!Glob(matches, files)} = {PathOf["src"]}

\* grep reports the first MAX_MATCHES matching lines and no others.
ASSUME GrepStopsAtTheLimit ==
  \A files \in S!SeqOf(S!SeqOf({"a", "b"}, 2), 3), max \in 1..4 :
    S!Grep(files, max) = LET all == S!FlattenSeq(files)
                         IN  SubSeq(all, 1, IF Len(all) < max THEN Len(all) ELSE max)

-----------------------------------------------------------------------------------
\* src/main.py, and the same by way of lib.
SpellingOf == direct :> [absolute |-> FALSE, segments |-> <<"src", "main.py">>]
             @@ detour :> [absolute |-> FALSE, segments |-> <<".", "lib", "..", "lib", "main.py">>]

MCFileOf == [name \in {direct, detour} |-> S!ResolveWithinRoot(SpellingOf[name])]

==================================================================================
