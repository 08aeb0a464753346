----------------------------- MODULE MCFlatten -----------------------------
(***************************************************************************)
(* Flatten over concrete paths: two directories, a root spelled with a     *)
(* superfluous ".", a root that is a URL, relative and upward targets, a   *)
(* rooted one with a superfluous "..", one that net/url refuses.           *)
(***************************************************************************)
EXTENDS FlattenFrom

IP == INSTANCE IncludePaths
        WITH Name <- {"a", "b", "d", "https:", "host", "%zz"}, Unparsable <- {"%zz"}

RelA    == IP!Rel(<<"a">>)
RelDotA == IP!Rel(<<".", "a">>)
RelDB   == IP!Rel(<<"d", "b">>)
UpA     == IP!Rel(<<"..", "a">>)
AbsUpA  == IP!Abs(<<"..", "a">>)
RelZZ   == IP!Rel(<<"%zz">>)
UrlA    == IP!Url(<<"a">>)
UrlDB   == IP!Url(<<"d", "b">>)
MCRoots   == {RelDotA, UrlDB}
MCFiles   == {RelA, RelDB, UrlA, UrlDB}
MCTargets  == {RelDB, UpA, AbsUpA, RelZZ}
MCVerbatim == {AbsUpA}

(* The paths a walk can come to.  Bound: four directives in a row; a path  *)
(* that only a longer chain leads to is Beyond, which names no file.       *)
Beyond == IP!Rel(<<"..", "..">>)

Further(paths) == paths \cup {IP!ResolveInclude(p, t) : p \in paths, t \in MCTargets}
AllPaths       == Further(Further(Further(Further(MCRoots)))) \cup {Beyond}

(* The file system, or server, behind open ignores spelling, and the       *)
(* working directory is its root: "./a", "a", "/a" and "/../a" are one     *)
(* file.                                                                   *)
FileTable   == [p \in AllPaths |->
  LET q == IP!Clean(p) IN IF p.form = "abs" THEN IP!Rel(q.segs) ELSE q]
MCFileOf(p) == FileTable[p]
MCBase(p)   == p.form
MCPath      == DOMAIN FileTable

MCResolve(p, t) ==
  LET q == IP!ResolveInclude(p, t) IN IF q \in MCPath THEN q ELSE Beyond

(* Bound: the files below, of at most two entries: enough for a diamond,   *)
(* for both flags on one file, for an entry on each side of a directive    *)
(* and for a cycle through each of the spellings.                          *)
Inc(t, c)  == [kind |-> "include", target |-> t, constraint |-> c]
Plain(k)   == [kind |-> k, target |-> NONE, constraint |-> FALSE]
Req        == Plain("requirement")
Down       == Inc(RelDB, FALSE)
DownC      == Inc(RelDB, TRUE)
Up         == Inc(UpA, FALSE)
Around     == Inc(AbsUpA, FALSE)
MCText     ==
  {<<>>, <<Plain("option"), Req>>, <<Inc(RelZZ, FALSE), Req>>,
   <<DownC, Req>>, <<Req, Up>>, <<Req, Around>>,
   <<Down, DownC>>, <<Around, Down>>}

(* Bound: routes of at most MaxNesting lines.                              *)
MaxNesting == 5
MCRoutes   == UNION {[1 .. n -> 1 .. 2] : n \in 0 .. MaxNesting}

ASSUME OneSpelling
=============================================================================
