----------------------------- MODULE MCMarkers -----------------------------
(***************************************************************************)
(* Markers over a handful of comparisons: every combination of up to three *)
(* with "and", "or" and parentheses, and some deeper ones.                 *)
(***************************************************************************)
EXTENDS MarkerRoundTrip, FiniteSets

(* Contents of literals that only escapes can write, and what they become  *)
(* when they are printed and read again: "a\\b" is a\b is a, backspace;    *)
(* "C:\\q" is C:\q is no literal; "'\x22" holds both quotes; "\x61" is a.  *)
Escapes ==
  [x \in {"a\\\\b", "a\\b", "C:\\\\q", "C:\\q", "'\\x22", "\\x61"} |->
     CASE x = "a\\\\b" -> "a\\b"  [] x = "a\\b" -> "a<BS>"
       [] x = "C:\\\\q" -> "C:\\q" [] x = "C:\\q" -> "malformed"
       [] x = "'\\x22" -> "'\""  [] x = "\\x61" -> "a"]
MCBackslashed == DOMAIN Escapes
MCBothQuoted  == {"'\""}
MCUnescape(x) == Escapes[x]
MCMalformed   == "malformed"

MCNormalize(x)  == IF x = "Foo_Bar" THEN "foo-bar" ELSE x
MCUpper(x)      == CASE x = "x86_64" -> "X86_64" [] x = "arm64" -> "ARM64" [] OTHER -> x
MCRepaired(x)   == IF x = "3.11+" THEN "3.11+local" ELSE x
MCMajorMinor(x) == IF x \in {"3.11", "3.11.4", "3.11+local"} THEN "3.11" ELSE ""
MCWithin(x, y)  == x = y \/ x = "" \/ (x = "3.11" /\ y \in {"3.11.4", "3.11+local"})

Rank == [x \in {"3", "3.9", "3.11", "3.11+local", "3.11.4", "5.4"} |->
           CASE x = "3" -> 1 [] x = "3.9" -> 2 [] x = "3.11" -> 3
             [] x = "3.11+local" -> 4 [] x = "3.11.4" -> 5 [] x = "5.4" -> 6]

MCIsVersion(x) == x \in DOMAIN Rank
MCIsSpecifier(op, x) ==
  /\ op \notin {"in", "not in"}
  /\ (op = "===" /\ x # "") \/ x \in DOMAIN Rank
  /\ op = "~=" => x # "3"

\* Local versions count as the version they are of, except where both have one.
MCCheck(op, r, l) ==
  LET a == IF l = "3.11+local" THEN Rank["3.11"] ELSE Rank[l]
      b == IF r \in DOMAIN Rank THEN Rank[r] ELSE 0
  IN  CASE op = "==" -> a = b [] op = "!=" -> a # b
        [] op = "<" -> a < b  [] op = "<=" -> a <= b
        [] op = ">" -> a > b  [] op = ">=" -> a >= b
        [] op = "~=" -> a >= b /\ l # "5.4" [] op = "===" -> l = r

MCValue  == DOMAIN Rank \cup {"", "posix", "nt", "linux", "darwin", "win32", "Linux", "Darwin",
                              "Windows", "AMD64", "ARM64", "arm64", "x86", "x86_64", "X86_64",
                              "CPython", "cpython",
                              "foo-bar", "Foo_Bar", "3.11+"}
             \cup MCBackslashed \cup {Escapes[x] : x \in MCBackslashed}
MCActual == {"", "3.9", "5.4"}

MCTarget   == {[os |-> "linux", arch |-> "x86_64"], [os |-> "windows", arch |-> "arm64"],
               [os |-> "plan9", arch |-> "x86_64"]}
MCIdentity ==
  {[name |-> "cpython", implementation |-> "CPython", full |-> "3.11+", version |-> "3.11.4"],
   [name |-> "cpython", implementation |-> "CPython", full |-> "3", version |-> "3.11.4"]}

MCOverrides ==
  {<<>>, [platform_release |-> "5.4", python_version |-> "3.9"],
   [platform_release |-> "5.4", os_nmae |-> "posix"]}

MCExtras == {{}, {"Foo_Bar"}}

V(name) == T!Variable(name)
Q(x)    == T!Quoted(x)
C(l, op, r) == T!Comparison(l, op, r)

Comparisons ==
  {C(V("sys.platform"), "==", Q("linux")),
   C(Q("5.4"), "<=", V("platform_release")),
   C(V("python_version"), ">=", Q("3.11")),
   C(V("platform_version"), "in", V("python_full_version")),
   C(V("os_name"), "~=", Q("posix")),
   C(Q("Foo_Bar"), "==", V("extra"))}

Connective == {"and", "or"}
Pair(x, p, y) == x \o <<T!Word(p)>> \o y
Paren(x)      == <<T!Word("(")>> \o x \o <<T!Word(")")>>

Ones(cs)   == {<<T!Item(c)>> : c \in cs}
Twos(cs)   == {Pair(x, p, y) : x \in Ones(cs), p \in Connective, y \in Ones(cs)}
Threes(cs) ==
  {Pair(Pair(x, p, y), q, z) : x, y, z \in Ones(cs), p, q \in Connective}
    \cup {Pair(Paren(Pair(x, p, y)), q, z) : x, y, z \in Ones(cs), p, q \in Connective}
    \cup {Pair(x, p, Paren(Pair(y, q, z))) : x, y, z \in Ones(cs), p, q \in Connective}
Deep(cs) ==
  LET a == <<T!Item(C(V("sys.platform"), "==", Q("linux")))>>
      b == <<T!Item(C(Q("5.4"), "<=", V("platform_release")))>>
  IN  {Pair(Paren(Paren(Pair(Paren(Pair(a, p, x)), q, b))), r, Paren(Pair(x, s, a))) :
         x \in Ones(cs), p, q, r, s \in Connective}

Escaped ==
  {C(V("sys.platform"), "!=", Q(x)) : x \in {"a\\\\b", "C:\\\\q", "'\\x22", "\\x61"}}

Texts == {<<>>} \cup Ones(Comparisons) \cup Twos(Comparisons)
           \cup Threes(Comparisons) \cup Deep(Comparisons)
           \cup Ones(Escaped)
           \cup {Pair(<<T!Item(C(V("os_name"), "~=", Q("posix")))>>, p, x) :
                   p \in Connective, x \in Ones(Escaped)}
MCText == Texts

Trees(texts) == {FromText(ts) : ts \in texts}
Reads(trees) == {T!ParseFullMarker(T!String(x)) : x \in trees \ {NoMarker}}
Again(trees) == trees \cup {m.expr : m \in {m \in Reads(trees) : m.ok}}

RECURSIVE Closure(_)
Closure(x) ==
  {x} \cup (IF x.kind = "compare" THEN {} ELSE UNION {Closure(x.operands[k]) : k \in 1 .. Len(x.operands)})

Planned     == Trees(Texts)
PlannedExpr == UNION {Closure(x) : x \in Again(Planned) \ {NoMarker}}
MCMarker    == Planned
MCExpr      == PlannedExpr

RECURSIVE MCTruth(_, _, _)
MCTruth(x, e, list) ==
  CASE x.kind = "compare" -> EvalCompare(x, e, list)
    [] x.kind = "and" -> \A k \in 1 .. Len(x.operands) : MCTruth(x.operands[k], e, list)
    [] x.kind = "or"  -> \E k \in 1 .. Len(x.operands) : MCTruth(x.operands[k], e, list)
=============================================================================
