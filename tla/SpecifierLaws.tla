--------------------------- MODULE SpecifierLaws ---------------------------
(***************************************************************************)
(* What the operators of version specifiers promise of any version         *)
(* (version/specifier.go, version/specifier_query.go): the gap that "<V",  *)
(* "==V" and ">V" leave, the stretch a prefix matches, and that equal      *)
(* specifiers match alike.                                                 *)
(***************************************************************************)
EXTENDS Specifiers, VersionPairs

CONSTANTS
  Bases,                             \* operands every operator takes
  Specs                              \* specifiers NewSpecifier accepts

ASSUME BasesAssumption == Bases \subseteq {u \in ParsedVersion : Absent(u.local)}

Specifier ==
  [op : Op, ver : ParsedVersion, wild : BOOLEAN, spelling : {"plain", "alias", "v"}]

ASSUME SpecsAssumption == Specs \subseteq {s \in Specifier : Valid(s)}

Prefixing == {s \in Specs : (s.op = "==" /\ s.wild) \/ s.op = "~="}
Matching(s) == {u \in Parsed : Check(s, u)}

SameRelease(u, x) == u.epoch = x.epoch /\ Stripped(u.release) = Stripped(x.release)

\* By their segments alone: u is a pre-release, a post-release, of x.
PreOf(u, x) ==
  /\ SameRelease(u, x)
  /\ Absent(x.pre) /\ Absent(x.dev)
  /\ IF Absent(x.post) THEN ~Absent(u.pre) \/ DevOnly(u)
     ELSE Absent(u.pre) /\ u.post = x.post /\ ~Absent(u.dev)

PostOf(u, x) ==
  /\ SameRelease(u, x)
  /\ ~Absent(u.post) /\ Absent(x.post) /\ Absent(x.dev) /\ u.pre = x.pre

(* "<V", "==V" and ">V" leave out exactly the pre-releases of V and its    *)
(* post-releases, and no version matches two of them (specifierLessThan,   *)
(* specifierGreaterThan and their PEP 440 exclusions).                     *)
GapIsExact ==
  one = other /\ one # ZeroValue =>
    \A u \in Bases :
      LET matching == {op \in {"<", "==", ">"} : Check(Plain(op, u), one)}
      IN  IF PreOf(one, u) \/ PostOf(one, u) THEN matching = {} ELSE Cardinality(matching) = 1

(* "==V.*" and "~=V" match a stretch of the version order without holes:   *)
(* a version they miss has all they match on one side (specifierEqual's    *)
(* padding, specifierCompatible's prefix).                                 *)
PrefixIsConvex ==
  one = other /\ one # ZeroValue =>
    \A s \in Prefixing :
      \/ Check(s, one)
      \/ \A u \in Matching(s) : Less(u, one)
      \/ \A u \in Matching(s) : Less(one, u)

(* Specifiers that count as equal match alike, as long as their operands   *)
(* are spelled the plain way (Specifier.Equal, dedupeSpecifiers).          *)
PlainEqualMatchesAlike ==
  one = other /\ one # ZeroValue =>
    \A s, t \in Specs :
      s.spelling = "plain" /\ t.spelling = "plain" /\ CanonicalSpec(s) = CanonicalSpec(t) =>
        (Check(s, one) <=> Check(t, one))
=============================================================================
