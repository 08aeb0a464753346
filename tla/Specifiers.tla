----------------------------- MODULE Specifiers -----------------------------
(***************************************************************************)
(* One version specifier: what its operator matches (version/specifier.go) *)
(* and what Specifier.Equal and Specifiers.And take it for, its canonical  *)
(* form (version/specifier_query.go).                                      *)
(*                                                                         *)
(* A specifier is its operator, the version its operand parses to, whether *)
(* the operand ends in ".*", and how the operand is spelled:               *)
(*   "plain"  the spelling Version.String gives, or one that leads to the  *)
(*            same prefix, as v1!1.0 does: its epoch is read again         *)
(*   "alias"  one suffix, the first, is spelled with an alias that stands  *)
(*            as a component of its own and is in no list of suffixes:     *)
(*            1.0c1, 1.0.preview1                                          *)
(*   "v"      a leading "v" before a release without an epoch: v1.0        *)
(* An operand with two such suffixes (1.0.c1.rev2), whose prefix has the   *)
(* first of them in it, is not modelled.                                   *)
(***************************************************************************)
EXTENDS Versions

EqualOps   == {"", "=", "=="}
OrderedOps == {"<", "<=", ">", ">="}
Op         == EqualOps \cup OrderedOps \cup {"!=", "~="}

Plain(op, v) == [op |-> op, ver |-> v, wild |-> FALSE, spelling |-> "plain"]
Wild(op, v)  == [op |-> op, ver |-> v, wild |-> TRUE, spelling |-> "plain"]

(* validate: the operands each operator is built with.                     *)
Valid(s) ==
  /\ s.op \in Op
  /\ s.ver.release # <<>>
  /\ s.op \in EqualOps \cup {"!="} =>
       (s.wild => Absent(s.ver.pre) /\ Absent(s.ver.post) /\ Absent(s.ver.dev)
                    /\ Absent(s.ver.local))
  /\ s.op \in OrderedOps \cup {"~="} => ~s.wild /\ Absent(s.ver.local)
  /\ s.op = "~=" => Len(s.ver.release) >= 2

(***************************************************************************)
(* Prefix matching                                                         *)
(***************************************************************************)

\* A component of versionSplit: <<n>> if it is all digits, else a suffix.
Numeric(component) == Len(component) = 1

VersionSplit(v) ==
  << <<v.epoch>> >> \o [i \in DOMAIN v.release |-> <<v.release[i]>>]
    \o (IF Absent(v.pre)  THEN <<>> ELSE << <<1, v.pre[1], v.pre[2]>> >>)
    \o (IF Absent(v.post) THEN <<>> ELSE << <<2, v.post[1]>> >>)
    \o (IF Absent(v.dev)  THEN <<>> ELSE << <<3, v.dev[1]>> >>)

NumericPrefixLen(split) ==
  Cardinality({i \in DOMAIN split : \A j \in 1 .. i : Numeric(split[j])})

\* Zeros go between the release and the suffixes.
LeftPad(split, target) ==
  LET n == NumericPrefixLen(split)
  IN  IF target <= n THEN split
      ELSE SubSeq(split, 1, n) \o [i \in 1 .. target - n |-> <<0>>]
             \o SubSeq(split, n + 1, Len(split))

\* Mutant: the candidate is cut to the operand's length before it is padded.
CutThenPad(split, n, width) ==
  LeftPad(SubSeq(split, 1, IF Len(split) < n THEN Len(split) ELSE n), width)

PadThenCut(split, n, width) ==
  LET padded == LeftPad(split, width)
  IN  SubSeq(padded, 1, IF Len(padded) < n THEN Len(padded) ELSE n)

(* "==V.*": V is a prefix of the candidate's components.                   *)
PrefixMatches(v, prefix) ==
  LET spec == VersionSplit(prefix)
  IN  PadThenCut(VersionSplit(Public(v)), Len(spec), NumericPrefixLen(spec)) = spec

(***************************************************************************)
(* The operators                                                           *)
(***************************************************************************)

SpecifierEqual(v, s) ==
  IF s.wild THEN PrefixMatches(v, s.ver)
  ELSE Same(IF Absent(s.ver.local) THEN Public(v) ELSE v, s.ver)

\* Mutant: any version with V's release counts as a pre-release of V.
PreReleaseOfBase(v, s) == IsPreRelease(v) /\ CompareRelease(v, s) = 0

PreReleaseOf(v, s) == IsPreRelease(v) /\ AtMost(EarliestPreRelease(s), v)

SpecifierLessThan(v, s) ==
  /\ Less(v, s.ver)
  /\ ~IsPreRelease(s.ver) => ~PreReleaseOf(v, s.ver)

PostReleaseOf(v, s) == IsPostRelease(v) /\ Same(PostBase(v), s)

SpecifierGreaterThan(v, s) ==
  /\ Less(s.ver, v)
  /\ ~IsPostRelease(s.ver) => ~PostReleaseOf(v, s.ver)
  /\ Absent(v.local) \/ ~Same(Public(v), s.ver)

SpecifierLessThanEqual(v, s)    == AtMost(Public(v), s.ver)
SpecifierGreaterThanEqual(v, s) == AtMost(s.ver, Public(v))

(* "~=": at least the operand, and the operand's release but for its last  *)
(* segment as a prefix.  The prefix is cut from the operand as written: an *)
(* aliased suffix is taken for the last release segment, and "v1" is no    *)
(* segment at all.                                                         *)
CompatiblePrefix(s) ==
  LET release == IF s.spelling = "alias" THEN s.ver.release
                 ELSE SubSeq(s.ver.release, 1, Len(s.ver.release) - 1)
  IN  [ZeroValue EXCEPT !.epoch = s.ver.epoch, !.release = release]

SpecifierCompatible(v, s) ==
  /\ SpecifierGreaterThanEqual(v, s)
  /\ s.spelling # "v"
  /\ PrefixMatches(v, CompatiblePrefix(s))

Check(s, v) ==
  CASE s.op \in EqualOps -> SpecifierEqual(v, s)
    [] s.op = "!="       -> ~SpecifierEqual(v, s)
    [] s.op = "<"        -> SpecifierLessThan(v, s)
    [] s.op = "<="       -> SpecifierLessThanEqual(v, s)
    [] s.op = ">"        -> SpecifierGreaterThan(v, s)
    [] s.op = ">="       -> SpecifierGreaterThanEqual(v, s)
    [] s.op = "~="       -> SpecifierCompatible(v, s)

(***************************************************************************)
(* Identity and policy                                                     *)
(***************************************************************************)

\* Mutant: trailing zeros are dropped from every operand.
CanonicalTrimmed(s) == [s EXCEPT !.ver = TrimmedRelease(@), !.spelling = "plain"]

(* canonicalSpec: a wildcard operand stands as written, "~=" keeps its     *)
(* trailing zeros, any other operand is rendered without them.             *)
CanonicalSpec(s) ==
  IF s.wild THEN s
  ELSE [s EXCEPT !.ver = IF s.op = "~=" THEN @ ELSE TrimmedRelease(@), !.spelling = "plain"]

(* Specifier.PreReleases for a specifier built without a policy.           *)
DerivedPolicy(s) ==
  CASE s.op = "!=" \/ (s.op = "==" /\ s.wild) -> "Exclude"
    [] s.op \in {"", "="} /\ s.wild           -> "Auto"
    [] OTHER -> IF IsPreRelease(s.ver) THEN "Include" ELSE "Exclude"
=============================================================================
