------------------------------ MODULE Versions ------------------------------
(***************************************************************************)
(* PEP 440 versions and their order (version/version.go, packed.go,        *)
(* releasekey.go).                                                         *)
(*                                                                         *)
(* A segment that may be absent is a sequence, empty when it is:           *)
(*   pre   <<class, number>>, class 1, 2, 3 for "a", "b", "rc"             *)
(*   post  <<number>>        dev  <<number>>                               *)
(*   local <<part, ...>>, a part <<0, rank>> if it has letters, else       *)
(*         <<1, number>>                                                   *)
(* The zero value of the Go type is the version with an empty release.     *)
(***************************************************************************)
EXTENDS Integers, Sequences, FiniteSets

CONSTANTS
  SegValues, PreValues, PostValues, DevValues,  \* how many values each packed
                                                \* field has: 2 to its width in bits
  MaxSegments                                   \* release segments that fit

ASSUME WidthsAssumption ==
  /\ {SegValues, PreValues, PostValues, DevValues} \subseteq Nat \ {0}
  /\ MaxSegments \in Nat \ {0} /\ MaxSegments % 2 = 0

ZeroValue == [epoch |-> 0, release |-> <<>>, pre |-> <<>>, post |-> <<>>, dev |-> <<>>,
              local |-> <<>>]

Absent(segment)  == segment = <<>>
IsPreRelease(v)  == ~Absent(v.pre) \/ ~Absent(v.dev)
IsPostRelease(v) == ~Absent(v.post)
Public(v)        == [v EXCEPT !.local = <<>>]

(* The version a post-release is one of, and the least pre-release of a    *)
(* version.  Both are reparsed from their rendering, so they carry a key   *)
(* of their own.                                                           *)
PostBase(v)           == [v EXCEPT !.post = <<>>, !.dev = <<>>, !.local = <<>>]
EarliestPreRelease(v) == [v EXCEPT !.dev = <<0>>, !.local = <<>>]

(* The length of a release without its trailing zeros.                     *)
ReleaseLen(release) ==
  LET significant == {i \in DOMAIN release : release[i] # 0}
  IN  IF significant = {} THEN 0 ELSE CHOOSE i \in significant : \A j \in significant : j <= i

Stripped(release) == SubSeq(release, 1, ReleaseLen(release))

\* String's rendering but for trailing zeros; one segment always stays.
TrimmedRelease(v) ==
  [v EXCEPT !.release = IF Stripped(@) = <<>> THEN SubSeq(@, 1, 1) ELSE Stripped(@)]

Padded(s, n) == [i \in 1 .. n |-> IF i <= Len(s) THEN s[i] ELSE 0]

(***************************************************************************)
(* The general comparison: six components, each in order                   *)
(***************************************************************************)

\* A proper prefix comes first.
SeqLess(s, t) ==
  \E i \in 1 .. Len(t) :
    /\ i <= Len(s) + 1
    /\ SubSeq(s, 1, i - 1) = SubSeq(t, 1, i - 1)
    /\ i > Len(s) \/ s[i] < t[i]

\* The same over sequences of sequences.
NestedLess(s, t) ==
  \E i \in 1 .. Len(t) :
    /\ i <= Len(s) + 1
    /\ SubSeq(s, 1, i - 1) = SubSeq(t, 1, i - 1)
    /\ i > Len(s) \/ SeqLess(s[i], t[i])

NegInf  == <<0>>
PosInf  == <<2>>
Some(s) == <<1>> \o s

DevOnly(v) == Absent(v.pre) /\ Absent(v.post) /\ ~Absent(v.dev)

PreKey(v) ==
  CASE DevOnly(v)                   -> NegInf
    [] ~DevOnly(v) /\ Absent(v.pre) -> PosInf
    [] OTHER                        -> Some(v.pre)

DevKey(v) == IF Absent(v.dev) THEN PosInf ELSE Some(v.dev)

(* cmpkey, its release padded to n segments.                               *)
Key(v, n) ==
  << <<v.epoch>>,
     Padded(Stripped(v.release), n),
     PreKey(v),
     IF Absent(v.post) THEN NegInf ELSE Some(v.post),
     DevKey(v) >>

\* No local part sorts below every local part.
LocalLess(v, w) == NestedLess(v.local, w.local)

SignOf(less, greater) == IF less THEN -1 ELSE IF greater THEN 1 ELSE 0

CompareKeys(v, w) ==
  LET n == IF Len(v.release) > Len(w.release) THEN Len(v.release) ELSE Len(w.release)
      k == Key(v, n)
      l == Key(w, n)
  IN  SignOf(NestedLess(k, l) \/ (k = l /\ LocalLess(v, w)),
             NestedLess(l, k) \/ (k = l /\ LocalLess(w, v)))

(***************************************************************************)
(* The packed comparison                                                   *)
(***************************************************************************)

\* Mutant: the limit itself does not fit, but one more does.
FitsOneMore(n, values) == n <= values

Fits(n, values) == n <= values - 1

ReleasePackable(release) ==
  /\ ReleaseLen(release) <= MaxSegments
  /\ \A i \in 1 .. ReleaseLen(release) : Fits(release[i], SegValues)

\* Two segments to a word, the first in the high half.
PackRelease(release) ==
  LET segs == Padded(Stripped(release), MaxSegments)
  IN  [i \in 1 .. MaxSegments \div 2 |-> segs[2 * i - 1] * SegValues + segs[2 * i]]

Packable(v) ==
  /\ Absent(v.local)
  /\ v.epoch = 0
  /\ v.release # <<>>
  /\ ReleasePackable(v.release)
  /\ Absent(v.pre)  \/ Fits(v.pre[2], PreValues)
  /\ Absent(v.post) \/ Fits(v.post[1], PostValues)
  /\ Absent(v.dev)  \/ Fits(v.dev[1], DevValues)

\* Mutant: a version with only a dev segment is classed as a final one.
PreClassDevOnlyAsFinal(v) == IF Absent(v.pre) THEN 4 ELSE v.pre[1]

PreClass(v) == CASE DevOnly(v) -> 0 [] ~DevOnly(v) /\ Absent(v.pre) -> 4 [] OTHER -> v.pre[1]

(* Fields from the least significant up, each shifted past those below it, *)
(* in a word of exactly their width.                                       *)
DevFlagUnit  == DevValues
PostUnit     == DevFlagUnit * 2
PostFlagUnit == PostUnit * PostValues
PreUnit      == PostFlagUnit * 2
PreClassUnit == PreUnit * PreValues
SuffixWord   == PreClassUnit * 8

PackSuffix(v) ==
  LET devN      == IF Absent(v.dev) THEN 0 ELSE v.dev[1]
      devAbsent == IF Absent(v.dev) THEN 1 ELSE 0
      postN     == IF Absent(v.post) THEN 0 ELSE v.post[1]
      postFlag  == IF Absent(v.post) THEN 0 ELSE 1
      preN      == IF Absent(v.pre) THEN 0 ELSE v.pre[2]
  IN  (devN + devAbsent * DevFlagUnit + postN * PostUnit + postFlag * PostFlagUnit
        + preN * PreUnit + PreClass(v) * PreClassUnit) % SuffixWord

PackVersion(v) == Append(PackRelease(v.release), PackSuffix(v))

ComparePacked(k, l) == SignOf(SeqLess(k, l), SeqLess(l, k))

(* Version.Compare: the packed words when both have them, an uninitialised *)
(* version below every other, the keys else.                               *)
Compare(v, w) ==
  CASE Packable(v) /\ Packable(w) -> ComparePacked(PackVersion(v), PackVersion(w))
    [] ~(Packable(v) /\ Packable(w)) /\ (v.release = <<>> \/ w.release = <<>>) ->
         SignOf(v.release = <<>> /\ w.release # <<>>, v.release # <<>> /\ w.release = <<>>)
    [] OTHER -> CompareKeys(v, w)

Less(v, w)   == Compare(v, w) = -1
AtMost(v, w) == Compare(v, w) # 1
Same(v, w)   == Compare(v, w) = 0

(***************************************************************************)
(* The release order                                                       *)
(***************************************************************************)

\* Mutant: a release packs whatever its epoch.
KeyPackedAnyEpoch(v) == ReleasePackable(v.release)

KeyPacked(v) == v.epoch = 0 /\ ReleasePackable(v.release)

(* compareGeneral of two release keys: stripped releases, a shorter one    *)
(* with the same segments is the smaller.                                  *)
CompareReleaseGeneral(v, w) ==
  LET r == <<v.epoch>> \o Stripped(v.release)
      s == <<w.epoch>> \o Stripped(w.release)
  IN  SignOf(SeqLess(r, s), SeqLess(s, r))

CompareRelease(v, w) ==
  IF KeyPacked(v) /\ KeyPacked(w)
    THEN ComparePacked(PackRelease(v.release), PackRelease(w.release))
    ELSE CompareReleaseGeneral(v, w)
=============================================================================
