--------------------------- MODULE SharedCompare ---------------------------
(***************************************************************************)
(* Goroutines that compare copies of the same versions (compareVersions    *)
(* and padParts, version/version.go).  A Version is copied by value, but   *)
(* its copies share the array behind key.release, whose capacity reaches   *)
(* over the trailing zeros cmpkey has cut off; so where the padding of an  *)
(* operand is written decides whether comparing is safe.  Only the general *)
(* path is modelled here, of versions that are not the zero value: packed  *)
(* words are copied with the value, and so is the rest of the key.         *)
(***************************************************************************)
EXTENDS Integers

CONSTANTS
  Goroutine,
  Version,   \* values that were parsed once and copied since
  MaxLen,    \* bound: segments of a release
  Release,   \* of each version its segments, zero beyond the last
  Length,    \* how many it was parsed with: the capacity of its array
  KeyLen,    \* how many are left when cmpkey has cut off trailing zeros
  Torn       \* what a segment half written may be read as

Index  == 1 .. MaxLen
Buffer == Goroutine \X {1, 2}   \* what padParts makes for either operand
Array  == Version \cup Buffer

ASSUME LengthAssumption == MaxLen \in Nat

ASSUME ReleaseAssumption ==
  /\ Release \in [Version -> [Index -> Nat]]
  /\ Length \in [Version -> 0 .. MaxLen]
  /\ KeyLen \in [Version -> 0 .. MaxLen]
  /\ Torn \subseteq Int
  /\ \A v \in Version : \A k \in Index : k > KeyLen[v] => Release[v][k] = 0

ASSUME BufferAssumption == Version \cap Buffer = {}

VARIABLES
  heap,    \* of each array, its segments
  pc,      \* of each goroutine, what it does
  pair,    \* the versions it compares
  at,      \* the arrays behind k1.release and k2.release
  side,    \* the operand being padded
  next,    \* the segment about to be written or compared
  answer

vars == <<heap, pc, pair, at, side, next, answer>>

Size(g) ==
  IF KeyLen[pair[g][1]] >= KeyLen[pair[g][2]] THEN KeyLen[pair[g][1]] ELSE KeyLen[pair[g][2]]

Operand(g) == pair[g][side[g]]

Init ==
  /\ heap = [a \in Array |-> IF a \in Version THEN Release[a] ELSE [k \in Index |-> 0]]
  /\ pc = [g \in Goroutine |-> "idle"]
  /\ pair \in [Goroutine -> Version \X Version]
  /\ at = pair
  /\ side = [g \in Goroutine |-> 1]
  /\ next = [g \in Goroutine |-> 1]
  /\ answer = [g \in Goroutine |-> 0]

Call(g, v, w) ==
  /\ pc[g] \in {"idle", "answered"}
  /\ pc' = [pc EXCEPT ![g] = "pad"]
  /\ pair' = [pair EXCEPT ![g] = <<v, w>>]
  /\ at' = [at EXCEPT ![g] = <<v, w>>]
  /\ side' = [side EXCEPT ![g] = 1]
  /\ UNCHANGED <<heap, next, answer>>

OtherSide(g) ==
  /\ pc' = [pc EXCEPT ![g] = IF side[g] = 1 THEN "pad" ELSE "compare"]
  /\ side' = [side EXCEPT ![g] = 2]
  /\ next' = [next EXCEPT ![g] = 1]
  /\ UNCHANGED <<heap, pair, at, answer>>

LongEnough(g) == pc[g] = "pad" /\ KeyLen[Operand(g)] >= Size(g) /\ OtherSide(g)

\* Mutant: where there is room, the padding is appended in place.
InPlace(g) == IF Size(g) <= Length[Operand(g)] THEN Operand(g) ELSE <<g, side[g]>>

Target(g) == <<g, side[g]>>

Make(g) ==
  /\ pc[g] = "pad" /\ KeyLen[Operand(g)] < Size(g)
  /\ at' = [at EXCEPT ![g][side[g]] = Target(g)]
  /\ heap' = [heap EXCEPT ![Target(g)] = [k \in Index |-> IF k <= KeyLen[Operand(g)] THEN heap[Operand(g)][k] ELSE @[k]]]
  /\ pc' = [pc EXCEPT ![g] = "zero"]
  /\ next' = [next EXCEPT ![g] = KeyLen[Operand(g)] + 1]
  /\ UNCHANGED <<pair, side, answer>>

(* A segment is an interface of two words, so a write takes more than one  *)
(* step, and what is there meanwhile may be read as anything.              *)
Write(g, segment) == heap' = [heap EXCEPT ![at[g][side[g]]][next[g]] = segment]

BeginZero(g) ==
  /\ pc[g] = "zero" /\ next[g] <= Size(g)
  /\ \E half \in Torn : Write(g, half)
  /\ pc' = [pc EXCEPT ![g] = "zeroing"]
  /\ UNCHANGED <<pair, at, side, next, answer>>

EndZero(g) ==
  /\ pc[g] = "zeroing"
  /\ Write(g, 0)
  /\ pc' = [pc EXCEPT ![g] = "zero"]
  /\ next' = [next EXCEPT ![g] = @ + 1]
  /\ UNCHANGED <<pair, at, side, answer>>

Padded(g) == pc[g] = "zero" /\ next[g] > Size(g) /\ OtherSide(g)

Segment(g, s) == heap[at[g][s]][next[g]]

SameSegment(g) ==
  /\ pc[g] = "compare" /\ next[g] <= Size(g) /\ Segment(g, 1) = Segment(g, 2)
  /\ next' = [next EXCEPT ![g] = @ + 1]
  /\ UNCHANGED <<heap, pc, pair, at, side, answer>>

Return(g, sign) ==
  /\ pc' = [pc EXCEPT ![g] = "answered"]
  /\ answer' = [answer EXCEPT ![g] = sign]
  /\ UNCHANGED <<heap, pair, at, side, next>>

Differ(g) ==
  /\ pc[g] = "compare" /\ next[g] <= Size(g)
  /\ \/ Segment(g, 1) < Segment(g, 2) /\ Return(g, -1)
     \/ Segment(g, 1) > Segment(g, 2) /\ Return(g, 1)

Same(g) == pc[g] = "compare" /\ next[g] > Size(g) /\ Return(g, 0)

Step(g) ==
  \/ LongEnough(g) \/ Make(g) \/ BeginZero(g) \/ EndZero(g) \/ Padded(g)
  \/ SameSegment(g) \/ Differ(g) \/ Same(g)

Next == \E g \in Goroutine : Step(g) \/ \E v, w \in Version : Call(g, v, w)

Spec == Init /\ [][Next]_vars

(***************************************************************************)
(* Properties                                                              *)
(***************************************************************************)

(* What sign the order of two releases has, an absent segment counting as  *)
(* zero.                                                                   *)
IsOrder(v, w, sign) ==
  \/ /\ sign = 0
     /\ \A k \in Index : Release[v][k] = Release[w][k]
  \/ \E k \in Index :
       /\ \A j \in Index : j < k => Release[v][j] = Release[w][j]
       /\ \/ sign = -1 /\ Release[v][k] < Release[w][k]
          \/ sign = 1 /\ Release[v][k] > Release[w][k]

(* Every comparison answers the order of its two versions, whatever other  *)
(* goroutines compare at the same time ("lets a Version be shared across   *)
(* goroutines").                                                           *)
AnswersAreOrder ==
  \A g \in Goroutine : pc[g] = "answered" => IsOrder(pair[g][1], pair[g][2], answer[g])

(* No step writes through a version, not even over the zeros its key has   *)
(* cut off ("Compare read-only on both receivers").                        *)
SharedIntact == [][\A v \in Version : heap'[v] = heap[v]]_vars
=============================================================================
