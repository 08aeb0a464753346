---------------------------- MODULE VersionPairs ----------------------------
(***************************************************************************)
(* What Version.Compare and ReleaseKey promise of any versions.  A         *)
(* behaviour holds two of them up to each other, then the other way round. *)
(***************************************************************************)
EXTENDS Versions

CONSTANT Parsed                      \* the versions that were parsed

LocalPart == Seq(Nat) \ {<<>>}
OneNumber == {s \in Seq(Nat) : Len(s) = 1}

(* What Parse makes of the texts the grammar admits.                       *)
ParsedVersion ==
  [epoch   : Nat,
   release : Seq(Nat) \ {<<>>},
   pre     : {<<>>} \cup ((1 .. 3) \X Nat),
   post    : {<<>>} \cup OneNumber,
   dev     : {<<>>} \cup OneNumber,
   local   : Seq(LocalPart)]

ASSUME ParsedAssumption == Parsed \subseteq ParsedVersion

AnyVersion == Parsed \cup {ZeroValue}

VARIABLES one, other

Init == one \in AnyVersion /\ other \in AnyVersion
Turn == one' = other /\ other' = one
Next == Turn
Spec == Init /\ [][Next]_<<one, other>>

(* A few integer comparisons decide what the general path decides, on      *)
(* every pair both can take (packed.go: "exactly the same answer").        *)
PackedAgrees ==
  Packable(one) /\ Packable(other) => Compare(one, other) = CompareKeys(one, other)

(* Compare is one order of all versions, whichever pairs took the packed   *)
(* path: turning a pair round turns the answer round, "at most" is         *)
(* transitive, and an uninitialised version is below every parsed one      *)
(* (Version.Compare).                                                      *)
OneOrder ==
  /\ Compare(other, one) = -Compare(one, other)
  /\ \A u \in AnyVersion : AtMost(u, one) /\ AtMost(one, other) => AtMost(u, other)
  /\ one = ZeroValue /\ other # ZeroValue => Less(one, other)

(* Grouping by release never tears the version order: a smaller version is *)
(* not in a later group, and packing changes no group (ReleaseKey).        *)
ReleaseOrderCoarser ==
  /\ one # ZeroValue /\ other # ZeroValue /\ Less(one, other) => CompareRelease(one, other) # 1
  /\ CompareRelease(one, other) = CompareReleaseGeneral(one, other)
=============================================================================
