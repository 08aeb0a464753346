----------------------------- MODULE MCAndSets -----------------------------
(***************************************************************************)
(* Chains of intersections over concrete specifiers: two that are equal    *)
(* but spelled differently, a pre-release operand, an operand that is no   *)
(* version, the zero value, disjunctions, and all three policies.          *)
(***************************************************************************)
EXTENDS AndSets

C == INSTANCE Candidates
       WITH SegValues <- 4, PreValues <- 4, PostValues <- 4, DevValues <- 4, MaxSegments <- 2

Release(r)   == [C!ZeroValue EXCEPT !.release = r]
Alpha(r)     == [Release(r) EXCEPT !.pre = <<1, 1>>]
RC(r)        == [Release(r) EXCEPT !.pre = <<3, 1>>]
Spec1(op, v) == C!WithPolicy(C!Plain(op, v), "Auto")

(* Members and items are named, so that TLC handles small states.          *)
Meaning ==
  [ge1     |-> Spec1(">=", Release(<<1>>)),
   ge1_0   |-> Spec1(">=", Release(<<1, 0>>)),
   lt2     |-> Spec1("<", Release(<<2>>)),
   eq1_1   |-> Spec1("==", Release(<<1, 1>>)),
   eq2     |-> Spec1("==", Release(<<2>>)),
   ge1_1a1 |-> Spec1(">=", Alpha(<<1, 1>>)),
   ne1_1   |-> C!WithPolicy(C!Plain("!=", Release(<<1, 1>>)), "Exclude"),
   lolwat  |-> C!Arbitrary("lolwat", C!ZeroValue, "Auto"),
   nil     |-> C!NilMember,
   co1_0c1    |-> C!WithPolicy([C!Plain("~=", RC(<<1, 0>>)) EXCEPT !.spelling = "alias"], "Auto"),
   co1_0rc1   |-> Spec1("~=", RC(<<1, 0>>))]

Version ==
  [r1     |-> C!Candidate("1", Release(<<1>>)),
   r1_1   |-> C!Candidate("1.1", Release(<<1, 1>>)),
   r1_1a1 |-> C!Candidate("1.1a1", Alpha(<<1, 1>>)),
   r1_2a1 |-> C!Candidate("1.2a1", Alpha(<<1, 2>>)),
   r2     |-> C!Candidate("2", Release(<<2>>)),
   r3     |-> C!Candidate("3", Release(<<3>>)),
   lolwat |-> C!Opaque("lolwat"),
   other  |-> C!Opaque("other")]

MCMember == {"ge1", "ge1_0", "lt2", "eq1_1", "eq2", "ge1_1a1", "ne1_1", "lolwat", "nil"}
MCItem   == DOMAIN Version

AdmitsTable       == [m \in DOMAIN Meaning |-> [x \in MCItem |-> C!MemberAdmits(Meaning[m], Version[x])]]
CanonicalTable    == [m \in DOMAIN Meaning |-> CHOOSE n \in DOMAIN Meaning :
                                                C!CanonicalMember(Meaning[n]) = C!CanonicalMember(Meaning[m])]
PolicyTable       == [m \in DOMAIN Meaning |-> C!ResolvedPolicy(Meaning[m])]
MCAdmits(m, x)    == AdmitsTable[m][x]
MCCanonicalOf(m)  == CanonicalTable[m]
MCMemberPolicy(m) == PolicyTable[m]
MCIsVersion(x)    == x \notin {"lolwat", "other"}

Set(gs, p) == [groups |-> gs, pre |-> p]
MCConstraint ==
  {Set(<< <<>> >>, "Auto"), Set(<< <<>> >>, "Include"), Set(<<>>, "Auto"),
   Set(<< <<"ge1">> >>, "Auto"), Set(<< <<"ge1_0", "lt2">> >>, "Auto"),
   Set(<< <<"eq1_1">>, <<"eq2">> >>, "Auto"), Set(<< <<"ge1_1a1", "ne1_1">> >>, "Auto"),
   Set(<< <<"lolwat">>, <<"ge1", "lt2">> >>, "Auto"), Set(<< <<"nil">> >>, "Auto"),
   Set(<< <<"lolwat">> >>, "Exclude")}

(* The members of the passing run are such that equal canonical forms      *)
(* match and resolve alike.                                                *)
ASSUME MeaningAssumption == Member = MCMember => CanonicalSound

(* One operand in two spellings, which count as equal: "~=1.0c1" takes the *)
(* whole release for its prefix, "~=1.0rc1" all but the last segment.      *)
SpelledMember     == {"co1_0c1", "co1_0rc1"}
SpelledConstraint == {Set(<< <<m>> >>, "Auto") : m \in SpelledMember}
=============================================================================
