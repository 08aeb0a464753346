---------------------------- MODULE MCSelection ----------------------------
(***************************************************************************)
(* Selection over concrete candidates: final releases, pre-releases of two *)
(* releases, and strings that are no version, in every order.              *)
(***************************************************************************)
EXTENDS Selection

C == INSTANCE Candidates
       WITH SegValues <- 4, PreValues <- 4, PostValues <- 4, DevValues <- 4, MaxSegments <- 2

Release(r) == [C!ZeroValue EXCEPT !.release = r]
Alpha(r)   == [Release(r) EXCEPT !.pre = <<1, 1>>]

Meaning ==
  [ge1     |-> C!WithPolicy(C!Plain(">=", Release(<<1>>)), "Auto"),
   ge1not  |-> C!WithPolicy(C!Plain(">=", Release(<<1>>)), "Exclude"),
   ge1also |-> C!WithPolicy(C!Plain(">=", Release(<<1>>)), "Include"),
   ge1_1a1 |-> C!WithPolicy(C!Plain(">=", Alpha(<<1, 1>>)), "Auto"),
   lt2     |-> C!WithPolicy(C!Plain("<", Release(<<2>>)), "Auto"),
   lolwat  |-> C!Arbitrary("lolwat", C!ZeroValue, "Auto"),
   nil     |-> C!NilMember]

Version ==
  [r1     |-> C!Candidate("1", Release(<<1>>)),
   r1_1a1 |-> C!Candidate("1.1a1", Alpha(<<1, 1>>)),
   r2a1   |-> C!Candidate("2a1", Alpha(<<2>>)),
   r2     |-> C!Candidate("2", Release(<<2>>)),
   lolwat |-> C!Opaque("lolwat")]

MCMember == DOMAIN Meaning
MCItem   == DOMAIN Version

AdmitsTable       == [m \in MCMember |-> [x \in MCItem |-> C!MemberAdmits(Meaning[m], Version[x])]]
PolicyTable       == [m \in MCMember |-> C!ResolvedPolicy(Meaning[m])]
VersionTable      == [x \in MCItem |-> C!Parses(Version[x])]
PreTable          == [x \in MCItem |-> C!ParsesAsPre(Version[x])]
MCAdmits(m, x)    == AdmitsTable[m][x]
MCCanonicalOf(m)  == C!CanonicalMember(Meaning[m])
MCMemberPolicy(m) == PolicyTable[m]
MCOwnPolicy(m)    == Meaning[m].own
MCIsVersion(x)    == VersionTable[x]
MCIsPre(x)        == PreTable[x]

Single(m)  == [groups |-> << <<m>> >>, pre |-> "Auto"]
Set(gs, p) == [groups |-> gs, pre |-> p]
Sets ==
  {Single(m) : m \in MCMember}
    \cup {Set(<< <<"ge1", "lt2">> >>, p) : p \in Policy}
    \cup {Set(<< <<>> >>, p) : p \in Policy}
    \cup {Set(<<>>, "Auto"), Set(<< <<"lt2", "nil">>, <<"lolwat">> >>, "Auto"),
          Set(<< <<"lolwat", "lt2">>, <<"ge1_1a1">> >>, "Auto")}

MCSubject ==
  [kind : {"member"}, member : MCMember] \cup [kind : {"set"}, set : Sets]

(* Bound: three candidates, so that a pre-release can come before and      *)
(* after both a final release and another pre-release.                     *)
MaxCandidates == 3
MCCandidates  == UNION {[1 .. l -> MCItem] : l \in 0 .. MaxCandidates}
=============================================================================
