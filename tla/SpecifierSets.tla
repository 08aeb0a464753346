--------------------------- MODULE SpecifierSets ---------------------------
(***************************************************************************)
(* What a specifier set is and what it admits (version/specifier.go,       *)
(* specifier_query.go).  A set is an OR of AND-groups of members, and the  *)
(* pre-release policy it was built with.  What one member does is left to  *)
(* the constants: Candidates gives them their meaning over versions.       *)
(***************************************************************************)
EXTENDS Naturals, Sequences

CONSTANTS
  Member,            \* the specifiers sets are built from
  Item,              \* the candidate strings
  Admits(_, _),      \* whether a member's operator matches an item
  CanonicalOf(_),    \* a member's canonical form
  MemberPolicy(_),   \* a member's resolved pre-release policy
  IsVersion(_)       \* whether an item parses as a version

Policy       == {"Auto", "Include", "Exclude"}
Group        == Seq(Member)
SpecifierSet == [groups : Seq(Group), pre : Policy]

ASSUME MembersAssumption ==
  /\ \A m \in Member, x \in Item : Admits(m, x) \in BOOLEAN
  /\ \A m \in Member : MemberPolicy(m) \in Policy
  /\ \A x \in Item : IsVersion(x) \in BOOLEAN

(* Specifiers.Len is zero: the set constrains nothing.                     *)
Unconstrained(ss) == \A g \in 1 .. Len(ss.groups) : ss.groups[g] = <<>>

(* andCheck, groupMatches: a conjunction over no members is true.          *)
GroupAdmits(group, x) == \A k \in 1 .. Len(group) : Admits(group[k], x)

(* matchAll: some group admits the item; an item that is no version needs  *)
(* a group that says so (allArbitraryMatch).                               *)
MatchAll(ss, x) ==
  \E g \in 1 .. Len(ss.groups) :
    /\ IsVersion(x) \/ ss.groups[g] # <<>>
    /\ GroupAdmits(ss.groups[g], x)

(* What the filter engine takes for a match, before any policy.            *)
SetAdmits(ss, x) == Unconstrained(ss) \/ MatchAll(ss, x)

\* Mutant: a set without groups has none.
GroupsAsTheyAre(ss) == ss.groups

(* orGroups: no groups at all is one empty group.                          *)
OrGroups(ss) == IF ss.groups = <<>> THEN << <<>> >> ELSE ss.groups

(* Specifiers.PreReleases: a set's own policy, or Include if a member      *)
(* resolves to it, and never Exclude.                                      *)
SetPolicy(ss) ==
  IF ss.pre # "Auto" THEN ss.pre
  ELSE IF \E g \in 1 .. Len(ss.groups) : \E k \in 1 .. Len(ss.groups[g]) :
            MemberPolicy(ss.groups[g][k]) = "Include"
         THEN "Include" ELSE "Auto"

(* The shape the constructors give a set: an empty group stands alone.     *)
(* splitOrSegments and parseGroup reject it beside others, where it would  *)
(* make the whole disjunction universal.                                   *)
Constructed(ss) == \A g \in 1 .. Len(ss.groups) : ss.groups[g] = <<>> => Len(ss.groups) = 1
=============================================================================
