------------------------------ MODULE AndSets ------------------------------
(***************************************************************************)
(* Specifiers.And (version/specifier_query.go), as a caller uses it who    *)
(* collects constraints on one project: each is intersected into the set   *)
(* accumulated so far.  And distributes over the groups of both sides, and *)
(* dedupeSpecifiers drops from each product group the members whose        *)
(* canonical form it has seen; its loop is stepped member by member.       *)
(***************************************************************************)
EXTENDS SpecifierSets, FiniteSets

CONSTANTS
  Constraint,   \* the sets And is called with
  MaxGroups,    \* bound: groups a product may have
  MaxAsked      \* bound: constraints in a chain

ASSUME ConstraintAssumption ==
  \A c \in Constraint : c \in SpecifierSet /\ Constructed(c)

VARIABLES
  pc,       \* "idle", "dedupe" or "conflict"
  acc,      \* the set accumulated so far: And's receiver
  other,    \* And's argument
  i, j, k,  \* the loops of And over both sides' groups, of dedupe over members
  seen,     \* dedupeSpecifiers: canonical forms
  out,      \* and members kept
  groups,   \* the product groups finished
  asked     \* history: the constraints accumulated in acc

vars == <<pc, acc, other, i, j, k, seen, out, groups, asked>>

Universal == [groups |-> << <<>> >>, pre |-> "Auto"]

Left  == OrGroups(acc)
Right == OrGroups(other)
Line  == Left[i] \o Right[j]

Conflicting(p, q) == p # "Auto" /\ q # "Auto" /\ p # q

Init ==
  /\ pc = "idle"
  /\ acc \in {Universal, [groups |-> <<>>, pre |-> "Auto"]}
  /\ other = acc
  /\ i = 1 /\ j = 1 /\ k = 1
  /\ seen = {} /\ out = <<>> /\ groups = <<>>
  /\ asked = {}

(* And starts with the policies.                                           *)
Ask(c) ==
  /\ pc = "idle"
  /\ Len(OrGroups(acc)) * Len(OrGroups(c)) <= MaxGroups
  /\ Cardinality(asked) < MaxAsked
  /\ ~Conflicting(acc.pre, c.pre)
  /\ pc' = "dedupe"
  /\ other' = c
  /\ i' = 1 /\ j' = 1 /\ k' = 1
  /\ seen' = {} /\ out' = <<>> /\ groups' = <<>>
  /\ UNCHANGED <<acc, asked>>

(* ErrPreReleaseConflict: And returns no set, and the caller gives up.     *)
Conflict(c) ==
  /\ pc = "idle"
  /\ Conflicting(acc.pre, c.pre)
  /\ pc' = "conflict"
  /\ other' = c
  /\ UNCHANGED <<acc, i, j, k, seen, out, groups, asked>>

Keep ==
  /\ pc = "dedupe"
  /\ k <= Len(Line)
  /\ CanonicalOf(Line[k]) \notin seen
  /\ seen' = seen \cup {CanonicalOf(Line[k])}
  /\ out' = Append(out, Line[k])
  /\ k' = k + 1
  /\ UNCHANGED <<pc, acc, other, i, j, groups, asked>>

Drop ==
  /\ pc = "dedupe"
  /\ k <= Len(Line)
  /\ CanonicalOf(Line[k]) \in seen
  /\ k' = k + 1
  /\ UNCHANGED <<pc, acc, other, i, j, seen, out, groups, asked>>

\* Mutant: the forms seen in one product group are dropped from the next.
SeenBefore == seen

SeenAnew == {}

EndGroup ==
  /\ pc = "dedupe"
  /\ k > Len(Line)
  /\ i < Len(Left) \/ j < Len(Right)
  /\ groups' = Append(groups, out)
  /\ i' = IF j < Len(Right) THEN i ELSE i + 1
  /\ j' = IF j < Len(Right) THEN j + 1 ELSE 1
  /\ k' = 1
  /\ seen' = SeenAnew /\ out' = <<>>
  /\ UNCHANGED <<pc, acc, other, asked>>

\* Mutant: the receiver's policy is kept and the argument's dropped.
ReceiversPolicy(p, q) == p

CombinePreReleases(p, q) == IF p = "Auto" THEN q ELSE p

Return ==
  /\ pc = "dedupe"
  /\ k > Len(Line)
  /\ i = Len(Left) /\ j = Len(Right)
  /\ pc' = "idle"
  /\ acc' = [groups |-> Append(groups, out), pre |-> CombinePreReleases(acc.pre, other.pre)]
  /\ asked' = asked \cup {other}
  /\ UNCHANGED <<other, i, j, k, seen, out, groups>>

Next ==
  \/ \E c \in Constraint : Ask(c) \/ Conflict(c)
  \/ Keep \/ Drop \/ EndGroup \/ Return

Spec == Init /\ [][Next]_vars

(***************************************************************************)
(* Properties                                                              *)
(***************************************************************************)

(* Every variable keeps its type: the accumulated set is one a caller      *)
(* could have written down (And's result).                                 *)
TypeOK ==
  /\ pc \in {"idle", "dedupe", "conflict"}
  /\ acc \in SpecifierSet
  /\ other \in SpecifierSet
  /\ {i, j, k} \subseteq Nat \ {0}
  /\ pc = "dedupe" => i <= Len(Left) /\ j <= Len(Right) /\ k <= Len(Line) + 1
  /\ seen \subseteq {CanonicalOf(m) : m \in Member}
  /\ out \in Group
  /\ groups \in Seq(Group)
  /\ asked \subseteq Constraint

(* What canonicalSpec has to promise for dedupeSpecifiers to be harmless.  *)
CanonicalSound ==
  \A m, n \in Member :
    CanonicalOf(m) = CanonicalOf(n) =>
      /\ \A x \in Item : Admits(m, x) <=> Admits(n, x)
      /\ MemberPolicy(m) = MemberPolicy(n)

(* The accumulated set admits what every constraint asked for admits,      *)
(* neither less nor more, whatever the order they came in ("And returns    *)
(* the intersection of two specifier sets").                               *)
AndIsIntersection ==
  pc = "idle" => \A x \in Item : SetAdmits(acc, x) <=> \A c \in asked : SetAdmits(c, x)

(* No chain of intersections yields a set that constrains nothing unless   *)
(* nothing was asked: a product group is never left empty beside others    *)
(* (the warnings of parseGroup and orGroups).                              *)
NeverUniversalByAccident ==
  /\ Constructed(acc)
  /\ Unconstrained(acc) => \A c \in asked : Unconstrained(c)

(* The explicit policy of the result is the one the constraints agree on,  *)
(* and a conflict is reported of two that do not (combinePreReleases).     *)
PolicyIsCombined ==
  /\ \A c \in asked : c.pre \in {"Auto", acc.pre}
  /\ acc.pre # "Auto" => \E c \in asked : c.pre = acc.pre
  /\ pc = "conflict" => \E c \in asked : Conflicting(c.pre, other.pre)
=============================================================================
