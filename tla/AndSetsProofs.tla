---------------------------- MODULE AndSetsProofs ----------------------------
(***************************************************************************)
(* Proofs about AndSets, for every meaning of the operators, every set of  *)
(* constraints and chains of any length.                                   *)
(***************************************************************************)
EXTENDS AndSets, TLAPS, SequenceTheorems

-----------------------------------------------------------------------------
(* Groups and sets.                                                        *)

LEMMA UniversalIsASet ==
  /\ << <<>> >> \in Seq(Group) /\ <<>> \in Seq(Group) /\ <<>> \in Group
  /\ Len(<< <<>> >>) = 1 /\ << <<>> >>[1] = <<>>
<1>1. <<>> \in Group /\ <<>> \in Seq(Group)
  BY EmptySeq DEF Group
<1>2. Append(<<>>, <<>>) \in Seq(Group)
  BY <1>1, AppendProperties
<1>3. Append(<<>>, <<>>) = << <<>> >>
  OBVIOUS
<1>4. QED
  BY <1>1, <1>2, <1>3

(* Distributing over no groups at all is distributing over the empty one.  *)
LEMMA OrGroupsFacts ==
  ASSUME NEW ss \in SpecifierSet
  PROVE  /\ OrGroups(ss) \in Seq(Group)
         /\ Len(OrGroups(ss)) \in Nat \ {0}
         /\ \A g \in 1 .. Len(OrGroups(ss)) : OrGroups(ss)[g] \in Group
<1>1. ss.groups \in Seq(Group)
  BY DEF SpecifierSet
<1>2. OrGroups(ss) \in Seq(Group) /\ OrGroups(ss) # <<>>
  BY <1>1, UniversalIsASet DEF OrGroups
<1>3. QED
  BY <1>2, EmptySeq, LenProperties, ElementOfSeq

LEMMA OrGroupsConstructed ==
  ASSUME NEW ss \in SpecifierSet, Constructed(ss)
  PROVE  /\ \A g \in 1 .. Len(OrGroups(ss)) : OrGroups(ss)[g] = <<>> => Len(OrGroups(ss)) = 1
         /\ Unconstrained(ss) <=> Len(OrGroups(ss)) = 1 /\ OrGroups(ss)[1] = <<>>
<1>1. ss.groups \in Seq(Group) /\ Len(ss.groups) \in Nat
  BY LenProperties DEF SpecifierSet
<1>2. CASE ss.groups = <<>>
  <2>1. Len(ss.groups) = 0
    BY <1>2
  <2>2. QED
    BY <1>2, <2>1, UniversalIsASet DEF OrGroups, Unconstrained
<1>3. CASE ss.groups # <<>>
  <2>1. OrGroups(ss) = ss.groups /\ Len(ss.groups) # 0
    BY <1>1, <1>3, EmptySeq DEF OrGroups
  <2>2. QED
    BY <1>1, <2>1 DEF Constructed, Unconstrained
<1>4. QED
  BY <1>2, <1>3

LEMMA OrGroupsAdmit ==
  ASSUME NEW ss \in SpecifierSet, Constructed(ss), NEW x \in Item
  PROVE  SetAdmits(ss, x)
           <=> \E g \in 1 .. Len(OrGroups(ss)) : GroupAdmits(OrGroups(ss)[g], x)
<1>1. ss.groups \in Seq(Group) /\ Len(ss.groups) \in Nat
  BY LenProperties DEF SpecifierSet
<1>2. CASE Unconstrained(ss)
  <2>1. Len(OrGroups(ss)) = 1 /\ OrGroups(ss)[1] = <<>>
    BY <1>2, OrGroupsConstructed
  <2>2. GroupAdmits(<<>>, x)
    BY EmptySeq DEF GroupAdmits
  <2>3. QED
    BY <1>2, <2>1, <2>2 DEF SetAdmits
<1>3. CASE ~Unconstrained(ss)
  <2>1. ss.groups # <<>> /\ OrGroups(ss) = ss.groups
    BY <1>3, EmptySeq DEF Unconstrained, OrGroups
  <2>2. \A g \in 1 .. Len(ss.groups) : ss.groups[g] # <<>>
    BY <1>1, <1>3 DEF Unconstrained, Constructed
  <2>3. QED
    BY <1>3, <2>1, <2>2 DEF SetAdmits, MatchAll
<1>4. QED
  BY <1>2, <1>3

(* A group put together from two is their conjunction.                     *)
LEMMA ConcatFacts ==
  ASSUME NEW l \in Group, NEW r \in Group
  PROVE  /\ l \o r \in Group /\ Len(l \o r) \in Nat
         /\ \A y \in 1 .. Len(l \o r) : (l \o r)[y] \in Member
         /\ l \o r = <<>> => l = <<>> /\ r = <<>>
         /\ \A x \in Item : GroupAdmits(l \o r, x) <=> GroupAdmits(l, x) /\ GroupAdmits(r, x)
<1>1. /\ Len(l) \in Nat /\ Len(r) \in Nat
      /\ l \o r \in Seq(Member) /\ Len(l \o r) = Len(l) + Len(r)
      /\ \A y \in 1 .. Len(l) + Len(r) : (l \o r)[y] = IF y <= Len(l) THEN l[y] ELSE r[y - Len(l)]
  BY ConcatProperties, LenProperties DEF Group
<1>2. \A y \in 1 .. Len(l \o r) : (l \o r)[y] \in Member
  BY <1>1, ElementOfSeq
<1>3. l \o r = <<>> => l = <<>> /\ r = <<>>
  <2>1. l \o r = <<>> => Len(l) = 0 /\ Len(r) = 0
    BY <1>1, EmptySeq
  <2>2. QED
    BY <2>1, EmptySeq DEF Group
<1>4. ASSUME NEW x \in Item
      PROVE  GroupAdmits(l \o r, x) <=> GroupAdmits(l, x) /\ GroupAdmits(r, x)
  <2>1. ASSUME GroupAdmits(l, x), GroupAdmits(r, x), NEW y \in 1 .. Len(l \o r)
        PROVE  Admits((l \o r)[y], x)
    <3>1. CASE y <= Len(l)
      BY <1>1, <2>1, <3>1 DEF GroupAdmits
    <3>2. CASE ~(y <= Len(l))
      <4>1. y - Len(l) \in 1 .. Len(r)
        BY <1>1, <3>2
      <4>2. QED
        BY <1>1, <2>1, <3>2, <4>1 DEF GroupAdmits
    <3>3. QED
      BY <3>1, <3>2
  <2>2. ASSUME GroupAdmits(l \o r, x) PROVE GroupAdmits(l, x)
    BY <1>1, <2>2 DEF GroupAdmits
  <2>3. ASSUME GroupAdmits(l \o r, x), NEW y \in 1 .. Len(r) PROVE Admits(r[y], x)
    <3>1. Len(l) + y \in 1 .. Len(l \o r) /\ (l \o r)[Len(l) + y] = r[y]
      BY <1>1
    <3>2. QED
      BY <2>3, <3>1 DEF GroupAdmits
  <2>4. QED
    BY <2>1, <2>2, <2>3 DEF GroupAdmits
<1>5. QED
  BY <1>1, <1>2, <1>3, <1>4 DEF Group

-----------------------------------------------------------------------------
(* What the loops of And and dedupeSpecifiers have done of their work.     *)

Shape ==
  /\ Constructed(acc)
  /\ pc = "dedupe" =>
       /\ other \in Constraint
       /\ ~Conflicting(acc.pre, other.pre)
       /\ i = 1 /\ j = 1 => groups = <<>>
       /\ \A g \in 1 .. Len(groups) : groups[g] # <<>>
       /\ \A y \in 1 .. k - 1 : CanonicalOf(Line[y]) \in seen
       /\ \A z \in 1 .. Len(out) : \E y \in 1 .. k - 1 : out[z] = Line[y]
       /\ \A f \in seen : \E z \in 1 .. Len(out) : CanonicalOf(out[z]) = f

IInv == TypeOK /\ Shape /\ NeverUniversalByAccident /\ PolicyIsCombined

LEMMA DedupeFacts ==
  ASSUME IInv, pc = "dedupe"
  PROVE  /\ acc \in SpecifierSet /\ other \in SpecifierSet /\ other \in Constraint
         /\ Constructed(acc) /\ Constructed(other)
         /\ Len(Left) \in Nat \ {0} /\ Len(Right) \in Nat \ {0}
         /\ i \in 1 .. Len(Left) /\ j \in 1 .. Len(Right)
         /\ Left[i] \in Group /\ Right[j] \in Group
         /\ Line \in Group /\ Len(Line) \in Nat /\ \A y \in 1 .. Len(Line) : Line[y] \in Member
         /\ k \in 1 .. Len(Line) + 1
         /\ Len(out) \in Nat /\ Len(groups) \in Nat
<1>1. /\ acc \in SpecifierSet /\ other \in SpecifierSet /\ other \in Constraint
      /\ {i, j, k} \subseteq Nat \ {0} /\ i <= Len(Left) /\ j <= Len(Right) /\ k <= Len(Line) + 1
      /\ out \in Seq(Member) /\ groups \in Seq(Group)
  BY DEF IInv, TypeOK, Shape, Group
<1>2. Constructed(acc) /\ Constructed(other)
  BY <1>1, ConstraintAssumption DEF IInv, Shape
<1>3. /\ Len(Left) \in Nat \ {0} /\ Len(Right) \in Nat \ {0}
      /\ \A g \in 1 .. Len(Left) : Left[g] \in Group
      /\ \A g \in 1 .. Len(Right) : Right[g] \in Group
  BY <1>1, OrGroupsFacts DEF Left, Right
<1>4. i \in 1 .. Len(Left) /\ j \in 1 .. Len(Right)
  BY <1>1, <1>3
<1>5. Left[i] \in Group /\ Right[j] \in Group
  BY <1>3, <1>4
<1>6. Line \in Group /\ Len(Line) \in Nat /\ \A y \in 1 .. Len(Line) : Line[y] \in Member
  BY <1>5, ConcatFacts DEF Line
<1>7. k \in 1 .. Len(Line) + 1 /\ Len(out) \in Nat /\ Len(groups) \in Nat
  BY <1>1, <1>6, LenProperties
<1>8. QED
  BY <1>1, <1>2, <1>3, <1>4, <1>5, <1>6, <1>7

(* Only a product of two groups that are both empty is empty.              *)
LEMMA EmptyProduct ==
  ASSUME IInv, pc = "dedupe", k > Len(Line), out = <<>>
  PROVE  Unconstrained(acc) /\ Unconstrained(other) /\ Len(Left) = 1 /\ Len(Right) = 1
<1>1. seen = {} /\ Len(Line) = 0
  <2>1. Len(out) = 0
    OBVIOUS
  <2>2. seen = {}
    BY <2>1 DEF IInv, Shape
  <2>3. k = Len(Line) + 1 /\ Len(Line) \in Nat
    BY DedupeFacts
  <2>4. \A y \in 1 .. Len(Line) : FALSE
    BY <2>2, <2>3 DEF IInv, Shape
  <2>5. QED
    BY <2>2, <2>3, <2>4
<1>2. Line = <<>>
  BY <1>1, DedupeFacts, EmptySeq DEF Group
<1>3. Left[i] = <<>> /\ Right[j] = <<>>
  BY <1>2, DedupeFacts, ConcatFacts DEF Line
<1>4. Len(Left) = 1 /\ Len(Right) = 1
  BY <1>3, DedupeFacts, OrGroupsConstructed DEF Left, Right
<1>5. Left[1] = <<>> /\ Right[1] = <<>>
  BY <1>3, <1>4, DedupeFacts
<1>6. QED
  BY <1>4, <1>5, DedupeFacts, OrGroupsConstructed DEF Left, Right

LEMMA InitIInv == Init => IInv
<1> SUFFICES ASSUME Init PROVE IInv
  OBVIOUS
<1>1. acc \in SpecifierSet /\ other \in SpecifierSet /\ acc.pre = "Auto" /\ Constructed(acc)
  <2>1. PICK gs \in {<< <<>> >>, <<>>} : acc = [groups |-> gs, pre |-> "Auto"]
    BY DEF Init, Universal
  <2>2. gs \in Seq(Group) /\ "Auto" \in Policy
    BY UniversalIsASet DEF Policy
  <2>3. acc \in SpecifierSet
    BY <2>1, <2>2 DEF SpecifierSet
  <2>4. Len(gs) \in {0, 1}
    BY UniversalIsASet
  <2>5. Constructed(acc)
    BY <2>1, <2>4 DEF Constructed
  <2>6. QED
    BY <2>1, <2>3, <2>5 DEF Init
<1>2. /\ pc = "idle" /\ i = 1 /\ j = 1 /\ k = 1
      /\ seen = {} /\ out = <<>> /\ groups = <<>> /\ asked = {}
  BY DEF Init
<1>3. TypeOK
  BY <1>1, <1>2, UniversalIsASet DEF TypeOK
<1>4. QED
  BY <1>1, <1>2, <1>3 DEF IInv, Shape, NeverUniversalByAccident, PolicyIsCombined

LEMMA AskIInv == ASSUME NEW c \in Constraint, IInv, Ask(c) PROVE IInv'
<1>1. /\ pc = "idle" /\ pc' = "dedupe" /\ other' = c /\ i' = 1 /\ j' = 1 /\ k' = 1
      /\ seen' = {} /\ out' = <<>> /\ groups' = <<>> /\ ~Conflicting(acc.pre, c.pre)
      /\ UNCHANGED <<acc, asked>>
  BY DEF Ask
<1>2. c \in SpecifierSet /\ acc \in SpecifierSet
  BY ConstraintAssumption DEF IInv, TypeOK
<1>3. /\ Len(OrGroups(acc)) \in Nat \ {0} /\ Len(OrGroups(c)) \in Nat \ {0}
      /\ OrGroups(acc)[1] \in Group /\ OrGroups(c)[1] \in Group
  BY <1>2, OrGroupsFacts
<1>4. Left' = OrGroups(acc) /\ Right' = OrGroups(c) /\ Line' = OrGroups(acc)[1] \o OrGroups(c)[1]
  BY <1>1 DEF Left, Right, Line
<1>5. Len(Line') \in Nat
  BY <1>3, <1>4, ConcatFacts
<1>6. TypeOK'
  <2>1. {i', j', k'} \subseteq Nat \ {0}
    BY <1>1
  <2>2. i' <= Len(Left') /\ j' <= Len(Right') /\ k' <= Len(Line') + 1
    <3>1. Len(Left') \in Nat \ {0} /\ Len(Right') \in Nat \ {0}
      BY <1>3, <1>4
    <3>2. QED
      BY <1>1, <1>5, <3>1
  <2>3. acc' \in SpecifierSet /\ other' \in SpecifierSet /\ asked' \subseteq Constraint
    BY <1>1, <1>2 DEF IInv, TypeOK
  <2>4. out' \in Group /\ groups' \in Seq(Group)
    BY <1>1, UniversalIsASet
  <2>5. QED
    BY <1>1, <2>1, <2>2, <2>3, <2>4 DEF TypeOK
<1>7. Shape'
  BY <1>1 DEF IInv, Shape
<1>8. QED
  BY <1>1, <1>6, <1>7 DEF IInv, NeverUniversalByAccident, PolicyIsCombined

LEMMA ConflictIInv == ASSUME NEW c \in Constraint, IInv, Conflict(c) PROVE IInv'
<1>1. c \in SpecifierSet
  BY ConstraintAssumption
<1>2. /\ pc = "idle" /\ pc' = "conflict" /\ other' = c /\ Conflicting(acc.pre, c.pre)
      /\ UNCHANGED <<acc, i, j, k, seen, out, groups, asked>>
  BY DEF Conflict
<1>3. TypeOK' /\ Shape'
  BY <1>1, <1>2 DEF IInv, TypeOK, Shape
<1>4. PolicyIsCombined'
  BY <1>2 DEF IInv, PolicyIsCombined, Conflicting
<1>5. QED
  BY <1>2, <1>3, <1>4 DEF IInv, NeverUniversalByAccident

LEMMA KeepIInv == IInv /\ Keep => IInv'
<1> SUFFICES ASSUME IInv, Keep PROVE IInv'
  OBVIOUS
<1> DEFINE m == Line[k]
<1>1. /\ pc = "dedupe" /\ k <= Len(Line)
      /\ seen' = seen \cup {CanonicalOf(m)} /\ out' = Append(out, m) /\ k' = k + 1
      /\ UNCHANGED <<pc, acc, other, i, j, groups, asked>>
  BY DEF Keep
<1>2. Left' = Left /\ Right' = Right /\ Line' = Line
  BY <1>1 DEF Left, Right, Line
<1>3. m \in Member /\ k \in 1 .. Len(Line) /\ Len(Line) \in Nat /\ Len(out) \in Nat
  BY <1>1, DedupeFacts
<1> HIDE DEF m
<1>4. /\ out' \in Group /\ Len(out') = Len(out) + 1
      /\ \A z \in 1 .. Len(out) : out'[z] = out[z]
      /\ out'[Len(out) + 1] = m
  BY <1>1, <1>3, AppendProperties DEF IInv, TypeOK, Group
<1>5. TypeOK'
  <2>1. {i', j', k'} \subseteq Nat \ {0} /\ k' <= Len(Line') + 1
    BY <1>1, <1>2, <1>3 DEF IInv, TypeOK
  <2>2. seen' \subseteq {CanonicalOf(n) : n \in Member}
    BY <1>1, <1>3 DEF IInv, TypeOK
  <2>3. QED
    BY <1>1, <1>2, <1>4, <2>1, <2>2 DEF IInv, TypeOK
<1>6. Shape'
  <2>1. \A y \in 1 .. k' - 1 : CanonicalOf(Line'[y]) \in seen'
    <3>1. \A y \in 1 .. k' - 1 : y \in 1 .. k - 1 \/ y = k
      BY <1>1, <1>3
    <3>2. QED
      BY <1>1, <1>2, <3>1 DEF IInv, Shape, m
  <2>2. ASSUME NEW z \in 1 .. Len(out')
        PROVE  \E y \in 1 .. k' - 1 : out'[z] = Line'[y]
    <3>1. CASE z \in 1 .. Len(out)
      <4>1. PICK y \in 1 .. k - 1 : out[z] = Line[y]
        BY <1>1, <3>1 DEF IInv, Shape
      <4>2. y \in 1 .. k' - 1
        BY <1>1, <1>3
      <4>3. QED
        BY <1>2, <1>4, <3>1, <4>1, <4>2
    <3>2. CASE z = Len(out) + 1
      <4>1. k \in 1 .. k' - 1
        BY <1>1, <1>3
      <4>2. QED
        BY <1>2, <1>4, <3>2, <4>1 DEF m
    <3>3. QED
      BY <1>3, <1>4, <3>1, <3>2
  <2>3. ASSUME NEW f \in seen'
        PROVE  \E z \in 1 .. Len(out') : CanonicalOf(out'[z]) = f
    <3>1. CASE f \in seen
      <4>1. PICK z \in 1 .. Len(out) : CanonicalOf(out[z]) = f
        BY <1>1, <3>1 DEF IInv, Shape
      <4>2. z \in 1 .. Len(out')
        BY <1>3, <1>4
      <4>3. QED
        BY <1>4, <4>1, <4>2
    <3>2. CASE f = CanonicalOf(m)
      BY <1>3, <1>4, <3>2
    <3>3. QED
      BY <1>1, <3>1, <3>2
  <2>4. QED
    BY <1>1, <2>1, <2>2, <2>3 DEF IInv, Shape
<1>7. QED
  BY <1>1, <1>5, <1>6 DEF IInv, NeverUniversalByAccident, PolicyIsCombined

LEMMA DropIInv == IInv /\ Drop => IInv'
<1> SUFFICES ASSUME IInv, Drop PROVE IInv'
  OBVIOUS
<1>1. /\ pc = "dedupe" /\ k <= Len(Line) /\ CanonicalOf(Line[k]) \in seen /\ k' = k + 1
      /\ UNCHANGED <<pc, acc, other, i, j, seen, out, groups, asked>>
  BY DEF Drop
<1>2. Left' = Left /\ Right' = Right /\ Line' = Line
  BY <1>1 DEF Left, Right, Line
<1>3. k \in 1 .. Len(Line) /\ Len(Line) \in Nat
  BY <1>1, DedupeFacts
<1>4. TypeOK'
  <2>1. {i', j', k'} \subseteq Nat \ {0} /\ k' <= Len(Line') + 1
    BY <1>1, <1>2, <1>3 DEF IInv, TypeOK
  <2>2. QED
    BY <1>1, <1>2, <2>1 DEF IInv, TypeOK
<1>5. Shape'
  <2>1. \A y \in 1 .. k' - 1 : y \in 1 .. k - 1 \/ y = k
    BY <1>1, <1>3
  <2>2. \A y \in 1 .. k - 1 : y \in 1 .. k' - 1
    BY <1>1, <1>3
  <2>3. \A y \in 1 .. k' - 1 : CanonicalOf(Line'[y]) \in seen'
    BY <1>1, <1>2, <2>1 DEF IInv, Shape
  <2>4. \A z \in 1 .. Len(out') : \E y \in 1 .. k' - 1 : out'[z] = Line'[y]
    BY <1>1, <1>2, <2>2 DEF IInv, Shape
  <2>5. QED
    BY <1>1, <2>3, <2>4 DEF IInv, Shape
<1>6. QED
  BY <1>1, <1>4, <1>5 DEF IInv, NeverUniversalByAccident, PolicyIsCombined

LEMMA EndGroupIInv == IInv /\ EndGroup => IInv'
<1> SUFFICES ASSUME IInv, EndGroup PROVE IInv'
  OBVIOUS
<1>1. /\ pc = "dedupe" /\ k > Len(Line)
      /\ i < Len(Left) \/ j < Len(Right)
      /\ groups' = Append(groups, out) /\ k' = 1 /\ seen' = {} /\ out' = <<>>
      /\ i' = IF j < Len(Right) THEN i ELSE i + 1
      /\ j' = IF j < Len(Right) THEN j + 1 ELSE 1
      /\ UNCHANGED <<pc, acc, other, asked>>
  BY DEF EndGroup, SeenAnew
<1>2. /\ Len(Left) \in Nat \ {0} /\ Len(Right) \in Nat \ {0}
      /\ i \in 1 .. Len(Left) /\ j \in 1 .. Len(Right)
      /\ acc \in SpecifierSet /\ other \in SpecifierSet
      /\ Len(Line) \in Nat /\ Len(groups) \in Nat
  <2>1. pc = "dedupe"
    BY <1>1
  <2>2. QED
    BY <2>1, DedupeFacts
<1>3. Left' = Left /\ Right' = Right
  BY <1>1 DEF Left, Right
<1>4. i' \in 1 .. Len(Left) /\ j' \in 1 .. Len(Right) /\ ~(i' = 1 /\ j' = 1)
  BY <1>1, <1>2
<1>5. Len(Line') \in Nat
  <2>1. Left[i'] \in Group /\ Right[j'] \in Group
    BY <1>2, <1>4, OrGroupsFacts DEF Left, Right
  <2>2. Line' = Left[i'] \o Right[j']
    BY <1>3 DEF Line
  <2>3. QED
    BY <2>1, <2>2, ConcatFacts
<1>6. /\ groups' \in Seq(Group) /\ Len(groups') = Len(groups) + 1
      /\ \A g \in 1 .. Len(groups) : groups'[g] = groups[g]
      /\ groups'[Len(groups) + 1] = out
  BY <1>1, AppendProperties DEF IInv, TypeOK
<1>7. TypeOK'
  <2>1. {i', j', k'} \subseteq Nat \ {0}
    BY <1>1, <1>2, <1>4
  <2>2. i' <= Len(Left') /\ j' <= Len(Right')
    BY <1>2, <1>3, <1>4
  <2>3. k' <= Len(Line') + 1
    BY <1>1, <1>5
  <2>4. QED
    BY <1>1, <1>6, <2>1, <2>2, <2>3, UniversalIsASet DEF IInv, TypeOK
<1>8. out # <<>>
  <2> SUFFICES ASSUME out = <<>> PROVE FALSE
    OBVIOUS
  <2>1. Len(Left) = 1 /\ Len(Right) = 1
    <3>1. pc = "dedupe" /\ k > Len(Line)
      BY <1>1
    <3>2. QED
      BY <3>1, EmptyProduct
  <2>2. QED
    BY <1>1, <1>2, <2>1
<1>9. Shape'
  <2>1. \A g \in 1 .. Len(groups') : groups'[g] # <<>>
    <3>1. \A g \in 1 .. Len(groups') : g \in 1 .. Len(groups) \/ g = Len(groups) + 1
      BY <1>2, <1>6
    <3>2. \A g \in 1 .. Len(groups) : groups[g] # <<>>
      BY <1>1 DEF IInv, Shape
    <3>3. QED
      BY <1>6, <1>8, <3>1, <3>2
  <2>2. QED
    BY <1>1, <1>4, <2>1 DEF IInv, Shape
<1>10. QED
  BY <1>1, <1>7, <1>9 DEF IInv, NeverUniversalByAccident, PolicyIsCombined

LEMMA ReturnIInv == IInv /\ Return => IInv'
<1> SUFFICES ASSUME IInv, Return PROVE IInv'
  OBVIOUS
<1> DEFINE pre == CombinePreReleases(acc.pre, other.pre)
           gs == Append(groups, out)
<1>1. /\ pc = "dedupe" /\ k > Len(Line) /\ i = Len(Left) /\ j = Len(Right)
      /\ pc' = "idle" /\ acc' = [groups |-> gs, pre |-> pre]
      /\ asked' = asked \cup {other}
      /\ UNCHANGED <<other, i, j, k, seen, out, groups>>
  BY DEF Return
<1>2. /\ acc \in SpecifierSet /\ other \in SpecifierSet /\ other \in Constraint
      /\ Len(groups) \in Nat
  BY <1>1, DedupeFacts
<1>3. /\ gs \in Seq(Group) /\ Len(gs) = Len(groups) + 1
      /\ \A g \in 1 .. Len(groups) : gs[g] = groups[g]
      /\ gs[Len(groups) + 1] = out
  BY AppendProperties DEF IInv, TypeOK
<1>4. acc'.groups = gs /\ acc'.pre = pre
  BY <1>1
<1>5. pre \in Policy
  BY <1>2 DEF SpecifierSet, CombinePreReleases
<1> HIDE DEF gs, pre
<1>6. TypeOK'
  <2>1. acc' \in SpecifierSet
    BY <1>1, <1>3, <1>5 DEF SpecifierSet
  <2>2. QED
    BY <1>1, <1>2, <2>1 DEF IInv, TypeOK
<1>7. \A g \in 1 .. Len(gs) : gs[g] = <<>> => g = Len(groups) + 1 /\ out = <<>>
  <2>1. \A g \in 1 .. Len(groups) : groups[g] # <<>>
    BY <1>1 DEF IInv, Shape
  <2>2. \A g \in 1 .. Len(gs) : g \in 1 .. Len(groups) \/ g = Len(groups) + 1
    BY <1>2, <1>3
  <2>3. QED
    BY <1>3, <2>1, <2>2
<1>8. out = <<>> => Len(gs) = 1 /\ Unconstrained(acc) /\ Unconstrained(other)
  <2> SUFFICES ASSUME out = <<>>
               PROVE  Len(gs) = 1 /\ Unconstrained(acc) /\ Unconstrained(other)
    OBVIOUS
  <2>1. Unconstrained(acc) /\ Unconstrained(other) /\ i = 1 /\ j = 1
    BY <1>1, EmptyProduct
  <2>2. groups = <<>>
    BY <1>1, <2>1 DEF IInv, Shape
  <2>3. QED
    BY <1>3, <2>1, <2>2
<1>9. Constructed(acc')
  BY <1>4, <1>7, <1>8 DEF Constructed
<1>10. Shape'
  BY <1>1, <1>9 DEF Shape
<1>11. NeverUniversalByAccident'
  <2>1. Unconstrained(acc') => out = <<>>
    BY <1>2, <1>3, <1>4, <1>7 DEF Unconstrained
  <2>2. Unconstrained(acc') => \A c \in asked' : Unconstrained(c)
    BY <1>1, <1>8, <2>1 DEF IInv, NeverUniversalByAccident
  <2>3. QED
    BY <1>9, <2>2 DEF NeverUniversalByAccident
<1>12. PolicyIsCombined'
  <2>1. ~Conflicting(acc.pre, other.pre)
    BY <1>1 DEF IInv, Shape
  <2>2. \A c \in asked' : c.pre \in {"Auto", pre}
    BY <1>1, <2>1 DEF IInv, PolicyIsCombined, CombinePreReleases, Conflicting, pre
  <2>3. pre # "Auto" => \E c \in asked' : c.pre = pre
    BY <1>1 DEF IInv, PolicyIsCombined, CombinePreReleases, pre
  <2>4. QED
    BY <1>1, <1>4, <2>2, <2>3 DEF PolicyIsCombined
<1>13. QED
  BY <1>6, <1>10, <1>11, <1>12 DEF IInv

LEMMA Invariance == Spec => []IInv
<1>1. IInv /\ [Next]_vars => IInv'
  <2> SUFFICES ASSUME IInv, [Next]_vars PROVE IInv'
    OBVIOUS
  <2>1. CASE Next
    BY <2>1, AskIInv, ConflictIInv, KeepIInv, DropIInv, EndGroupIInv, ReturnIInv DEF Next
  <2>2. CASE UNCHANGED vars
    BY <2>2 DEF vars, IInv, TypeOK, Shape, NeverUniversalByAccident, PolicyIsCombined,
                Line, Left, Right
  <2>3. QED
    BY <2>1, <2>2
<1>2. QED
  BY InitIInv, <1>1, PTL DEF Spec

(* Every variable of And and its loops keeps its type (And's result is a   *)
(* set again, and its loops stay inside both sides' groups).               *)
THEOREM TypeCorrect == Spec => []TypeOK
<1>1. IInv => TypeOK
  BY DEF IInv
<1>2. QED
  BY Invariance, <1>1, PTL

(* No chain of intersections, however long, ends in a set that constrains  *)
(* nothing unless every constraint was one (And, orGroups, parseGroup).    *)
THEOREM NeverUniversal == Spec => []NeverUniversalByAccident
<1>1. IInv => NeverUniversalByAccident
  BY DEF IInv
<1>2. QED
  BY Invariance, <1>1, PTL

(* The result has the policy its constraints agree on, and a conflict is   *)
(* reported of two that do not (combinePreReleases).                       *)
THEOREM PoliciesCombine == Spec => []PolicyIsCombined
<1>1. IInv => PolicyIsCombined
  BY DEF IInv
<1>2. QED
  BY Invariance, <1>1, PTL

-----------------------------------------------------------------------------
(* What the result admits, where equal members match alike.                *)

\* The pairs of groups whose product is finished.
Finished(a, b) == a < i \/ (a = i /\ b < j)

SomeFinished(x) ==
  \E a \in 1 .. Len(Left), b \in 1 .. Len(Right) :
    Finished(a, b) /\ GroupAdmits(Left[a], x) /\ GroupAdmits(Right[b], x)

Progress ==
  /\ \A x \in Item : SetAdmits(acc, x) <=> \A c \in asked : SetAdmits(c, x)
  /\ pc = "dedupe" =>
       \A x \in Item :
         (\E g \in 1 .. Len(groups) : GroupAdmits(groups[g], x)) <=> SomeFinished(x)

(* Dropping what has been seen does not change what a group admits.        *)
LEMMA DedupeAdmits ==
  ASSUME CanonicalSound, IInv, pc = "dedupe", k > Len(Line), NEW x \in Item
  PROVE  GroupAdmits(out, x) <=> GroupAdmits(Left[i], x) /\ GroupAdmits(Right[j], x)
<1>1. /\ k = Len(Line) + 1 /\ Len(Line) \in Nat /\ Len(out) \in Nat
      /\ \A y \in 1 .. Len(Line) : Line[y] \in Member
      /\ Left[i] \in Group /\ Right[j] \in Group
  BY DedupeFacts
<1>2. /\ \A y \in 1 .. Len(Line) : CanonicalOf(Line[y]) \in seen
      /\ \A z \in 1 .. Len(out) : \E y \in 1 .. Len(Line) : out[z] = Line[y]
      /\ \A f \in seen : \E z \in 1 .. Len(out) : CanonicalOf(out[z]) = f
  <2>1. k - 1 = Len(Line)
    BY <1>1
  <2>2. QED
    BY <2>1 DEF IInv, Shape
<1>3. GroupAdmits(Line, x) => GroupAdmits(out, x)
  BY <1>2 DEF GroupAdmits
<1>4. ASSUME GroupAdmits(out, x), NEW y \in 1 .. Len(Line) PROVE Admits(Line[y], x)
  <2>1. PICK z \in 1 .. Len(out) : CanonicalOf(out[z]) = CanonicalOf(Line[y])
    BY <1>2
  <2>2. out[z] \in Member /\ Line[y] \in Member
    BY <1>1, <1>2
  <2>3. Admits(out[z], x)
    BY <1>4 DEF GroupAdmits
  <2>4. QED
    BY <2>1, <2>2, <2>3 DEF CanonicalSound
<1>5. GroupAdmits(out, x) <=> GroupAdmits(Line, x)
  BY <1>3, <1>4 DEF GroupAdmits
<1>6. QED
  BY <1>1, <1>5, ConcatFacts DEF Line

LEMMA AppendAdmits ==
  ASSUME NEW gs \in Seq(Group), NEW g0 \in Group, NEW x
  PROVE  (\E g \in 1 .. Len(Append(gs, g0)) : GroupAdmits(Append(gs, g0)[g], x))
           <=> (\E g \in 1 .. Len(gs) : GroupAdmits(gs[g], x)) \/ GroupAdmits(g0, x)
<1> DEFINE hs == Append(gs, g0)
<1>1. /\ Len(gs) \in Nat /\ Len(hs) = Len(gs) + 1
      /\ \A g \in 1 .. Len(gs) : hs[g] = gs[g]
      /\ hs[Len(gs) + 1] = g0
  BY AppendProperties, LenProperties
<1> HIDE DEF hs
<1>2. /\ \A g \in 1 .. Len(hs) : g \in 1 .. Len(gs) \/ g = Len(gs) + 1
      /\ \A g \in 1 .. Len(gs) : g \in 1 .. Len(hs)
      /\ Len(gs) + 1 \in 1 .. Len(hs)
  BY <1>1
<1>3. (\E g \in 1 .. Len(hs) : GroupAdmits(hs[g], x))
        <=> (\E g \in 1 .. Len(gs) : GroupAdmits(gs[g], x)) \/ GroupAdmits(g0, x)
  BY <1>1, <1>2
<1>4. QED
  BY <1>3 DEF hs

LEMMA EndGroupProgress == ASSUME CanonicalSound, IInv, Progress, EndGroup PROVE Progress'
<1>1. /\ pc = "dedupe" /\ k > Len(Line)
      /\ i < Len(Left) \/ j < Len(Right)
      /\ groups' = Append(groups, out)
      /\ i' = IF j < Len(Right) THEN i ELSE i + 1
      /\ j' = IF j < Len(Right) THEN j + 1 ELSE 1
      /\ UNCHANGED <<pc, acc, other, asked>>
  BY DEF EndGroup
<1>2. /\ Len(Left) \in Nat \ {0} /\ Len(Right) \in Nat \ {0}
      /\ i \in 1 .. Len(Left) /\ j \in 1 .. Len(Right)
      /\ out \in Group /\ groups \in Seq(Group)
  BY <1>1, DedupeFacts DEF IInv, TypeOK
<1>3. Left' = Left /\ Right' = Right
  BY <1>1 DEF Left, Right
<1>4. ASSUME NEW a \in 1 .. Len(Left), NEW b \in 1 .. Len(Right)
      PROVE  Finished(a, b)' <=> Finished(a, b) \/ (a = i /\ b = j)
  <2>1. CASE j < Len(Right)
    BY <1>1, <1>2, <2>1 DEF Finished
  <2>2. CASE ~(j < Len(Right))
    BY <1>1, <1>2, <2>2 DEF Finished
  <2>3. QED
    BY <2>1, <2>2
<1>5. ASSUME NEW x \in Item
      PROVE  (\E g \in 1 .. Len(groups') : GroupAdmits(groups'[g], x)) <=> SomeFinished(x)'
  <2>1. SomeFinished(x)'
          <=> (SomeFinished(x) \/ (GroupAdmits(Left[i], x) /\ GroupAdmits(Right[j], x)))
    <3>1. SomeFinished(x)'
            <=> \E a \in 1 .. Len(Left), b \in 1 .. Len(Right) :
                  Finished(a, b)' /\ GroupAdmits(Left[a], x) /\ GroupAdmits(Right[b], x)
      BY <1>3 DEF SomeFinished
    <3>2. SomeFinished(x)'
            <=> \E a \in 1 .. Len(Left), b \in 1 .. Len(Right) :
                  /\ Finished(a, b) \/ (a = i /\ b = j)
                  /\ GroupAdmits(Left[a], x) /\ GroupAdmits(Right[b], x)
      BY <1>4, <3>1
    <3>3. i \in 1 .. Len(Left) /\ j \in 1 .. Len(Right)
      BY <1>2
    <3>4. SomeFinished(x)
            <=> \E a \in 1 .. Len(Left), b \in 1 .. Len(Right) :
                  Finished(a, b) /\ GroupAdmits(Left[a], x) /\ GroupAdmits(Right[b], x)
      BY DEF SomeFinished
    <3>5. QED
      BY <3>2, <3>3, <3>4, Zenon
  <2>2. (\E g \in 1 .. Len(groups') : GroupAdmits(groups'[g], x))
          <=> (\E g \in 1 .. Len(groups) : GroupAdmits(groups[g], x)) \/ GroupAdmits(out, x)
    BY <1>1, <1>2, AppendAdmits
  <2>3. GroupAdmits(out, x) <=> GroupAdmits(Left[i], x) /\ GroupAdmits(Right[j], x)
    BY <1>1, DedupeAdmits
  <2>4. (\E g \in 1 .. Len(groups) : GroupAdmits(groups[g], x)) <=> SomeFinished(x)
    BY <1>1 DEF Progress
  <2>5. (\E g \in 1 .. Len(groups') : GroupAdmits(groups'[g], x))
          <=> SomeFinished(x) \/ GroupAdmits(out, x)
    BY <2>2, <2>4, Zenon
  <2>6. QED
    BY <2>1, <2>3, <2>5, Zenon
<1>6. QED
  BY <1>1, <1>5 DEF Progress

LEMMA ReturnProgress == ASSUME CanonicalSound, IInv, Progress, Return PROVE Progress'
<1>1. /\ pc = "dedupe" /\ k > Len(Line) /\ i = Len(Left) /\ j = Len(Right)
      /\ pc' = "idle" /\ acc'.groups = Append(groups, out)
      /\ asked' = asked \cup {other}
  BY DEF Return
<1>2. /\ Len(Left) \in Nat \ {0} /\ Len(Right) \in Nat \ {0}
      /\ acc \in SpecifierSet /\ other \in SpecifierSet
      /\ Constructed(acc) /\ Constructed(other)
      /\ out \in Group /\ groups \in Seq(Group)
  BY <1>1, DedupeFacts DEF IInv, TypeOK
<1>3. acc' \in SpecifierSet /\ Constructed(acc')
  BY ReturnIInv DEF IInv, TypeOK, Shape
<1>4. OrGroups(acc') = Append(groups, out)
  <2>1. Append(groups, out) # <<>>
    BY <1>2, AppendProperties
  <2>2. QED
    BY <1>1, <2>1 DEF OrGroups
<1>5. ASSUME NEW x \in Item
      PROVE  SetAdmits(acc', x) <=> SetAdmits(acc, x) /\ SetAdmits(other, x)
  <2>1. SetAdmits(acc', x)
          <=> (\E g \in 1 .. Len(groups) : GroupAdmits(groups[g], x)) \/ GroupAdmits(out, x)
    <3>1. SetAdmits(acc', x)
            <=> \E g \in 1 .. Len(OrGroups(acc')) : GroupAdmits(OrGroups(acc')[g], x)
      BY <1>3, OrGroupsAdmit
    <3>2. QED
      BY <1>2, <1>4, <3>1, AppendAdmits
  <2>2. GroupAdmits(out, x) <=> GroupAdmits(Left[i], x) /\ GroupAdmits(Right[j], x)
    BY <1>1, DedupeAdmits
  <2>3. \A a \in 1 .. Len(Left), b \in 1 .. Len(Right) : Finished(a, b) \/ (a = i /\ b = j)
    BY <1>1, <1>2 DEF Finished
  <2>4. SetAdmits(acc', x)
          <=> \E a \in 1 .. Len(Left), b \in 1 .. Len(Right) :
                GroupAdmits(Left[a], x) /\ GroupAdmits(Right[b], x)
    <3>1. SetAdmits(acc', x) <=> SomeFinished(x) \/ GroupAdmits(out, x)
      BY <1>1, <2>1 DEF Progress
    <3>2. i \in 1 .. Len(Left) /\ j \in 1 .. Len(Right)
      BY <1>1, <1>2
    <3>3. QED
      BY <2>2, <2>3, <3>1, <3>2 DEF SomeFinished
  <2>5. SetAdmits(acc, x) <=> \E a \in 1 .. Len(Left) : GroupAdmits(Left[a], x)
    BY <1>2, OrGroupsAdmit DEF Left
  <2>6. SetAdmits(other, x) <=> \E b \in 1 .. Len(Right) : GroupAdmits(Right[b], x)
    BY <1>2, OrGroupsAdmit DEF Right
  <2>7. QED
    BY <2>4, <2>5, <2>6
<1>6. ASSUME NEW x \in Item
      PROVE  SetAdmits(acc', x) <=> \A c \in asked' : SetAdmits(c, x)
  BY <1>1, <1>5 DEF Progress
<1>7. QED
  BY <1>1, <1>6 DEF Progress

(* Where members with one canonical form match alike, the accumulated set  *)
(* admits exactly what all constraints of the chain admit, in whatever     *)
(* order they came (And and dedupeSpecifiers).                             *)
THEOREM AndIntersects == ASSUME CanonicalSound PROVE Spec => []AndIsIntersection
<1>1. Init => Progress
  <2> SUFFICES ASSUME Init PROVE Progress
    OBVIOUS
  <2>1. asked = {} /\ pc = "idle" /\ acc.groups \in {<< <<>> >>, <<>>}
    BY DEF Init, Universal
  <2>2. Unconstrained(acc)
    BY <2>1, UniversalIsASet DEF Unconstrained
  <2>3. QED
    BY <2>1, <2>2 DEF Progress, SetAdmits
<1>2. IInv /\ Progress /\ [Next]_vars => Progress'
  <2> SUFFICES ASSUME IInv, Progress, [Next]_vars PROVE Progress'
    OBVIOUS
  <2>1. ASSUME NEW c \in Constraint, Ask(c) \/ Conflict(c) PROVE Progress'
    <3>1. UNCHANGED <<acc, asked>>
      BY <2>1 DEF Ask, Conflict
    <3>2. CASE Ask(c)
      <4>1. groups' = <<>> /\ i' = 1 /\ j' = 1
        BY <3>2 DEF Ask
      <4>2. \A a \in 1 .. Len(Left'), b \in 1 .. Len(Right') : ~Finished(a, b)'
        BY <4>1 DEF Finished
      <4>3. \A x : ~SomeFinished(x)'
        BY <4>2 DEF SomeFinished
      <4>4. \A x : ~\E g \in 1 .. Len(groups') : GroupAdmits(groups'[g], x)
        BY <4>1
      <4>5. QED
        BY <3>1, <4>3, <4>4 DEF Progress
    <3>3. CASE Conflict(c)
      BY <3>1, <3>3 DEF Conflict, Progress
    <3>4. QED
      BY <2>1, <3>2, <3>3
  <2>2. CASE Keep \/ Drop \/ UNCHANGED vars
    <3>1. UNCHANGED <<pc, acc, other, i, j, groups, asked>>
      BY <2>2 DEF Keep, Drop, vars
    <3>2. Left' = Left /\ Right' = Right
      BY <3>1 DEF Left, Right
    <3>3. \A x : SomeFinished(x)' <=> SomeFinished(x)
      BY <3>1, <3>2 DEF SomeFinished, Finished
    <3>4. QED
      BY <3>1, <3>3 DEF Progress
  <2>3. QED
    BY <2>1, <2>2, EndGroupProgress, ReturnProgress DEF Next
<1>3. Progress => AndIsIntersection
  BY DEF Progress, AndIsIntersection
<1>4. QED
  BY Invariance, <1>1, <1>2, <1>3, PTL DEF Spec
=============================================================================
