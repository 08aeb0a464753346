--------------------------- MODULE SelectionProofs ---------------------------
(***************************************************************************)
(* Proofs about Selection, for every meaning of the operators, every set   *)
(* and every list of candidates.                                           *)
(***************************************************************************)
EXTENDS Selection, TLAPS, SequenceTheorems

Offers(m, p) == Admits(m, items[p]) /\ (~IsPre(items[p]) \/ IncludePre(m))
Holds(m, p)  == Admits(m, items[p]) /\ IsPre(items[p]) /\ ~IncludePre(m) /\ MayHold(m)
Stays(ss, p) == SetAdmits(ss, items[p]) /\ ~(IsPre(items[p]) /\ InForce(ss) = "Exclude")

(* What the loops have done of their work when they come to candidate n.   *)
Started ==
  pc = "start" => n = 1 /\ matched = {} /\ keep = {} /\ held = {} /\ found = FALSE

MemberLoop ==
  pc = "member" =>
    /\ subject.kind = "member"
    /\ \A p \in 1 .. Len(items) :
         /\ p \in keep <=> p < n /\ Offers(subject.member, p)
         /\ p \in held <=> p < n /\ Holds(subject.member, p)
    /\ found <=> \E p \in 1 .. Len(items) :
                   p < n /\ Offers(subject.member, p) /\ IsVersion(items[p])

MatchLoop ==
  pc = "match" =>
    /\ subject.kind = "set"
    /\ keep = {} /\ held = {} /\ found = FALSE
    /\ \A p \in 1 .. Len(items) : p \in matched <=> p < n /\ Stays(subject.set, p)

PreferLoop ==
  pc = "prefer" =>
    /\ subject.kind = "set"
    /\ InForce(subject.set) = "Auto"
    /\ \A p \in 1 .. Len(items) :
         /\ p \in matched <=> SetAdmits(subject.set, items[p])
         /\ p \in keep <=> p < n /\ p \in matched /\ ~IsPre(items[p])
         /\ p \in held <=> p < n /\ p \in matched /\ IsPre(items[p])
    /\ found <=> \E p \in 1 .. Len(items) :
                   p < n /\ p \in matched /\ IsVersion(items[p]) /\ ~IsPre(items[p])

IInv == TypeOK /\ Started /\ MemberLoop /\ MatchLoop /\ PreferLoop /\ OfferKeepsPromise

LEMMA InitIInv == Init => IInv
<1> SUFFICES ASSUME Init PROVE IInv
  OBVIOUS
<1>1. items \in Seq(Item) /\ Len(items) \in Nat
  BY SubjectsAssumption, LenProperties DEF Init
<1>2. TypeOK
  <2>1. n \in 1 .. Len(items) + 1 /\ found \in BOOLEAN
    <3>1. n = 1 /\ found = FALSE
      BY DEF Init, First
    <3>2. n \in 1 .. Len(items) + 1
      BY <1>1, <3>1
    <3>3. QED
      BY <3>1, <3>2
  <2>2. QED
    BY <1>1, <2>1 DEF Init, TypeOK
<1>3. QED
  BY <1>2 DEF Init, IInv, Started, MemberLoop, MatchLoop, PreferLoop, OfferKeepsPromise, First

-----------------------------------------------------------------------------
(* Steps of the loops.                                                     *)

LEMMA StartIInv == IInv /\ (AskInstalled \/ StartMember \/ StartSet) => IInv'
<1> SUFFICES ASSUME IInv, AskInstalled \/ StartMember \/ StartSet PROVE IInv'
  OBVIOUS
<1>1. /\ n = 1 /\ matched = {} /\ keep = {} /\ held = {} /\ found = FALSE
      /\ UNCHANGED <<subject, items, n, matched, keep, held, found>>
  BY DEF IInv, Started, AskInstalled, StartMember, StartSet
<1>2. TypeOK'
  BY SubjectsAssumption DEF IInv, TypeOK, AskInstalled, StartMember, StartSet, Policy
<1>3. Started' /\ OfferKeepsPromise'
  BY <1>1 DEF Started, OfferKeepsPromise, AskInstalled, StartMember, StartSet
<1>4. MemberLoop' /\ MatchLoop' /\ PreferLoop'
  BY <1>1 DEF AskInstalled, StartMember, StartSet, MemberLoop, MatchLoop, PreferLoop
<1>5. QED
  BY <1>2, <1>3, <1>4 DEF IInv

LEMMA MemberStepIInv == IInv /\ (OfferItem \/ HoldItem \/ PassItem) => IInv'
<1> SUFFICES ASSUME IInv, OfferItem \/ HoldItem \/ PassItem PROVE IInv'
  OBVIOUS
<1>1. /\ pc = "member" /\ n \in 1 .. Len(items) /\ n' = n + 1 /\ Len(items) \in Nat
      /\ UNCHANGED <<subject, call, items, pc, matched>>
  BY LenProperties DEF IInv, TypeOK, OfferItem, HoldItem, PassItem
<1>2. n \notin keep /\ n \notin held
  BY <1>1 DEF IInv, MemberLoop
<1>3. /\ n \in keep' <=> Offers(subject.member, n)
      /\ n \in held' <=> Holds(subject.member, n)
      /\ \A p \in 1 .. Len(items) : p # n => (p \in keep' <=> p \in keep) /\ (p \in held' <=> p \in held)
      /\ keep' \subseteq 1 .. Len(items) /\ held' \subseteq 1 .. Len(items)
      /\ found' \in BOOLEAN
      /\ found' <=> found \/ (Offers(subject.member, n) /\ IsVersion(items[n]))
  <2>1. keep \subseteq 1 .. Len(items) /\ held \subseteq 1 .. Len(items) /\ found \in BOOLEAN
    BY DEF IInv, TypeOK
  <2>2. CASE OfferItem
    <3>1. keep' = keep \cup {n} /\ held' = held /\ Offers(subject.member, n) /\ ~Holds(subject.member, n)
      BY <2>2 DEF OfferItem, Offers, Holds
    <3>2. found' = (found \/ IsVersion(items[n]))
      BY <2>2 DEF OfferItem
    <3>3. found' \in BOOLEAN /\ (found' <=> found \/ IsVersion(items[n]))
      BY <2>1, <3>2, Zenon
    <3>4. QED
      BY <1>1, <1>2, <2>1, <3>1, <3>3
  <2>3. CASE HoldItem
    <3>1. /\ keep' = keep /\ found' = found /\ ~Offers(subject.member, n)
          /\ held' = IF Holds(subject.member, n) THEN held \cup {n} ELSE held
      BY <2>3 DEF HoldItem, Offers, Holds
    <3>2. QED
      BY <1>1, <1>2, <2>1, <3>1
  <2>4. CASE PassItem
    BY <1>2, <2>1, <2>4 DEF PassItem, Offers, Holds
  <2>5. QED
    BY <2>2, <2>3, <2>4
<1>4. TypeOK'
  BY <1>1, <1>3 DEF IInv, TypeOK
<1>5. MemberLoop'
  BY <1>1, <1>3 DEF IInv, MemberLoop, Offers, Holds, IncludePre, MayHold
<1>6. Started' /\ MatchLoop' /\ PreferLoop' /\ OfferKeepsPromise'
  BY <1>1 DEF Started, MatchLoop, PreferLoop, OfferKeepsPromise
<1>7. QED
  BY <1>4, <1>5, <1>6 DEF IInv

LEMMA MatchItemIInv == IInv /\ MatchItem => IInv'
<1> SUFFICES ASSUME IInv, MatchItem PROVE IInv'
  OBVIOUS
<1>1. /\ pc = "match" /\ n \in 1 .. Len(items) /\ n' = n + 1 /\ Len(items) \in Nat
      /\ UNCHANGED <<subject, call, items, pc, keep, held, found>>
  BY LenProperties DEF IInv, TypeOK, MatchItem
<1>2. n \notin matched
  BY <1>1 DEF IInv, MatchLoop
<1>3. /\ n \in matched' <=> Stays(subject.set, n)
      /\ \A p \in 1 .. Len(items) : p # n => (p \in matched' <=> p \in matched)
  BY <1>2 DEF MatchItem, Stays
<1>4. TypeOK'
  BY <1>1 DEF IInv, TypeOK, MatchItem
<1>5. MatchLoop'
  BY <1>1, <1>3 DEF IInv, MatchLoop, Stays, InForce
<1>6. Started' /\ MemberLoop' /\ PreferLoop' /\ OfferKeepsPromise'
  BY <1>1 DEF Started, MemberLoop, PreferLoop, OfferKeepsPromise
<1>7. QED
  BY <1>4, <1>5, <1>6 DEF IInv

LEMMA PreferItemIInv == IInv /\ PreferItem => IInv'
<1> SUFFICES ASSUME IInv, PreferItem PROVE IInv'
  OBVIOUS
<1>1. /\ pc = "prefer" /\ n \in 1 .. Len(items) /\ n' = n + 1 /\ Len(items) \in Nat
      /\ UNCHANGED <<subject, call, items, pc, matched>>
  BY LenProperties DEF IInv, TypeOK, PreferItem
<1>2. n \notin keep /\ n \notin held
  BY <1>1 DEF IInv, PreferLoop
<1>3. /\ n \in keep' <=> n \in matched /\ ~IsPre(items[n])
      /\ n \in held' <=> n \in matched /\ IsPre(items[n])
      /\ \A p \in 1 .. Len(items) : p # n => (p \in keep' <=> p \in keep) /\ (p \in held' <=> p \in held)
      /\ found' <=> found \/ (n \in matched /\ IsVersion(items[n]) /\ ~IsPre(items[n]))
  BY <1>2 DEF IInv, TypeOK, PreferItem, Final
<1>4. TypeOK'
  BY <1>1 DEF IInv, TypeOK, PreferItem
<1>5. PreferLoop'
  BY <1>1, <1>3 DEF IInv, PreferLoop, InForce
<1>6. Started' /\ MemberLoop' /\ MatchLoop' /\ OfferKeepsPromise'
  BY <1>1 DEF Started, MemberLoop, MatchLoop, OfferKeepsPromise
<1>7. QED
  BY <1>4, <1>5, <1>6 DEF IInv

-----------------------------------------------------------------------------
(* The ends of the loops: where the offer is complete.                     *)

LEMMA EndMemberIInv == IInv /\ EndMember => IInv'
<1> SUFFICES ASSUME IInv, EndMember PROVE IInv'
  OBVIOUS
<1> DEFINE m == subject.member
           final == \E p \in 1 .. Len(items) :
                      Admits(m, items[p]) /\ IsVersion(items[p]) /\ ~IsPre(items[p])
<1>1. /\ pc = "member" /\ n > Len(items) /\ pc' = "done" /\ n \in Nat /\ Len(items) \in Nat
      /\ subject.kind = "member"
      /\ keep' = IF ~found /\ MayHold(m) THEN keep \cup held ELSE keep
      /\ UNCHANGED <<subject, call, items, n, matched, held, found>>
  BY LenProperties DEF IInv, TypeOK, MemberLoop, EndMember
<1>2. /\ keep \subseteq 1 .. Len(items) /\ held \subseteq 1 .. Len(items)
      /\ keep' \subseteq 1 .. Len(items)
  BY <1>1 DEF IInv, TypeOK
<1>3. /\ \A p \in 1 .. Len(items) : p \in keep <=> Offers(m, p)
      /\ \A p \in 1 .. Len(items) : p \in held <=> Holds(m, p)
      /\ found <=> \E p \in 1 .. Len(items) : Offers(m, p) /\ IsVersion(items[p])
  BY <1>1 DEF IInv, MemberLoop
<1>4. ~IncludePre(m) => (found <=> final)
  BY <1>3 DEF Offers
<1>5. ASSUME NEW p \in 1 .. Len(items)
      PROVE  p \in keep' <=> /\ Admits(m, items[p])
                             /\ \/ ~IsPre(items[p])
                                \/ MemberMode(m) = "Include"
                                \/ MemberMode(m) = "Prefer" /\ ~final
  <2>1. /\ MemberMode(m) = "Include" <=> IncludePre(m)
        /\ MemberMode(m) = "Prefer" <=> ~IncludePre(m) /\ MayHold(m)
    BY DEF MemberMode, MayHold
  <2>2. p \in keep' <=> Offers(m, p) \/ (Holds(m, p) /\ ~found)
    BY <1>1, <1>3 DEF Holds
  <2>3. QED
    BY <1>4, <2>1, <2>2 DEF Offers, Holds
<1>6. keep' = MemberPromise(m)
  <2>1. keep' = {p \in 1 .. Len(items) :
                   /\ Admits(m, items[p])
                   /\ \/ ~IsPre(items[p])
                      \/ MemberMode(m) = "Include"
                      \/ MemberMode(m) = "Prefer" /\ ~final}
    BY <1>2, <1>5
  <2>2. QED
    BY <2>1 DEF MemberPromise, Chosen
<1>7. MemberPromise(m)' = MemberPromise(m)
  BY <1>1 DEF MemberPromise, Chosen, MemberMode, IncludePre
<1>8. OfferKeepsPromise'
  BY <1>1, <1>6, <1>7 DEF OfferKeepsPromise
<1>9. TypeOK'
  BY <1>1, <1>2 DEF IInv, TypeOK
<1>10. QED
  BY <1>1, <1>8, <1>9 DEF IInv, Started, MemberLoop, MatchLoop, PreferLoop

LEMMA EndMatchIInv == IInv /\ EndMatch => IInv'
<1> SUFFICES ASSUME IInv, EndMatch PROVE IInv'
  OBVIOUS
<1> DEFINE ss == subject.set
<1>1. /\ pc = "match" /\ n > Len(items) /\ n \in Nat /\ Len(items) \in Nat
      /\ subject.kind = "set"
      /\ keep = {} /\ held = {} /\ found = FALSE
      /\ UNCHANGED <<subject, call, items, matched, held, found>>
  BY LenProperties DEF IInv, TypeOK, MatchLoop, EndMatch
<1>2. matched \subseteq 1 .. Len(items)
  BY DEF IInv, TypeOK
<1>3. \A p \in 1 .. Len(items) : p \in matched <=> Stays(ss, p)
  BY <1>1 DEF IInv, MatchLoop
<1>4. CASE InForce(ss) = "Auto"
  <2>1. pc' = "prefer" /\ n' = 1 /\ keep' = {}
    BY <1>1, <1>4 DEF EndMatch, First
  <2>2. \A p \in 1 .. Len(items) : p \in matched <=> SetAdmits(ss, items[p])
    BY <1>3, <1>4 DEF Stays
  <2>3. TypeOK'
    BY <1>1, <2>1 DEF IInv, TypeOK
  <2>4. PreferLoop'
    BY <1>1, <1>4, <2>1, <2>2 DEF PreferLoop, InForce
  <2>5. QED
    BY <2>1, <2>3, <2>4 DEF IInv, Started, MemberLoop, MatchLoop, OfferKeepsPromise
<1>5. CASE InForce(ss) # "Auto"
  <2>1. pc' = "done" /\ n' = n /\ keep' = matched
    BY <1>5 DEF EndMatch
  <2>2. InForce(ss) \in {"Include", "Exclude"} /\ SetMode(ss) = InForce(ss)
    <3>1. ss \in SpecifierSet /\ call \in Policy
      BY <1>1, SubjectsAssumption DEF IInv, TypeOK
    <3>2. SetPolicy(ss) \in Policy
      BY <3>1 DEF SetPolicy, SpecifierSet, Policy
    <3>3. QED
      BY <1>5, <3>1, <3>2 DEF Policy, InForce, SetMode
  <2>3. keep' = SetPromise(ss)
    BY <1>2, <1>3, <2>1, <2>2 DEF SetPromise, Chosen, Stays
  <2>4. SetPromise(ss)' = SetPromise(ss)
    BY <1>1 DEF SetPromise, Chosen, SetMode, InForce
  <2>5. OfferKeepsPromise'
    BY <1>1, <2>3, <2>4 DEF OfferKeepsPromise
  <2>6. TypeOK'
    BY <1>1, <1>2, <2>1 DEF IInv, TypeOK
  <2>7. QED
    BY <2>1, <2>5, <2>6 DEF IInv, Started, MemberLoop, MatchLoop, PreferLoop
<1>6. QED
  BY <1>4, <1>5

LEMMA EndPreferIInv == IInv /\ EndPrefer => IInv'
<1> SUFFICES ASSUME IInv, EndPrefer PROVE IInv'
  OBVIOUS
<1> DEFINE ss == subject.set
           final == \E p \in 1 .. Len(items) :
                      SetAdmits(ss, items[p]) /\ IsVersion(items[p]) /\ ~IsPre(items[p])
<1>1. /\ pc = "prefer" /\ n > Len(items) /\ pc' = "done" /\ n \in Nat /\ Len(items) \in Nat
      /\ subject.kind = "set" /\ InForce(ss) = "Auto"
      /\ keep' = IF found THEN keep ELSE keep \cup held
      /\ UNCHANGED <<subject, call, items, n, matched, held, found>>
  BY LenProperties DEF IInv, TypeOK, PreferLoop, EndPrefer
<1>2. keep' \subseteq 1 .. Len(items)
  BY <1>1 DEF IInv, TypeOK
<1>3. /\ \A p \in 1 .. Len(items) : p \in keep <=> SetAdmits(ss, items[p]) /\ ~IsPre(items[p])
      /\ \A p \in 1 .. Len(items) : p \in held <=> SetAdmits(ss, items[p]) /\ IsPre(items[p])
      /\ found <=> final
  BY <1>1 DEF IInv, PreferLoop
<1>4. keep' = {p \in 1 .. Len(items) :
                 SetAdmits(ss, items[p]) /\ (~IsPre(items[p]) \/ ~final)}
  BY <1>1, <1>2, <1>3
<1>5. keep' = SetPromise(ss)
  BY <1>1, <1>4 DEF SetPromise, Chosen, SetMode
<1>6. SetPromise(ss)' = SetPromise(ss)
  BY <1>1 DEF SetPromise, Chosen, SetMode, InForce
<1>7. OfferKeepsPromise'
  BY <1>1, <1>5, <1>6 DEF OfferKeepsPromise
<1>8. TypeOK'
  BY <1>1, <1>2 DEF IInv, TypeOK
<1>9. QED
  BY <1>1, <1>7, <1>8 DEF IInv, Started, MemberLoop, MatchLoop, PreferLoop

-----------------------------------------------------------------------------

LEMMA Invariance == Spec => []IInv
<1>1. IInv /\ [Next]_vars => IInv'
  <2> SUFFICES ASSUME IInv, [Next]_vars PROVE IInv'
    OBVIOUS
  <2>1. CASE Next
    BY <2>1, StartIInv, MemberStepIInv, MatchItemIInv, PreferItemIInv, EndMemberIInv,
       EndMatchIInv, EndPreferIInv DEF Next
  <2>2. CASE UNCHANGED vars
    BY <2>2 DEF vars, IInv, TypeOK, Started, MemberLoop, MatchLoop, PreferLoop, OfferKeepsPromise,
                MemberPromise, SetPromise, Chosen, MemberMode, SetMode, IncludePre, InForce,
                MayHold, Offers, Holds, Stays
  <2>3. QED
    BY <2>1, <2>2
<1>2. QED
  BY InitIInv, <1>1, PTL DEF Spec

(* Every variable of the filter loops keeps its type and every index is    *)
(* one of the candidates' (the two filterKeep methods).                    *)
THEOREM TypeCorrect == Spec => []TypeOK
<1>1. IInv => TypeOK
  BY DEF IInv
<1>2. QED
  BY Invariance, <1>1, PTL

(* Whatever the operators match and however the candidates are ordered,    *)
(* the offer is the one PEP 440 prescribes of all that match (filterKeep,  *)
(* matchAll, filterEmpty and applyPEP440Preference).                       *)
THEOREM OfferIsThePromise == Spec => []OfferKeepsPromise
<1>1. IInv => OfferKeepsPromise
  BY DEF IInv
<1>2. QED
  BY Invariance, <1>1, PTL

(* What one member admits, a set of that member alone admits.              *)
LEMMA SingleSetAdmits ==
  ASSUME NEW m, NEW x
  PROVE  SetAdmits([groups |-> << <<m>> >>, pre |-> "Auto"], x) <=> Admits(m, x)
<1> DEFINE ss == [groups |-> << <<m>> >>, pre |-> "Auto"]
<1>1. Len(ss.groups) = 1 /\ ss.groups[1] = <<m>> /\ <<m>> # <<>>
  OBVIOUS
<1>2. Len(<<m>>) = 1 /\ <<m>>[1] = m
  OBVIOUS
<1>3. GroupAdmits(<<m>>, x) <=> Admits(m, x)
  BY <1>2 DEF GroupAdmits
<1> HIDE DEF ss
<1>4. ~Unconstrained(ss)
  BY <1>1 DEF Unconstrained
<1>5. MatchAll(ss, x) <=> Admits(m, x)
  BY <1>1, <1>3 DEF MatchAll
<1>6. QED
  BY <1>4, <1>5 DEF SetAdmits, ss

LEMMA SinglePolicy ==
  ASSUME NEW m
  PROVE  SetPolicy([groups |-> << <<m>> >>, pre |-> "Auto"])
           = IF MemberPolicy(m) = "Include" THEN "Include" ELSE "Auto"
<1> DEFINE ss == [groups |-> << <<m>> >>, pre |-> "Auto"]
<1>1. /\ ss.pre = "Auto" /\ Len(ss.groups) = 1 /\ ss.groups[1] = <<m>>
      /\ Len(<<m>>) = 1 /\ <<m>>[1] = m
  OBVIOUS
<1> HIDE DEF ss
<1>2. (\E g \in 1 .. Len(ss.groups) : \E k \in 1 .. Len(ss.groups[g]) :
         MemberPolicy(ss.groups[g][k]) = "Include") <=> MemberPolicy(m) = "Include"
  BY <1>1
<1>3. QED
  BY <1>1, <1>2 DEF SetPolicy, ss

(* The two code paths of filtering give one answer: a set of one member    *)
(* offers what the member does, an explicit Exclude of its own aside       *)
(* (Specifier.filterKeep and Specifiers.filterKeep).                       *)
THEOREM TwoPathsOneAnswer == Spec => []SetAgreesWithMember
<1>1. IInv => SetAgreesWithMember
  <2> SUFFICES ASSUME IInv, pc = "done", subject.kind = "set", NEW m \in Member,
                      subject.set = [groups |-> << <<m>> >>, pre |-> "Auto"],
                      OwnPolicy(m) # "Exclude"
               PROVE  keep = MemberPromise(m)
    BY DEF SetAgreesWithMember
  <2>1. keep = SetPromise(subject.set)
    BY DEF IInv, OfferKeepsPromise
  <2>2. \A x : SetAdmits(subject.set, x) <=> Admits(m, x)
    BY SingleSetAdmits
  <2>3. SetMode(subject.set) = MemberMode(m)
    <3>1. SetPolicy(subject.set) = IF MemberPolicy(m) = "Include" THEN "Include" ELSE "Auto"
      BY SinglePolicy
    <3>2. call \in Policy
      BY DEF IInv, TypeOK
    <3>3. QED
      BY <3>1, <3>2 DEF SetMode, MemberMode, InForce, IncludePre, Policy
  <2>4. QED
    BY <2>1, <2>2, <2>3 DEF SetPromise, MemberPromise, Chosen
<1>2. QED
  BY Invariance, <1>1, PTL
=============================================================================
