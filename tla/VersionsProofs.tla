--------------------------- MODULE VersionsProofs ---------------------------
(***************************************************************************)
(* Proofs about VersionPairs and SpecifierLaws: the packed comparison and  *)
(* the general one give one answer, and it is one order, for all versions  *)
(* and all widths of the packed fields; and the operators cut this order   *)
(* where they promise, for all operands.                                   *)
(***************************************************************************)
EXTENDS SpecifierLaws, FiniteSetTheorems, SequenceTheorems, TLAPS

SomeVersion == ParsedVersion \cup {ZeroValue}

LEMMA ReleaseTypes ==
  ASSUME NEW v \in SomeVersion
  PROVE  v.epoch \in Nat /\ v.release \in Seq(Nat)
<1>1. CASE v \in ParsedVersion
  BY <1>1 DEF ParsedVersion
<1>2. CASE v = ZeroValue
  <2>1. v.epoch = 0 /\ v.release = <<>> /\ <<>> \in Seq(Nat)
    BY <1>2 DEF ZeroValue
  <2>2. QED
    BY <2>1
<1>3. QED
  BY <1>1, <1>2 DEF SomeVersion

(***************************************************************************)
(* Least elements and lengths                                              *)
(***************************************************************************)
(* From the well-foundedness of strict inclusion among the subsets of an   *)
(* interval.                                                               *)
LEMMA LeastNatural ==
  ASSUME NEW T \in SUBSET Nat, T # {}
  PROVE  \E x \in T : \A y \in T : x <= y
<1>1. PICK m \in T : TRUE
  OBVIOUS
<1> DEFINE S == 0 .. m
           R == StrictSubsetOrdering(S)
           F == {0 .. k : k \in {i \in T : i <= m}}
<1>2. IsFiniteSet(S)
  BY FS_Interval
<1>3. IsWellFoundedOn(R, FiniteSubsetsOf(S))
  BY FS_StrictSubsetOrderingWellFounded
<1>4. F \subseteq FiniteSubsetsOf(S) /\ F # {}
  <2>1. \A k \in 0 .. m : 0 .. k \in FiniteSubsetsOf(S)
    BY FS_Interval, <1>2 DEF FiniteSubsetsOf
  <2>2. QED
    BY <2>1
<1>5. PICK x \in F : \A y \in F : <<y, x>> \notin R
  <2> HIDE DEF R, F
  <2>1. QED
    BY <1>3, <1>4, WFMin
<1>6. PICK k \in T : k <= m /\ x = 0 .. k
  OBVIOUS
<1>7. ASSUME NEW y \in T, y < k PROVE FALSE
  <2>1. 0 .. y \in F
    BY <1>6, <1>7
  <2>2. 0 .. y \subseteq 0 .. k /\ 0 .. y # 0 .. k /\ 0 .. y \subseteq S /\ 0 .. k \subseteq S
    BY <1>6, <1>7
  <2>3. <<0 .. y, 0 .. k>> \in R
    BY <2>2 DEF StrictSubsetOrdering
  <2>4. QED
    BY <1>5, <1>6, <2>1, <2>3
<1>8. QED
  BY <1>6, <1>7

(* What releaseLen finds: no segment beyond it counts.                     *)
LEMMA ReleaseLenFacts ==
  ASSUME NEW r \in Seq(Nat)
  PROVE  /\ ReleaseLen(r) \in 0 .. Len(r)
         /\ \A i \in DOMAIN r : i > ReleaseLen(r) => r[i] = 0
         /\ ReleaseLen(r) > 0 => r[ReleaseLen(r)] # 0
<1> DEFINE significant == {i \in DOMAIN r : r[i] # 0}
<1>1. DOMAIN r = 1 .. Len(r) /\ Len(r) \in Nat
  OBVIOUS
<1>2. CASE significant = {}
  BY <1>1, <1>2 DEF ReleaseLen
<1>3. CASE significant # {}
  <2> DEFINE T == {Len(r) - i : i \in significant}
  <2>1. T \in SUBSET Nat /\ T # {}
    BY <1>1, <1>3
  <2>2. PICK x \in T : \A y \in T : x <= y
    BY <2>1, LeastNatural
  <2>3. PICK i \in significant : x = Len(r) - i
    OBVIOUS
  <2>4. \A j \in significant : j <= i
    <3>1. TAKE j \in significant
    <3>2. x <= Len(r) - j
      BY <2>2
    <3>3. QED
      BY <1>1, <2>3, <3>2
  <2>5. ReleaseLen(r) = CHOOSE k \in significant : \A j \in significant : j <= k
    BY <1>3 DEF ReleaseLen
  <2>6. ReleaseLen(r) \in significant /\ \A j \in significant : j <= ReleaseLen(r)
    BY <2>4, <2>5
  <2>7. QED
    BY <1>1, <2>6
<1>4. QED
  BY <1>2, <1>3

(***************************************************************************)
(* Sequences compared place by place                                       *)
(***************************************************************************)
LEMMA PrefixesEqual ==
  ASSUME NEW S, NEW s \in Seq(S), NEW t \in Seq(S), NEW m \in Nat, m <= Len(s), m <= Len(t)
  PROVE  SubSeq(s, 1, m) = SubSeq(t, 1, m) <=> \A j \in 1 .. m : s[j] = t[j]
<1>1. SubSeq(s, 1, m) = [j \in 1 .. m |-> s[j]] /\ SubSeq(t, 1, m) = [j \in 1 .. m |-> t[j]]
  OBVIOUS
<1>2. QED
  BY <1>1

(* The first place where they differ decides, or the end of one.           *)
LEMMA SeqLessByPlace ==
  ASSUME NEW s \in Seq(Int), NEW t \in Seq(Int)
  PROVE  SeqLess(s, t) <=>
           \E i \in 1 .. Len(t) :
             /\ i <= Len(s) + 1
             /\ \A j \in 1 .. i - 1 : s[j] = t[j]
             /\ i > Len(s) \/ s[i] < t[i]
<1>1. \A i \in 1 .. Len(t) : i <= Len(s) + 1 =>
        (SubSeq(s, 1, i - 1) = SubSeq(t, 1, i - 1) <=> \A j \in 1 .. i - 1 : s[j] = t[j])
  BY SMTT(60), PrefixesEqual
<1>2. QED
  BY <1>1 DEF SeqLess

LEMMA NestedLessByPlace ==
  ASSUME NEW S, NEW s \in Seq(S), NEW t \in Seq(S)
  PROVE  NestedLess(s, t) <=>
           \E i \in 1 .. Len(t) :
             /\ i <= Len(s) + 1
             /\ \A j \in 1 .. i - 1 : s[j] = t[j]
             /\ i > Len(s) \/ SeqLess(s[i], t[i])
<1>1. \A i \in 1 .. Len(t) : i <= Len(s) + 1 =>
        (SubSeq(s, 1, i - 1) = SubSeq(t, 1, i - 1) <=> \A j \in 1 .. i - 1 : s[j] = t[j])
  BY PrefixesEqual
<1>2. QED
  BY <1>1 DEF NestedLess

(***************************************************************************)
(* The order of releases, whatever they are padded to                      *)
(***************************************************************************)
Places == Nat \ {0}

Segment(r, i) == IF i <= ReleaseLen(r) THEN r[i] ELSE 0

SameReleases(r, s) == \A i \in Places : Segment(r, i) = Segment(s, i)
ReleaseLess(r, s) ==
  \E i \in Places :
    (\A j \in 1 .. i - 1 : Segment(r, j) = Segment(s, j)) /\ Segment(r, i) < Segment(s, i)

LEMMA SegmentFacts ==
  ASSUME NEW r \in Seq(Nat)
  PROVE  /\ \A i \in Places : Segment(r, i) \in Nat
         /\ \A i \in Places : Segment(r, i) # 0 => i <= ReleaseLen(r)
         /\ \A n \in Nat : /\ Padded(Stripped(r), n) = [i \in 1 .. n |-> Segment(r, i)]
                          /\ Padded(Stripped(r), n) \in Seq(Nat)
<1>1. ReleaseLen(r) \in 0 .. Len(r)
  BY ReleaseLenFacts
<1>2. \A i \in Places : Segment(r, i) \in Nat
  BY <1>1 DEF Segment, Places
<1>3. Stripped(r) = [i \in 1 .. ReleaseLen(r) |-> r[i]]
  BY <1>1 DEF Stripped
<1>4. ASSUME NEW n \in Nat PROVE Padded(Stripped(r), n) = [i \in 1 .. n |-> Segment(r, i)]
  <2>1. Len(Stripped(r)) = ReleaseLen(r)
    BY <1>1, <1>3
  <2>2. \A i \in 1 .. n : (IF i <= Len(Stripped(r)) THEN Stripped(r)[i] ELSE 0) = Segment(r, i)
    <3>1. TAKE i \in 1 .. n
    <3>2. CASE i <= ReleaseLen(r)
      <4>1. i \in 1 .. ReleaseLen(r)
        BY <1>1, <3>2
      <4>2. QED
        BY <1>3, <2>1, <3>2, <4>1 DEF Segment
    <3>3. CASE ~(i <= ReleaseLen(r))
      BY <2>1, <3>3 DEF Segment
    <3>4. QED
      BY <3>2, <3>3
  <2>3. QED
    BY <2>2 DEF Padded
<1>5. QED
  BY SMTT(60), <1>2, <1>4 DEF Segment, Places

(* Padding to any length that covers both releases gives their order.      *)
LEMMA PaddedOrder ==
  ASSUME NEW r \in Seq(Nat), NEW s \in Seq(Nat), NEW n \in Nat,
         ReleaseLen(r) <= n, ReleaseLen(s) <= n
  PROVE  /\ SeqLess(Padded(Stripped(r), n), Padded(Stripped(s), n)) <=> ReleaseLess(r, s)
         /\ Padded(Stripped(r), n) = Padded(Stripped(s), n) <=> SameReleases(r, s)
<1> DEFINE p == Padded(Stripped(r), n)
           q == Padded(Stripped(s), n)
<1>1. /\ p = [i \in 1 .. n |-> Segment(r, i)] /\ p \in Seq(Nat)
      /\ q = [i \in 1 .. n |-> Segment(s, i)] /\ q \in Seq(Nat)
  BY SegmentFacts
<1>2. Len(p) = n /\ Len(q) = n /\ p \in Seq(Int) /\ q \in Seq(Int)
  BY <1>1
<1> HIDE DEF p, q
<1>3. SeqLess(p, q) <=> \E i \in 1 .. n : (\A j \in 1 .. i - 1 : p[j] = q[j]) /\ p[i] < q[i]
  <2>1. SeqLess(p, q) <=>
          \E i \in 1 .. Len(q) :
            i <= Len(p) + 1 /\ (\A j \in 1 .. i - 1 : p[j] = q[j]) /\ (i > Len(p) \/ p[i] < q[i])
    BY <1>2, SeqLessByPlace
  <2>2. QED
    BY <1>2, <2>1
<1>4. \A i \in Places : i > n => Segment(r, i) = 0 /\ Segment(s, i) = 0
  BY ReleaseLenFacts DEF Segment, Places
<1>5. \A i \in Places : Segment(r, i) < Segment(s, i) => i \in 1 .. n
  BY <1>4 DEF Places
<1>6. SeqLess(p, q) <=> ReleaseLess(r, s)
  <2>1. ASSUME NEW i \in 1 .. n, \A j \in 1 .. i - 1 : p[j] = q[j], p[i] < q[i] PROVE ReleaseLess(r, s)
    <3>1. i \in Places /\ Segment(r, i) < Segment(s, i) /\ \A j \in 1 .. i - 1 : Segment(r, j) = Segment(s, j)
      <4>1. \A j \in 1 .. n : p[j] = Segment(r, j) /\ q[j] = Segment(s, j)
        BY <1>1
      <4>2. \A j \in 1 .. i - 1 : j \in 1 .. n
        OBVIOUS
      <4>3. QED
        BY <2>1, <4>1, <4>2 DEF Places
    <3>2. QED
      BY <3>1 DEF ReleaseLess
  <2>2. ASSUME NEW i \in Places, \A j \in 1 .. i - 1 : Segment(r, j) = Segment(s, j),
               Segment(r, i) < Segment(s, i)
        PROVE  i \in 1 .. n /\ (\A j \in 1 .. i - 1 : p[j] = q[j]) /\ p[i] < q[i]
    BY <1>1, <1>5, <2>2
  <2>3. QED
    BY <1>3, <2>1, <2>2 DEF ReleaseLess
<1>7. p = q <=> SameReleases(r, s)
  <2>1. p = q <=> \A i \in 1 .. n : Segment(r, i) = Segment(s, i)
    BY <1>1
  <2>2. \A i \in Places : i \in 1 .. n \/ Segment(r, i) = Segment(s, i)
    BY <1>4 DEF Places
  <2>3. QED
    BY <2>1, <2>2 DEF SameReleases, Places
<1>8. QED
  BY <1>6, <1>7 DEF p, q

(***************************************************************************)
(* The order of suffixes                                                   *)
(***************************************************************************)
LexLess(a, b, c, d) == a < c \/ (a = c /\ b < d)

PreNumber(v)  == IF Absent(v.pre) THEN 0 ELSE v.pre[2]
PostFlag(v)   == IF Absent(v.post) THEN 0 ELSE 1
PostNumber(v) == IF Absent(v.post) THEN 0 ELSE v.post[1]
DevAbsent(v)  == IF Absent(v.dev) THEN 1 ELSE 0
DevNumber(v)  == IF Absent(v.dev) THEN 0 ELSE v.dev[1]

PostKey(v) == IF Absent(v.post) THEN NegInf ELSE Some(v.post)

LEMMA PartShapes ==
  ASSUME NEW v \in ParsedVersion
  PROVE  /\ v.pre = <<>> \/ \E c \in 1 .. 3, n \in Nat : v.pre = <<c, n>>
         /\ v.post = <<>> \/ \E n \in Nat : v.post = <<n>>
         /\ v.dev = <<>> \/ \E n \in Nat : v.dev = <<n>>
<1>1. \A s \in OneNumber : \E n \in Nat : s = <<n>>
  <2>1. TAKE s \in OneNumber
  <2>2. s \in Seq(Nat) /\ Len(s) = 1 /\ s[1] \in Nat
    <3>1. s \in Seq(Nat) /\ Len(s) = 1
      BY DEF OneNumber
    <3>2. QED
      BY SMTT(60), <3>1
  <2>3. s = <<s[1]>>
    BY <2>2
  <2>4. QED
    BY <2>2, <2>3
<1>2. /\ v.pre \in {<<>>} \cup ((1 .. 3) \X Nat)
      /\ v.post \in {<<>>} \cup OneNumber
      /\ v.dev \in {<<>>} \cup OneNumber
  BY DEF ParsedVersion
<1>3. v.pre = <<>> \/ \E c \in 1 .. 3, n \in Nat : v.pre = <<c, n>>
  BY <1>2
<1>4. QED
  BY <1>1, <1>2, <1>3

LEMMA FieldTypes ==
  ASSUME NEW v \in ParsedVersion
  PROVE  /\ PreClass(v) \in 0 .. 4 /\ PostFlag(v) \in 0 .. 1 /\ DevAbsent(v) \in 0 .. 1
         /\ PreNumber(v) \in Nat /\ PostNumber(v) \in Nat /\ DevNumber(v) \in Nat
BY PartShapes DEF PreClass, PostFlag, DevAbsent, PreNumber, PostNumber, DevNumber, Absent

LEMMA HeadDecides ==
  ASSUME NEW s \in Seq(Int), NEW t \in Seq(Int), s # <<>>, t # <<>>, s[1] # t[1]
  PROVE  SeqLess(s, t) <=> s[1] < t[1]
<1>1. Len(s) \in Nat \ {0} /\ Len(t) \in Nat \ {0}
  OBVIOUS
<1>2. SeqLess(s, t) <=>
        \E i \in 1 .. Len(t) :
          i <= Len(s) + 1 /\ (\A j \in 1 .. i - 1 : s[j] = t[j]) /\ (i > Len(s) \/ s[i] < t[i])
  BY SeqLessByPlace
<1>3. \A i \in 1 .. Len(t) : (\A j \in 1 .. i - 1 : s[j] = t[j]) => i = 1
  <2>1. \A i \in 1 .. Len(t) : i # 1 => 1 \in 1 .. i - 1
    OBVIOUS
  <2>2. QED
    BY <2>1
<1>4. (\A j \in 1 .. 1 - 1 : s[j] = t[j]) /\ 1 \in 1 .. Len(t) /\ 1 <= Len(s) + 1 /\ ~(1 > Len(s))
  BY <1>1
<1>5. QED
  BY <1>2, <1>3, <1>4

LEMMA NeverLessThanItself == \A s \in Seq(Int) : ~SeqLess(s, s)
<1>1. TAKE s \in Seq(Int)
<1>2. SeqLess(s, s) <=>
        \E i \in 1 .. Len(s) :
          i <= Len(s) + 1 /\ (\A j \in 1 .. i - 1 : s[j] = s[j]) /\ (i > Len(s) \/ s[i] < s[i])
  BY SeqLessByPlace
<1>3. \A i \in 1 .. Len(s) : s[i] \in Int /\ ~(i > Len(s))
  OBVIOUS
<1>4. QED
  BY <1>2, <1>3

LEMMA TwoPlaces ==
  ASSUME NEW a \in Int, NEW b \in Int, NEW c \in Int
  PROVE  SeqLess(<<a, b>>, <<a, c>>) <=> b < c
<1> DEFINE s == <<a, b>>
           t == <<a, c>>
<1>1. s \in Seq(Int) /\ t \in Seq(Int) /\ Len(s) = 2 /\ Len(t) = 2
      /\ s[1] = a /\ t[1] = a /\ s[2] = b /\ t[2] = c
  OBVIOUS
<1> HIDE DEF s, t
<1>2. SeqLess(s, t) <=>
        \E i \in 1 .. Len(t) :
          i <= Len(s) + 1 /\ (\A j \in 1 .. i - 1 : s[j] = t[j]) /\ (i > Len(s) \/ s[i] < t[i])
  BY <1>1, SeqLessByPlace
<1>3. SeqLess(s, t) <=> b < c
  BY <1>1, <1>2
<1>4. QED
  BY <1>3 DEF s, t

LEMMA ThreePlaces ==
  ASSUME NEW a \in Int, NEW b \in Int, NEW c \in Int, NEW d \in Int, NEW e \in Int
  PROVE  SeqLess(<<a, b, c>>, <<a, d, e>>) <=> LexLess(b, c, d, e)
<1> DEFINE s == <<a, b, c>>
           t == <<a, d, e>>
<1>1. s \in Seq(Int) /\ t \in Seq(Int) /\ Len(s) = 3 /\ Len(t) = 3
      /\ s[1] = a /\ t[1] = a /\ s[2] = b /\ t[2] = d /\ s[3] = c /\ t[3] = e
  OBVIOUS
<1> HIDE DEF s, t
<1>2. SeqLess(s, t) <=>
        \E i \in 1 .. Len(t) :
          i <= Len(s) + 1 /\ (\A j \in 1 .. i - 1 : s[j] = t[j]) /\ (i > Len(s) \/ s[i] < t[i])
  BY <1>1, SeqLessByPlace
<1>3. SeqLess(s, t) <=> LexLess(b, c, d, e)
  BY <1>1, <1>2 DEF LexLess
<1>4. QED
  BY <1>3 DEF s, t

LEMMA ShortSequences ==
  \A a, b, c \in Int :
    /\ <<a>> \in Seq(Int) /\ <<a>> # <<>> /\ <<a>>[1] = a
    /\ <<a, b>> \in Seq(Int) /\ <<a, b>> # <<>> /\ <<a, b>>[1] = a
    /\ <<a, b, c>> \in Seq(Int) /\ <<a, b, c>> # <<>> /\ <<a, b, c>>[1] = a
OBVIOUS

LEMMA SomeOfOne ==
  ASSUME NEW n \in Nat
  PROVE  Some(<<n>>) = <<1, n>>
<1>1. <<1>> \in Seq(Nat) /\ <<n>> \in Seq(Nat) /\ <<1, n>> \in Seq(Nat)
  OBVIOUS
<1>2. Len(Some(<<n>>)) = 2 /\ Some(<<n>>) \in Seq(Nat)
  BY <1>1, ConcatProperties DEF Some
<1>3. Some(<<n>>)[1] = 1 /\ Some(<<n>>)[2] = n
  BY <1>1, ConcatProperties DEF Some
<1>4. QED
  BY <1>1, <1>2, <1>3

LEMMA SomeOfTwo ==
  ASSUME NEW c \in Nat, NEW n \in Nat
  PROVE  Some(<<c, n>>) = <<1, c, n>>
<1>1. <<1>> \in Seq(Nat) /\ <<c, n>> \in Seq(Nat) /\ <<1, c, n>> \in Seq(Nat)
  OBVIOUS
<1>2. Len(Some(<<c, n>>)) = 3 /\ Some(<<c, n>>) \in Seq(Nat)
  BY <1>1, ConcatProperties DEF Some
<1>3. Some(<<c, n>>)[1] = 1 /\ Some(<<c, n>>)[2] = c /\ Some(<<c, n>>)[3] = n
  BY <1>1, ConcatProperties DEF Some
<1>4. QED
  BY <1>1, <1>2, <1>3

(* The shapes a key can have.                                              *)
LEMMA KeyShapes ==
  ASSUME NEW v \in ParsedVersion
  PROVE  /\ \/ PreClass(v) = 0 /\ PreNumber(v) = 0 /\ PreKey(v) = <<0>>
            \/ PreClass(v) = 4 /\ PreNumber(v) = 0 /\ PreKey(v) = <<2>>
            \/ PreClass(v) \in 1 .. 3 /\ PreKey(v) = <<1, PreClass(v), PreNumber(v)>>
         /\ \/ PostFlag(v) = 0 /\ PostNumber(v) = 0 /\ PostKey(v) = <<0>>
            \/ PostFlag(v) = 1 /\ PostKey(v) = <<1, PostNumber(v)>>
         /\ \/ DevAbsent(v) = 1 /\ DevNumber(v) = 0 /\ DevKey(v) = <<2>>
            \/ DevAbsent(v) = 0 /\ DevKey(v) = <<1, DevNumber(v)>>
<1>1. /\ v.pre = <<>> \/ \E c \in 1 .. 3, n \in Nat : v.pre = <<c, n>>
      /\ v.post = <<>> \/ \E n \in Nat : v.post = <<n>>
      /\ v.dev = <<>> \/ \E n \in Nat : v.dev = <<n>>
  BY PartShapes
<1>2. \/ PreClass(v) = 0 /\ PreNumber(v) = 0 /\ PreKey(v) = <<0>>
      \/ PreClass(v) = 4 /\ PreNumber(v) = 0 /\ PreKey(v) = <<2>>
      \/ PreClass(v) \in 1 .. 3 /\ PreKey(v) = <<1, PreClass(v), PreNumber(v)>>
  <2>1. CASE v.pre = <<>>
    BY <2>1 DEF PreClass, PreNumber, PreKey, DevOnly, Absent, NegInf, PosInf
  <2>2. ASSUME NEW c \in 1 .. 3, NEW n \in Nat, v.pre = <<c, n>>
        PROVE  PreClass(v) \in 1 .. 3 /\ PreKey(v) = <<1, PreClass(v), PreNumber(v)>>
    <3>1. Some(v.pre) = <<1, c, n>> /\ ~Absent(v.pre) /\ v.pre[1] = c /\ v.pre[2] = n
      BY <2>2, SomeOfTwo DEF Absent
    <3>2. QED
      BY <3>1 DEF PreClass, PreNumber, PreKey, DevOnly
  <2>3. QED
    BY <1>1, <2>1, <2>2
<1>3. \/ PostFlag(v) = 0 /\ PostNumber(v) = 0 /\ PostKey(v) = <<0>>
      \/ PostFlag(v) = 1 /\ PostKey(v) = <<1, PostNumber(v)>>
  BY <1>1, SomeOfOne DEF PostFlag, PostNumber, PostKey, Absent, NegInf
<1>4. \/ DevAbsent(v) = 1 /\ DevNumber(v) = 0 /\ DevKey(v) = <<2>>
      \/ DevAbsent(v) = 0 /\ DevKey(v) = <<1, DevNumber(v)>>
  BY <1>1, SomeOfOne DEF DevAbsent, DevNumber, DevKey, Absent, PosInf
<1>5. QED
  BY <1>2, <1>3, <1>4

LEMMA KeyTypes ==
  ASSUME NEW v \in ParsedVersion
  PROVE  /\ PreKey(v) \in Seq(Int) /\ PreKey(v) # <<>>
         /\ PostKey(v) \in Seq(Int) /\ PostKey(v) # <<>>
         /\ DevKey(v) \in Seq(Int) /\ DevKey(v) # <<>>
<1>1. PreClass(v) \in Int /\ PreNumber(v) \in Int /\ PostNumber(v) \in Int /\ DevNumber(v) \in Int
  BY FieldTypes
<1>2. /\ <<0>> \in Seq(Int) /\ <<0>> # <<>> /\ <<2>> \in Seq(Int) /\ <<2>> # <<>>
      /\ <<1, PreClass(v), PreNumber(v)>> \in Seq(Int) /\ <<1, PreClass(v), PreNumber(v)>> # <<>>
      /\ <<1, PostNumber(v)>> \in Seq(Int) /\ <<1, PostNumber(v)>> # <<>>
      /\ <<1, DevNumber(v)>> \in Seq(Int) /\ <<1, DevNumber(v)>> # <<>>
  BY <1>1, ShortSequences
<1>3. PreKey(v) = <<0>> \/ PreKey(v) = <<2>> \/ PreKey(v) = <<1, PreClass(v), PreNumber(v)>>
  BY KeyShapes
<1>4. PostKey(v) = <<0>> \/ PostKey(v) = <<1, PostNumber(v)>>
  BY KeyShapes
<1>5. DevKey(v) = <<2>> \/ DevKey(v) = <<1, DevNumber(v)>>
  BY KeyShapes
<1>6. QED
  BY <1>1, <1>2, <1>3, <1>4, <1>5

(* A component of the key and its packed fields sort alike.                *)
LEMMA PreOrder ==
  ASSUME NEW v \in ParsedVersion, NEW w \in ParsedVersion
  PROVE  /\ SeqLess(PreKey(v), PreKey(w)) <=> LexLess(PreClass(v), PreNumber(v), PreClass(w), PreNumber(w))
         /\ PreKey(v) = PreKey(w) <=> PreClass(v) = PreClass(w) /\ PreNumber(v) = PreNumber(w)
<1> DEFINE Low(u)  == PreClass(u) = 0 /\ PreNumber(u) = 0 /\ PreKey(u) = <<0>>
           High(u) == PreClass(u) = 4 /\ PreNumber(u) = 0 /\ PreKey(u) = <<2>>
           Mid(u)  == PreClass(u) \in 1 .. 3 /\ PreKey(u) = <<1, PreClass(u), PreNumber(u)>>
<1>1. (Low(v) \/ High(v) \/ Mid(v)) /\ (Low(w) \/ High(w) \/ Mid(w))
  BY KeyShapes
<1>2. PreNumber(v) \in Nat /\ PreNumber(w) \in Nat
  BY FieldTypes
<1>3. CASE Mid(v) /\ Mid(w)
  BY <1>2, <1>3, ThreePlaces
<1>4. CASE (Low(v) /\ Low(w)) \/ (High(v) /\ High(w))
  <2>1. PreKey(v) \in Seq(Int) /\ PreKey(v) = PreKey(w)
    BY <1>4, KeyTypes
  <2>2. ~SeqLess(PreKey(v), PreKey(w))
    BY <2>1, NeverLessThanItself
  <2>3. QED
    BY <1>4, <2>1, <2>2 DEF LexLess
<1>5. CASE ~(Mid(v) /\ Mid(w)) /\ ~((Low(v) /\ Low(w)) \/ (High(v) /\ High(w)))
  <2>1. PreKey(v) \in Seq(Int) /\ PreKey(w) \in Seq(Int) /\ PreKey(v) # <<>> /\ PreKey(w) # <<>>
    BY KeyTypes
  <2>2. /\ PreKey(v)[1] # PreKey(w)[1]
        /\ PreKey(v)[1] < PreKey(w)[1] <=> PreClass(v) < PreClass(w)
        /\ PreClass(v) # PreClass(w)
    BY <1>1, <1>2, <1>5
  <2>3. QED
    BY <2>1, <2>2, HeadDecides DEF LexLess
<1>6. QED
  BY <1>3, <1>4, <1>5

LEMMA PostOrder ==
  ASSUME NEW v \in ParsedVersion, NEW w \in ParsedVersion
  PROVE  /\ SeqLess(PostKey(v), PostKey(w)) <=> LexLess(PostFlag(v), PostNumber(v), PostFlag(w), PostNumber(w))
         /\ PostKey(v) = PostKey(w) <=> PostFlag(v) = PostFlag(w) /\ PostNumber(v) = PostNumber(w)
<1> DEFINE Low(u) == PostFlag(u) = 0 /\ PostNumber(u) = 0 /\ PostKey(u) = <<0>>
           Mid(u) == PostFlag(u) = 1 /\ PostKey(u) = <<1, PostNumber(u)>>
<1>1. (Low(v) \/ Mid(v)) /\ (Low(w) \/ Mid(w))
  BY KeyShapes
<1>2. PostNumber(v) \in Nat /\ PostNumber(w) \in Nat
  BY FieldTypes
<1>3. CASE Mid(v) /\ Mid(w)
  BY <1>2, <1>3, TwoPlaces DEF LexLess
<1>4. CASE Low(v) /\ Low(w)
  <2>1. PostKey(v) \in Seq(Int) /\ PostKey(v) = PostKey(w)
    BY <1>4, KeyTypes
  <2>2. ~SeqLess(PostKey(v), PostKey(w))
    BY <2>1, NeverLessThanItself
  <2>3. QED
    BY <1>4, <2>1, <2>2 DEF LexLess
<1>5. CASE ~(Mid(v) /\ Mid(w)) /\ ~(Low(v) /\ Low(w))
  <2>1. PostKey(v) \in Seq(Int) /\ PostKey(w) \in Seq(Int) /\ PostKey(v) # <<>> /\ PostKey(w) # <<>>
    BY KeyTypes
  <2>2. /\ PostKey(v)[1] # PostKey(w)[1]
        /\ PostKey(v)[1] < PostKey(w)[1] <=> PostFlag(v) < PostFlag(w)
        /\ PostFlag(v) # PostFlag(w)
    BY <1>1, <1>2, <1>5
  <2>3. QED
    BY <2>1, <2>2, HeadDecides DEF LexLess
<1>6. QED
  BY <1>3, <1>4, <1>5

LEMMA DevOrder ==
  ASSUME NEW v \in ParsedVersion, NEW w \in ParsedVersion
  PROVE  /\ SeqLess(DevKey(v), DevKey(w)) <=> LexLess(DevAbsent(v), DevNumber(v), DevAbsent(w), DevNumber(w))
         /\ DevKey(v) = DevKey(w) <=> DevAbsent(v) = DevAbsent(w) /\ DevNumber(v) = DevNumber(w)
<1> DEFINE High(u) == DevAbsent(u) = 1 /\ DevNumber(u) = 0 /\ DevKey(u) = <<2>>
           Mid(u)  == DevAbsent(u) = 0 /\ DevKey(u) = <<1, DevNumber(u)>>
<1>1. (High(v) \/ Mid(v)) /\ (High(w) \/ Mid(w))
  BY KeyShapes
<1>2. DevNumber(v) \in Nat /\ DevNumber(w) \in Nat
  BY FieldTypes
<1>3. CASE Mid(v) /\ Mid(w)
  BY <1>2, <1>3, TwoPlaces DEF LexLess
<1>4. CASE High(v) /\ High(w)
  <2>1. DevKey(v) \in Seq(Int) /\ DevKey(v) = DevKey(w)
    BY <1>4, KeyTypes
  <2>2. ~SeqLess(DevKey(v), DevKey(w))
    BY <2>1, NeverLessThanItself
  <2>3. QED
    BY <1>4, <2>1, <2>2 DEF LexLess
<1>5. CASE ~(Mid(v) /\ Mid(w)) /\ ~(High(v) /\ High(w))
  <2>1. DevKey(v) \in Seq(Int) /\ DevKey(w) \in Seq(Int) /\ DevKey(v) # <<>> /\ DevKey(w) # <<>>
    BY KeyTypes
  <2>2. /\ DevKey(v)[1] # DevKey(w)[1]
        /\ DevKey(v)[1] < DevKey(w)[1] <=> DevAbsent(v) < DevAbsent(w)
        /\ DevAbsent(v) # DevAbsent(w)
    BY <1>1, <1>2, <1>5
  <2>3. QED
    BY <2>1, <2>2, HeadDecides DEF LexLess
<1>6. QED
  BY <1>3, <1>4, <1>5

(***************************************************************************)
(* The order of keys                                                       *)
(***************************************************************************)
PreLess(v, w)  == LexLess(PreClass(v), PreNumber(v), PreClass(w), PreNumber(w))
PostLess(v, w) == LexLess(PostFlag(v), PostNumber(v), PostFlag(w), PostNumber(w))
DevLess(v, w)  == LexLess(DevAbsent(v), DevNumber(v), DevAbsent(w), DevNumber(w))

SamePre(v, w)  == PreClass(v) = PreClass(w) /\ PreNumber(v) = PreNumber(w)
SamePost(v, w) == PostFlag(v) = PostFlag(w) /\ PostNumber(v) = PostNumber(w)
SameDev(v, w)  == DevAbsent(v) = DevAbsent(w) /\ DevNumber(v) = DevNumber(w)

SuffixLess(v, w) ==
  \/ PreLess(v, w)
  \/ SamePre(v, w) /\ PostLess(v, w)
  \/ SamePre(v, w) /\ SamePost(v, w) /\ DevLess(v, w)

SameSuffix(v, w) == SamePre(v, w) /\ SamePost(v, w) /\ SameDev(v, w)

KeyLess(v, w) ==
  \/ v.epoch < w.epoch
  \/ v.epoch = w.epoch /\ ReleaseLess(v.release, w.release)
  \/ v.epoch = w.epoch /\ SameReleases(v.release, w.release) /\ SuffixLess(v, w)

SameKey(v, w) ==
  v.epoch = w.epoch /\ SameReleases(v.release, w.release) /\ SameSuffix(v, w)

LEMMA OnePlace ==
  ASSUME NEW a \in Int, NEW b \in Int
  PROVE  SeqLess(<<a>>, <<b>>) <=> a < b
<1>1. <<a>> \in Seq(Int) /\ <<b>> \in Seq(Int) /\ <<a>> # <<>> /\ <<b>> # <<>> /\ <<a>>[1] = a /\ <<b>>[1] = b
  BY ShortSequences
<1>2. CASE a = b
  <2>1. ~SeqLess(<<a>>, <<a>>)
    BY <1>1, NeverLessThanItself
  <2>2. QED
    BY <1>2, <2>1
<1>3. CASE a # b
  <2>1. SeqLess(<<a>>, <<b>>) <=> <<a>>[1] < <<b>>[1]
    BY <1>1, <1>3, HeadDecides
  <2>2. QED
    BY <1>1, <2>1
<1>4. QED
  BY <1>2, <1>3

LEMMA FivePlaces ==
  ASSUME NEW s \in Seq(Seq(Int)), NEW t \in Seq(Seq(Int)), Len(s) = 5, Len(t) = 5
  PROVE  NestedLess(s, t) <=>
           \/ SeqLess(s[1], t[1])
           \/ s[1] = t[1] /\ SeqLess(s[2], t[2])
           \/ s[1] = t[1] /\ s[2] = t[2] /\ SeqLess(s[3], t[3])
           \/ s[1] = t[1] /\ s[2] = t[2] /\ s[3] = t[3] /\ SeqLess(s[4], t[4])
           \/ s[1] = t[1] /\ s[2] = t[2] /\ s[3] = t[3] /\ s[4] = t[4] /\ SeqLess(s[5], t[5])
<1>1. NestedLess(s, t) <=>
        \E k \in 1 .. Len(t) :
          k <= Len(s) + 1 /\ (\A m \in 1 .. k - 1 : s[m] = t[m]) /\ (k > Len(s) \/ SeqLess(s[k], t[k]))
  BY NestedLessByPlace
<1>2. NestedLess(s, t) <=> \E k \in 1 .. 5 : (\A m \in 1 .. k - 1 : s[m] = t[m]) /\ SeqLess(s[k], t[k])
  BY <1>1
<1>3. 1 .. 5 = {1, 2, 3, 4, 5} /\ 1 .. 1 - 1 = {} /\ 1 .. 2 - 1 = {1} /\ 1 .. 3 - 1 = {1, 2}
      /\ 1 .. 4 - 1 = {1, 2, 3} /\ 1 .. 5 - 1 = {1, 2, 3, 4}
  OBVIOUS
<1>4. QED
  BY <1>2, <1>3

LEMMA KeyByField ==
  ASSUME NEW v \in ParsedVersion, NEW w \in ParsedVersion, NEW n \in Nat,
         ReleaseLen(v.release) <= n, ReleaseLen(w.release) <= n
  PROVE  /\ NestedLess(Key(v, n), Key(w, n)) <=> KeyLess(v, w)
         /\ Key(v, n) = Key(w, n) <=> SameKey(v, w)
<1> DEFINE R(u) == Padded(Stripped(u.release), n)
<1>1. /\ v.epoch \in Int /\ w.epoch \in Int /\ v.release \in Seq(Nat) /\ w.release \in Seq(Nat)
      /\ <<v.epoch>> \in Seq(Int) /\ <<w.epoch>> \in Seq(Int)
  BY DEF ParsedVersion
<1>2. R(v) \in Seq(Int) /\ R(w) \in Seq(Int)
  <2>1. R(v) \in Seq(Nat) /\ R(w) \in Seq(Nat)
    BY <1>1, SegmentFacts
  <2>2. QED
    BY <2>1
<1>3. /\ Key(v, n) = <<<<v.epoch>>, R(v), PreKey(v), PostKey(v), DevKey(v)>>
      /\ Key(w, n) = <<<<w.epoch>>, R(w), PreKey(w), PostKey(w), DevKey(w)>>
  BY DEF Key, PostKey
<1>4. /\ SeqLess(R(v), R(w)) <=> ReleaseLess(v.release, w.release)
      /\ R(v) = R(w) <=> SameReleases(v.release, w.release)
  BY <1>1, PaddedOrder
<1>5. SeqLess(<<v.epoch>>, <<w.epoch>>) <=> v.epoch < w.epoch
  BY <1>1, OnePlace
<1>6. <<v.epoch>> = <<w.epoch>> <=> v.epoch = w.epoch
  OBVIOUS
<1> HIDE DEF R
<1>7. NestedLess(Key(v, n), Key(w, n)) <=>
        \/ SeqLess(<<v.epoch>>, <<w.epoch>>)
        \/ <<v.epoch>> = <<w.epoch>> /\ SeqLess(R(v), R(w))
        \/ <<v.epoch>> = <<w.epoch>> /\ R(v) = R(w) /\ SeqLess(PreKey(v), PreKey(w))
        \/ <<v.epoch>> = <<w.epoch>> /\ R(v) = R(w) /\ PreKey(v) = PreKey(w) /\ SeqLess(PostKey(v), PostKey(w))
        \/ <<v.epoch>> = <<w.epoch>> /\ R(v) = R(w) /\ PreKey(v) = PreKey(w) /\ PostKey(v) = PostKey(w)
           /\ SeqLess(DevKey(v), DevKey(w))
  <2>1. /\ PreKey(v) \in Seq(Int) /\ PostKey(v) \in Seq(Int) /\ DevKey(v) \in Seq(Int)
        /\ PreKey(w) \in Seq(Int) /\ PostKey(w) \in Seq(Int) /\ DevKey(w) \in Seq(Int)
    BY KeyTypes
  <2> DEFINE k == Key(v, n)
             l == Key(w, n)
  <2>2. /\ k \in Seq(Seq(Int)) /\ Len(k) = 5
        /\ k[1] = <<v.epoch>> /\ k[2] = R(v) /\ k[3] = PreKey(v) /\ k[4] = PostKey(v) /\ k[5] = DevKey(v)
    BY SMTT(60), <1>1, <1>2, <1>3, <2>1
  <2>3. /\ l \in Seq(Seq(Int)) /\ Len(l) = 5
        /\ l[1] = <<w.epoch>> /\ l[2] = R(w) /\ l[3] = PreKey(w) /\ l[4] = PostKey(w) /\ l[5] = DevKey(w)
    BY <1>1, <1>2, <1>3, <2>1
  <2> HIDE DEF k, l
  <2>4. NestedLess(k, l) <=>
           \/ SeqLess(k[1], l[1])
           \/ k[1] = l[1] /\ SeqLess(k[2], l[2])
           \/ k[1] = l[1] /\ k[2] = l[2] /\ SeqLess(k[3], l[3])
           \/ k[1] = l[1] /\ k[2] = l[2] /\ k[3] = l[3] /\ SeqLess(k[4], l[4])
           \/ k[1] = l[1] /\ k[2] = l[2] /\ k[3] = l[3] /\ k[4] = l[4] /\ SeqLess(k[5], l[5])
    BY <2>2, <2>3, FivePlaces
  <2>5. NestedLess(k, l) <=>
        \/ SeqLess(<<v.epoch>>, <<w.epoch>>)
        \/ <<v.epoch>> = <<w.epoch>> /\ SeqLess(R(v), R(w))
        \/ <<v.epoch>> = <<w.epoch>> /\ R(v) = R(w) /\ SeqLess(PreKey(v), PreKey(w))
        \/ <<v.epoch>> = <<w.epoch>> /\ R(v) = R(w) /\ PreKey(v) = PreKey(w) /\ SeqLess(PostKey(v), PostKey(w))
        \/ <<v.epoch>> = <<w.epoch>> /\ R(v) = R(w) /\ PreKey(v) = PreKey(w) /\ PostKey(v) = PostKey(w)
           /\ SeqLess(DevKey(v), DevKey(w))
    BY <2>2, <2>3, <2>4
  <2>6. QED
    BY <2>5 DEF k, l
<1>8. NestedLess(Key(v, n), Key(w, n)) <=> KeyLess(v, w)
  BY <1>4, <1>5, <1>6, <1>7, PreOrder, PostOrder, DevOrder
  DEF KeyLess, SuffixLess, PreLess, PostLess, DevLess, SamePre, SamePost, SameDev
<1>9. Key(v, n) = Key(w, n) <=> SameKey(v, w)
  BY <1>3, <1>4, <1>6, PreOrder, PostOrder, DevOrder DEF SameKey, SameSuffix, SamePre, SamePost, SameDev
<1>10. QED
  BY <1>8, <1>9

(***************************************************************************)
(* Fields packed in a word                                                 *)
(***************************************************************************)
LEMMA FieldBelow ==
  ASSUME NEW B \in Nat \ {0}, NEW a \in Nat, NEW b \in 0 .. B - 1, NEW c \in Nat, a < c
  PROVE  a * B + b < c * B
<1>1. PICK k \in Nat : c = a + 1 + k
  <2>1. c - a - 1 \in Nat /\ c = a + 1 + (c - a - 1)
    OBVIOUS
  <2>2. QED
    BY <2>1
<1>2. c * B = a * B + B + k * B
  BY <1>1
<1>3. k * B \in Nat
  OBVIOUS
<1>4. QED
  BY <1>2, <1>3

InWord(B, high, low) == high * B + low

(* A high and a low field order a word lexicographically.                  *)
LEMMA PairOrder ==
  ASSUME NEW B \in Nat \ {0}, NEW a \in Nat, NEW c \in Nat, NEW b \in 0 .. B - 1, NEW d \in 0 .. B - 1
  PROVE  /\ InWord(B, a, b) \in Nat
         /\ InWord(B, a, b) < InWord(B, c, d) <=> LexLess(a, b, c, d)
<1>1. a * B \in Nat /\ c * B \in Nat
  OBVIOUS
<1>2. CASE a = c
  BY <1>1, <1>2 DEF LexLess, InWord
<1>3. CASE a < c
  BY <1>1, <1>3, FieldBelow DEF LexLess, InWord
<1>4. CASE c < a
  <2>1. c * B + d < a * B
    BY <1>4, FieldBelow
  <2>2. QED
    BY <1>1, <1>4, <2>1 DEF LexLess, InWord
<1>5. QED
  BY <1>2, <1>3, <1>4

LEMMA PairEqual ==
  ASSUME NEW B \in Nat \ {0}, NEW a \in Nat, NEW c \in Nat, NEW b \in 0 .. B - 1, NEW d \in 0 .. B - 1,
         InWord(B, a, b) = InWord(B, c, d)
  PROVE  a = c /\ b = d
<1>1. InWord(B, a, b) \in Nat /\ InWord(B, c, d) \in Nat
  BY PairOrder
<1>2. ~LexLess(a, b, c, d) /\ ~LexLess(c, d, a, b)
  BY <1>1, PairOrder
<1>3. QED
  BY <1>2 DEF LexLess

Half == MaxSegments \div 2
Word(r, i) == InWord(SegValues, Segment(r, 2 * i - 1), Segment(r, 2 * i))

LEMMA HalfFacts == Half \in Nat /\ MaxSegments = 2 * Half
BY WidthsAssumption DEF Half

LEMMA PackedSegments ==
  ASSUME NEW r \in Seq(Nat), ReleasePackable(r)
  PROVE  /\ \A i \in Places : Segment(r, i) \in 0 .. SegValues - 1
         /\ \A i \in Places : i > MaxSegments => Segment(r, i) = 0
         /\ PackRelease(r) = [i \in 1 .. Half |-> Word(r, i)]
<1>1. ReleaseLen(r) \in 0 .. Len(r) /\ ReleaseLen(r) <= MaxSegments
  BY ReleaseLenFacts DEF ReleasePackable
<1>2. \A i \in Places : Segment(r, i) \in 0 .. SegValues - 1
  <2>1. TAKE i \in Places
  <2>2. CASE i <= ReleaseLen(r)
    <3>1. i \in 1 .. ReleaseLen(r) /\ r[i] \in Nat
      BY <1>1, <2>2 DEF Places
    <3>2. QED
      BY <2>2, <3>1, WidthsAssumption DEF ReleasePackable, Fits, Segment
  <2>3. CASE ~(i <= ReleaseLen(r))
    BY <2>3, WidthsAssumption DEF Segment
  <2>4. QED
    BY <2>2, <2>3
<1>3. \A i \in Places : i > MaxSegments => Segment(r, i) = 0
  BY <1>1, WidthsAssumption DEF Segment, Places
<1>4. PackRelease(r) = [i \in 1 .. Half |-> Word(r, i)]
  <2> DEFINE segs == Padded(Stripped(r), MaxSegments)
  <2>1. segs = [i \in 1 .. MaxSegments |-> Segment(r, i)]
    BY SegmentFacts, WidthsAssumption
  <2>2. PackRelease(r) = [i \in 1 .. Half |-> segs[2 * i - 1] * SegValues + segs[2 * i]]
    BY DEF PackRelease, Half
  <2> HIDE DEF segs
  <2>3. \A i \in 1 .. Half : segs[2 * i - 1] * SegValues + segs[2 * i] = Word(r, i)
    <3>1. TAKE i \in 1 .. Half
    <3>2. 2 * i - 1 \in 1 .. MaxSegments /\ 2 * i \in 1 .. MaxSegments
      BY HalfFacts
    <3>3. segs[2 * i - 1] = Segment(r, 2 * i - 1) /\ segs[2 * i] = Segment(r, 2 * i)
      BY <2>1, <3>2
    <3>4. QED
      BY <3>3 DEF Word, InWord
  <2>4. QED
    BY <2>2, <2>3
<1>5. QED
  BY <1>2, <1>3, <1>4

(* Two packed releases compare word by word as segment by segment.         *)
LEMMA WordOrder ==
  ASSUME NEW r \in Seq(Nat), NEW s \in Seq(Nat), ReleasePackable(r), ReleasePackable(s)
  PROVE  /\ (\E i \in 1 .. Half : (\A j \in 1 .. i - 1 : Word(r, j) = Word(s, j)) /\ Word(r, i) < Word(s, i))
              <=> ReleaseLess(r, s)
         /\ (\A i \in 1 .. Half : Word(r, i) = Word(s, i)) <=> SameReleases(r, s)
         /\ \A i \in 1 .. Half : Word(r, i) \in Nat
<1>1. \A i \in 1 .. Half :
        /\ Word(r, i) \in Nat
        /\ Word(r, i) < Word(s, i) <=>
             LexLess(Segment(r, 2 * i - 1), Segment(r, 2 * i), Segment(s, 2 * i - 1), Segment(s, 2 * i))
        /\ Word(r, i) = Word(s, i) <=>
             Segment(r, 2 * i - 1) = Segment(s, 2 * i - 1) /\ Segment(r, 2 * i) = Segment(s, 2 * i)
  <2>1. TAKE i \in 1 .. Half
  <2>2. 2 * i - 1 \in Places /\ 2 * i \in Places
    BY HalfFacts DEF Places
  <2>3. /\ Segment(r, 2 * i - 1) \in 0 .. SegValues - 1 /\ Segment(r, 2 * i) \in 0 .. SegValues - 1
        /\ Segment(s, 2 * i - 1) \in 0 .. SegValues - 1 /\ Segment(s, 2 * i) \in 0 .. SegValues - 1
    BY <2>2, PackedSegments
  <2>4. SegValues \in Nat \ {0}
    BY WidthsAssumption
  <2> DEFINE a == Segment(r, 2 * i - 1)   b == Segment(r, 2 * i)
             c == Segment(s, 2 * i - 1)   d == Segment(s, 2 * i)
  <2>5. Word(r, i) \in Nat /\ (Word(r, i) < Word(s, i) <=> LexLess(a, b, c, d))
    <3>1. Word(r, i) = InWord(SegValues, a, b) /\ Word(s, i) = InWord(SegValues, c, d)
      BY DEF Word
    <3>2. a \in 0 .. SegValues - 1 /\ b \in 0 .. SegValues - 1 /\ c \in 0 .. SegValues - 1 /\ d \in 0 .. SegValues - 1
      BY <2>3
    <3> HIDE DEF a, b, c, d
    <3>3. a \in Nat /\ c \in Nat
      BY <2>4, <3>2
    <3>4. InWord(SegValues, a, b) \in Nat
      BY <2>4, <3>2, <3>3, PairOrder
    <3>5. InWord(SegValues, a, b) < InWord(SegValues, c, d) <=> LexLess(a, b, c, d)
      BY <2>4, <3>2, <3>3, PairOrder
    <3>6. QED
      BY <3>1, <3>4, <3>5
  <2>6. ASSUME Word(r, i) = Word(s, i)
        PROVE  Segment(r, 2 * i - 1) = Segment(s, 2 * i - 1) /\ Segment(r, 2 * i) = Segment(s, 2 * i)
    BY SMTT(60), <2>3, <2>4, <2>6, PairEqual DEF Word
  <2>7. ASSUME Segment(r, 2 * i - 1) = Segment(s, 2 * i - 1), Segment(r, 2 * i) = Segment(s, 2 * i)
        PROVE  Word(r, i) = Word(s, i)
    BY <2>7 DEF Word
  <2>8. QED
    BY <2>5, <2>6, <2>7
<1>2. \A i \in Places : i > 2 * Half => Segment(r, i) = 0 /\ Segment(s, i) = 0
  BY PackedSegments, HalfFacts
<1>3. \A i \in Places : Segment(r, i) \in Nat /\ Segment(s, i) \in Nat
  BY SegmentFacts
<1>4. \A p \in Places : \E i \in Places : p = 2 * i - 1 \/ p = 2 * i
  <2>1. TAKE p \in Places
  <2>2. (p + 1) \div 2 \in Places /\ (p = 2 * ((p + 1) \div 2) - 1 \/ p = 2 * ((p + 1) \div 2))
    BY DEF Places
  <2>3. QED
    BY <2>2
<1>5. (\A i \in 1 .. Half : Word(r, i) = Word(s, i)) <=> SameReleases(r, s)
  <2>1. ASSUME \A i \in 1 .. Half : Word(r, i) = Word(s, i), NEW p \in Places
        PROVE  Segment(r, p) = Segment(s, p)
    <3>1. PICK i \in Places : p = 2 * i - 1 \/ p = 2 * i
      BY <1>4
    <3>2. CASE i \in 1 .. Half
      BY <1>1, <2>1, <3>1, <3>2
    <3>3. CASE i \notin 1 .. Half
      <4>1. p > 2 * Half
        BY <3>1, <3>3, HalfFacts DEF Places
      <4>2. QED
        BY <1>2, <4>1
    <3>4. QED
      BY <3>2, <3>3
  <2>2. ASSUME SameReleases(r, s), NEW i \in 1 .. Half PROVE Word(r, i) = Word(s, i)
    <3>1. 2 * i - 1 \in Places /\ 2 * i \in Places
      BY HalfFacts DEF Places
    <3>2. QED
      BY <2>2, <3>1 DEF SameReleases, Word
  <2>3. QED
    BY <2>1, <2>2 DEF SameReleases
<1>6. ASSUME NEW i \in 1 .. Half, \A j \in 1 .. i - 1 : Word(r, j) = Word(s, j), Word(r, i) < Word(s, i)
      PROVE  ReleaseLess(r, s)
  <2>1. \A p \in 1 .. 2 * i - 2 : Segment(r, p) = Segment(s, p)
    <3>1. TAKE p \in 1 .. 2 * i - 2
    <3>2. PICK j \in Places : p = 2 * j - 1 \/ p = 2 * j
      <4>1. p \in Places
        BY HalfFacts DEF Places
      <4>2. QED
        BY <1>4, <4>1
    <3>3. j \in 1 .. i - 1 /\ j \in 1 .. Half
      BY <3>2, HalfFacts DEF Places
    <3>4. QED
      BY <1>1, <1>6, <3>2, <3>3
  <2>2. 2 * i - 1 \in Places /\ 2 * i \in Places
    BY HalfFacts DEF Places
  <2>3. CASE Segment(r, 2 * i - 1) < Segment(s, 2 * i - 1)
    <3>1. \A p \in 1 .. (2 * i - 1) - 1 : Segment(r, p) = Segment(s, p)
      BY <2>1, HalfFacts
    <3>2. QED
      BY <2>2, <2>3, <3>1 DEF ReleaseLess
  <2>4. CASE Segment(r, 2 * i - 1) = Segment(s, 2 * i - 1) /\ Segment(r, 2 * i) < Segment(s, 2 * i)
    <3>1. \A p \in 1 .. 2 * i - 1 : p \in 1 .. 2 * i - 2 \/ p = 2 * i - 1
      BY HalfFacts
    <3>2. \A p \in 1 .. 2 * i - 1 : Segment(r, p) = Segment(s, p)
      BY <2>1, <2>4, <3>1
    <3>3. QED
      BY <2>2, <2>4, <3>2 DEF ReleaseLess
  <2>5. QED
    BY <1>1, <1>6, <2>3, <2>4 DEF LexLess
<1>7. ASSUME NEW p \in Places, \A q \in 1 .. p - 1 : Segment(r, q) = Segment(s, q), Segment(r, p) < Segment(s, p)
      PROVE  \E i \in 1 .. Half : (\A j \in 1 .. i - 1 : Word(r, j) = Word(s, j)) /\ Word(r, i) < Word(s, i)
  <2>1. PICK i \in Places : p = 2 * i - 1 \/ p = 2 * i
    BY <1>4
  <2>2. p <= 2 * Half
    BY <1>2, <1>3, <1>7, HalfFacts DEF Places
  <2>3. i \in 1 .. Half
    BY <2>1, <2>2, HalfFacts DEF Places
  <2>4. \A j \in 1 .. i - 1 : Word(r, j) = Word(s, j)
    <3>1. TAKE j \in 1 .. i - 1
    <3>2. 2 * j - 1 \in 1 .. p - 1 /\ 2 * j \in 1 .. p - 1
      BY <2>1 DEF Places
    <3>3. QED
      BY <1>7, <3>2 DEF Word
  <2>5. LexLess(Segment(r, 2 * i - 1), Segment(r, 2 * i), Segment(s, 2 * i - 1), Segment(s, 2 * i))
    <3>1. CASE p = 2 * i - 1
      BY <1>7, <3>1 DEF LexLess
    <3>2. CASE p = 2 * i
      <4>1. 2 * i - 1 \in 1 .. p - 1
        BY <3>2 DEF Places
      <4>2. QED
        BY <1>7, <3>2, <4>1 DEF LexLess
    <3>3. QED
      BY <2>1, <3>1, <3>2
  <2>6. QED
    BY <1>1, <2>3, <2>4, <2>5
<1>8. QED
  BY <1>1, <1>5, <1>6, <1>7 DEF ReleaseLess

(***************************************************************************)
(* The suffix word                                                         *)
(***************************************************************************)
PreWord(v)      == InWord(PreValues, PreClass(v), PreNumber(v))
PostFlagWord(v) == InWord(2, PreWord(v), PostFlag(v))
PostWord(v)     == InWord(PostValues, PostFlagWord(v), PostNumber(v))
DevFlagWord(v)  == InWord(2, PostWord(v), DevAbsent(v))
DevWord(v)      == InWord(DevValues, DevFlagWord(v), DevNumber(v))

LEMMA PackedFields ==
  ASSUME NEW v \in ParsedVersion, Packable(v)
  PROVE  /\ PreNumber(v) \in 0 .. PreValues - 1
         /\ PostNumber(v) \in 0 .. PostValues - 1
         /\ DevNumber(v) \in 0 .. DevValues - 1
<1>1. PreNumber(v) \in Nat /\ PostNumber(v) \in Nat /\ DevNumber(v) \in Nat
  BY FieldTypes
<1>2. {PreValues, PostValues, DevValues} \subseteq Nat \ {0}
  BY WidthsAssumption
<1>3. /\ Absent(v.pre) \/ v.pre[2] <= PreValues - 1
      /\ Absent(v.post) \/ v.post[1] <= PostValues - 1
      /\ Absent(v.dev) \/ v.dev[1] <= DevValues - 1
  BY DEF Packable, Fits
<1>4. PreNumber(v) <= PreValues - 1 /\ PostNumber(v) <= PostValues - 1 /\ DevNumber(v) <= DevValues - 1
  BY <1>2, <1>3 DEF PreNumber, PostNumber, DevNumber
<1>5. QED
  BY <1>1, <1>2, <1>4

(* Nothing is lost off the end of the word.                                *)
LEMMA SuffixFits ==
  ASSUME NEW v \in ParsedVersion, Packable(v)
  PROVE  PackSuffix(v) = DevWord(v) /\ DevWord(v) \in Nat
<1> DEFINE P == PreValues   Q == PostValues   D == DevValues
           cl == PreClass(v)    rn == PreNumber(v)
           pf == PostFlag(v)    pn == PostNumber(v)
           df == DevAbsent(v)   dn == DevNumber(v)
<1>1. P \in Nat \ {0} /\ Q \in Nat \ {0} /\ D \in Nat \ {0}
  BY WidthsAssumption
<1>2. cl \in 0 .. 4 /\ pf \in 0 .. 1 /\ df \in 0 .. 1
  BY FieldTypes
<1>3. rn \in 0 .. P - 1 /\ pn \in 0 .. Q - 1 /\ dn \in 0 .. D - 1
  BY PackedFields
<1>4. PackSuffix(v) =
        (dn + df * D + pn * (D * 2) + pf * (D * 2 * Q) + rn * (D * 2 * Q * 2) + cl * (D * 2 * Q * 2 * P))
          % (D * 2 * Q * 2 * P * 8)
  BY DEF PackSuffix, DevFlagUnit, PostUnit, PostFlagUnit, PreUnit, PreClassUnit, SuffixWord,
         PreNumber, PostFlag, PostNumber, DevAbsent, DevNumber
<1>5. DevWord(v) = ((((cl * P + rn) * 2 + pf) * Q + pn) * 2 + df) * D + dn
  BY DEF DevWord, DevFlagWord, PostWord, PostFlagWord, PreWord, InWord
<1> HIDE DEF P, Q, D, cl, rn, pf, pn, df, dn
<1> DEFINE w1 == cl * P + rn   w2 == w1 * 2 + pf   w3 == w2 * Q + pn   w4 == w3 * 2 + df   w5 == w4 * D + dn
           P8 == 8 * P   P16 == P8 * 2   Q16 == P16 * Q   Q32 == Q16 * 2   D32 == Q32 * D
<1>6. w5 = dn + df * D + pn * (D * 2) + pf * (D * 2 * Q) + rn * (D * 2 * Q * 2) + cl * (D * 2 * Q * 2 * P)
  BY <1>1, <1>2, <1>3
<1>7. D32 = D * 2 * Q * 2 * P * 8
  BY <1>1
<1>8. w1 \in Nat /\ w1 < P8 /\ P8 \in Nat
  BY <1>1, <1>2, <1>3, FieldBelow
<1> HIDE DEF w1, P8
<1>9. w2 \in Nat /\ w2 < P16 /\ P16 \in Nat
  BY <1>1, <1>2, <1>8
<1> HIDE DEF w2, P16
<1>10. w3 \in Nat /\ w3 < Q16 /\ Q16 \in Nat
  BY <1>1, <1>3, <1>9, FieldBelow
<1> HIDE DEF w3, Q16
<1>11. w4 \in Nat /\ w4 < Q32 /\ Q32 \in Nat
  BY <1>2, <1>10
<1> HIDE DEF w4, Q32
<1>12. w5 \in Nat /\ w5 < D32 /\ D32 \in Nat
  BY <1>1, <1>3, <1>11, FieldBelow
<1> HIDE DEF w5, D32
<1>13. w5 % D32 = w5
  BY <1>12
<1>14. DevWord(v) = w5
  BY <1>5 DEF w5, w4, w3, w2, w1
<1>15. PackSuffix(v) = w5 % D32
  BY <1>4, <1>6, <1>7
<1>16. QED
  BY <1>12, <1>13, <1>14, <1>15

LEMMA SuffixOrder ==
  ASSUME NEW v \in ParsedVersion, NEW w \in ParsedVersion, Packable(v), Packable(w)
  PROVE  /\ PackSuffix(v) < PackSuffix(w) <=> SuffixLess(v, w)
         /\ PackSuffix(v) = PackSuffix(w) <=> SameSuffix(v, w)
         /\ PackSuffix(v) \in Nat
<1>1. PreValues \in Nat \ {0} /\ PostValues \in Nat \ {0} /\ DevValues \in Nat \ {0} /\ 2 \in Nat \ {0}
  BY WidthsAssumption
<1>2. /\ PreClass(v) \in Nat /\ PostFlag(v) \in 0 .. 2 - 1 /\ DevAbsent(v) \in 0 .. 2 - 1
      /\ PreClass(w) \in Nat /\ PostFlag(w) \in 0 .. 2 - 1 /\ DevAbsent(w) \in 0 .. 2 - 1
  BY FieldTypes
<1>3. /\ PreNumber(v) \in 0 .. PreValues - 1 /\ PostNumber(v) \in 0 .. PostValues - 1
      /\ PreNumber(w) \in 0 .. PreValues - 1 /\ PostNumber(w) \in 0 .. PostValues - 1
      /\ DevNumber(v) \in 0 .. DevValues - 1 /\ DevNumber(w) \in 0 .. DevValues - 1
  BY PackedFields
<1>4. /\ PreWord(v) \in Nat /\ PreWord(w) \in Nat
      /\ PreWord(v) < PreWord(w) <=> PreLess(v, w)
      /\ PreWord(v) = PreWord(w) <=> SamePre(v, w)
  <2>1. PreWord(v) \in Nat
    BY <1>1, <1>2, <1>3, PairOrder DEF PreWord
  <2>2. PreWord(w) \in Nat
    BY <1>1, <1>2, <1>3, PairOrder DEF PreWord
  <2>3. PreWord(v) < PreWord(w) <=> PreLess(v, w)
    BY <1>1, <1>2, <1>3, PairOrder DEF PreWord, PreLess
  <2>4. PreWord(v) = PreWord(w) <=> SamePre(v, w)
    BY <1>1, <1>2, <1>3, PairEqual DEF PreWord, SamePre
  <2>5. QED
    BY <2>1, <2>2, <2>3, <2>4
<1>5. /\ PostFlagWord(v) \in Nat /\ PostFlagWord(w) \in Nat
      /\ PostFlagWord(v) < PostFlagWord(w) <=> LexLess(PreWord(v), PostFlag(v), PreWord(w), PostFlag(w))
      /\ PostFlagWord(v) = PostFlagWord(w) <=> PreWord(v) = PreWord(w) /\ PostFlag(v) = PostFlag(w)
  <2>1. PostFlagWord(v) \in Nat /\ PostFlagWord(w) \in Nat
    BY <1>1, <1>2, <1>4, PairOrder DEF PostFlagWord
  <2>2. PostFlagWord(v) < PostFlagWord(w) <=> LexLess(PreWord(v), PostFlag(v), PreWord(w), PostFlag(w))
    BY <1>1, <1>2, <1>4, PairOrder DEF PostFlagWord
  <2>3. PostFlagWord(v) = PostFlagWord(w) <=> PreWord(v) = PreWord(w) /\ PostFlag(v) = PostFlag(w)
    BY <1>1, <1>2, <1>4, PairEqual DEF PostFlagWord
  <2>4. QED
    BY <2>1, <2>2, <2>3
<1>6. /\ PostWord(v) \in Nat /\ PostWord(w) \in Nat
      /\ PostWord(v) < PostWord(w) <=> LexLess(PostFlagWord(v), PostNumber(v), PostFlagWord(w), PostNumber(w))
      /\ PostWord(v) = PostWord(w) <=> PostFlagWord(v) = PostFlagWord(w) /\ PostNumber(v) = PostNumber(w)
  <2>1. PostWord(v) \in Nat /\ PostWord(w) \in Nat
    BY <1>1, <1>3, <1>5, PairOrder DEF PostWord
  <2>2. PostWord(v) < PostWord(w) <=> LexLess(PostFlagWord(v), PostNumber(v), PostFlagWord(w), PostNumber(w))
    BY <1>1, <1>3, <1>5, PairOrder DEF PostWord
  <2>3. PostWord(v) = PostWord(w) <=> PostFlagWord(v) = PostFlagWord(w) /\ PostNumber(v) = PostNumber(w)
    BY <1>1, <1>3, <1>5, PairEqual DEF PostWord
  <2>4. QED
    BY <2>1, <2>2, <2>3
<1>7. /\ DevFlagWord(v) \in Nat /\ DevFlagWord(w) \in Nat
      /\ DevFlagWord(v) < DevFlagWord(w) <=> LexLess(PostWord(v), DevAbsent(v), PostWord(w), DevAbsent(w))
      /\ DevFlagWord(v) = DevFlagWord(w) <=> PostWord(v) = PostWord(w) /\ DevAbsent(v) = DevAbsent(w)
  <2>1. DevFlagWord(v) \in Nat /\ DevFlagWord(w) \in Nat
    BY <1>1, <1>2, <1>6, PairOrder DEF DevFlagWord
  <2>2. DevFlagWord(v) < DevFlagWord(w) <=> LexLess(PostWord(v), DevAbsent(v), PostWord(w), DevAbsent(w))
    BY <1>1, <1>2, <1>6, PairOrder DEF DevFlagWord
  <2>3. DevFlagWord(v) = DevFlagWord(w) <=> PostWord(v) = PostWord(w) /\ DevAbsent(v) = DevAbsent(w)
    BY <1>1, <1>2, <1>6, PairEqual DEF DevFlagWord
  <2>4. QED
    BY <2>1, <2>2, <2>3
<1>8. /\ DevWord(v) \in Nat /\ DevWord(w) \in Nat
      /\ DevWord(v) < DevWord(w) <=> LexLess(DevFlagWord(v), DevNumber(v), DevFlagWord(w), DevNumber(w))
      /\ DevWord(v) = DevWord(w) <=> DevFlagWord(v) = DevFlagWord(w) /\ DevNumber(v) = DevNumber(w)
  <2>1. DevWord(v) \in Nat /\ DevWord(w) \in Nat
    BY <1>1, <1>3, <1>7, PairOrder DEF DevWord
  <2>2. DevWord(v) < DevWord(w) <=> LexLess(DevFlagWord(v), DevNumber(v), DevFlagWord(w), DevNumber(w))
    BY <1>1, <1>3, <1>7, PairOrder DEF DevWord
  <2>3. DevWord(v) = DevWord(w) <=> DevFlagWord(v) = DevFlagWord(w) /\ DevNumber(v) = DevNumber(w)
    BY <1>1, <1>3, <1>7, PairEqual DEF DevWord
  <2>4. QED
    BY <2>1, <2>2, <2>3
<1>9. DevWord(v) < DevWord(w) <=> SuffixLess(v, w)
  <2>1. PostFlag(v) \in Int /\ PostFlag(w) \in Int /\ DevAbsent(v) \in Int /\ DevAbsent(w) \in Int
        /\ PostNumber(v) \in Int /\ PostNumber(w) \in Int /\ DevNumber(v) \in Int /\ DevNumber(w) \in Int
    BY <1>2, <1>3
  <2>2. PostFlagWord(v) < PostFlagWord(w) <=> PreLess(v, w) \/ (SamePre(v, w) /\ PostFlag(v) < PostFlag(w))
    BY <1>4, <1>5 DEF LexLess
  <2>3. PostWord(v) < PostWord(w) <=> PreLess(v, w) \/ (SamePre(v, w) /\ PostLess(v, w))
    BY <1>4, <1>5, <1>6, <2>2 DEF LexLess, PostLess
  <2>4. PostWord(v) = PostWord(w) <=> SamePre(v, w) /\ SamePost(v, w)
    BY <1>4, <1>5, <1>6 DEF SamePost
  <2>5. DevWord(v) < DevWord(w) <=> PostWord(v) < PostWord(w) \/ (PostWord(v) = PostWord(w) /\ DevLess(v, w))
    BY <1>7, <1>8 DEF LexLess, DevLess
  <2>6. QED
    BY <2>3, <2>4, <2>5 DEF SuffixLess
<1>10. DevWord(v) = DevWord(w) <=> SameSuffix(v, w)
  BY <1>4, <1>5, <1>6, <1>7, <1>8 DEF SameSuffix, SamePost, SameDev
<1>11. QED
  BY <1>8, <1>9, <1>10, SuffixFits

(***************************************************************************)
(* The two comparisons                                                     *)
(***************************************************************************)
LEMMA PackedOrder ==
  ASSUME NEW v \in ParsedVersion, NEW w \in ParsedVersion, Packable(v), Packable(w)
  PROVE  SeqLess(PackVersion(v), PackVersion(w)) <=> KeyLess(v, w)
<1> DEFINE k == PackVersion(v)
           l == PackVersion(w)
<1>1. /\ v.release \in Seq(Nat) /\ ReleasePackable(v.release) /\ v.epoch = 0
      /\ w.release \in Seq(Nat) /\ ReleasePackable(w.release) /\ w.epoch = 0
  BY DEF Packable, ParsedVersion
<1>2. /\ PackRelease(v.release) = [i \in 1 .. Half |-> Word(v.release, i)]
      /\ PackRelease(w.release) = [i \in 1 .. Half |-> Word(w.release, i)]
      /\ Half \in Nat
  BY <1>1, PackedSegments, HalfFacts
<1>3. \A i \in 1 .. Half : Word(v.release, i) \in Nat /\ Word(w.release, i) \in Nat
  BY <1>1, WordOrder
<1>4. PackSuffix(v) \in Nat /\ PackSuffix(w) \in Nat
  BY SuffixOrder
<1>5. /\ k \in Seq(Int) /\ Len(k) = Half + 1
      /\ \A i \in 1 .. Half : k[i] = Word(v.release, i)
      /\ k[Half + 1] = PackSuffix(v)
  BY <1>2, <1>3, <1>4 DEF PackVersion
<1>6. /\ l \in Seq(Int) /\ Len(l) = Half + 1
      /\ \A i \in 1 .. Half : l[i] = Word(w.release, i)
      /\ l[Half + 1] = PackSuffix(w)
  BY <1>2, <1>3, <1>4 DEF PackVersion
<1> HIDE DEF k, l
<1>7. SeqLess(k, l) <=>
        \E i \in 1 .. Len(l) :
          i <= Len(k) + 1 /\ (\A j \in 1 .. i - 1 : k[j] = l[j]) /\ (i > Len(k) \/ k[i] < l[i])
  BY <1>5, <1>6, SeqLessByPlace
<1>8. SeqLess(k, l) <=>
        \/ \E i \in 1 .. Half : (\A j \in 1 .. i - 1 : k[j] = l[j]) /\ k[i] < l[i]
        \/ (\A j \in 1 .. Half : k[j] = l[j]) /\ k[Half + 1] < l[Half + 1]
  <2>1. 1 .. Len(l) = (1 .. Half) \cup {Half + 1} /\ (Half + 1) - 1 = Half
    BY <1>2, <1>6
  <2>2. \A i \in 1 .. Len(l) : i <= Len(k) + 1 /\ ~(i > Len(k))
    BY <1>2, <1>5, <1>6
  <2>3. QED
    BY <1>7, <2>1, <2>2
<1>9. (\E i \in 1 .. Half : (\A j \in 1 .. i - 1 : k[j] = l[j]) /\ k[i] < l[i]) <=> ReleaseLess(v.release, w.release)
  <2>1. \A i \in 1 .. Half : \A j \in 1 .. i - 1 : j \in 1 .. Half
    BY <1>2
  <2>2. (\E i \in 1 .. Half : (\A j \in 1 .. i - 1 : k[j] = l[j]) /\ k[i] < l[i]) <=>
          \E i \in 1 .. Half :
            /\ \A j \in 1 .. i - 1 : Word(v.release, j) = Word(w.release, j)
            /\ Word(v.release, i) < Word(w.release, i)
    BY <1>5, <1>6, <2>1
  <2>3. QED
    BY <1>1, <2>2, WordOrder
<1>10. (\A j \in 1 .. Half : k[j] = l[j]) <=> SameReleases(v.release, w.release)
  <2>1. (\A j \in 1 .. Half : k[j] = l[j]) <=> \A j \in 1 .. Half : Word(v.release, j) = Word(w.release, j)
    BY <1>5, <1>6
  <2>2. QED
    BY <1>1, <2>1, WordOrder
<1>11. k[Half + 1] < l[Half + 1] <=> SuffixLess(v, w)
  BY <1>5, <1>6, SuffixOrder
<1>12. SeqLess(k, l) <=> KeyLess(v, w)
  BY <1>1, <1>8, <1>9, <1>10, <1>11 DEF KeyLess
<1>13. QED
  BY <1>12 DEF k, l

LEMMA GeneralOrder ==
  ASSUME NEW v \in ParsedVersion, NEW w \in ParsedVersion
  PROVE  CompareKeys(v, w) =
           SignOf(KeyLess(v, w) \/ (SameKey(v, w) /\ LocalLess(v, w)),
                  KeyLess(w, v) \/ (SameKey(v, w) /\ LocalLess(w, v)))
<1> DEFINE n == IF Len(v.release) > Len(w.release) THEN Len(v.release) ELSE Len(w.release)
<1>1. v.release \in Seq(Nat) /\ w.release \in Seq(Nat)
  BY DEF ParsedVersion
<1>2. n \in Nat /\ ReleaseLen(v.release) <= n /\ ReleaseLen(w.release) <= n
  BY <1>1, ReleaseLenFacts
<1>3. CompareKeys(v, w) =
        SignOf(NestedLess(Key(v, n), Key(w, n)) \/ (Key(v, n) = Key(w, n) /\ LocalLess(v, w)),
               NestedLess(Key(w, n), Key(v, n)) \/ (Key(v, n) = Key(w, n) /\ LocalLess(w, v)))
  BY DEF CompareKeys
<1> HIDE DEF n
<1>4. NestedLess(Key(v, n), Key(w, n)) <=> KeyLess(v, w)
  BY <1>2, KeyByField
<1>5. NestedLess(Key(w, n), Key(v, n)) <=> KeyLess(w, v)
  BY <1>2, KeyByField
<1>6. Key(v, n) = Key(w, n) <=> SameKey(v, w)
  BY <1>2, KeyByField
<1>7. QED
  BY <1>3, <1>4, <1>5, <1>6 DEF SignOf

(* The packed words are an optimisation nobody can observe: two versions   *)
(* that both have them compare as their keys do (comparePacked against     *)
(* compareGeneral), whatever the widths of the fields and however many     *)
(* segments a word holds.                                                  *)
THEOREM PackedIsGeneral ==
  \A v, w \in ParsedVersion : Packable(v) /\ Packable(w) => Compare(v, w) = CompareKeys(v, w)
<1> SUFFICES ASSUME NEW v \in ParsedVersion, NEW w \in ParsedVersion, Packable(v), Packable(w)
             PROVE  Compare(v, w) = CompareKeys(v, w)
  OBVIOUS
<1>1. Compare(v, w) = SignOf(SeqLess(PackVersion(v), PackVersion(w)), SeqLess(PackVersion(w), PackVersion(v)))
  BY DEF Compare, ComparePacked
<1>2. v.local = <<>> /\ w.local = <<>>
  BY DEF Packable, Absent
<1>3. ~LocalLess(v, w) /\ ~LocalLess(w, v)
  BY <1>2 DEF LocalLess, NestedLess
<1>4. SeqLess(PackVersion(v), PackVersion(w)) <=> KeyLess(v, w)
  BY PackedOrder
<1>5. SeqLess(PackVersion(w), PackVersion(v)) <=> KeyLess(w, v)
  BY PackedOrder
<1>6. QED
  BY <1>1, <1>3, <1>4, <1>5, GeneralOrder DEF SignOf

(***************************************************************************)
(* One order of all versions                                               *)
(***************************************************************************)
StrictOrder(S, R) ==
  /\ \A a \in S : <<a, a>> \notin R
  /\ \A a, b, c \in S : <<a, b>> \in R /\ <<b, c>> \in R => <<a, c>> \in R
  /\ \A a, b \in S : a # b => <<a, b>> \in R \/ <<b, a>> \in R

\* The first place where they differ decides.
ByPlace(R, f, g) == \E i \in Places : (\A j \in 1 .. i - 1 : f[j] = g[j]) /\ <<f[i], g[i]>> \in R

LEMMA ByPlaceOrder ==
  ASSUME NEW S, NEW R, StrictOrder(S, R),
         NEW f \in [Places -> S], NEW g \in [Places -> S], NEW h \in [Places -> S]
  PROVE  /\ ~ByPlace(R, f, f)
         /\ ByPlace(R, f, g) /\ ByPlace(R, g, h) => ByPlace(R, f, h)
         /\ f # g => ByPlace(R, f, g) \/ ByPlace(R, g, f)
<1>1. ~ByPlace(R, f, f)
  BY DEF StrictOrder, ByPlace
<1>2. ASSUME ByPlace(R, f, g), ByPlace(R, g, h) PROVE ByPlace(R, f, h)
  <2>1. PICK p \in Places : (\A j \in 1 .. p - 1 : f[j] = g[j]) /\ <<f[p], g[p]>> \in R
    BY <1>2 DEF ByPlace
  <2>2. PICK q \in Places : (\A j \in 1 .. q - 1 : g[j] = h[j]) /\ <<g[q], h[q]>> \in R
    BY <1>2 DEF ByPlace
  <2>3. CASE p < q
    <3>1. p \in 1 .. q - 1 /\ \A j \in 1 .. p - 1 : j \in 1 .. q - 1
      BY <2>3 DEF Places
    <3>2. (\A j \in 1 .. p - 1 : f[j] = h[j]) /\ <<f[p], h[p]>> \in R
      BY <2>1, <2>2, <3>1
    <3>3. QED
      BY <3>2 DEF ByPlace
  <2>4. CASE q < p
    <3>1. q \in 1 .. p - 1 /\ \A j \in 1 .. q - 1 : j \in 1 .. p - 1
      BY <2>4 DEF Places
    <3>2. (\A j \in 1 .. q - 1 : f[j] = h[j]) /\ <<f[q], h[q]>> \in R
      BY <2>1, <2>2, <3>1
    <3>3. QED
      BY <3>2 DEF ByPlace
  <2>5. CASE p = q
    <3>1. <<f[p], h[p]>> \in R
      BY <2>1, <2>2, <2>5 DEF StrictOrder
    <3>2. \A j \in 1 .. p - 1 : f[j] = h[j]
      BY <2>1, <2>2, <2>5
    <3>3. QED
      BY <3>1, <3>2 DEF ByPlace
  <2>6. QED
    BY <2>3, <2>4, <2>5 DEF Places
<1>3. ASSUME f # g PROVE ByPlace(R, f, g) \/ ByPlace(R, g, f)
  <2> DEFINE T == {i \in Places : f[i] # g[i]}
  <2>1. T \in SUBSET Nat /\ T # {}
    BY <1>3 DEF Places
  <2>2. PICK i \in T : \A k \in T : i <= k
    BY <2>1, LeastNatural
  <2>3. \A j \in 1 .. i - 1 : f[j] = g[j]
    BY <2>2 DEF Places
  <2>4. <<f[i], g[i]>> \in R \/ <<g[i], f[i]>> \in R
    BY DEF StrictOrder
  <2>5. QED
    BY <2>3, <2>4 DEF ByPlace
<1>4. QED
  BY <1>1, <1>2, <1>3

Below == {p \in Int \X Int : p[1] < p[2]}

LEMMA BelowOrder == StrictOrder(Int, Below)
BY DEF StrictOrder, Below

ReleaseOf(v) == [i \in Places |-> Segment(v.release, i)]

LEMMA ReleaseOrder ==
  ASSUME NEW v \in ParsedVersion, NEW w \in ParsedVersion
  PROVE  /\ ReleaseOf(v) \in [Places -> Int]
         /\ ReleaseLess(v.release, w.release) <=> ByPlace(Below, ReleaseOf(v), ReleaseOf(w))
         /\ SameReleases(v.release, w.release) <=> ReleaseOf(v) = ReleaseOf(w)
<1>1. \A i \in Places : Segment(v.release, i) \in Int /\ Segment(w.release, i) \in Int
  BY SegmentFacts DEF ParsedVersion
<1>2. /\ ReleaseOf(v) \in [Places -> Int]
      /\ \A i \in Places : ReleaseOf(v)[i] = Segment(v.release, i) /\ ReleaseOf(w)[i] = Segment(w.release, i)
  BY <1>1 DEF ReleaseOf
<1>3. \A i \in Places : <<ReleaseOf(v)[i], ReleaseOf(w)[i]>> \in Below
                          <=> Segment(v.release, i) < Segment(w.release, i)
  BY <1>1, <1>2 DEF Below
<1>4. \A i \in Places : \A j \in 1 .. i - 1 : j \in Places
  BY DEF Places
<1>5. ReleaseLess(v.release, w.release) <=> ByPlace(Below, ReleaseOf(v), ReleaseOf(w))
  BY <1>2, <1>3, <1>4 DEF ReleaseLess, ByPlace
<1>6. SameReleases(v.release, w.release) <=> ReleaseOf(v) = ReleaseOf(w)
  BY <1>2 DEF SameReleases, ReleaseOf
<1>7. QED
  BY <1>2, <1>5, <1>6

(* A sequence goes on for ever with what is below every element.           *)
Endless(s, end) == [i \in Places |-> IF i <= Len(s) THEN s[i] ELSE end]

LEMMA EndlessNumbers ==
  ASSUME NEW s \in Seq(Nat), NEW t \in Seq(Nat)
  PROVE  /\ Endless(s, -1) \in [Places -> Int]
         /\ SeqLess(s, t) <=> ByPlace(Below, Endless(s, -1), Endless(t, -1))
         /\ Endless(s, -1) = Endless(t, -1) => s = t
<1> DEFINE f == Endless(s, -1)
           g == Endless(t, -1)
<1>1. s \in Seq(Int) /\ t \in Seq(Int) /\ Len(s) \in Nat /\ Len(t) \in Nat
      /\ (\A i \in 1 .. Len(s) : s[i] \in Nat) /\ (\A i \in 1 .. Len(t) : t[i] \in Nat)
  OBVIOUS
<1>2. \A i \in Places : /\ f[i] = IF i <= Len(s) THEN s[i] ELSE -1
                        /\ g[i] = IF i <= Len(t) THEN t[i] ELSE -1
  BY DEF Endless
<1>3. \A i \in Places : /\ i <= Len(s) => f[i] = s[i] /\ f[i] \in Nat
                        /\ i <= Len(t) => g[i] = t[i] /\ g[i] \in Nat
                        /\ i > Len(s) => f[i] = -1
                        /\ i > Len(t) => g[i] = -1
                        /\ f[i] \in Int /\ g[i] \in Int
  BY <1>1, <1>2 DEF Places
<1>4. f \in [Places -> Int] /\ g \in [Places -> Int]
  BY <1>3 DEF Endless
<1> HIDE DEF f, g
<1>5. ByPlace(Below, f, g) <=> \E i \in Places : (\A j \in 1 .. i - 1 : f[j] = g[j]) /\ f[i] < g[i]
  BY <1>3 DEF ByPlace, Below
<1>6. SeqLess(s, t) <=>
        \E i \in 1 .. Len(t) :
          i <= Len(s) + 1 /\ (\A j \in 1 .. i - 1 : s[j] = t[j]) /\ (i > Len(s) \/ s[i] < t[i])
  BY <1>1, SeqLessByPlace
<1>7. ASSUME NEW i \in 1 .. Len(t), i <= Len(s) + 1, \A j \in 1 .. i - 1 : s[j] = t[j], i > Len(s) \/ s[i] < t[i]
      PROVE  i \in Places /\ (\A j \in 1 .. i - 1 : f[j] = g[j]) /\ f[i] < g[i]
  <2>1. i \in Places /\ \A j \in 1 .. i - 1 : j \in Places /\ j <= Len(s) /\ j <= Len(t)
    BY <1>1, <1>7 DEF Places
  <2>2. \A j \in 1 .. i - 1 : f[j] = g[j]
    BY <1>3, <1>7, <2>1
  <2>3. f[i] < g[i]
    BY <1>1, <1>3, <1>7, <2>1
  <2>4. QED
    BY <2>1, <2>2, <2>3
<1>8. ASSUME NEW i \in Places, \A j \in 1 .. i - 1 : f[j] = g[j], f[i] < g[i]
      PROVE  /\ i \in 1 .. Len(t) /\ i <= Len(s) + 1
             /\ (\A j \in 1 .. i - 1 : s[j] = t[j]) /\ (i > Len(s) \/ s[i] < t[i])
  <2>1. i \in 1 .. Len(t)
    <3>1. f[i] \in Int /\ (i <= Len(s) => f[i] \in Nat) /\ (i > Len(s) => f[i] = -1)
      BY <1>3, <1>8
    <3>2. ~(i > Len(t))
      <4>1. i > Len(t) => g[i] = -1
        BY <1>3, <1>8
      <4>2. i <= Len(s) \/ i > Len(s)
        BY <1>1 DEF Places
      <4>3. QED
        BY <1>8, <3>1, <4>1, <4>2
    <3>3. QED
      BY <1>1, <3>2 DEF Places
  <2>2. ASSUME i > Len(s) + 1 PROVE FALSE
    <3>1. i - 1 \in Places /\ i - 1 \in 1 .. i - 1 /\ i - 1 > Len(s) /\ i - 1 <= Len(t)
      BY <1>1, <2>1, <2>2 DEF Places
    <3>2. f[i - 1] = -1 /\ g[i - 1] \in Nat /\ f[i - 1] = g[i - 1]
      BY <1>3, <1>8, <3>1
    <3>3. QED
      BY <3>2
  <2>3. \A j \in 1 .. i - 1 : j \in Places /\ j <= Len(s) /\ j <= Len(t)
    BY <1>1, <2>1, <2>2 DEF Places
  <2>4. \A j \in 1 .. i - 1 : s[j] = t[j]
    BY <1>3, <1>8, <2>3
  <2>5. i > Len(s) \/ s[i] < t[i]
    BY SMTT(60), <1>1, <1>3, <1>8, <2>1
  <2>6. QED
    BY <1>1, <2>1, <2>2, <2>4, <2>5
<1>9. SeqLess(s, t) <=> ByPlace(Below, f, g)
  BY <1>5, <1>6, <1>7, <1>8
<1>10. ASSUME f = g PROVE s = t
  <2>1. Len(s) = Len(t)
    <3>1. CASE Len(s) < Len(t)
      BY <1>1, <1>3, <1>10, <3>1, Len(t) \in Places DEF Places
    <3>2. CASE Len(t) < Len(s)
      BY SMTT(60), <1>1, <1>3, <1>10, <3>2, Len(s) \in Places DEF Places
    <3>3. QED
      BY <1>1, <3>1, <3>2
  <2>2. \A i \in 1 .. Len(s) : s[i] = t[i]
    BY <1>1, <1>3, <1>10, <2>1 DEF Places
  <2>3. QED
    BY SMTT(60), <1>1, <2>1, <2>2
<1>11. QED
  BY <1>4, <1>9, <1>10 DEF f, g

BelowSeq == {p \in Seq(Nat) \X Seq(Nat) : SeqLess(p[1], p[2])}

LEMMA BelowSeqOrder == StrictOrder(Seq(Nat), BelowSeq)
<1>1. ASSUME NEW a \in Seq(Nat), NEW b \in Seq(Nat), NEW c \in Seq(Nat)
      PROVE  /\ ~SeqLess(a, a)
             /\ SeqLess(a, b) /\ SeqLess(b, c) => SeqLess(a, c)
             /\ a # b => SeqLess(a, b) \/ SeqLess(b, a)
  <2> DEFINE f == Endless(a, -1)
             g == Endless(b, -1)
             h == Endless(c, -1)
  <2>1. f \in [Places -> Int] /\ g \in [Places -> Int] /\ h \in [Places -> Int]
    BY EndlessNumbers
  <2>2. /\ SeqLess(a, a) <=> ByPlace(Below, f, f)
        /\ SeqLess(a, b) <=> ByPlace(Below, f, g)
        /\ SeqLess(b, a) <=> ByPlace(Below, g, f)
        /\ SeqLess(b, c) <=> ByPlace(Below, g, h)
        /\ SeqLess(a, c) <=> ByPlace(Below, f, h)
        /\ f = g => a = b
    BY EndlessNumbers
  <2> HIDE DEF f, g, h
  <2>3. /\ ~ByPlace(Below, f, f)
        /\ ByPlace(Below, f, g) /\ ByPlace(Below, g, h) => ByPlace(Below, f, h)
        /\ f # g => ByPlace(Below, f, g) \/ ByPlace(Below, g, f)
    BY <2>1, BelowOrder, ByPlaceOrder
  <2>4. QED
    BY <2>2, <2>3
<1>2. QED
  BY <1>1 DEF StrictOrder, BelowSeq

(* The same one level up: nothing at all is below every local part.        *)
LEMMA EndlessParts ==
  ASSUME NEW s \in Seq(LocalPart), NEW t \in Seq(LocalPart)
  PROVE  /\ Endless(s, <<>>) \in [Places -> Seq(Nat)]
         /\ NestedLess(s, t) <=> ByPlace(BelowSeq, Endless(s, <<>>), Endless(t, <<>>))
         /\ Endless(s, <<>>) = Endless(t, <<>>) => s = t
<1> DEFINE f == Endless(s, <<>>)
           g == Endless(t, <<>>)
<1>1. /\ Len(s) \in Nat /\ Len(t) \in Nat
      /\ \A i \in 1 .. Len(s) : s[i] \in LocalPart
      /\ \A i \in 1 .. Len(t) : t[i] \in LocalPart
      /\ DOMAIN s = 1 .. Len(s) /\ DOMAIN t = 1 .. Len(t)
  OBVIOUS
<1>2. LocalPart \subseteq Seq(Nat) /\ <<>> \notin LocalPart /\ <<>> \in Seq(Nat)
  BY DEF LocalPart
<1>3. \A i \in Places : /\ i <= Len(s) => f[i] = s[i] /\ f[i] \in LocalPart
                        /\ i <= Len(t) => g[i] = t[i] /\ g[i] \in LocalPart
                        /\ i > Len(s) => f[i] = <<>>
                        /\ i > Len(t) => g[i] = <<>>
                        /\ f[i] \in Seq(Nat) /\ g[i] \in Seq(Nat)
  <2>1. TAKE i \in Places
  <2>2. f[i] = (IF i <= Len(s) THEN s[i] ELSE <<>>) /\ g[i] = (IF i <= Len(t) THEN t[i] ELSE <<>>)
    BY DEF Endless
  <2>3. (i <= Len(s) => i \in 1 .. Len(s)) /\ (i <= Len(t) => i \in 1 .. Len(t)) /\ i \in Nat
    BY <1>1 DEF Places
  <2> HIDE DEF f, g
  <2>4. i > Len(s) => f[i] = <<>>
    BY <1>1, <2>2, <2>3
  <2>5. i > Len(t) => g[i] = <<>>
    BY <1>1, <2>2, <2>3
  <2>6. i <= Len(s) => f[i] = s[i] /\ f[i] \in LocalPart
    BY <1>1, <2>2, <2>3
  <2>7. i <= Len(t) => g[i] = t[i] /\ g[i] \in LocalPart
    BY <1>1, <2>2, <2>3
  <2>8. (i <= Len(s) \/ i > Len(s)) /\ (i <= Len(t) \/ i > Len(t))
    BY <1>1, <2>3
  <2>9. f[i] \in Seq(Nat) /\ g[i] \in Seq(Nat)
    BY <1>2, <2>4, <2>5, <2>6, <2>7, <2>8
  <2>10. QED
    BY <2>4, <2>5, <2>6, <2>7, <2>9
<1>4. f \in [Places -> Seq(Nat)] /\ g \in [Places -> Seq(Nat)]
  <2>1. f = [i \in Places |-> f[i]] /\ g = [i \in Places |-> g[i]]
    BY DEF Endless
  <2> HIDE DEF f, g
  <2>2. QED
    BY <1>3, <2>1
<1> HIDE DEF f, g
<1>5. ByPlace(BelowSeq, f, g) <=> \E i \in Places : (\A j \in 1 .. i - 1 : f[j] = g[j]) /\ SeqLess(f[i], g[i])
  BY <1>3 DEF ByPlace, BelowSeq
<1>6. NestedLess(s, t) <=>
        \E i \in 1 .. Len(t) :
          i <= Len(s) + 1 /\ (\A j \in 1 .. i - 1 : s[j] = t[j]) /\ (i > Len(s) \/ SeqLess(s[i], t[i]))
  BY NestedLessByPlace
<1>7. \A a \in Seq(Nat) : ~SeqLess(a, <<>>) /\ (a \in LocalPart => SeqLess(<<>>, a))
  <2>1. TAKE a \in Seq(Nat)
  <2>2. a \in Seq(Int) /\ <<>> \in Seq(Int) /\ Len(<<>>) = 0 /\ Len(a) \in Nat
    OBVIOUS
  <2>3. ~SeqLess(a, <<>>)
    BY <2>2 DEF SeqLess
  <2>4. ASSUME a \in LocalPart PROVE SeqLess(<<>>, a)
    <3>1. 1 \in 1 .. Len(a)
      BY <2>2, <2>4 DEF LocalPart
    <3>2. SeqLess(<<>>, a) <=>
            \E i \in 1 .. Len(a) :
              i <= Len(<<>>) + 1 /\ (\A j \in 1 .. i - 1 : <<>>[j] = a[j]) /\ (i > Len(<<>>) \/ <<>>[i] < a[i])
      BY <2>2, SeqLessByPlace
    <3>3. QED
      BY <2>2, <3>1, <3>2
  <2>5. QED
    BY <2>3, <2>4
<1>8. ASSUME NEW i \in 1 .. Len(t), i <= Len(s) + 1, \A j \in 1 .. i - 1 : s[j] = t[j],
             i > Len(s) \/ SeqLess(s[i], t[i])
      PROVE  i \in Places /\ (\A j \in 1 .. i - 1 : f[j] = g[j]) /\ SeqLess(f[i], g[i])
  <2>1. i \in Places /\ \A j \in 1 .. i - 1 : j \in Places /\ j <= Len(s) /\ j <= Len(t)
    BY <1>1, <1>8 DEF Places
  <2>2. \A j \in 1 .. i - 1 : f[j] = g[j]
    BY <1>3, <1>8, <2>1
  <2>3. SeqLess(f[i], g[i])
    <3>1. g[i] \in LocalPart /\ g[i] = t[i]
      BY <1>3, <2>1
    <3>2. CASE i > Len(s)
      BY <1>2, <1>3, <1>7, <2>1, <3>1, <3>2
    <3>3. CASE i <= Len(s)
      BY <1>1, <1>3, <1>8, <2>1, <3>1, <3>3
    <3>4. QED
      BY <1>1, <3>2, <3>3
  <2>4. QED
    BY <2>1, <2>2, <2>3
<1>9. ASSUME NEW i \in Places, \A j \in 1 .. i - 1 : f[j] = g[j], SeqLess(f[i], g[i])
      PROVE  /\ i \in 1 .. Len(t) /\ i <= Len(s) + 1
             /\ (\A j \in 1 .. i - 1 : s[j] = t[j]) /\ (i > Len(s) \/ SeqLess(s[i], t[i]))
  <2>1. i \in 1 .. Len(t)
    <3>1. ~(i > Len(t))
      BY <1>3, <1>7, <1>9
    <3>2. QED
      BY <1>1, <3>1 DEF Places
  <2>2. ASSUME i > Len(s) + 1 PROVE FALSE
    <3>1. i - 1 \in Places /\ i - 1 \in 1 .. i - 1 /\ i - 1 > Len(s) /\ i - 1 <= Len(t)
      BY <1>1, <2>1, <2>2 DEF Places
    <3>2. f[i - 1] = <<>> /\ g[i - 1] \in LocalPart /\ f[i - 1] = g[i - 1]
      BY <1>3, <1>9, <3>1
    <3>3. QED
      BY <1>2, <3>2
  <2>3. \A j \in 1 .. i - 1 : j \in Places /\ j <= Len(s) /\ j <= Len(t)
    BY <1>1, <2>1, <2>2 DEF Places
  <2>4. \A j \in 1 .. i - 1 : s[j] = t[j]
    BY <1>3, <1>9, <2>3
  <2>5. i > Len(s) \/ SeqLess(s[i], t[i])
    <3>1. CASE i <= Len(s)
      BY <1>3, <1>9, <2>1, <3>1
    <3>2. QED
      BY <1>1, <3>1 DEF Places
  <2>6. QED
    BY <1>1, <2>1, <2>2, <2>4, <2>5
<1>10. NestedLess(s, t) <=> ByPlace(BelowSeq, f, g)
  BY <1>5, <1>6, <1>8, <1>9
<1>11. ASSUME f = g PROVE s = t
  <2>1. Len(s) = Len(t)
    <3>1. CASE Len(s) < Len(t)
      <4>1. Len(t) \in Places
        BY <1>1, <3>1 DEF Places
      <4>2. f[Len(t)] = <<>> /\ g[Len(t)] \in LocalPart
        BY <1>1, <1>3, <3>1, <4>1
      <4>3. QED
        BY <1>2, <1>11, <4>2
    <3>2. CASE Len(t) < Len(s)
      <4>1. Len(s) \in Places
        BY <1>1, <3>2 DEF Places
      <4>2. g[Len(s)] = <<>> /\ f[Len(s)] \in LocalPart
        BY <1>1, <1>3, <3>2, <4>1
      <4>3. QED
        BY <1>2, <1>11, <4>2
    <3>3. Len(s) \in Nat /\ Len(t) \in Nat
      BY <1>1
    <3>4. QED
      BY <3>1, <3>2, <3>3
  <2>2. \A i \in 1 .. Len(s) : s[i] = t[i]
    BY <1>1, <1>3, <1>11, <2>1 DEF Places
  <2>3. QED
    BY <1>1, <2>1, <2>2
<1>12. QED
  BY <1>4, <1>10, <1>11 DEF f, g

LEMMA LocalOrder ==
  ASSUME NEW u \in ParsedVersion, NEW v \in ParsedVersion, NEW w \in ParsedVersion
  PROVE  /\ ~LocalLess(u, u)
         /\ LocalLess(u, v) /\ LocalLess(v, w) => LocalLess(u, w)
         /\ u.local # v.local => LocalLess(u, v) \/ LocalLess(v, u)
         /\ u.local = v.local /\ LocalLess(v, w) => LocalLess(u, w)
         /\ LocalLess(u, v) /\ v.local = w.local => LocalLess(u, w)
<1> DEFINE f == Endless(u.local, <<>>)
           g == Endless(v.local, <<>>)
           h == Endless(w.local, <<>>)
<1>1. u.local \in Seq(LocalPart) /\ v.local \in Seq(LocalPart) /\ w.local \in Seq(LocalPart)
  BY DEF ParsedVersion
<1>2. f \in [Places -> Seq(Nat)] /\ g \in [Places -> Seq(Nat)] /\ h \in [Places -> Seq(Nat)]
  BY <1>1, EndlessParts
<1>3. /\ LocalLess(u, u) <=> ByPlace(BelowSeq, f, f)
      /\ LocalLess(u, v) <=> ByPlace(BelowSeq, f, g)
      /\ LocalLess(v, u) <=> ByPlace(BelowSeq, g, f)
      /\ LocalLess(v, w) <=> ByPlace(BelowSeq, g, h)
      /\ LocalLess(u, w) <=> ByPlace(BelowSeq, f, h)
      /\ f = g => u.local = v.local
  BY <1>1, EndlessParts DEF LocalLess
<1> HIDE DEF f, g, h
<1>4. /\ ~ByPlace(BelowSeq, f, f)
      /\ ByPlace(BelowSeq, f, g) /\ ByPlace(BelowSeq, g, h) => ByPlace(BelowSeq, f, h)
      /\ f # g => ByPlace(BelowSeq, f, g) \/ ByPlace(BelowSeq, g, f)
  BY <1>2, BelowSeqOrder, ByPlaceOrder
<1>5. /\ u.local = v.local /\ LocalLess(v, w) => LocalLess(u, w)
      /\ LocalLess(u, v) /\ v.local = w.local => LocalLess(u, w)
  BY DEF LocalLess
<1>6. QED
  BY <1>3, <1>4, <1>5

LEMMA ReleasesOrdered ==
  ASSUME NEW u \in ParsedVersion, NEW v \in ParsedVersion, NEW w \in ParsedVersion
  PROVE  /\ ~ReleaseLess(u.release, u.release)
         /\ ReleaseLess(u.release, v.release) /\ ReleaseLess(v.release, w.release) => ReleaseLess(u.release, w.release)
         /\ ~SameReleases(u.release, v.release) =>
              ReleaseLess(u.release, v.release) \/ ReleaseLess(v.release, u.release)
         /\ SameReleases(u.release, v.release) /\ ReleaseLess(v.release, w.release) => ReleaseLess(u.release, w.release)
         /\ ReleaseLess(u.release, v.release) /\ SameReleases(v.release, w.release) => ReleaseLess(u.release, w.release)
         /\ SameReleases(u.release, v.release) => SameReleases(v.release, u.release)
         /\ SameReleases(u.release, v.release) /\ SameReleases(v.release, w.release) => SameReleases(u.release, w.release)
<1> DEFINE f == ReleaseOf(u)
           g == ReleaseOf(v)
           h == ReleaseOf(w)
<1>1. f \in [Places -> Int] /\ g \in [Places -> Int] /\ h \in [Places -> Int]
  BY ReleaseOrder
<1>2. /\ ReleaseLess(u.release, u.release) <=> ByPlace(Below, f, f)
      /\ ReleaseLess(u.release, v.release) <=> ByPlace(Below, f, g)
      /\ ReleaseLess(v.release, u.release) <=> ByPlace(Below, g, f)
      /\ ReleaseLess(v.release, w.release) <=> ByPlace(Below, g, h)
      /\ ReleaseLess(u.release, w.release) <=> ByPlace(Below, f, h)
      /\ SameReleases(u.release, v.release) <=> f = g
      /\ SameReleases(v.release, u.release) <=> g = f
      /\ SameReleases(v.release, w.release) <=> g = h
      /\ SameReleases(u.release, w.release) <=> f = h
  BY ReleaseOrder
<1> HIDE DEF f, g, h
<1>3. /\ ~ByPlace(Below, f, f)
      /\ ByPlace(Below, f, g) /\ ByPlace(Below, g, h) => ByPlace(Below, f, h)
      /\ f # g => ByPlace(Below, f, g) \/ ByPlace(Below, g, f)
  BY <1>1, BelowOrder, ByPlaceOrder
<1>4. QED
  BY <1>2, <1>3

LEMMA SuffixesOrdered ==
  ASSUME NEW u \in ParsedVersion, NEW v \in ParsedVersion, NEW w \in ParsedVersion
  PROVE  /\ ~SuffixLess(u, u)
         /\ SuffixLess(u, v) /\ SuffixLess(v, w) => SuffixLess(u, w)
         /\ ~SameSuffix(u, v) => SuffixLess(u, v) \/ SuffixLess(v, u)
         /\ SameSuffix(u, v) /\ SuffixLess(v, w) => SuffixLess(u, w)
         /\ SuffixLess(u, v) /\ SameSuffix(v, w) => SuffixLess(u, w)
         /\ SameSuffix(u, v) => SameSuffix(v, u)
         /\ SameSuffix(u, v) /\ SameSuffix(v, w) => SameSuffix(u, w)
<1>1. \A x \in {u, v, w} : /\ PreClass(x) \in Int /\ PreNumber(x) \in Int
                           /\ PostFlag(x) \in Int /\ PostNumber(x) \in Int
                           /\ DevAbsent(x) \in Int /\ DevNumber(x) \in Int
  BY FieldTypes
<1>2. QED
  BY <1>1 DEF SuffixLess, SameSuffix, PreLess, PostLess, DevLess, SamePre, SamePost, SameDev, LexLess

InOrder(v, w)   == KeyLess(v, w) \/ (SameKey(v, w) /\ LocalLess(v, w))
SameOrder(v, w) == SameKey(v, w) /\ v.local = w.local

LEMMA KeysOrdered ==
  ASSUME NEW u \in ParsedVersion, NEW v \in ParsedVersion, NEW w \in ParsedVersion
  PROVE  /\ ~KeyLess(u, u)
         /\ KeyLess(u, v) /\ KeyLess(v, w) => KeyLess(u, w)
         /\ ~SameKey(u, v) => KeyLess(u, v) \/ KeyLess(v, u)
         /\ SameKey(u, v) /\ KeyLess(v, w) => KeyLess(u, w)
         /\ KeyLess(u, v) /\ SameKey(v, w) => KeyLess(u, w)
         /\ SameKey(u, v) => SameKey(v, u)
         /\ SameKey(u, v) /\ SameKey(v, w) => SameKey(u, w)
<1>1. u.epoch \in Int /\ v.epoch \in Int /\ w.epoch \in Int
  BY DEF ParsedVersion
<1>2. ~KeyLess(u, u)
  BY <1>1, ReleasesOrdered, SuffixesOrdered DEF KeyLess
<1>3. ASSUME KeyLess(u, v), KeyLess(v, w) PROVE KeyLess(u, w)
  <2>1. u.epoch <= v.epoch /\ v.epoch <= w.epoch
    BY <1>1, <1>3 DEF KeyLess
  <2>2. CASE u.epoch # v.epoch \/ v.epoch # w.epoch
    BY <1>1, <2>1, <2>2 DEF KeyLess
  <2>3. CASE u.epoch = v.epoch /\ v.epoch = w.epoch
    BY <1>1, <1>3, <2>3, ReleasesOrdered, SuffixesOrdered DEF KeyLess
  <2>4. QED
    BY <2>2, <2>3
<1>4. ~SameKey(u, v) => KeyLess(u, v) \/ KeyLess(v, u)
  BY <1>1, ReleasesOrdered, SuffixesOrdered DEF KeyLess, SameKey
<1>5. SameKey(u, v) /\ KeyLess(v, w) => KeyLess(u, w)
  BY <1>1, ReleasesOrdered, SuffixesOrdered DEF KeyLess, SameKey
<1>6. KeyLess(u, v) /\ SameKey(v, w) => KeyLess(u, w)
  BY <1>1, ReleasesOrdered, SuffixesOrdered DEF KeyLess, SameKey
<1>7. (SameKey(u, v) => SameKey(v, u)) /\ (SameKey(u, v) /\ SameKey(v, w) => SameKey(u, w))
  BY ReleasesOrdered, SuffixesOrdered DEF SameKey
<1>8. QED
  BY <1>2, <1>3, <1>4, <1>5, <1>6, <1>7

LEMMA VersionsOrdered ==
  ASSUME NEW u \in ParsedVersion, NEW v \in ParsedVersion, NEW w \in ParsedVersion
  PROVE  /\ ~InOrder(u, u)
         /\ InOrder(u, v) /\ InOrder(v, w) => InOrder(u, w)
         /\ ~SameOrder(u, v) => InOrder(u, v) \/ InOrder(v, u)
         /\ SameOrder(u, v) /\ InOrder(v, w) => InOrder(u, w)
         /\ InOrder(u, v) /\ SameOrder(v, w) => InOrder(u, w)
         /\ SameOrder(u, v) => SameOrder(v, u)
         /\ SameOrder(u, v) /\ SameOrder(v, w) => SameOrder(u, w)
BY KeysOrdered, LocalOrder DEF InOrder, SameOrder

(* What Compare answers, packed or not, with the uninitialised version     *)
(* below the rest.                                                         *)
Before(v, w) ==
  \/ v = ZeroValue /\ w # ZeroValue
  \/ v # ZeroValue /\ w # ZeroValue /\ InOrder(v, w)

LEMMA CompareAnswers ==
  ASSUME NEW v \in SomeVersion, NEW w \in SomeVersion
  PROVE  Compare(v, w) = SignOf(Before(v, w), Before(w, v))
<1>1. \A u \in SomeVersion : (u = ZeroValue <=> u.release = <<>>) /\ (u # ZeroValue => u \in ParsedVersion)
  BY DEF SomeVersion, ParsedVersion, ZeroValue
<1>2. CASE v = ZeroValue \/ w = ZeroValue
  <2>1. ~Packable(v) \/ ~Packable(w)
    BY <1>1, <1>2 DEF Packable
  <2>2. Compare(v, w) = SignOf(v.release = <<>> /\ w.release # <<>>, v.release # <<>> /\ w.release = <<>>)
    BY <1>1, <1>2, <2>1 DEF Compare
  <2>3. QED
    BY <1>1, <1>2, <2>2 DEF Before, SignOf
<1>3. CASE v # ZeroValue /\ w # ZeroValue
  <2>1. v \in ParsedVersion /\ w \in ParsedVersion /\ v.release # <<>> /\ w.release # <<>>
    BY <1>1, <1>3
  <2>2. Compare(v, w) = CompareKeys(v, w)
    <3>1. CASE Packable(v) /\ Packable(w)
      BY <2>1, <3>1, PackedIsGeneral
    <3>2. CASE ~(Packable(v) /\ Packable(w))
      BY <2>1, <3>2 DEF Compare
    <3>3. QED
      BY <3>1, <3>2
  <2>3. SameKey(v, w) <=> SameKey(w, v)
    BY <2>1, KeysOrdered
  <2>4. CompareKeys(v, w) = SignOf(InOrder(v, w), InOrder(w, v))
    BY <2>1, <2>3, GeneralOrder DEF SignOf, InOrder
  <2>5. QED
    BY <1>3, <2>2, <2>4 DEF Before, SignOf
<1>4. QED
  BY <1>2, <1>3

LEMMA AllOrdered ==
  ASSUME NEW u \in SomeVersion, NEW v \in SomeVersion, NEW w \in SomeVersion
  PROVE  /\ ~(Before(u, v) /\ Before(v, u))
         /\ ~Before(v, u) /\ ~Before(w, v) => ~Before(w, u)
<1>1. \A x \in SomeVersion : x # ZeroValue => x \in ParsedVersion
  BY DEF SomeVersion
<1>2. CASE u # ZeroValue /\ v # ZeroValue /\ w # ZeroValue
  <2>1. u \in ParsedVersion /\ v \in ParsedVersion /\ w \in ParsedVersion
    BY <1>1, <1>2
  <2>2. ~(InOrder(u, v) /\ InOrder(v, u))
    BY <2>1, VersionsOrdered
  <2>3. ASSUME ~InOrder(v, u), ~InOrder(w, v), InOrder(w, u) PROVE FALSE
    <3>1. InOrder(u, v) \/ SameOrder(u, v)
      BY <2>1, <2>3, VersionsOrdered
    <3>2. InOrder(v, w) \/ SameOrder(v, w)
      BY <2>1, <2>3, VersionsOrdered
    <3>3. InOrder(w, v) \/ SameOrder(u, v)
      BY <2>1, <2>3, <3>1, VersionsOrdered
    <3>4. InOrder(w, v)
      BY <2>1, <2>3, <3>3, VersionsOrdered
    <3>5. QED
      BY <2>3, <3>4
  <2>4. QED
    BY <1>2, <2>2, <2>3 DEF Before
<1>3. CASE u = ZeroValue \/ v = ZeroValue \/ w = ZeroValue
  <2>1. ~(Before(u, v) /\ Before(v, u))
    <3>1. CASE u # ZeroValue /\ v # ZeroValue
      BY <1>1, <3>1, VersionsOrdered DEF Before
    <3>2. CASE u = ZeroValue \/ v = ZeroValue
      BY <3>2 DEF Before
    <3>3. QED
      BY <3>1, <3>2
  <2>2. ~Before(v, u) /\ ~Before(w, v) => ~Before(w, u)
    BY <1>3 DEF Before
  <2>3. QED
    BY <2>1, <2>2
<1>4. QED
  BY <1>2, <1>3

(* Version.Compare is one order of all versions, uninitialised ones below  *)
(* the rest: turning a pair round turns the answer round, and "at most" is *)
(* transitive, so sorting and "highest" do not depend on which pairs took  *)
(* the packed path.                                                        *)
THEOREM CompareIsAnOrder ==
  \A u, v, w \in SomeVersion :
    /\ Compare(v, u) = -Compare(u, v)
    /\ AtMost(u, v) /\ AtMost(v, w) => AtMost(u, w)
<1> SUFFICES ASSUME NEW u \in SomeVersion, NEW v \in SomeVersion, NEW w \in SomeVersion
             PROVE  /\ Compare(v, u) = -Compare(u, v)
                    /\ AtMost(u, v) /\ AtMost(v, w) => AtMost(u, w)
  OBVIOUS
<1>1. ~(Before(u, v) /\ Before(v, u)) /\ ~(Before(v, w) /\ Before(w, v)) /\ ~(Before(u, w) /\ Before(w, u))
  BY AllOrdered
<1>2. Compare(v, u) = -Compare(u, v)
  BY <1>1, CompareAnswers DEF SignOf
<1>3. /\ AtMost(u, v) <=> ~Before(v, u)
      /\ AtMost(v, w) <=> ~Before(w, v)
      /\ AtMost(u, w) <=> ~Before(w, u)
  BY <1>1, CompareAnswers DEF SignOf, AtMost
<1>4. QED
  BY <1>2, <1>3, AllOrdered

(***************************************************************************)
(* The release order                                                       *)
(***************************************************************************)
LEMMA StrippedFacts ==
  ASSUME NEW r \in Seq(Nat)
  PROVE  /\ Stripped(r) \in Seq(Nat) /\ Len(Stripped(r)) = ReleaseLen(r) /\ ReleaseLen(r) \in Nat
         /\ \A i \in 1 .. ReleaseLen(r) : Stripped(r)[i] = Segment(r, i)
         /\ \A i \in Places : i > ReleaseLen(r) => Segment(r, i) = 0
         /\ ReleaseLen(r) > 0 => Segment(r, ReleaseLen(r)) # 0
<1>1. ReleaseLen(r) \in 0 .. Len(r)
  BY ReleaseLenFacts
<1>2. Stripped(r) = [i \in 1 .. ReleaseLen(r) |-> r[i]]
  BY <1>1 DEF Stripped
<1>3. \A i \in 1 .. ReleaseLen(r) : r[i] \in Nat
  BY <1>1
<1>4. Stripped(r) \in Seq(Nat) /\ Len(Stripped(r)) = ReleaseLen(r)
  BY SMTT(60), <1>1, <1>2, <1>3
<1>5. \A i \in 1 .. ReleaseLen(r) : Stripped(r)[i] = Segment(r, i)
  BY <1>1, <1>2 DEF Segment
<1>6. \A i \in Places : i > ReleaseLen(r) => Segment(r, i) = 0
  BY <1>1 DEF Segment, Places
<1>7. ReleaseLen(r) > 0 => Segment(r, ReleaseLen(r)) # 0
  BY <1>1, ReleaseLenFacts DEF Segment
<1>8. QED
  BY <1>1, <1>4, <1>5, <1>6, <1>7

(* Without trailing zeros a shorter release with the same segments is the  *)
(* smaller, so there is no need to pad.                                    *)
LEMMA StrippedOrder ==
  ASSUME NEW r \in Seq(Nat), NEW s \in Seq(Nat)
  PROVE  SeqLess(Stripped(r), Stripped(s)) <=> ReleaseLess(r, s)
<1>1. ASSUME NEW a \in Seq(Nat), NEW b \in Seq(Nat), ReleaseLess(a, b)
      PROVE  SeqLess(Stripped(a), Stripped(b))
  <2> DEFINE p == Stripped(a)
             q == Stripped(b)
             m == ReleaseLen(a)
             n == ReleaseLen(b)
  <2>1. /\ p \in Seq(Nat) /\ q \in Seq(Nat) /\ Len(p) = m /\ Len(q) = n /\ m \in Nat /\ n \in Nat
        /\ \A i \in 1 .. m : p[i] = Segment(a, i)
        /\ \A i \in 1 .. n : q[i] = Segment(b, i)
        /\ \A i \in Places : i > m => Segment(a, i) = 0
        /\ \A i \in Places : i > n => Segment(b, i) = 0
        /\ m > 0 => Segment(a, m) # 0
    BY StrippedFacts
  <2>2. \A i \in Places : Segment(a, i) \in Nat /\ Segment(b, i) \in Nat
    BY SegmentFacts
  <2> HIDE DEF p, q, m, n
  <2>3. PICK i \in Places : (\A j \in 1 .. i - 1 : Segment(a, j) = Segment(b, j)) /\ Segment(a, i) < Segment(b, i)
    BY <1>1 DEF ReleaseLess
  <2>4. i <= n
    BY <2>1, <2>2, <2>3 DEF Places
  <2>5. SeqLess(p, q) <=>
          \E k \in 1 .. n :
            k <= m + 1 /\ (\A j \in 1 .. k - 1 : p[j] = q[j]) /\ (k > m \/ p[k] < q[k])
    <3>1. p \in Seq(Int) /\ q \in Seq(Int)
      BY <2>1
    <3>2. SeqLess(p, q) <=>
            \E k \in 1 .. Len(q) :
              k <= Len(p) + 1 /\ (\A j \in 1 .. k - 1 : p[j] = q[j]) /\ (k > Len(p) \/ p[k] < q[k])
      BY <3>1, SeqLessByPlace
    <3>3. Len(p) = m /\ Len(q) = n
      BY <2>1
    <3>4. QED
      BY <3>2, <3>3
  <2>6. CASE i <= m + 1
    <3>1. \A j \in 1 .. i - 1 : p[j] = q[j]
      BY <2>1, <2>3, <2>4, <2>6 DEF Places
    <3>2. i > m \/ p[i] < q[i]
      BY <2>1, <2>3, <2>4 DEF Places
    <3>3. i \in 1 .. n
      BY <2>1, <2>4 DEF Places
    <3>4. SeqLess(p, q)
      BY <2>5, <2>6, <3>1, <3>2, <3>3
    <3>5. QED
      BY <3>4 DEF p, q
  <2>7. CASE i > m + 1
    <3>1. \A j \in 1 .. (m + 1) - 1 : p[j] = q[j]
      BY <2>1, <2>3, <2>4, <2>7 DEF Places
    <3>2. m + 1 \in 1 .. n /\ m + 1 <= m + 1 /\ m + 1 > m
      BY <2>1, <2>4, <2>7 DEF Places
    <3>3. SeqLess(p, q)
      BY <2>5, <3>1, <3>2
    <3>4. QED
      BY <3>3 DEF p, q
  <2>8. QED
    BY <2>1, <2>6, <2>7 DEF Places
<1>2. ASSUME SameReleases(r, s) PROVE Stripped(r) = Stripped(s)
  <2>1. ReleaseLen(r) = ReleaseLen(s)
    <3>1. ReleaseLen(r) \in Nat /\ ReleaseLen(s) \in Nat
      BY StrippedFacts
    <3>2. CASE ReleaseLen(r) < ReleaseLen(s)
      <4>1. ReleaseLen(s) \in Places /\ ReleaseLen(s) > ReleaseLen(r) /\ ReleaseLen(s) > 0
        BY <3>1, <3>2 DEF Places
      <4>2. Segment(r, ReleaseLen(s)) = 0 /\ Segment(s, ReleaseLen(s)) # 0
        BY <4>1, StrippedFacts
      <4>3. QED
        BY <1>2, <4>1, <4>2 DEF SameReleases
    <3>3. CASE ReleaseLen(s) < ReleaseLen(r)
      <4>1. ReleaseLen(r) \in Places /\ ReleaseLen(r) > ReleaseLen(s) /\ ReleaseLen(r) > 0
        BY <3>1, <3>3 DEF Places
      <4>2. Segment(s, ReleaseLen(r)) = 0 /\ Segment(r, ReleaseLen(r)) # 0
        BY <4>1, StrippedFacts
      <4>3. QED
        BY <1>2, <4>1, <4>2 DEF SameReleases
    <3>4. QED
      BY <3>1, <3>2, <3>3
  <2>2. /\ Stripped(r) \in Seq(Nat) /\ Len(Stripped(r)) = ReleaseLen(r) /\ ReleaseLen(r) \in Nat
        /\ Stripped(s) \in Seq(Nat) /\ Len(Stripped(s)) = ReleaseLen(s)
    BY StrippedFacts
  <2>3. \A i \in 1 .. ReleaseLen(r) : Stripped(r)[i] = Stripped(s)[i]
    <3>1. TAKE i \in 1 .. ReleaseLen(r)
    <3>2. i \in Places /\ i \in 1 .. ReleaseLen(s)
      BY <2>1, <2>2 DEF Places
    <3>3. Stripped(r)[i] = Segment(r, i) /\ Stripped(s)[i] = Segment(s, i)
      BY <3>2, StrippedFacts
    <3>4. QED
      BY <1>2, <3>2, <3>3 DEF SameReleases
  <2>4. QED
    BY <2>1, <2>2, <2>3
<1>3. ~SameReleases(r, s) => ReleaseLess(r, s) \/ ReleaseLess(s, r)
  <2> DEFINE f == [i \in Places |-> Segment(r, i)]
             g == [i \in Places |-> Segment(s, i)]
  <2>1. \A i \in Places : Segment(r, i) \in Int /\ Segment(s, i) \in Int
    BY SegmentFacts
  <2>2. f \in [Places -> Int] /\ g \in [Places -> Int]
    BY <2>1
  <2>3. f # g => ByPlace(Below, f, g) \/ ByPlace(Below, g, f)
    <3> HIDE DEF f, g
    <3>1. QED
      BY <2>2, BelowOrder, ByPlaceOrder
  <2>4. \A i \in Places : \A j \in 1 .. i - 1 : j \in Places
    BY DEF Places
  <2>5. ByPlace(Below, f, g) => ReleaseLess(r, s)
    BY <2>1, <2>4 DEF ByPlace, Below, ReleaseLess
  <2>6. ByPlace(Below, g, f) => ReleaseLess(s, r)
    BY <2>1, <2>4 DEF ByPlace, Below, ReleaseLess
  <2>7. f = g => SameReleases(r, s)
    <3>1. ASSUME f = g, NEW i \in Places PROVE Segment(r, i) = Segment(s, i)
      <4>1. f[i] = g[i]
        BY <3>1
      <4>2. QED
        BY <4>1
    <3>2. QED
      BY <3>1 DEF SameReleases
  <2>8. QED
    BY <2>3, <2>5, <2>6, <2>7
<1>4. ASSUME SeqLess(Stripped(r), Stripped(s)) PROVE ReleaseLess(r, s)
  <2>1. Stripped(r) \in Seq(Nat) /\ Stripped(s) \in Seq(Nat)
    BY StrippedFacts
  <2>2. ~SeqLess(Stripped(s), Stripped(r)) /\ Stripped(r) # Stripped(s)
    BY <1>4, <2>1, BelowSeqOrder DEF StrictOrder, BelowSeq
  <2>3. ~ReleaseLess(s, r)
    BY <1>1, <2>2
  <2>4. ~SameReleases(r, s)
    BY <1>2, <2>2
  <2>5. QED
    BY <1>3, <2>3, <2>4
<1>5. QED
  BY <1>1, <1>4


(* What CompareRelease answers, whichever way.                             *)
ReleaseBefore(v, w) == v.epoch < w.epoch \/ (v.epoch = w.epoch /\ ReleaseLess(v.release, w.release))

LEMMA GeneralReleaseOrder ==
  ASSUME NEW v \in SomeVersion, NEW w \in SomeVersion
  PROVE  SeqLess(<<v.epoch>> \o Stripped(v.release), <<w.epoch>> \o Stripped(w.release)) <=> ReleaseBefore(v, w)
<1> DEFINE p == Stripped(v.release)
           q == Stripped(w.release)
           k == <<v.epoch>> \o p
           l == <<w.epoch>> \o q
<1>1. v.epoch \in Nat /\ w.epoch \in Nat /\ v.release \in Seq(Nat) /\ w.release \in Seq(Nat)
  BY ReleaseTypes
<1>2. p \in Seq(Nat) /\ q \in Seq(Nat) /\ (SeqLess(p, q) <=> ReleaseLess(v.release, w.release))
  BY <1>1, StrippedFacts, StrippedOrder
<1> HIDE DEF p, q
<1>3. /\ k \in Seq(Nat) /\ Len(k) = Len(p) + 1 /\ k[1] = v.epoch
      /\ \A i \in 1 .. Len(p) : k[i + 1] = p[i]
  <2>1. <<v.epoch>> \in Seq(Nat) /\ Len(<<v.epoch>>) = 1 /\ <<v.epoch>>[1] = v.epoch
    BY <1>1
  <2>2. QED
    BY <1>2, <2>1, ConcatProperties
<1>4. /\ l \in Seq(Nat) /\ Len(l) = Len(q) + 1 /\ l[1] = w.epoch
      /\ \A i \in 1 .. Len(q) : l[i + 1] = q[i]
  <2>1. <<w.epoch>> \in Seq(Nat) /\ Len(<<w.epoch>>) = 1 /\ <<w.epoch>>[1] = w.epoch
    BY <1>1
  <2>2. QED
    BY <1>2, <2>1, ConcatProperties
<1> HIDE DEF k, l
<1>5. Len(p) \in Nat /\ Len(q) \in Nat
  BY <1>2
<1>6. SeqLess(k, l) <=>
        \E i \in 1 .. Len(l) :
          i <= Len(k) + 1 /\ (\A j \in 1 .. i - 1 : k[j] = l[j]) /\ (i > Len(k) \/ k[i] < l[i])
  <2>1. k \in Seq(Int) /\ l \in Seq(Int)
    BY <1>3, <1>4
  <2>2. QED
    BY <2>1, SeqLessByPlace
<1>7. SeqLess(p, q) <=>
        \E i \in 1 .. Len(q) :
          i <= Len(p) + 1 /\ (\A j \in 1 .. i - 1 : p[j] = q[j]) /\ (i > Len(p) \/ p[i] < q[i])
  <2>1. p \in Seq(Int) /\ q \in Seq(Int)
    BY <1>2
  <2>2. QED
    BY <2>1, SeqLessByPlace
<1>8. ASSUME v.epoch # w.epoch PROVE SeqLess(k, l) <=> ReleaseBefore(v, w)
  <2>1. k \in Seq(Int) /\ l \in Seq(Int) /\ k # <<>> /\ l # <<>> /\ k[1] # l[1]
    BY <1>3, <1>4, <1>5, <1>8
  <2>2. SeqLess(k, l) <=> v.epoch < w.epoch
    BY <1>3, <1>4, <2>1, HeadDecides
  <2>3. QED
    BY <1>1, <1>8, <2>2 DEF ReleaseBefore
<1>9. ASSUME v.epoch = w.epoch PROVE SeqLess(k, l) <=> ReleaseBefore(v, w)
  <2>1. ASSUME NEW i \in 1 .. Len(q), i <= Len(p) + 1, \A j \in 1 .. i - 1 : p[j] = q[j], i > Len(p) \/ p[i] < q[i]
        PROVE  SeqLess(k, l)
    <3>1. i + 1 \in 1 .. Len(l) /\ i + 1 <= Len(k) + 1
      BY <1>3, <1>4, <1>5, <2>1
    <3>2. \A j \in 1 .. (i + 1) - 1 : k[j] = l[j]
      <4>1. TAKE j \in 1 .. (i + 1) - 1
      <4>2. CASE j = 1
        BY <1>3, <1>4, <1>9, <4>2
      <4>3. CASE j # 1
        <5>1. j - 1 \in 1 .. i - 1 /\ j - 1 \in 1 .. Len(p) /\ j - 1 \in 1 .. Len(q) /\ (j - 1) + 1 = j
          BY <1>5, <2>1, <4>3
        <5>2. QED
          BY <1>3, <1>4, <2>1, <5>1
      <4>4. QED
        BY <4>2, <4>3
    <3>3. i + 1 > Len(k) \/ k[i + 1] < l[i + 1]
      <4>1. CASE i <= Len(p)
        <5>1. i \in 1 .. Len(p) /\ i \in 1 .. Len(q) /\ ~(i > Len(p))
          BY <1>5, <2>1, <4>1
        <5>2. k[i + 1] = p[i] /\ l[i + 1] = q[i]
          BY <1>3, <1>4, <5>1
        <5>3. QED
          BY <2>1, <5>1, <5>2
      <4>2. QED
        BY <1>3, <1>5, <4>1
    <3>4. QED
      BY <1>6, <3>1, <3>2, <3>3
  <2>2. ASSUME NEW i \in 1 .. Len(l), i <= Len(k) + 1, \A j \in 1 .. i - 1 : k[j] = l[j], i > Len(k) \/ k[i] < l[i]
        PROVE  SeqLess(p, q)
    <3>1. i # 1
      BY <1>1, <1>3, <1>4, <1>5, <1>9, <2>2
    <3>2. i - 1 \in 1 .. Len(q) /\ i - 1 <= Len(p) + 1 /\ (i - 1) + 1 = i
      BY <1>3, <1>4, <1>5, <2>2, <3>1
    <3>3. \A j \in 1 .. (i - 1) - 1 : p[j] = q[j]
      <4>1. TAKE j \in 1 .. (i - 1) - 1
      <4>2. j + 1 \in 1 .. i - 1 /\ j \in 1 .. Len(p) /\ j \in 1 .. Len(q)
        BY <1>5, <3>2
      <4>3. QED
        BY <1>3, <1>4, <2>2, <4>2
    <3>4. i - 1 > Len(p) \/ p[i - 1] < q[i - 1]
      <4>1. CASE i - 1 <= Len(p)
        <5>1. i - 1 \in 1 .. Len(p) /\ ~(i > Len(k))
          BY <1>3, <1>5, <3>2, <4>1
        <5>2. k[i] = p[i - 1] /\ l[i] = q[i - 1]
          BY <1>3, <1>4, <3>2, <5>1
        <5>3. QED
          BY <2>2, <5>1, <5>2
      <4>2. QED
        BY <1>5, <3>2, <4>1
    <3>5. QED
      BY <1>7, <3>2, <3>3, <3>4
  <2>3. SeqLess(k, l) <=> SeqLess(p, q)
    BY <1>6, <1>7, <2>1, <2>2
  <2>4. QED
    BY <1>1, <1>2, <1>9, <2>3 DEF ReleaseBefore
<1>10. QED
  BY <1>8, <1>9 DEF k, l, p, q

LEMMA PackedReleaseOrder ==
  ASSUME NEW r \in Seq(Nat), NEW s \in Seq(Nat), ReleasePackable(r), ReleasePackable(s)
  PROVE  SeqLess(PackRelease(r), PackRelease(s)) <=> ReleaseLess(r, s)
<1> DEFINE k == PackRelease(r)
           l == PackRelease(s)
<1>1. /\ k = [i \in 1 .. Half |-> Word(r, i)] /\ l = [i \in 1 .. Half |-> Word(s, i)] /\ Half \in Nat
      /\ \A i \in 1 .. Half : Word(r, i) \in Nat /\ Word(s, i) \in Nat
  BY PackedSegments, HalfFacts, WordOrder
<1>2. /\ k \in Seq(Int) /\ l \in Seq(Int) /\ Len(k) = Half /\ Len(l) = Half
      /\ \A i \in 1 .. Half : k[i] = Word(r, i) /\ l[i] = Word(s, i)
  BY <1>1
<1> HIDE DEF k, l
<1>3. SeqLess(k, l) <=>
        \E i \in 1 .. Len(l) :
          i <= Len(k) + 1 /\ (\A j \in 1 .. i - 1 : k[j] = l[j]) /\ (i > Len(k) \/ k[i] < l[i])
  BY <1>2, SeqLessByPlace
<1>4. SeqLess(k, l) <=> \E i \in 1 .. Half : (\A j \in 1 .. i - 1 : k[j] = l[j]) /\ k[i] < l[i]
  <2>1. Len(k) = Half /\ Len(l) = Half /\ Half \in Nat
    BY <1>1, <1>2
  <2>2. \A i \in 1 .. Half : i <= Half + 1 /\ ~(i > Half)
    BY <2>1
  <2>3. QED
    BY <1>3, <2>1, <2>2
<1>5. \A i \in 1 .. Half : \A j \in 1 .. i - 1 : j \in 1 .. Half
  BY <1>1
<1>6. SeqLess(k, l) <=>
        \E i \in 1 .. Half : (\A j \in 1 .. i - 1 : Word(r, j) = Word(s, j)) /\ Word(r, i) < Word(s, i)
  BY <1>2, <1>4, <1>5
<1>7. QED
  BY <1>6, WordOrder DEF k, l

(* Packing changes no group of ReleaseKey, and a smaller version is never  *)
(* in a later group: going through versions in order meets each release    *)
(* once.                                                                   *)
THEOREM ReleaseOrderIsCoarser ==
  \A v, w \in SomeVersion :
    /\ CompareRelease(v, w) = CompareReleaseGeneral(v, w)
    /\ v # ZeroValue /\ w # ZeroValue /\ Less(v, w) => CompareRelease(v, w) # 1
<1> SUFFICES ASSUME NEW v \in SomeVersion, NEW w \in SomeVersion
             PROVE  /\ CompareRelease(v, w) = CompareReleaseGeneral(v, w)
                    /\ v # ZeroValue /\ w # ZeroValue /\ Less(v, w) => CompareRelease(v, w) # 1
  OBVIOUS
<1>1. CompareReleaseGeneral(v, w) = SignOf(ReleaseBefore(v, w), ReleaseBefore(w, v))
  BY GeneralReleaseOrder DEF CompareReleaseGeneral, SignOf
<1>2. CompareRelease(v, w) = CompareReleaseGeneral(v, w)
  <2>1. CASE KeyPacked(v) /\ KeyPacked(w)
    <3>1. /\ v.release \in Seq(Nat) /\ ReleasePackable(v.release) /\ v.epoch = 0
          /\ w.release \in Seq(Nat) /\ ReleasePackable(w.release) /\ w.epoch = 0
      BY <2>1, ReleaseTypes DEF KeyPacked
    <3>2. CompareRelease(v, w) =
            SignOf(SeqLess(PackRelease(v.release), PackRelease(w.release)),
                   SeqLess(PackRelease(w.release), PackRelease(v.release)))
      BY <2>1 DEF CompareRelease, ComparePacked
    <3>3. SeqLess(PackRelease(v.release), PackRelease(w.release)) <=> ReleaseBefore(v, w)
      BY <3>1, PackedReleaseOrder DEF ReleaseBefore
    <3>4. SeqLess(PackRelease(w.release), PackRelease(v.release)) <=> ReleaseBefore(w, v)
      BY <3>1, PackedReleaseOrder DEF ReleaseBefore
    <3>5. QED
      BY <1>1, <3>2, <3>3, <3>4 DEF SignOf
  <2>2. CASE ~(KeyPacked(v) /\ KeyPacked(w))
    BY <2>2 DEF CompareRelease
  <2>3. QED
    BY <2>1, <2>2
<1>3. ASSUME v # ZeroValue, w # ZeroValue, Less(v, w) PROVE CompareReleaseGeneral(v, w) # 1
  <2>1. v \in ParsedVersion /\ w \in ParsedVersion
    BY <1>3 DEF SomeVersion
  <2>2. Before(v, w)
    BY <1>3, CompareAnswers DEF Less, SignOf
  <2>3. KeyLess(v, w) \/ SameKey(v, w)
    BY <1>3, <2>2 DEF Before, InOrder
  <2>4. v.epoch \in Nat /\ w.epoch \in Nat
    BY <2>1 DEF ParsedVersion
  <2>5. ~ReleaseBefore(w, v)
    BY <2>1, <2>3, <2>4, ReleasesOrdered DEF KeyLess, SameKey, ReleaseBefore
  <2>6. QED
    BY <1>1, <2>5 DEF SignOf
<1>4. QED
  BY <1>2, <1>3

(***************************************************************************)
(* Any two versions a program holds                                        *)
(***************************************************************************)
TypeOK == one \in AnyVersion /\ other \in AnyVersion

LEMMA TypeCorrect == Spec => []TypeOK
<1>1. Init => TypeOK
  BY DEF Init, TypeOK
<1>2. TypeOK /\ [Next]_<<one, other>> => TypeOK'
  BY DEF TypeOK, Next, Turn
<1>3. QED
  BY <1>1, <1>2, PTL DEF Spec

LEMMA AnyIsSome == AnyVersion \subseteq SomeVersion
BY ParsedAssumption DEF AnyVersion, SomeVersion

(* The packed path and the general one agree on whichever two versions a   *)
(* program compares.                                                       *)
THEOREM PackingIsUnseen == Spec => []PackedAgrees
<1>1. TypeOK => PackedAgrees
  <2>1. \A v \in SomeVersion : Packable(v) => v \in ParsedVersion
    BY DEF SomeVersion, Packable, ZeroValue
  <2>2. QED
    BY <2>1, AnyIsSome, PackedIsGeneral DEF TypeOK, PackedAgrees
<1>2. QED
  BY <1>1, TypeCorrect, PTL

(* Sorting any parsed and uninitialised versions is well defined.          *)
THEOREM AllVersionsInOneOrder == Spec => []OneOrder
<1>1. TypeOK => OneOrder
  <2> SUFFICES ASSUME TypeOK PROVE OneOrder
    OBVIOUS
  <2>1. one \in SomeVersion /\ other \in SomeVersion
    BY AnyIsSome DEF TypeOK
  <2>2. Compare(other, one) = -Compare(one, other)
    BY <2>1, CompareIsAnOrder
  <2>3. \A u \in AnyVersion : AtMost(u, one) /\ AtMost(one, other) => AtMost(u, other)
    BY <2>1, AnyIsSome, CompareIsAnOrder
  <2>4. ASSUME one = ZeroValue, other # ZeroValue PROVE Less(one, other)
    <3>1. Compare(one, other) = SignOf(Before(one, other), Before(other, one))
      BY <2>1, CompareAnswers
    <3>2. Before(one, other)
      BY <2>4 DEF Before
    <3>3. QED
      BY <3>1, <3>2 DEF Less, SignOf
  <2>5. QED
    BY <2>2, <2>3, <2>4 DEF OneOrder
<1>2. QED
  BY <1>1, TypeCorrect, PTL

(* Going through any versions in order meets each release once, and        *)
(* packing changes no release group.                                       *)
THEOREM ReleasesStayTogether == Spec => []ReleaseOrderCoarser
<1>1. TypeOK => ReleaseOrderCoarser
  BY AnyIsSome, ReleaseOrderIsCoarser DEF TypeOK, ReleaseOrderCoarser
<1>2. QED
  BY <1>1, TypeCorrect, PTL

(***************************************************************************)
(* Comparisons of parsed versions and of those derived from them           *)
(***************************************************************************)
LEMMA ParsedAnswers ==
  ASSUME NEW v \in ParsedVersion, NEW w \in ParsedVersion
  PROVE  /\ Less(v, w) <=> InOrder(v, w)
         /\ AtMost(v, w) <=> ~InOrder(w, v)
         /\ Same(v, w) <=> SameOrder(v, w)
<1>1. v \in SomeVersion /\ w \in SomeVersion /\ v # ZeroValue /\ w # ZeroValue
  BY DEF SomeVersion, ParsedVersion, ZeroValue
<1>2. Compare(v, w) = SignOf(InOrder(v, w), InOrder(w, v))
  <2>1. Compare(v, w) = SignOf(Before(v, w), Before(w, v))
    BY <1>1, CompareAnswers
  <2>2. (Before(v, w) <=> InOrder(v, w)) /\ (Before(w, v) <=> InOrder(w, v))
    BY <1>1 DEF Before
  <2>3. QED
    BY <2>1, <2>2 DEF SignOf
<1>3. ~(InOrder(v, w) /\ InOrder(w, v))
  BY VersionsOrdered
<1>4. SameOrder(v, w) <=> ~InOrder(v, w) /\ ~InOrder(w, v)
  <2>1. SameOrder(v, w) => SameOrder(w, v)
    BY VersionsOrdered
  <2>2. ASSUME SameOrder(v, w), InOrder(v, w) PROVE FALSE
    <3>1. InOrder(v, v)
      BY <2>1, <2>2, VersionsOrdered
    <3>2. QED
      BY <3>1, VersionsOrdered
  <2>3. ASSUME SameOrder(v, w), InOrder(w, v) PROVE FALSE
    <3>1. InOrder(v, v)
      BY <2>3, VersionsOrdered
    <3>2. QED
      BY <3>1, VersionsOrdered
  <2>4. QED
    BY <2>2, <2>3, VersionsOrdered
<1>5. QED
  BY <1>2, <1>3, <1>4 DEF Less, AtMost, Same, SignOf

(* Versions that differ in no field Compare reads compare alike.           *)
LEMMA AlikeAnswers ==
  ASSUME NEW v \in ParsedVersion, NEW w \in ParsedVersion, NEW x \in ParsedVersion, SameOrder(v, w)
  PROVE  /\ Less(x, v) <=> Less(x, w)
         /\ Less(v, x) <=> Less(w, x)
         /\ AtMost(x, v) <=> AtMost(x, w)
         /\ AtMost(v, x) <=> AtMost(w, x)
         /\ Same(x, v) <=> Same(x, w)
<1>1. SameOrder(w, v)
  BY VersionsOrdered
<1>2. InOrder(x, v) <=> InOrder(x, w)
  BY <1>1, VersionsOrdered
<1>3. InOrder(v, x) <=> InOrder(w, x)
  BY <1>1, VersionsOrdered
<1>4. SameOrder(x, v) <=> SameOrder(x, w)
  BY <1>1, VersionsOrdered
<1>5. QED
  BY <1>2, <1>3, <1>4, ParsedAnswers

LEMMA DerivedVersions ==
  ASSUME NEW v \in ParsedVersion
  PROVE  /\ Public(v) \in ParsedVersion
         /\ PostBase(v) \in ParsedVersion
         /\ EarliestPreRelease(v) \in ParsedVersion
<1>1. <<>> \in Seq(LocalPart) /\ <<0>> \in OneNumber
  <2>1. <<0>> \in Seq(Nat) /\ Len(<<0>>) = 1
    OBVIOUS
  <2>2. QED
    BY <2>1 DEF OneNumber
<1>2. QED
  BY <1>1 DEF ParsedVersion, Public, PostBase, EarliestPreRelease

(* Two releases are one when they are the same without trailing zeros.     *)
LEMMA SameStripped ==
  ASSUME NEW r \in Seq(Nat), NEW s \in Seq(Nat)
  PROVE  SameReleases(r, s) <=> Stripped(r) = Stripped(s)
<1>1. ASSUME Stripped(r) = Stripped(s) PROVE SameReleases(r, s)
  <2>1. ReleaseLen(r) = ReleaseLen(s) /\ ReleaseLen(r) \in Nat
    BY <1>1, StrippedFacts
  <2>2. ASSUME NEW i \in Places PROVE Segment(r, i) = Segment(s, i)
    <3>1. CASE i > ReleaseLen(r)
      BY <2>1, <3>1, StrippedFacts
    <3>2. CASE i \in 1 .. ReleaseLen(r)
      BY <1>1, <2>1, <3>2, StrippedFacts
    <3>3. QED
      BY <2>1, <3>1, <3>2 DEF Places
  <2>3. QED
    BY <2>2 DEF SameReleases
<1>2. ASSUME SameReleases(r, s) PROVE Stripped(r) = Stripped(s)
  <2>1. ASSUME NEW a \in Seq(Nat), NEW b \in Seq(Nat), SameReleases(a, b)
        PROVE  ReleaseLen(a) <= ReleaseLen(b)
    <3>1. ReleaseLen(a) \in Nat /\ ReleaseLen(b) \in Nat
      BY StrippedFacts
    <3>2. SUFFICES ASSUME ReleaseLen(a) > ReleaseLen(b) PROVE FALSE
      BY <3>1
    <3>3. ReleaseLen(a) \in Places /\ ReleaseLen(a) > 0
      BY <3>1, <3>2 DEF Places
    <3>4. Segment(a, ReleaseLen(a)) # 0
      BY <3>3, StrippedFacts
    <3>5. Segment(b, ReleaseLen(a)) = 0
      BY <3>2, <3>3, StrippedFacts
    <3>6. QED
      BY <2>1, <3>3, <3>4, <3>5 DEF SameReleases
  <2>2. SameReleases(s, r)
    BY <1>2 DEF SameReleases
  <2>3. ReleaseLen(r) = ReleaseLen(s) /\ ReleaseLen(r) \in Nat
    BY <1>2, <2>1, <2>2, StrippedFacts
  <2>4. \A i \in 1 .. ReleaseLen(r) : Stripped(r)[i] = Stripped(s)[i]
    <3>1. TAKE i \in 1 .. ReleaseLen(r)
    <3>2. i \in Places
      BY <2>3 DEF Places
    <3>3. QED
      BY <1>2, <2>3, <3>2, StrippedFacts DEF SameReleases
  <2>5. /\ Stripped(r) \in Seq(Nat) /\ Stripped(s) \in Seq(Nat)
        /\ Len(Stripped(r)) = ReleaseLen(r) /\ Len(Stripped(s)) = ReleaseLen(r)
    BY <2>3, StrippedFacts
  <2> HIDE DEF SameReleases
  <2>6. QED
    BY ONLY <2>4, <2>5
<1>3. QED
  BY <1>1, <1>2

LEMMA SameReleaseFacts ==
  ASSUME NEW v \in ParsedVersion, NEW w \in ParsedVersion
  PROVE  SameRelease(v, w) <=> v.epoch = w.epoch /\ SameReleases(v.release, w.release)
<1>1. v.release \in Seq(Nat) /\ w.release \in Seq(Nat)
  BY DEF ParsedVersion
<1>2. QED
  BY <1>1, SameStripped DEF SameRelease

(***************************************************************************)
(* Equal specifiers match alike                                            *)
(***************************************************************************)
(* An operand rendered without trailing zeros still says all that Compare  *)
(* reads.                                                                  *)
LEMMA TrimmedAlike ==
  ASSUME NEW v \in ParsedVersion, NEW w \in ParsedVersion, TrimmedRelease(v) = TrimmedRelease(w)
  PROVE  /\ SameOrder(v, w)
         /\ v.epoch = w.epoch /\ v.pre = w.pre /\ v.post = w.post /\ v.dev = w.dev /\ v.local = w.local
<1> DEFINE T(r) == IF Stripped(r) = <<>> THEN SubSeq(r, 1, 1) ELSE Stripped(r)
<1>1. /\ v = [epoch |-> v.epoch, release |-> v.release, pre |-> v.pre, post |-> v.post,
              dev |-> v.dev, local |-> v.local]
      /\ w = [epoch |-> w.epoch, release |-> w.release, pre |-> w.pre, post |-> w.post,
              dev |-> w.dev, local |-> w.local]
      /\ v.release \in Seq(Nat) \ {<<>>} /\ w.release \in Seq(Nat) \ {<<>>}
  BY DEF ParsedVersion
<1>2. /\ TrimmedRelease(v).epoch = v.epoch /\ TrimmedRelease(w).epoch = w.epoch
      /\ TrimmedRelease(v).pre = v.pre /\ TrimmedRelease(w).pre = w.pre
      /\ TrimmedRelease(v).post = v.post /\ TrimmedRelease(w).post = w.post
      /\ TrimmedRelease(v).dev = v.dev /\ TrimmedRelease(w).dev = w.dev
      /\ TrimmedRelease(v).local = v.local /\ TrimmedRelease(w).local = w.local
      /\ TrimmedRelease(v).release = T(v.release) /\ TrimmedRelease(w).release = T(w.release)
  BY <1>1 DEF TrimmedRelease
<1>3. v.epoch = w.epoch /\ v.pre = w.pre /\ v.post = w.post /\ v.dev = w.dev /\ v.local = w.local
      /\ T(v.release) = T(w.release)
  BY <1>2
<1>4. ASSUME NEW r \in Seq(Nat), r # <<>>, Stripped(r) = <<>> PROVE T(r) = <<0>>
  <2>1. Len(r) \in Nat \ {0} /\ 1 \in DOMAIN r
    BY <1>4
  <2>2. ReleaseLen(r) = 0
    BY <1>4, StrippedFacts
  <2>3. r[1] = 0
    BY <2>1, <2>2, ReleaseLenFacts
  <2>4. SubSeq(r, 1, 1) = <<0>>
    <3>1. SubSeq(r, 1, 1) = [j \in 1 .. 1 |-> r[j]]
      BY <2>1
    <3>2. [j \in 1 .. 1 |-> r[j]] = [j \in 1 .. 1 |-> 0]
      BY <2>3
    <3>3. [j \in 1 .. 1 |-> 0] = <<0>>
      OBVIOUS
    <3>4. QED
      BY <3>1, <3>2, <3>3
  <2>5. QED
    BY <1>4, <2>4
<1>5. ASSUME NEW r \in Seq(Nat), NEW z, Stripped(r) = <<z>>, z = 0 PROVE FALSE
  <2>1. ReleaseLen(r) = 1
    BY <1>5, StrippedFacts
  <2>2. Segment(r, 1) # 0 /\ Stripped(r)[1] = Segment(r, 1)
    BY <2>1, StrippedFacts
  <2>3. QED
    BY <1>5, <2>2
<1>6. Stripped(v.release) = Stripped(w.release)
  BY <1>1, <1>3, <1>4, <1>5
<1>7. SameReleases(v.release, w.release)
  BY <1>1, <1>6, SameStripped
<1>8. SameSuffix(v, w)
  BY <1>3 DEF SameSuffix, SamePre, SamePost, SameDev, PreClass, DevOnly, PreNumber, PostFlag, PostNumber,
              DevAbsent, DevNumber
<1>9. QED
  BY <1>3, <1>7, <1>8 DEF SameOrder, SameKey

(* Two operands that hold the same fields but for trailing zeros, under    *)
(* one operator.                                                           *)
LEMMA OperandsAlike ==
  ASSUME NEW x \in ParsedVersion, NEW s \in Specifier, NEW t \in Specifier,
         s.op = t.op, s.op # "~=", ~s.wild, ~t.wild,
         TrimmedRelease(s.ver) = TrimmedRelease(t.ver)
  PROVE  Check(s, x) <=> Check(t, x)
<1> DEFINE v == s.ver
           w == t.ver
<1>1. v \in ParsedVersion /\ w \in ParsedVersion
  BY DEF Specifier
<1>2. /\ SameOrder(v, w)
      /\ v.epoch = w.epoch /\ v.pre = w.pre /\ v.post = w.post /\ v.dev = w.dev /\ v.local = w.local
  BY <1>1, TrimmedAlike
<1>3. Public(x) \in ParsedVersion /\ PostBase(x) \in ParsedVersion
      /\ EarliestPreRelease(v) \in ParsedVersion /\ EarliestPreRelease(w) \in ParsedVersion
  BY <1>1, DerivedVersions
<1>4. SameOrder(EarliestPreRelease(v), EarliestPreRelease(w))
  <2>1. SameReleases(v.release, w.release)
    BY <1>2 DEF SameOrder, SameKey
  <2>2. /\ EarliestPreRelease(v).epoch = v.epoch /\ EarliestPreRelease(w).epoch = w.epoch
        /\ EarliestPreRelease(v).release = v.release /\ EarliestPreRelease(w).release = w.release
        /\ EarliestPreRelease(v).pre = v.pre /\ EarliestPreRelease(w).pre = w.pre
        /\ EarliestPreRelease(v).post = v.post /\ EarliestPreRelease(w).post = w.post
        /\ EarliestPreRelease(v).dev = <<0>> /\ EarliestPreRelease(w).dev = <<0>>
        /\ EarliestPreRelease(v).local = <<>> /\ EarliestPreRelease(w).local = <<>>
    BY <1>1 DEF EarliestPreRelease, ParsedVersion
  <2>3. QED
    BY <1>2, <2>1, <2>2 DEF SameOrder, SameKey, SameSuffix, SamePre, SamePost, SameDev, PreClass, DevOnly,
                            PreNumber, PostFlag, PostNumber, DevAbsent, DevNumber
<1> HIDE DEF v, w
<1>5. SpecifierEqual(x, s) <=> SpecifierEqual(x, t)
  BY <1>1, <1>2, <1>3, AlikeAnswers DEF SpecifierEqual, v, w
<1>6. SpecifierLessThan(x, s) <=> SpecifierLessThan(x, t)
  <2>1. Less(x, v) <=> Less(x, w)
    BY <1>1, <1>2, AlikeAnswers
  <2>2. AtMost(EarliestPreRelease(v), x) <=> AtMost(EarliestPreRelease(w), x)
    BY <1>3, <1>4, AlikeAnswers
  <2>3. IsPreRelease(v) <=> IsPreRelease(w)
    BY <1>2 DEF IsPreRelease
  <2>4. QED
    BY <2>1, <2>2, <2>3 DEF SpecifierLessThan, PreReleaseOf, v, w
<1>7. SpecifierGreaterThan(x, s) <=> SpecifierGreaterThan(x, t)
  <2>1. Less(v, x) <=> Less(w, x)
    BY <1>1, <1>2, AlikeAnswers
  <2>2. Same(PostBase(x), v) <=> Same(PostBase(x), w)
    BY <1>1, <1>2, <1>3, AlikeAnswers
  <2>3. Same(Public(x), v) <=> Same(Public(x), w)
    BY <1>1, <1>2, <1>3, AlikeAnswers
  <2>4. IsPostRelease(v) <=> IsPostRelease(w)
    BY <1>2 DEF IsPostRelease
  <2>5. QED
    BY <2>1, <2>2, <2>3, <2>4 DEF SpecifierGreaterThan, PostReleaseOf, v, w
<1>8. SpecifierLessThanEqual(x, s) <=> SpecifierLessThanEqual(x, t)
  BY <1>1, <1>2, <1>3, AlikeAnswers DEF SpecifierLessThanEqual, v, w
<1>9. SpecifierGreaterThanEqual(x, s) <=> SpecifierGreaterThanEqual(x, t)
  BY <1>1, <1>2, <1>3, AlikeAnswers DEF SpecifierGreaterThanEqual, v, w
<1>10. s.op \in Op
  BY DEF Specifier
<1>11. QED
  BY <1>5, <1>6, <1>7, <1>8, <1>9, <1>10 DEF Check, Op, EqualOps, OrderedOps

(* Specifiers with one canonical form, their operands spelled the plain    *)
(* way, match the same versions: counting them once in a set loses nothing *)
(* (Specifier.Equal, dedupeSpecifiers).                                    *)
THEOREM EqualSpecifiersMatchAlike ==
  \A s, t \in Specifier, v \in ParsedVersion :
    s.spelling = "plain" /\ t.spelling = "plain" /\ CanonicalSpec(s) = CanonicalSpec(t) =>
      (Check(s, v) <=> Check(t, v))
<1> SUFFICES ASSUME NEW s \in Specifier, NEW t \in Specifier, NEW v \in ParsedVersion,
                    s.spelling = "plain", t.spelling = "plain", CanonicalSpec(s) = CanonicalSpec(t)
             PROVE  Check(s, v) <=> Check(t, v)
  OBVIOUS
<1>1. /\ s = [op |-> s.op, ver |-> s.ver, wild |-> s.wild, spelling |-> s.spelling]
      /\ t = [op |-> t.op, ver |-> t.ver, wild |-> t.wild, spelling |-> t.spelling]
      /\ s.wild \in BOOLEAN /\ t.wild \in BOOLEAN
  BY DEF Specifier
<1>2. /\ CanonicalSpec(s).op = s.op /\ CanonicalSpec(s).wild = s.wild
      /\ CanonicalSpec(s).ver = IF s.wild \/ s.op = "~=" THEN s.ver ELSE TrimmedRelease(s.ver)
      /\ CanonicalSpec(t).op = t.op /\ CanonicalSpec(t).wild = t.wild
      /\ CanonicalSpec(t).ver = IF t.wild \/ t.op = "~=" THEN t.ver ELSE TrimmedRelease(t.ver)
  BY <1>1 DEF CanonicalSpec
<1>3. s.op = t.op /\ s.wild = t.wild
  BY <1>2
<1>4. CASE s.wild \/ s.op = "~="
  <2>1. s.ver = t.ver
    BY <1>2, <1>3, <1>4
  <2>2. s = t
    BY <1>1, <1>3, <2>1
  <2>3. QED
    BY <2>2
<1>5. CASE ~(s.wild \/ s.op = "~=")
  <2>1. TrimmedRelease(s.ver) = TrimmedRelease(t.ver)
    BY <1>2, <1>3, <1>5
  <2>2. QED
    BY <1>3, <1>5, <2>1, OperandsAlike
<1>6. QED
  BY <1>4, <1>5

(***************************************************************************)
(* The gap round a version                                                 *)
(***************************************************************************)
LEMMA FieldFacts ==
  ASSUME NEW v \in ParsedVersion
  PROVE  /\ Absent(v.pre) <=> PreClass(v) \in {0, 4}
         /\ Absent(v.pre) => PreNumber(v) = 0
         /\ DevOnly(v) <=> PreClass(v) = 0
         /\ Absent(v.post) <=> PostFlag(v) = 0
         /\ Absent(v.post) => PostNumber(v) = 0
         /\ Absent(v.dev) <=> DevAbsent(v) = 1
         /\ Absent(v.dev) => DevNumber(v) = 0
<1>1. v.pre = <<>> \/ \E c \in 1 .. 3, n \in Nat : v.pre = <<c, n>>
  BY PartShapes
<1>2. CASE v.pre = <<>>
  BY <1>2 DEF PreClass, DevOnly, PreNumber, PostFlag, PostNumber, DevAbsent, DevNumber, Absent
<1>3. CASE v.pre # <<>>
  <2>1. v.pre[1] \in 1 .. 3
    BY <1>1, <1>3
  <2>2. QED
    BY <1>3, <2>1 DEF PreClass, DevOnly, PreNumber, PostFlag, PostNumber, DevAbsent, DevNumber, Absent
<1>4. QED
  BY <1>2, <1>3

(* Fields with the same key are the same segments.                         *)
LEMMA FieldsAreSegments ==
  ASSUME NEW v \in ParsedVersion, NEW w \in ParsedVersion
  PROVE  /\ v.pre = w.pre <=> /\ Absent(v.pre) <=> Absent(w.pre)
                              /\ Absent(v.pre) \/ SamePre(v, w)
         /\ v.post = w.post <=> SamePost(v, w)
<1>1. /\ v.pre = <<>> \/ \E c \in 1 .. 3, n \in Nat : v.pre = <<c, n>>
      /\ w.pre = <<>> \/ \E c \in 1 .. 3, n \in Nat : w.pre = <<c, n>>
      /\ v.post = <<>> \/ \E n \in Nat : v.post = <<n>>
      /\ w.post = <<>> \/ \E n \in Nat : w.post = <<n>>
  BY PartShapes
<1>2. v.post = w.post <=> SamePost(v, w)
  BY <1>1 DEF SamePost, PostFlag, PostNumber, Absent
<1>3. CASE Absent(v.pre) \/ Absent(w.pre)
  BY <1>2, <1>3 DEF Absent
<1>4. CASE ~Absent(v.pre) /\ ~Absent(w.pre)
  <2>1. PICK c \in 1 .. 3, n \in Nat : v.pre = <<c, n>>
    BY <1>1, <1>4 DEF Absent
  <2>2. PICK d \in 1 .. 3, m \in Nat : w.pre = <<d, m>>
    BY <1>1, <1>4 DEF Absent
  <2>3. PreClass(v) = c /\ PreNumber(v) = n /\ PreClass(w) = d /\ PreNumber(w) = m
    BY <1>4, <2>1, <2>2 DEF PreClass, PreNumber, DevOnly
  <2>4. QED
    BY <1>2, <1>4, <2>1, <2>2, <2>3 DEF SamePre
<1>5. QED
  BY <1>2, <1>3, <1>4

LEMMA DerivedFields ==
  ASSUME NEW v \in ParsedVersion
  PROVE  /\ Public(v).epoch = v.epoch /\ Public(v).release = v.release /\ Public(v).local = <<>>
         /\ SameSuffix(Public(v), v)
         /\ PostBase(v).epoch = v.epoch /\ PostBase(v).release = v.release /\ PostBase(v).local = <<>>
         /\ PostBase(v).pre = v.pre /\ PostBase(v).post = <<>> /\ PostBase(v).dev = <<>>
         /\ EarliestPreRelease(v).epoch = v.epoch /\ EarliestPreRelease(v).release = v.release
         /\ EarliestPreRelease(v).pre = v.pre /\ EarliestPreRelease(v).post = v.post
         /\ EarliestPreRelease(v).dev = <<0>> /\ EarliestPreRelease(v).local = <<>>
<1>1. v = [epoch |-> v.epoch, release |-> v.release, pre |-> v.pre, post |-> v.post,
           dev |-> v.dev, local |-> v.local]
  BY DEF ParsedVersion
<1>2. /\ Public(v).epoch = v.epoch /\ Public(v).release = v.release /\ Public(v).local = <<>>
      /\ Public(v).pre = v.pre /\ Public(v).post = v.post /\ Public(v).dev = v.dev
  BY <1>1 DEF Public
<1>3. SameSuffix(Public(v), v)
  BY <1>2 DEF SameSuffix, SamePre, SamePost, SameDev, PreClass, DevOnly, PreNumber, PostFlag, PostNumber,
              DevAbsent, DevNumber
<1>4. /\ PostBase(v).epoch = v.epoch /\ PostBase(v).release = v.release /\ PostBase(v).local = <<>>
      /\ PostBase(v).pre = v.pre /\ PostBase(v).post = <<>> /\ PostBase(v).dev = <<>>
  BY <1>1 DEF PostBase
<1>5. /\ EarliestPreRelease(v).epoch = v.epoch /\ EarliestPreRelease(v).release = v.release
      /\ EarliestPreRelease(v).pre = v.pre /\ EarliestPreRelease(v).post = v.post
      /\ EarliestPreRelease(v).dev = <<0>> /\ EarliestPreRelease(v).local = <<>>
  BY <1>1 DEF EarliestPreRelease
<1>6. QED
  BY <1>2, <1>3, <1>4, <1>5

LEMMA NoLocalBelow == \A v, w : w.local = <<>> => ~LocalLess(v, w)
BY DEF LocalLess, NestedLess

(* Against an operand without a local part the local part of a version     *)
(* counts for nothing, but for ">" that has to leave it out.               *)
LEMMA AgainstPublic ==
  ASSUME NEW v \in ParsedVersion, NEW u \in ParsedVersion, Absent(u.local)
  PROVE  /\ Less(v, u) <=> KeyLess(v, u)
         /\ Same(Public(v), u) <=> SameKey(v, u)
         /\ Less(u, v) /\ (Absent(v.local) \/ ~SameKey(v, u)) <=> KeyLess(u, v)
         /\ AtMost(u, v) <=> ~KeyLess(v, u)
<1>1. u.local = <<>> /\ ~LocalLess(v, u)
  BY NoLocalBelow DEF Absent
<1>2. InOrder(v, u) <=> KeyLess(v, u)
  BY <1>1 DEF InOrder
<1>3. /\ KeyLess(u, v) => ~SameKey(v, u)
      /\ SameKey(u, v) <=> SameKey(v, u)
  BY KeysOrdered
<1>4. Less(u, v) /\ (Absent(v.local) \/ ~SameKey(v, u)) <=> KeyLess(u, v)
  <2>1. Absent(v.local) => ~LocalLess(u, v)
    BY NoLocalBelow DEF Absent
  <2>2. QED
    BY <1>3, <2>1, ParsedAnswers DEF InOrder
<1>5. Same(Public(v), u) <=> SameKey(v, u)
  <2>1. /\ Public(v) \in ParsedVersion /\ Public(v).local = <<>>
        /\ Public(v).epoch = v.epoch /\ Public(v).release = v.release /\ SameSuffix(Public(v), v)
    BY DerivedVersions, DerivedFields
  <2>2. SameKey(Public(v), u) <=> SameKey(v, u)
    BY <2>1, SuffixesOrdered DEF SameKey
  <2>3. QED
    BY <1>1, <2>1, <2>2, ParsedAnswers DEF SameOrder
<1>6. QED
  BY <1>2, <1>4, <1>5, ParsedAnswers

(* isPostReleaseOf, by segments.                                           *)
LEMMA PostReleasesFound ==
  ASSUME NEW v \in ParsedVersion, NEW u \in ParsedVersion, Absent(u.local)
  PROVE  /\ ~IsPostRelease(u) => (PostReleaseOf(v, u) <=> PostOf(v, u))
         /\ IsPostRelease(u) => ~PostOf(v, u)
         /\ PostOf(v, u) => KeyLess(u, v)
<1> DEFINE b == PostBase(v)
<1>1. /\ b \in ParsedVersion /\ b.epoch = v.epoch /\ b.release = v.release /\ b.local = <<>>
      /\ b.pre = v.pre /\ b.post = <<>> /\ b.dev = <<>>
  BY DerivedVersions, DerivedFields
<1> HIDE DEF b
<1>2. SameRelease(v, u) <=> v.epoch = u.epoch /\ SameReleases(v.release, u.release)
  BY SameReleaseFacts
<1>3. /\ PreClass(u) \in 0 .. 4 /\ PreClass(v) \in 0 .. 4 /\ PreClass(b) \in 0 .. 4
      /\ PostFlag(u) \in 0 .. 1 /\ DevAbsent(u) \in 0 .. 1 /\ PostFlag(v) \in 0 .. 1
  BY <1>1, FieldTypes
<1>4. u.pre = b.pre <=> (Absent(u.pre) <=> Absent(b.pre)) /\ (Absent(u.pre) \/ SamePre(u, b))
  BY <1>1, FieldsAreSegments
<1>5. /\ PreClass(b) # 0 /\ PostFlag(b) = 0 /\ PostNumber(b) = 0 /\ DevAbsent(b) = 1 /\ DevNumber(b) = 0
  BY <1>1, FieldFacts DEF DevOnly, PostFlag, PostNumber, DevAbsent, DevNumber, Absent
<1>6. SameSuffix(b, u) <=> Absent(u.post) /\ Absent(u.dev) /\ u.pre = v.pre
  <2>1. SameSuffix(b, u) => Absent(u.post) /\ Absent(u.dev)
    BY <1>5, FieldFacts DEF SameSuffix, SamePost, SameDev
  <2>2. ASSUME Absent(u.post), Absent(u.dev) PROVE SameSuffix(b, u) <=> u.pre = v.pre
    <3>1. SamePost(b, u) /\ SameDev(b, u)
      BY <1>5, <2>2, FieldFacts DEF SamePost, SameDev
    <3>2. PreClass(u) # 0
      BY <2>2, FieldFacts DEF DevOnly
    <3>3. SamePre(b, u) <=> SamePre(u, b)
      BY DEF SamePre
    <3>4. /\ Absent(u.pre) <=> PreClass(u) = 4
          /\ Absent(b.pre) <=> PreClass(b) = 4
          /\ Absent(u.pre) => PreNumber(u) = 0
          /\ Absent(b.pre) => PreNumber(b) = 0
      BY <1>1, <1>5, <3>2, FieldFacts
    <3>5. SamePre(b, u) <=> u.pre = b.pre
      BY <1>4, <3>3, <3>4 DEF SamePre
    <3>6. QED
      BY <1>1, <3>1, <3>5 DEF SameSuffix
  <2>3. QED
    BY <2>1, <2>2
<1>7. Same(b, u) <=> SameKey(b, u)
  BY <1>1, ParsedAnswers DEF SameOrder, Absent
<1>8. ~IsPostRelease(u) => (PostReleaseOf(v, u) <=> PostOf(v, u))
  BY <1>1, <1>2, <1>6, <1>7 DEF PostReleaseOf, PostOf, SameKey, IsPostRelease, b
<1>9. ASSUME PostOf(v, u) PROVE KeyLess(u, v)
  <2>1. v.epoch = u.epoch /\ SameReleases(u.release, v.release)
    BY <1>2, <1>9, ReleasesOrdered DEF PostOf
  <2>2. PostFlag(u) = 0 /\ PostFlag(v) = 1
    BY <1>9 DEF PostOf, PostFlag
  <2>3. PreClass(u) = PreClass(v) /\ PreNumber(u) = PreNumber(v)
    BY <1>9 DEF PostOf, PreClass, PreNumber, DevOnly
  <2>4. QED
    BY <2>1, <2>2, <2>3 DEF KeyLess, SuffixLess, SamePre, PostLess, LexLess
<1>10. QED
  BY <1>8, <1>9 DEF PostOf, IsPostRelease

(* isPreReleaseOf, by segments: from the least pre-release of an operand   *)
(* up to the operand there are its pre-releases only.                      *)
LEMMA PreReleasesFound ==
  ASSUME NEW v \in ParsedVersion, NEW u \in ParsedVersion, Absent(u.local)
  PROVE  /\ PreOf(v, u) => KeyLess(v, u)
         /\ IsPreRelease(u) => ~PreOf(v, u)
         /\ ~IsPreRelease(u) /\ KeyLess(v, u) => (PreReleaseOf(v, u) <=> PreOf(v, u))
<1> DEFINE e == EarliestPreRelease(u)
<1>1. /\ e \in ParsedVersion /\ e.epoch = u.epoch /\ e.release = u.release /\ e.local = <<>>
      /\ e.pre = u.pre /\ e.post = u.post /\ e.dev = <<0>>
  BY DerivedVersions, DerivedFields
<1> HIDE DEF e
<1>2. IsPreRelease(u) => ~PreOf(v, u)
  BY DEF IsPreRelease, PreOf
<1>3. SUFFICES ASSUME ~IsPreRelease(u)
               PROVE  /\ PreOf(v, u) => KeyLess(v, u)
                      /\ KeyLess(v, u) => (PreReleaseOf(v, u) <=> PreOf(v, u))
  BY <1>2
<1>4. Absent(u.pre) /\ Absent(u.dev)
  BY <1>3 DEF IsPreRelease
<1>5. /\ PreClass(u) = 4 /\ PreNumber(u) = 0 /\ DevAbsent(u) = 1 /\ DevNumber(u) = 0
      /\ PreClass(e) = (IF Absent(u.post) THEN 0 ELSE 4) /\ PreNumber(e) = 0
      /\ PostFlag(e) = PostFlag(u) /\ PostNumber(e) = PostNumber(u)
      /\ DevAbsent(e) = 0 /\ DevNumber(e) = 0
  BY <1>1, <1>4 DEF PreClass, PreNumber, PostFlag, PostNumber, DevAbsent, DevNumber, DevOnly, Absent
<1>6. /\ PreClass(v) \in 0 .. 4 /\ PreNumber(v) \in Nat /\ PostFlag(v) \in 0 .. 1 /\ PostNumber(v) \in Nat
      /\ DevAbsent(v) \in 0 .. 1 /\ DevNumber(v) \in Nat
      /\ PostFlag(u) \in 0 .. 1 /\ PostNumber(u) \in Nat
  BY FieldTypes
<1>7. /\ Absent(v.pre) <=> PreClass(v) \in {0, 4}
      /\ Absent(v.pre) => PreNumber(v) = 0
      /\ DevOnly(v) <=> PreClass(v) = 0
      /\ Absent(v.post) <=> PostFlag(v) = 0
      /\ Absent(v.post) => PostNumber(v) = 0
      /\ Absent(v.dev) <=> DevAbsent(v) = 1
      /\ Absent(u.post) <=> PostFlag(u) = 0
      /\ Absent(u.post) => PostNumber(u) = 0
      /\ v.post = u.post <=> SamePost(v, u)
  BY FieldFacts, FieldsAreSegments
<1> DEFINE lower == IF Absent(u.post) THEN PreClass(v) < 4
                    ELSE PreClass(v) = 4 /\ SamePost(v, u) /\ DevAbsent(v) = 0
<1>8. PreClass(v) = 4 /\ DevAbsent(v) = 0 => PostFlag(v) = 1
  BY <1>6, <1>7 DEF DevOnly
<1>9. PreOf(v, u) <=> SameRelease(v, u) /\ lower
  <2>1. CASE Absent(u.post)
    <3>1. ~Absent(v.pre) \/ DevOnly(v) <=> PreClass(v) < 4
      BY <1>6, <1>7
    <3>2. QED
      BY <1>4, <2>1, <3>1 DEF PreOf
  <2>2. CASE ~Absent(u.post)
    <3>1. v.post = u.post => PostFlag(v) = 1
      BY <1>6, <1>7, <2>2
    <3>2. PreClass(v) = 0 => PostFlag(v) = 0
      BY <1>7 DEF DevOnly
    <3>3. Absent(v.pre) /\ v.post = u.post /\ ~Absent(v.dev) <=> lower
      BY <1>6, <1>7, <2>2, <3>1, <3>2
    <3>4. QED
      BY <1>4, <2>2, <3>3 DEF PreOf
  <2>3. QED
    BY <2>1, <2>2
<1>10. SuffixLess(v, u) /\ ~SuffixLess(v, e) <=> lower
  <2>1. CASE Absent(u.post)
    <3>1. PostFlag(u) = 0 /\ PostNumber(u) = 0
      BY <1>7, <2>1
    <3>2. SuffixLess(v, u) => PreClass(v) < 4
      BY <1>5, <1>6, <1>8, <3>1, <1>7
      DEF SuffixLess, PreLess, PostLess, DevLess, SamePre, SamePost, SameDev, LexLess
    <3>3. ~SuffixLess(v, e)
      <4>1. PreClass(v) = 0 => PreNumber(v) = 0 /\ PostFlag(v) = 0 /\ PostNumber(v) = 0
        BY <1>7 DEF DevOnly
      <4>2. QED
        BY <1>5, <1>6, <2>1, <3>1, <4>1
        DEF SuffixLess, PreLess, PostLess, DevLess, SamePre, SamePost, SameDev, LexLess
    <3>4. PreClass(v) < 4 => SuffixLess(v, u)
      BY <1>5 DEF SuffixLess, PreLess, LexLess
    <3>5. QED
      BY <2>1, <3>2, <3>3, <3>4
  <2>2. CASE ~Absent(u.post)
    <3>1. PreClass(e) = 4
      BY <1>5, <2>2
    <3>2. PreClass(v) = 4 => PreNumber(v) = 0
      BY <1>7
    <3>3. QED
      BY <1>5, <1>6, <2>2, <3>1, <3>2
      DEF SuffixLess, PreLess, PostLess, DevLess, SamePre, SamePost, SameDev, LexLess
  <2>3. QED
    BY <2>1, <2>2
<1>11. SameRelease(v, u) <=> v.epoch = u.epoch /\ SameReleases(v.release, u.release)
  BY SameReleaseFacts
<1> HIDE DEF lower
<1>12. v.epoch \in Nat /\ u.epoch \in Nat
  BY DEF ParsedVersion
<1>13. KeyLess(v, u) /\ ~KeyLess(v, e) <=> PreOf(v, u)
  BY <1>1, <1>9, <1>10, <1>11, <1>12, ReleasesOrdered DEF KeyLess
<1>14. lower => IsPreRelease(v)
  BY <1>6, <1>7 DEF lower, IsPreRelease, DevOnly
<1>15. AtMost(e, v) <=> ~KeyLess(v, e)
  BY <1>1, AgainstPublic DEF Absent
<1>16. QED
  BY <1>9, <1>13, <1>14, <1>15 DEF PreReleaseOf, e

LEMMA OperatorsByKey ==
  ASSUME NEW v \in ParsedVersion, NEW u \in ParsedVersion, Absent(u.local)
  PROVE  /\ Check(Plain("<", u), v) <=> KeyLess(v, u) /\ ~PreOf(v, u)
         /\ Check(Plain("==", u), v) <=> SameKey(v, u)
         /\ Check(Plain(">", u), v) <=> KeyLess(u, v) /\ ~PostOf(v, u)
<1>1. \A op \in {"<", "==", ">"} : /\ Plain(op, u).op = op /\ Plain(op, u).ver = u
                                   /\ Plain(op, u).wild = FALSE
  BY DEF Plain
<1>2. Check(Plain("<", u), v) <=> SpecifierLessThan(v, Plain("<", u))
  BY <1>1 DEF Check, EqualOps
<1>3. Check(Plain("==", u), v) <=> SpecifierEqual(v, Plain("==", u))
  BY <1>1 DEF Check, EqualOps
<1>4. Check(Plain(">", u), v) <=> SpecifierGreaterThan(v, Plain(">", u))
  BY <1>1 DEF Check, EqualOps
<1>5. SpecifierLessThan(v, Plain("<", u)) <=> KeyLess(v, u) /\ ~PreOf(v, u)
  <2>1. SpecifierLessThan(v, Plain("<", u)) <=> Less(v, u) /\ (~IsPreRelease(u) => ~PreReleaseOf(v, u))
    BY <1>1 DEF SpecifierLessThan
  <2>2. Less(v, u) <=> KeyLess(v, u)
    BY AgainstPublic
  <2>3. QED
    BY <2>1, <2>2, PreReleasesFound
<1>6. SpecifierEqual(v, Plain("==", u)) <=> SameKey(v, u)
  BY <1>1, AgainstPublic DEF SpecifierEqual
<1>7. SpecifierGreaterThan(v, Plain(">", u)) <=> KeyLess(u, v) /\ ~PostOf(v, u)
  <2>1. SpecifierGreaterThan(v, Plain(">", u)) <=>
          /\ Less(u, v)
          /\ ~IsPostRelease(u) => ~PostReleaseOf(v, u)
          /\ Absent(v.local) \/ ~Same(Public(v), u)
    BY <1>1 DEF SpecifierGreaterThan
  <2>2. Less(u, v) /\ (Absent(v.local) \/ ~Same(Public(v), u)) <=> KeyLess(u, v)
    BY AgainstPublic
  <2>3. QED
    BY <2>1, <2>2, PostReleasesFound
<1>8. QED
  BY <1>2, <1>3, <1>4, <1>5, <1>6, <1>7

(* Of "<V", "==V" and ">V" a version matches exactly one, unless it is a   *)
(* pre-release of V or a post-release of V: those match none               *)
(* (specifierLessThan, specifierGreaterThan).                              *)
THEOREM OnlyTheGapIsLeftOut ==
  \A u, v \in ParsedVersion : Absent(u.local) =>
    LET matching == {op \in {"<", "==", ">"} : Check(Plain(op, u), v)}
    IN  IF PreOf(v, u) \/ PostOf(v, u) THEN matching = {} ELSE Cardinality(matching) = 1
<1> SUFFICES ASSUME NEW u \in ParsedVersion, NEW v \in ParsedVersion, Absent(u.local)
             PROVE  LET matching == {op \in {"<", "==", ">"} : Check(Plain(op, u), v)}
                    IN  IF PreOf(v, u) \/ PostOf(v, u) THEN matching = {} ELSE Cardinality(matching) = 1
  OBVIOUS
<1> DEFINE matching == {op \in {"<", "==", ">"} : Check(Plain(op, u), v)}
<1>1. /\ "<" \in matching <=> KeyLess(v, u) /\ ~PreOf(v, u)
      /\ "==" \in matching <=> SameKey(v, u)
      /\ ">" \in matching <=> KeyLess(u, v) /\ ~PostOf(v, u)
      /\ matching \subseteq {"<", "==", ">"}
  BY OperatorsByKey
<1>2. /\ ~(KeyLess(v, u) /\ KeyLess(u, v))
      /\ ~(KeyLess(v, u) /\ SameKey(v, u)) /\ ~(KeyLess(u, v) /\ SameKey(v, u))
      /\ KeyLess(v, u) \/ SameKey(v, u) \/ KeyLess(u, v)
  BY KeysOrdered
<1>3. (PreOf(v, u) => KeyLess(v, u)) /\ (PostOf(v, u) => KeyLess(u, v))
  BY PreReleasesFound, PostReleasesFound
<1> HIDE DEF matching
<1>4. CASE PreOf(v, u) \/ PostOf(v, u)
  <2>1. matching = {}
    BY <1>1, <1>2, <1>3, <1>4
  <2>2. QED
    BY <1>4, <2>1 DEF matching
<1>5. CASE ~(PreOf(v, u) \/ PostOf(v, u))
  <2>1. matching = {"<"} \/ matching = {"=="} \/ matching = {">"}
    BY <1>1, <1>2, <1>5
  <2>2. \A op : Cardinality({op}) = 1
    BY FS_Singleton
  <2>3. Cardinality(matching) = 1
    BY <2>1, <2>2
  <2>4. QED
    BY <1>5, <2>3 DEF matching
<1>6. QED
  BY <1>4, <1>5

(***************************************************************************)
(* The stretch a prefix matches                                            *)
(***************************************************************************)
(* Joining two splits, by name: the provers expand "\o" too eagerly.       *)
Splits     == Seq(Seq(Nat))
Join(a, b) == a \o b

LEMMA JoinFacts ==
  ASSUME NEW a \in Splits, NEW b \in Splits
  PROVE  /\ Join(a, b) \in Splits /\ Len(Join(a, b)) = Len(a) + Len(b)
         /\ Len(a) \in Nat /\ Len(b) \in Nat
         /\ \A i \in 1 .. Len(a) : Join(a, b)[i] = a[i]
         /\ \A i \in 1 .. Len(b) : Join(a, b)[Len(a) + i] = b[i]
         /\ a = <<>> => Join(a, b) = b
         /\ b = <<>> => Join(a, b) = a
<1>1. a \in Seq(Seq(Nat)) /\ b \in Seq(Seq(Nat))
  BY DEF Splits
<1> DEFINE S == Seq(Nat)
           j == a \o b
<1> HIDE DEF S
<1>2. a \in Seq(S) /\ b \in Seq(S)
  BY <1>1 DEF S
<1>3. /\ j \in Seq(S) /\ Len(j) = Len(a) + Len(b)
      /\ \A i \in 1 .. Len(a) + Len(b) : j[i] = IF i <= Len(a) THEN a[i] ELSE b[i - Len(a)]
  BY ONLY <1>2, ConcatProperties
<1>4. Len(a) \in Nat /\ Len(b) \in Nat
  BY <1>2
<1>5. (a = <<>> => j = b) /\ (b = <<>> => j = a)
  BY ONLY <1>2, ConcatEmptySeq
<1> HIDE DEF j
<1>6. \A i \in 1 .. Len(a) : j[i] = a[i]
  BY <1>3, <1>4
<1>7. \A i \in 1 .. Len(b) : j[Len(a) + i] = b[i]
  <2>1. TAKE i \in 1 .. Len(b)
  <2>2. Len(a) + i \in 1 .. Len(a) + Len(b) /\ ~(Len(a) + i <= Len(a)) /\ Len(a) + i - Len(a) = i
    BY <1>4
  <2>3. QED
    BY <1>3, <2>2
<1>8. QED
  BY <1>3, <1>4, <1>5, <1>6, <1>7 DEF Join, Splits, S, j

LEMMA JoinAssociative ==
  ASSUME NEW a \in Splits, NEW b \in Splits, NEW c \in Splits
  PROVE  Join(Join(a, b), c) = Join(a, Join(b, c))
<1> DEFINE S == Seq(Nat)
<1>1. a \in Seq(S) /\ b \in Seq(S) /\ c \in Seq(S)
  BY DEF Splits
<1> HIDE DEF S
<1>2. (a \o b) \o c = a \o (b \o c)
  BY ONLY <1>1, ConcatAssociative
<1>3. QED
  BY <1>2 DEF Join

(* The components of a release, before those of the suffixes.              *)
Components(v) == << <<v.epoch>> >> \o [i \in DOMAIN v.release |-> <<v.release[i]>>]
PrePart(v)    == IF Absent(v.pre)  THEN <<>> ELSE << <<1, v.pre[1], v.pre[2]>> >>
PostPart(v)   == IF Absent(v.post) THEN <<>> ELSE << <<2, v.post[1]>> >>
DevPart(v)    == IF Absent(v.dev)  THEN <<>> ELSE << <<3, v.dev[1]>> >>
Suffixes(v)   == PrePart(v) \o PostPart(v) \o DevPart(v)

LEMMA ComponentsTyped ==
  ASSUME NEW v \in ParsedVersion
  PROVE  /\ Components(v) \in Splits /\ Len(Components(v)) = Len(v.release) + 1
         /\ Components(v)[1] = <<v.epoch>>
         /\ \A i \in 1 .. Len(v.release) : Components(v)[i + 1] = <<v.release[i]>>
<1>1. v.epoch \in Nat /\ v.release \in Seq(Nat)
  BY DEF ParsedVersion
<1> DEFINE c == <<v.epoch>>
           h == <<c>>
           t == [i \in DOMAIN v.release |-> <<v.release[i]>>]
<1>2. c \in Seq(Nat)
  BY <1>1
<1>3. h \in Seq(Seq(Nat)) /\ Len(h) = 1 /\ h[1] = c
  <2> HIDE DEF c
  <2>1. QED
    BY <1>2
<1>4. t \in Seq(Seq(Nat)) /\ Len(t) = Len(v.release) /\ \A i \in 1 .. Len(v.release) : t[i] = <<v.release[i]>>
  <2>1. DOMAIN v.release = 1 .. Len(v.release) /\ Len(v.release) \in Nat
    BY <1>1
  <2>2. \A i \in 1 .. Len(v.release) : <<v.release[i]>> \in Seq(Nat)
    <3>1. \A i \in 1 .. Len(v.release) : v.release[i] \in Nat
      BY <1>1
    <3>2. \A n \in Nat : <<n>> \in Seq(Nat)
      OBVIOUS
    <3>3. QED
      BY <3>1, <3>2
  <2>3. t = [i \in 1 .. Len(v.release) |-> <<v.release[i]>>]
    BY <2>1
  <2>4. QED
    BY <2>1, <2>2, <2>3
<1>5. Components(v) = Join(h, t) /\ h \in Splits /\ t \in Splits
  BY <1>3, <1>4 DEF Components, Join, Splits
<1> HIDE DEF h, t
<1>6. /\ Join(h, t) \in Splits /\ Len(Join(h, t)) = 1 + Len(v.release) /\ Len(v.release) \in Nat
      /\ Join(h, t)[1] = c
      /\ \A i \in 1 .. Len(v.release) : Join(h, t)[1 + i] = <<v.release[i]>>
  <2>1. /\ Join(h, t) \in Splits /\ Len(Join(h, t)) = Len(h) + Len(t)
        /\ \A i \in 1 .. Len(h) : Join(h, t)[i] = h[i]
        /\ \A i \in 1 .. Len(t) : Join(h, t)[Len(h) + i] = t[i]
    BY <1>5, JoinFacts
  <2>2. Len(h) = 1 /\ h[1] = c /\ Len(t) = Len(v.release) /\ Len(v.release) \in Nat
    BY <1>1, <1>3, <1>4
  <2>3. Join(h, t)[1] = c
    BY <2>1, <2>2
  <2>4. \A i \in 1 .. Len(v.release) : Join(h, t)[1 + i] = <<v.release[i]>>
    BY <1>4, <2>1, <2>2
  <2>5. QED
    BY <2>1, <2>2, <2>3, <2>4
<1>7. \A i \in 1 .. Len(v.release) : 1 + i = i + 1
  BY <1>6
<1>8. QED
  BY <1>5, <1>6, <1>7

LEMMA PartsTyped ==
  ASSUME NEW v \in ParsedVersion
  PROVE  \A p \in {PrePart(v), PostPart(v), DevPart(v)} :
           /\ p \in Splits
           /\ p # <<>> => Len(p) \in Nat \ {0} /\ ~Numeric(p[1])
<1>1. ASSUME NEW c \in Seq(Nat), Len(c) # 1
      PROVE  <<c>> \in Splits /\ Len(<<c>>) \in Nat \ {0} /\ ~Numeric(<<c>>[1])
  BY <1>1 DEF Numeric, Splits
<1>2. PrePart(v) = <<>> \/ \E c \in Seq(Nat) : Len(c) # 1 /\ PrePart(v) = <<c>>
  <2>1. CASE v.pre = <<>>
    BY <2>1 DEF PrePart, Absent
  <2>2. CASE v.pre # <<>>
    <3>1. PICK c \in 1 .. 3, n \in Nat : v.pre = <<c, n>>
      BY <2>2, PartShapes
    <3>2. PrePart(v) = <<<<1, c, n>>>>
      BY <2>2, <3>1 DEF PrePart, Absent
    <3>3. <<1, c, n>> \in Seq(Nat) /\ Len(<<1, c, n>>) # 1
      OBVIOUS
    <3>4. QED
      BY <3>2, <3>3
  <2>3. QED
    BY <2>1, <2>2
<1>3. PostPart(v) = <<>> \/ \E c \in Seq(Nat) : Len(c) # 1 /\ PostPart(v) = <<c>>
  <2>1. CASE v.post = <<>>
    BY <2>1 DEF PostPart, Absent
  <2>2. CASE v.post # <<>>
    <3>1. PICK n \in Nat : v.post = <<n>>
      BY <2>2, PartShapes
    <3>2. PostPart(v) = <<<<2, n>>>>
      BY <2>2, <3>1 DEF PostPart, Absent
    <3>3. <<2, n>> \in Seq(Nat) /\ Len(<<2, n>>) # 1
      OBVIOUS
    <3>4. QED
      BY <3>2, <3>3
  <2>3. QED
    BY <2>1, <2>2
<1>4. DevPart(v) = <<>> \/ \E c \in Seq(Nat) : Len(c) # 1 /\ DevPart(v) = <<c>>
  <2>1. CASE v.dev = <<>>
    BY <2>1 DEF DevPart, Absent
  <2>2. CASE v.dev # <<>>
    <3>1. PICK n \in Nat : v.dev = <<n>>
      BY <2>2, PartShapes
    <3>2. DevPart(v) = <<<<3, n>>>>
      BY <2>2, <3>1 DEF DevPart, Absent
    <3>3. <<3, n>> \in Seq(Nat) /\ Len(<<3, n>>) # 1
      OBVIOUS
    <3>4. QED
      BY <3>2, <3>3
  <2>3. QED
    BY <2>1, <2>2
<1>5. <<>> \in Splits
  BY DEF Splits
<1>6. QED
  BY <1>1, <1>2, <1>3, <1>4, <1>5

LEMMA SuffixesTyped ==
  ASSUME NEW v \in ParsedVersion
  PROVE  /\ Suffixes(v) \in Splits
         /\ Suffixes(v) # <<>> => ~Numeric(Suffixes(v)[1])
         /\ Absent(v.pre) /\ Absent(v.post) /\ Absent(v.dev) => Suffixes(v) = <<>>
<1> DEFINE p == PrePart(v)
           q == PostPart(v)
           d == DevPart(v)
           pq == Join(p, q)
<1>1. \A x \in {p, q, d} : x \in Splits /\ (x # <<>> => Len(x) \in Nat \ {0} /\ ~Numeric(x[1]))
  BY PartsTyped
<1>2. Suffixes(v) = Join(pq, d)
  BY DEF Suffixes, Join
<1>3. Absent(v.pre) /\ Absent(v.post) /\ Absent(v.dev) => p = <<>> /\ q = <<>> /\ d = <<>>
  BY DEF PrePart, PostPart, DevPart
<1> HIDE DEF p, q, d
<1>4. ASSUME NEW x \in Splits, NEW y \in Splits,
             x # <<>> => Len(x) \in Nat \ {0} /\ ~Numeric(x[1]),
             y # <<>> => Len(y) \in Nat \ {0} /\ ~Numeric(y[1])
      PROVE  /\ Join(x, y) \in Splits
             /\ Join(x, y) # <<>> => Len(Join(x, y)) \in Nat \ {0} /\ ~Numeric(Join(x, y)[1])
             /\ x = <<>> /\ y = <<>> => Join(x, y) = <<>>
  <2>1. CASE x = <<>>
    BY <1>4, <2>1, JoinFacts
  <2>2. CASE x # <<>>
    <3>1. Len(x) \in Nat \ {0} /\ ~Numeric(x[1]) /\ Len(y) \in Nat /\ 1 \in 1 .. Len(x)
      BY <1>4, <2>2, JoinFacts
    <3>2. Join(x, y)[1] = x[1] /\ Len(Join(x, y)) \in Nat \ {0} /\ Join(x, y) \in Splits
      BY <3>1, JoinFacts
    <3>3. QED
      BY <2>2, <3>1, <3>2
  <2>3. QED
    BY <2>1, <2>2
<1>5. /\ pq \in Splits
      /\ pq # <<>> => Len(pq) \in Nat \ {0} /\ ~Numeric(pq[1])
      /\ p = <<>> /\ q = <<>> => pq = <<>>
  BY <1>1, <1>4
<1> HIDE DEF pq
<1>6. /\ Join(pq, d) \in Splits
      /\ Join(pq, d) # <<>> => ~Numeric(Join(pq, d)[1])
      /\ pq = <<>> /\ d = <<>> => Join(pq, d) = <<>>
  BY <1>1, <1>4, <1>5
<1>7. QED
  BY <1>2, <1>3, <1>5, <1>6

(* The split of a version: its numeric prefix is its epoch and release.    *)
LEMMA SplitFacts ==
  ASSUME NEW v \in ParsedVersion
  PROVE  /\ VersionSplit(v) \in Splits
         /\ NumericPrefixLen(VersionSplit(v)) = Len(v.release) + 1
         /\ Len(VersionSplit(v)) \in Nat /\ Len(VersionSplit(v)) >= Len(v.release) + 1
         /\ VersionSplit(v)[1] = <<v.epoch>>
         /\ \A i \in 1 .. Len(v.release) : VersionSplit(v)[i + 1] = <<v.release[i]>>
         /\ Absent(v.pre) /\ Absent(v.post) /\ Absent(v.dev) => Len(VersionSplit(v)) = Len(v.release) + 1
<1> DEFINE h == Components(v)
           t == Suffixes(v)
           n == Len(v.release) + 1
           s == VersionSplit(v)
<1>1. /\ h \in Splits /\ Len(h) = n /\ h[1] = <<v.epoch>>
      /\ \A i \in 1 .. Len(v.release) : h[i + 1] = <<v.release[i]>>
  BY ComponentsTyped
<1>2. /\ t \in Splits /\ (t # <<>> => ~Numeric(t[1]))
      /\ Absent(v.pre) /\ Absent(v.post) /\ Absent(v.dev) => t = <<>>
  BY SuffixesTyped
<1>3. v.release \in Seq(Nat) /\ Len(v.release) \in Nat /\ n \in Nat
  BY DEF ParsedVersion
<1>4. s = Join(h, t)
  <2> DEFINE p == PrePart(v)
             q == PostPart(v)
             d == DevPart(v)
  <2>1. s = Join(Join(Join(h, p), q), d)
    BY DEF VersionSplit, Components, PrePart, PostPart, DevPart, Join
  <2>2. t = Join(Join(p, q), d)
    BY DEF Suffixes, Join
  <2>3. p \in Splits /\ q \in Splits /\ d \in Splits
    BY PartsTyped
  <2> HIDE DEF h, t, s, p, q, d
  <2>4. Join(p, q) \in Splits
    BY <2>3, JoinFacts
  <2>5. Join(Join(h, p), q) = Join(h, Join(p, q))
    BY <1>1, <2>3, JoinAssociative
  <2>6. Join(Join(h, Join(p, q)), d) = Join(h, Join(Join(p, q), d))
    BY SMTT(60), <1>1, <2>3, <2>4, JoinAssociative
  <2>7. QED
    BY <2>1, <2>2, <2>5, <2>6
<1> HIDE DEF h, t, s, n
<1>5. /\ s \in Splits /\ Len(s) = n + Len(t) /\ Len(t) \in Nat
      /\ \A i \in 1 .. n : s[i] = h[i]
      /\ \A i \in 1 .. Len(t) : s[n + i] = t[i]
      /\ DOMAIN s = 1 .. Len(s)
  <2>1. /\ s \in Splits /\ Len(s) = Len(h) + Len(t) /\ Len(t) \in Nat
        /\ \A i \in 1 .. Len(h) : s[i] = h[i]
        /\ \A i \in 1 .. Len(t) : s[Len(h) + i] = t[i]
    BY <1>1, <1>2, <1>4, JoinFacts
  <2>2. DOMAIN s = 1 .. Len(s)
    BY <2>1 DEF Splits
  <2>3. QED
    BY <1>1, <2>1, <2>2
<1>6. Len(t) > 0 => ~Numeric(s[n + 1])
  <2>1. SUFFICES ASSUME Len(t) > 0 PROVE ~Numeric(s[n + 1])
    OBVIOUS
  <2>2. t # <<>> /\ 1 \in 1 .. Len(t)
    BY <1>5, <2>1
  <2>3. QED
    BY <1>2, <1>5, <2>2
<1>7. \A i \in 1 .. n : Numeric(s[i])
  <2>1. TAKE i \in 1 .. n
  <2>2. \A k : Len(<<k>>) = 1
    OBVIOUS
  <2>3. CASE i = 1
    <3>1. s[i] = <<v.epoch>>
      BY <1>1, <1>5, <2>3
    <3>2. QED
      BY <2>2, <3>1 DEF Numeric
  <2>4. CASE i # 1
    <3>1. i - 1 \in 1 .. Len(v.release) /\ i = (i - 1) + 1
      BY <1>3, <2>4 DEF n
    <3>2. s[i] = <<v.release[i - 1]>>
      BY <1>1, <1>5, <3>1
    <3>3. QED
      BY <2>2, <3>2 DEF Numeric
  <2>5. QED
    BY <2>3, <2>4
<1>8. {i \in DOMAIN s : \A j \in 1 .. i : Numeric(s[j])} = 1 .. n
  <2>1. ASSUME NEW i \in 1 .. Len(s), i > n PROVE ~(\A j \in 1 .. i : Numeric(s[j]))
    <3>1. n + 1 \in 1 .. i
      BY <1>3, <2>1
    <3>2. Len(t) > 0
      BY <1>3, <1>5, <2>1
    <3>3. QED
      BY <1>6, <3>1, <3>2
  <2>2. \A i \in 1 .. n : i \in 1 .. Len(s)
    BY <1>3, <1>5
  <2>3. \A i \in 1 .. n : \A j \in 1 .. i : j \in 1 .. n
    BY <1>3
  <2>4. \A i \in 1 .. Len(s) : i > n \/ i \in 1 .. n
    BY <1>3, <1>5
  <2>5. \A i \in 1 .. n : \A j \in 1 .. i : Numeric(s[j])
    BY <1>7, <2>3
  <2>6. DOMAIN s = 1 .. Len(s)
    BY <1>5
  <2>7. QED
    BY ONLY <2>1, <2>2, <2>4, <2>5, <2>6
<1>9. NumericPrefixLen(s) = n
  <2>1. Cardinality(1 .. n) = n
    BY <1>3, FS_Interval
  <2>2. QED
    BY <1>8, <2>1 DEF NumericPrefixLen
<1>10. s[1] = <<v.epoch>> /\ \A i \in 1 .. Len(v.release) : s[i + 1] = <<v.release[i]>>
  <2>1. 1 \in 1 .. n /\ \A i \in 1 .. Len(v.release) : i + 1 \in 1 .. n
    BY <1>3 DEF n
  <2>2. QED
    BY <1>1, <1>5, <2>1
<1>11. Absent(v.pre) /\ Absent(v.post) /\ Absent(v.dev) => Len(s) = n
  <2>1. t = <<>> => Len(t) = 0
    OBVIOUS
  <2>2. QED
    BY <1>2, <1>3, <1>5, <2>1
<1>12. Len(s) \in Nat /\ Len(s) >= n
  BY <1>3, <1>5
<1>13. QED
  BY <1>5, <1>9, <1>10, <1>11, <1>12 DEF s, n

(* Padding puts zeros behind the release and cutting leaves as many        *)
(* components as the prefix has: what is compared is the epoch and the     *)
(* first segments.                                                         *)
LEMMA PrefixBySegments ==
  ASSUME NEW v \in ParsedVersion, NEW p \in ParsedVersion,
         Absent(p.pre), Absent(p.post), Absent(p.dev)
  PROVE  PrefixMatches(v, p) <=>
           /\ v.epoch = p.epoch
           /\ \A i \in 1 .. Len(p.release) : Segment(v.release, i) = p.release[i]
<1> DEFINE w == Public(v)
           split == VersionSplit(w)
           spec == VersionSplit(p)
           m == Len(v.release) + 1
           k == Len(p.release) + 1
           padded == LeftPad(split, k)
<1>1. w \in ParsedVersion /\ w.epoch = v.epoch /\ w.release = v.release
  BY DerivedVersions, DerivedFields
<1>2. /\ v.release \in Seq(Nat) /\ Len(v.release) \in Nat /\ m \in Nat
      /\ p.release \in Seq(Nat) /\ Len(p.release) \in Nat /\ k \in Nat
  BY DEF ParsedVersion
<1>3. /\ split \in Splits /\ NumericPrefixLen(split) = m /\ Len(split) \in Nat /\ Len(split) >= m
      /\ split[1] = <<v.epoch>>
      /\ \A i \in 1 .. Len(v.release) : split[i + 1] = <<v.release[i]>>
  BY <1>1, SplitFacts
<1>4. /\ spec \in Splits /\ NumericPrefixLen(spec) = k /\ Len(spec) = k
      /\ spec[1] = <<p.epoch>>
      /\ \A i \in 1 .. Len(p.release) : spec[i + 1] = <<p.release[i]>>
  BY SplitFacts
<1> HIDE DEF w, split, spec
<1>5. PrefixMatches(v, p) <=>
        SubSeq(padded, 1, IF Len(padded) < k THEN Len(padded) ELSE k) = spec
  BY <1>4 DEF PrefixMatches, PadThenCut, w, split, spec
<1> HIDE DEF m, k
<1>6. /\ padded \in Splits /\ Len(padded) \in Nat /\ Len(padded) >= k
      /\ \A i \in 1 .. k : padded[i] = IF i <= m THEN split[i] ELSE <<0>>
  <2>1. CASE k <= m
    <3>1. padded = split
      BY <1>3, <2>1 DEF LeftPad
    <3>2. QED
      BY <1>2, <1>3, <2>1, <3>1
  <2>2. CASE ~(k <= m)
    <3> DEFINE a == SubSeq(split, 1, m)
               z == [i \in 1 .. k - m |-> <<0>>]
               b == SubSeq(split, m + 1, Len(split))
    <3>1. padded = Join(Join(a, z), b)
      BY <1>3, <2>2 DEF LeftPad, Join
    <3> HIDE DEF padded
    <3>2. a \in Splits /\ b \in Splits /\ Len(a) = m /\ \A i \in 1 .. m : a[i] = split[i]
      <4> DEFINE S == Seq(Nat)
      <4>1. split \in Seq(S)
        BY <1>3 DEF Splits
      <4> HIDE DEF S
      <4>2. a \in Seq(S) /\ b \in Seq(S) /\ Len(a) = m /\ \A i \in 1 .. m : a[i] = split[i]
        BY <1>2, <1>3, <4>1
      <4>3. QED
        BY <4>2 DEF Splits, S
    <3>3. z \in Splits /\ Len(z) = k - m /\ \A i \in 1 .. k - m : z[i] = <<0>>
      <4>1. k - m \in Nat
        BY <1>2, <2>2
      <4> DEFINE S == Seq(Nat)
                 c == <<0>>
                 d == k - m
      <4>2. c \in S /\ d \in Nat
        BY <4>1
      <4>3. z = [i \in 1 .. d |-> c]
        OBVIOUS
      <4> HIDE DEF S, c, d, z
      <4>4. z \in Seq(S) /\ Len(z) = d /\ \A i \in 1 .. d : z[i] = c
        BY <4>2, <4>3
      <4>5. QED
        BY <4>4 DEF Splits, S, c, d
    <3> HIDE DEF a, z, b
    <3>4. /\ Join(a, z) \in Splits /\ Len(Join(a, z)) = k
          /\ \A i \in 1 .. m : Join(a, z)[i] = split[i]
          /\ \A i \in 1 .. k - m : Join(a, z)[m + i] = <<0>>
      <4>1. /\ Join(a, z) \in Splits /\ Len(Join(a, z)) = Len(a) + Len(z)
            /\ \A i \in 1 .. Len(a) : Join(a, z)[i] = a[i]
            /\ \A i \in 1 .. Len(z) : Join(a, z)[Len(a) + i] = z[i]
        BY <3>2, <3>3, JoinFacts
      <4>2. m + (k - m) = k
        BY <1>2
      <4>3. QED
        BY <3>2, <3>3, <4>1, <4>2
    <3>5. /\ padded \in Splits /\ Len(padded) \in Nat /\ Len(padded) >= k
          /\ \A i \in 1 .. k : padded[i] = Join(a, z)[i]
      <4>1. /\ padded \in Splits /\ Len(padded) = Len(Join(a, z)) + Len(b) /\ Len(b) \in Nat
            /\ \A i \in 1 .. Len(Join(a, z)) : padded[i] = Join(a, z)[i]
        BY <3>1, <3>2, <3>4, JoinFacts
      <4>2. QED
        BY <1>2, <3>4, <4>1
    <3>6. \A i \in 1 .. k : IF i <= m THEN i \in 1 .. m ELSE i - m \in 1 .. k - m /\ m + (i - m) = i
      BY <1>2
    <3>7. \A i \in 1 .. k : padded[i] = IF i <= m THEN split[i] ELSE <<0>>
      BY <3>4, <3>5, <3>6
    <3>8. QED
      BY <3>5, <3>7
  <2>3. QED
    BY <2>1, <2>2
<1> HIDE DEF padded
<1>7. SubSeq(padded, 1, IF Len(padded) < k THEN Len(padded) ELSE k) = spec
        <=> \A i \in 1 .. k : padded[i] = spec[i]
  <2>1. ~(Len(padded) < k)
    BY <1>2, <1>6
  <2> DEFINE S == Seq(Nat)
  <2>2. padded \in Seq(S) /\ spec \in Seq(S)
    BY <1>4, <1>6 DEF Splits
  <2> HIDE DEF S
  <2>3. SubSeq(padded, 1, k) = SubSeq(spec, 1, k) <=> \A i \in 1 .. k : padded[i] = spec[i]
    BY <1>2, <1>4, <1>6, <2>2, PrefixesEqual
  <2>4. SubSeq(spec, 1, k) = spec
    BY <1>2, <1>4, <2>2
  <2>5. QED
    BY <2>1, <2>3, <2>4
<1>8. padded[1] = <<v.epoch>>
  BY <1>2, <1>3, <1>6 DEF m, k
<1>9. ASSUME NEW i \in 1 .. Len(p.release) PROVE padded[i + 1] = <<Segment(v.release, i)>>
  <2>1. i + 1 \in 1 .. k /\ i \in Nat \ {0}
    BY <1>2 DEF k
  <2>2. padded[i + 1] = IF i <= Len(v.release) THEN <<v.release[i]>> ELSE <<0>>
    <3>1. i + 1 <= m <=> i <= Len(v.release)
      BY <1>2, <2>1 DEF m
    <3>2. i <= Len(v.release) => i \in 1 .. Len(v.release)
      BY <2>1
    <3>3. QED
      BY <1>3, <1>6, <2>1, <3>1, <3>2
  <2>3. ReleaseLen(v.release) \in 0 .. Len(v.release)
    BY <1>2, ReleaseLenFacts
  <2>4. CASE i <= ReleaseLen(v.release)
    BY <1>2, <2>2, <2>3, <2>4 DEF Segment
  <2>5. CASE i > ReleaseLen(v.release)
    <3>1. Segment(v.release, i) = 0
      BY <1>2, <2>1, <2>3, <2>5 DEF Segment
    <3>2. i <= Len(v.release) => v.release[i] = 0
      BY <1>2, <2>1, <2>5, ReleaseLenFacts
    <3>3. QED
      BY <2>2, <3>1, <3>2
  <2>6. QED
    BY <2>1, <2>3, <2>4, <2>5
<1>10. (\A i \in 1 .. k : padded[i] = spec[i]) <=>
         padded[1] = spec[1] /\ \A i \in 1 .. Len(p.release) : padded[i + 1] = spec[i + 1]
  <2>1. 1 \in 1 .. k /\ \A i \in 1 .. Len(p.release) : i + 1 \in 1 .. k
    BY <1>2 DEF k
  <2>2. \A i \in 1 .. k : i = 1 \/ (i - 1 \in 1 .. Len(p.release) /\ (i - 1) + 1 = i)
    BY <1>2 DEF k
  <2>3. QED
    BY <2>1, <2>2
<1>11. \A a, b : <<a>> = <<b>> <=> a = b
  OBVIOUS
<1>12. padded[1] = spec[1] <=> v.epoch = p.epoch
  BY <1>4, <1>8, <1>11
<1>13. \A i \in 1 .. Len(p.release) : padded[i + 1] = spec[i + 1] <=> Segment(v.release, i) = p.release[i]
  <2>1. TAKE i \in 1 .. Len(p.release)
  <2>2. padded[i + 1] = <<Segment(v.release, i)>> /\ spec[i + 1] = <<p.release[i]>>
    BY <1>4, <1>9
  <2>3. QED
    BY ONLY <1>11, <2>2
<1>14. QED
  BY <1>5, <1>7, <1>10, <1>12, <1>13

(* The first place where a version leaves a prefix puts it before or after *)
(* everything the prefix matches.                                          *)
LEMMA PrefixStretch ==
  ASSUME NEW p \in ParsedVersion, Absent(p.pre), Absent(p.post), Absent(p.dev),
         NEW v \in ParsedVersion, ~PrefixMatches(v, p)
  PROVE  \/ \A u \in ParsedVersion : PrefixMatches(u, p) => KeyLess(u, v)
         \/ \A u \in ParsedVersion : PrefixMatches(u, p) => KeyLess(v, u)
<1>1. v.epoch \in Nat /\ p.epoch \in Nat /\ v.release \in Seq(Nat) /\ p.release \in Seq(Nat)
  BY DEF ParsedVersion
<1>2. \A u \in ParsedVersion : PrefixMatches(u, p) =>
        /\ u.epoch = p.epoch
        /\ \A i \in 1 .. Len(p.release) : Segment(u.release, i) = p.release[i]
  BY PrefixBySegments
<1>3. CASE v.epoch # p.epoch
  BY <1>1, <1>2, <1>3 DEF KeyLess
<1>4. CASE v.epoch = p.epoch
  <2> DEFINE T == {i \in 1 .. Len(p.release) : Segment(v.release, i) # p.release[i]}
  <2>1. T # {}
    BY <1>4, PrefixBySegments
  <2>2. T \in SUBSET Nat
    OBVIOUS
  <2>3. PICK k \in T : \A i \in T : k <= i
    BY <2>1, <2>2, LeastNatural
  <2>4. /\ k \in Places /\ k \in 1 .. Len(p.release)
        /\ \A i \in 1 .. k - 1 : i \in 1 .. Len(p.release) /\ Segment(v.release, i) = p.release[i]
    <3>1. k \in 1 .. Len(p.release) /\ Len(p.release) \in Nat
      BY <1>1
    <3>2. \A i \in 1 .. k - 1 : i \in 1 .. Len(p.release) /\ ~(k <= i)
      BY <3>1
    <3>3. QED
      BY <2>3, <3>1, <3>2 DEF Places
  <2>5. Segment(v.release, k) \in Nat /\ p.release[k] \in Nat /\ Segment(v.release, k) # p.release[k]
    <3>1. Segment(v.release, k) \in Nat
      BY <1>1, <2>4, SegmentFacts
    <3>2. p.release[k] \in Nat
      BY ONLY <1>1, <2>4
    <3>3. QED
      BY <2>3, <3>1, <3>2
  <2> HIDE DEF T
  <2>6. ASSUME NEW u \in ParsedVersion, PrefixMatches(u, p)
        PROVE  /\ u.epoch = v.epoch
               /\ Segment(u.release, k) = p.release[k]
               /\ \A i \in 1 .. k - 1 : Segment(u.release, i) = Segment(v.release, i)
    BY <1>2, <1>4, <2>4, <2>6
  <2>7. CASE Segment(v.release, k) < p.release[k]
    <3>1. ASSUME NEW u \in ParsedVersion, PrefixMatches(u, p) PROVE ReleaseLess(v.release, u.release)
      BY <2>4, <2>6, <2>7, <3>1 DEF ReleaseLess
    <3>2. QED
      BY <2>6, <3>1 DEF KeyLess
  <2>8. CASE p.release[k] < Segment(v.release, k)
    <3>1. ASSUME NEW u \in ParsedVersion, PrefixMatches(u, p) PROVE ReleaseLess(u.release, v.release)
      BY <2>4, <2>6, <2>8, <3>1 DEF ReleaseLess
    <3>2. QED
      BY <2>6, <3>1 DEF KeyLess
  <2>9. QED
    BY <2>5, <2>7, <2>8
<1>5. QED
  BY <1>3, <1>4

LEMMA KeyLessIsLess ==
  ASSUME NEW v \in ParsedVersion, NEW w \in ParsedVersion, KeyLess(v, w)
  PROVE  Less(v, w)
BY ParsedAnswers DEF InOrder

LEMMA PublicKey ==
  ASSUME NEW v \in ParsedVersion, NEW u \in ParsedVersion, Absent(u.local)
  PROVE  AtMost(u, Public(v)) <=> ~KeyLess(v, u)
<1>1. /\ Public(v) \in ParsedVersion /\ Public(v).epoch = v.epoch /\ Public(v).release = v.release
      /\ SameSuffix(Public(v), v)
  BY DerivedVersions, DerivedFields
<1>2. SameKey(Public(v), v) /\ SameKey(v, Public(v))
  BY <1>1, KeysOrdered DEF SameKey, SameReleases
<1>3. KeyLess(Public(v), u) <=> KeyLess(v, u)
  BY <1>1, <1>2, KeysOrdered
<1>4. AtMost(u, Public(v)) <=> ~KeyLess(Public(v), u)
  BY <1>1, AgainstPublic
<1>5. QED
  BY <1>3, <1>4

LEMMA CompatiblePrefixFacts ==
  ASSUME NEW s \in Specifier, Valid(s), s.op = "~="
  PROVE  /\ CompatiblePrefix(s) \in ParsedVersion
         /\ Absent(CompatiblePrefix(s).pre) /\ Absent(CompatiblePrefix(s).post)
         /\ Absent(CompatiblePrefix(s).dev)
<1> DEFINE r == IF s.spelling = "alias" THEN s.ver.release
                ELSE SubSeq(s.ver.release, 1, Len(s.ver.release) - 1)
<1>1. s.ver \in ParsedVersion /\ s.ver.epoch \in Nat /\ s.ver.release \in Seq(Nat) \ {<<>>}
  BY DEF Specifier, ParsedVersion
<1>2. Len(s.ver.release) >= 2 /\ Len(s.ver.release) \in Nat
  BY <1>1 DEF Valid
<1>3. r \in Seq(Nat) \ {<<>>}
  <2>1. ASSUME NEW q \in Seq(Nat), NEW n \in Nat \ {0}, n <= Len(q)
        PROVE  SubSeq(q, 1, n) \in Seq(Nat) \ {<<>>}
    <3>1. SubSeq(q, 1, n) \in Seq(Nat) /\ Len(SubSeq(q, 1, n)) = n /\ n # 0
      BY <2>1
    <3>2. QED
      BY <3>1
  <2>2. Len(s.ver.release) - 1 \in Nat \ {0} /\ Len(s.ver.release) - 1 <= Len(s.ver.release)
    <3>1. \A n \in Nat : n >= 2 => n - 1 \in Nat \ {0} /\ n - 1 <= n
      OBVIOUS
    <3>2. QED
      BY ONLY <1>2, <3>1
  <2>3. SubSeq(s.ver.release, 1, Len(s.ver.release) - 1) \in Seq(Nat) \ {<<>>}
    BY <1>1, <2>1, <2>2
  <2>4. QED
    BY <1>1, <2>3
<1>4. CompatiblePrefix(s) = [ZeroValue EXCEPT !.epoch = s.ver.epoch, !.release = r]
  BY DEF CompatiblePrefix
<1> HIDE DEF r
<1>5. CompatiblePrefix(s) = [epoch |-> s.ver.epoch, release |-> r, pre |-> <<>>, post |-> <<>>, dev |-> <<>>,
                            local |-> <<>>]
  BY <1>4 DEF ZeroValue
<1>6. <<>> \in Seq(LocalPart)
  OBVIOUS
<1>7. QED
  BY <1>1, <1>3, <1>5, <1>6 DEF ParsedVersion, Absent

(* Going up the versions, "==V.*" and "~=V" start to match once and stop   *)
(* once (specifierEqual, specifierCompatible).                             *)
THEOREM PrefixMatchesAStretch ==
  \A s \in Specifier : Valid(s) /\ ((s.op = "==" /\ s.wild) \/ s.op = "~=") =>
    \A v \in ParsedVersion :
      \/ Check(s, v)
      \/ \A u \in ParsedVersion : Check(s, u) => Less(u, v)
      \/ \A u \in ParsedVersion : Check(s, u) => Less(v, u)
<1> SUFFICES ASSUME NEW s \in Specifier, Valid(s), (s.op = "==" /\ s.wild) \/ s.op = "~=",
                    NEW v \in ParsedVersion, ~Check(s, v)
             PROVE  \/ \A u \in ParsedVersion : Check(s, u) => Less(u, v)
                    \/ \A u \in ParsedVersion : Check(s, u) => Less(v, u)
  OBVIOUS
<1>1. s.ver \in ParsedVersion
  BY DEF Specifier
<1>2. CASE s.op = "==" /\ s.wild
  <2>1. Absent(s.ver.pre) /\ Absent(s.ver.post) /\ Absent(s.ver.dev)
    BY <1>2 DEF Valid, EqualOps
  <2>2. \A u : Check(s, u) <=> PrefixMatches(u, s.ver)
    BY <1>2 DEF Check, SpecifierEqual, EqualOps
  <2>3. QED
    BY <1>1, <2>1, <2>2, PrefixStretch, KeyLessIsLess
<1>3. CASE s.op = "~="
  <2> DEFINE p == CompatiblePrefix(s)
  <2>1. p \in ParsedVersion /\ Absent(p.pre) /\ Absent(p.post) /\ Absent(p.dev)
    BY <1>3, CompatiblePrefixFacts
  <2> HIDE DEF p
  <2>2. Absent(s.ver.local)
    BY <1>3 DEF Valid
  <2>3. \A u \in ParsedVersion :
          Check(s, u) <=> ~KeyLess(u, s.ver) /\ s.spelling # "v" /\ PrefixMatches(u, p)
    <3>1. TAKE u \in ParsedVersion
    <3>2. Check(s, u) <=> SpecifierCompatible(u, s)
      BY ZenonT(30), <1>3 DEF Check, EqualOps
    <3>3. AtMost(s.ver, Public(u)) <=> ~KeyLess(u, s.ver)
      BY <1>1, <2>2, PublicKey
    <3>4. QED
      BY <3>2, <3>3 DEF SpecifierCompatible, SpecifierGreaterThanEqual, p
  <2>4. CASE s.spelling = "v"
    BY <2>3, <2>4
  <2>5. CASE ~PrefixMatches(v, p)
    BY <2>1, <2>3, <2>5, PrefixStretch, KeyLessIsLess
  <2>6. CASE KeyLess(v, s.ver)
    <3>1. ASSUME NEW u \in ParsedVersion, Check(s, u) PROVE KeyLess(v, u)
      <4>1. ~KeyLess(u, s.ver)
        BY <2>3, <3>1
      <4>2. KeyLess(s.ver, u) \/ SameKey(s.ver, u)
        <5>1. SameKey(u, s.ver) => SameKey(s.ver, u)
          BY <1>1, KeysOrdered
        <5>2. QED
          BY <1>1, <4>1, <5>1, KeysOrdered
      <4>3. QED
        BY <1>1, <2>6, <4>2, KeysOrdered
    <3>2. QED
      BY <3>1, KeyLessIsLess
  <2>7. QED
    BY <2>3, <2>4, <2>5, <2>6
<1>4. QED
  BY <1>2, <1>3

(***************************************************************************)
(* The laws of the operators, of whichever version is held                 *)
(***************************************************************************)
LEMMA HeldIsParsed == TypeOK /\ one # ZeroValue => one \in ParsedVersion
BY ParsedAssumption DEF TypeOK, AnyVersion

(* Any operand leaves exactly its own pre-releases and post-releases       *)
(* between its "<" and its ">" (specifierLessThan, specifierGreaterThan).  *)
THEOREM GapsAreExact == Spec => []GapIsExact
<1>1. TypeOK => GapIsExact
  <2> SUFFICES ASSUME TypeOK, one # ZeroValue, NEW u \in Bases
               PROVE  LET matching == {op \in {"<", "==", ">"} : Check(Plain(op, u), one)}
                      IN  IF PreOf(one, u) \/ PostOf(one, u) THEN matching = {} ELSE Cardinality(matching) = 1
    BY DEF GapIsExact
  <2>1. u \in ParsedVersion /\ Absent(u.local)
    BY BasesAssumption
  <2>2. QED
    BY ONLY <2>1, TypeOK, one # ZeroValue, HeldIsParsed, OnlyTheGapIsLeftOut
<1>2. QED
  BY <1>1, TypeCorrect, PTL

(* Whatever versions are parsed, what a prefix matches of them has no hole *)
(* (specifierEqual, specifierCompatible).                                  *)
THEOREM PrefixesAreConvex == Spec => []PrefixIsConvex
<1>1. TypeOK => PrefixIsConvex
  <2> SUFFICES ASSUME TypeOK, one # ZeroValue, NEW s \in Prefixing
               PROVE  \/ Check(s, one)
                      \/ \A u \in Matching(s) : Less(u, one)
                      \/ \A u \in Matching(s) : Less(one, u)
    BY DEF PrefixIsConvex
  <2>1. s \in Specifier /\ Valid(s) /\ ((s.op = "==" /\ s.wild) \/ s.op = "~=")
    BY SpecsAssumption DEF Prefixing
  <2>2. \A u \in Matching(s) : u \in ParsedVersion /\ Check(s, u)
    BY ParsedAssumption DEF Matching
  <2>3. one \in ParsedVersion
    BY HeldIsParsed
  <2>4. \/ Check(s, one)
        \/ \A u \in ParsedVersion : Check(s, u) => Less(u, one)
        \/ \A u \in ParsedVersion : Check(s, u) => Less(one, u)
    BY ONLY <2>1, <2>3, PrefixMatchesAStretch
  <2>5. QED
    BY ONLY <2>2, <2>4
<1>2. QED
  BY <1>1, TypeCorrect, PTL

(* Whatever specifiers are written the plain way, one stands for all that  *)
(* equal it (Specifier.Equal).                                             *)
THEOREM EqualPlainSpecifiersMatchAlike == Spec => []PlainEqualMatchesAlike
<1>1. TypeOK => PlainEqualMatchesAlike
  <2> SUFFICES ASSUME TypeOK, one # ZeroValue, NEW s \in Specs, NEW t \in Specs,
                      s.spelling = "plain", t.spelling = "plain", CanonicalSpec(s) = CanonicalSpec(t)
               PROVE  Check(s, one) <=> Check(t, one)
    BY DEF PlainEqualMatchesAlike
  <2>1. s \in Specifier /\ t \in Specifier
    BY SpecsAssumption
  <2>2. one \in ParsedVersion
    BY HeldIsParsed
  <2>3. QED
    BY <2>1, <2>2, EqualSpecifiersMatchAlike
<1>2. QED
  BY <1>1, TypeCorrect, PTL
=============================================================================
