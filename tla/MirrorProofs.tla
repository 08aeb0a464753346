---------------------------- MODULE MirrorProofs ----------------------------
(***************************************************************************)
(* Proofs about Mirror, for any targets, wheels and baselines: a mirror    *)
(* misses nothing its client may come to run and collects nothing that no  *)
(* version of its target runs, upgrades keep the order of preference and,  *)
(* within a libc major, every wheel, and a Matcher of both libc families   *)
(* is the union of two.                                                    *)
(*                                                                         *)
(* The lists of Tags are read as a set and a relation all of whose pairs   *)
(* are in order (Lists).  What one walk lists is then the platforms of     *)
(* some versions, and an upgrade only adds versions.                       *)
(***************************************************************************)
EXTENDS Mirror, FiniteSetTheorems, SequenceTheorems, TLAPS

(***************************************************************************)
(* Lists: sequences that list a set in an order                            *)
(***************************************************************************)
(* From the well-foundedness of strict inclusion among the subsets of an   *)
(* interval.                                                               *)
LEMMA LeastNatural ==
  ASSUME NEW T \in SUBSET Nat, T # {}
  PROVE  \E x \in T : \A y \in T : x <= y
<1>1. PICK m \in T : TRUE
  OBVIOUS
<1> DEFINE S == 0 .. m
           R == StrictSubsetOrdering(S)
           F == {0 .. k : k \in {i \in T : i <= m}}
<1>2. IsFiniteSet(S)
  BY FS_Interval
<1>3. IsWellFoundedOn(R, FiniteSubsetsOf(S))
  BY FS_StrictSubsetOrderingWellFounded
<1>4. F \subseteq FiniteSubsetsOf(S) /\ F # {}
  <2>1. \A k \in 0 .. m : 0 .. k \in FiniteSubsetsOf(S)
    BY SMTT(60), FS_Interval, <1>2 DEF FiniteSubsetsOf
  <2>2. QED
    BY <2>1
<1>5. PICK x \in F : \A y \in F : <<y, x>> \notin R
  <2> HIDE DEF R, F
  <2>1. QED
    BY <1>3, <1>4, WFMin
<1>6. PICK k \in T : k <= m /\ x = 0 .. k
  OBVIOUS
<1>7. ASSUME NEW y \in T, y < k PROVE FALSE
  <2>1. 0 .. y \in F
    BY <1>6, <1>7
  <2>2. 0 .. y \subseteq 0 .. k /\ 0 .. y # 0 .. k /\ 0 .. y \subseteq S /\ 0 .. k \subseteq S
    BY <1>6, <1>7
  <2>3. <<0 .. y, 0 .. k>> \in R
    BY <2>2 DEF StrictSubsetOrdering
  <2>4. QED
    BY <1>5, <1>6, <2>1, <2>3
<1>8. QED
  BY <1>6, <1>7

(* Induction, for a set of numbers in place of a predicate.                *)
LEMMA Induction ==
  ASSUME NEW T \in SUBSET Nat, 0 \in T, \A n \in T : n + 1 \in T
  PROVE  T = Nat
<1>1. CASE Nat \ T = {}
  BY <1>1
<1>2. CASE Nat \ T # {}
  <2>1. PICK x \in Nat \ T : \A y \in Nat \ T : x <= y
    BY <1>2, LeastNatural
  <2>2. x # 0 /\ x - 1 \in Nat /\ x - 1 \notin Nat \ T
    BY <2>1
  <2>3. x - 1 + 1 = x
    BY <2>1
  <2>4. QED
    BY <2>1, <2>2, <2>3
<1>3. QED
  BY <1>1, <1>2

(* s lists the elements of X, the pairs of elements in their order being   *)
(* in R.                                                                   *)
Sorted(s, R)   == \A j, k \in DOMAIN s : j < k => <<s[j], s[k]>> \in R

(* s lists the elements of X, in an order all of whose pairs are in R.     *)
Lists(s, X, R) == s \in Seq(X) /\ X = {s[k] : k \in DOMAIN s} /\ Sorted(s, R)

(* Nothing is listed by the empty sequence.                                *)
LEMMA ListsNothing == \A R : Lists(<<>>, {}, R)
BY DEF Lists, Sorted

(* One element is listed by itself.                                        *)
LEMMA ListsOne == \A x, R : Lists(<<x>>, {x}, R)
BY DEF Lists, Sorted

(* One list after another, if the elements of the first come before those  *)
(* of the second.                                                          *)
LEMMA ListsConcat ==
  ASSUME NEW s, NEW t, NEW X, NEW Y, NEW R, Lists(s, X, R), Lists(t, Y, R), X \X Y \subseteq R
  PROVE  Lists(s \o t, X \cup Y, R)
<1>1. /\ s \in Seq(X \cup Y) /\ t \in Seq(X \cup Y) /\ Len(s) \in Nat /\ Len(t) \in Nat
      /\ DOMAIN s = 1 .. Len(s) /\ DOMAIN t = 1 .. Len(t)
  BY DEF Lists
<1>0. PICK u : u = s \o t
  OBVIOUS
<1>2. /\ u \in Seq(X \cup Y) /\ DOMAIN u = 1 .. Len(s) + Len(t)
      /\ \A k \in 1 .. Len(s) : u[k] = s[k]
      /\ \A k \in 1 .. Len(s) + Len(t) : k > Len(s) => u[k] = t[k - Len(s)]
  BY <1>0, <1>1
<1>3. \A k \in 1 .. Len(s) + Len(t) : k > Len(s) => k - Len(s) \in 1 .. Len(t)
  BY <1>1
<1>4. X \cup Y = {u[k] : k \in DOMAIN u}
  <2>1. ASSUME NEW x \in X PROVE \E k \in 1 .. Len(s) + Len(t) : x = u[k]
    <3>1. PICK k \in 1 .. Len(s) : x = s[k]
      BY <1>1, <2>1 DEF Lists
    <3>2. QED
      BY <1>1, <1>2, <3>1
  <2>2. ASSUME NEW y \in Y PROVE \E k \in 1 .. Len(s) + Len(t) : y = u[k]
    <3>1. PICK k \in 1 .. Len(t) : y = t[k]
      BY <1>1, <2>2 DEF Lists
    <3>2. Len(s) + k \in 1 .. Len(s) + Len(t) /\ Len(s) + k > Len(s) /\ Len(s) + k - Len(s) = k
      BY <1>1, <3>1
    <3>3. QED
      BY <1>2, <3>1, <3>2
  <2>3. \A k \in 1 .. Len(s) + Len(t) : u[k] \in X \cup Y
    BY <1>2
  <2>4. QED
    BY <1>2, <2>1, <2>2, <2>3
<1>5. ASSUME NEW j \in 1 .. Len(s) + Len(t), NEW k \in 1 .. Len(s) + Len(t), j < k
      PROVE  <<u[j], u[k]>> \in R
  <2>1. CASE k <= Len(s)
    <3>1. j \in 1 .. Len(s) /\ k \in 1 .. Len(s)
      BY <1>1, <1>5, <2>1
    <3>2. QED
      BY <1>1, <1>2, <1>5, <3>1 DEF Lists, Sorted
  <2>2. CASE k > Len(s) /\ j > Len(s)
    <3>1. j - Len(s) \in 1 .. Len(t) /\ k - Len(s) \in 1 .. Len(t) /\ j - Len(s) < k - Len(s)
      BY <1>1, <1>3, <1>5, <2>2
    <3>2. QED
      BY <1>1, <1>2, <2>2, <3>1 DEF Lists, Sorted
  <2>3. CASE k > Len(s) /\ j <= Len(s)
    <3>1. j \in 1 .. Len(s) /\ k - Len(s) \in 1 .. Len(t)
      BY <1>1, <1>3, <1>5, <2>3
    <3>2. s[j] \in X /\ t[k - Len(s)] \in Y
      BY <1>1, <3>1 DEF Lists
    <3>3. QED
      BY <1>2, <2>3, <3>1, <3>2
  <2>4. QED
    BY <1>1, <2>1, <2>2, <2>3
<1>6. QED
  BY ZenonT(60), <1>0, <1>2, <1>4, <1>5 DEF Lists, Sorted

(* The recursion of FlattenSeq has a solution.                             *)
Flattens(g, n, seqs) == g = [i \in 1 .. n |-> IF i = 1 THEN seqs[i] ELSE g[i - 1] \o seqs[i]]

(* Sequences can be flattened one by one from the left.                    *)
LEMMA FlattensExists ==
  ASSUME NEW seqs
  PROVE  \A n \in Nat : \E g : Flattens(g, n, seqs)
<1> DEFINE T == {n \in Nat : \E g : Flattens(g, n, seqs)}
<1>1. 0 \in T
  <2>1. Flattens([i \in 1 .. 0 |-> <<>>], 0, seqs)
    BY DEF Flattens
  <2>2. QED
    BY <2>1
<1>2. ASSUME NEW n \in T PROVE n + 1 \in T
  <2>1. PICK g : Flattens(g, n, seqs)
    OBVIOUS
  <2> DEFINE last == IF n = 0 THEN seqs[1] ELSE g[n] \o seqs[n + 1]
             h    == [i \in 1 .. n + 1 |-> IF i = n + 1 THEN last ELSE g[i]]
  <2>2. ASSUME NEW i \in 1 .. n + 1 PROVE h[i] = IF i = 1 THEN seqs[i] ELSE h[i - 1] \o seqs[i]
    <3>1. CASE i = n + 1 /\ n = 0
      BY <3>1
    <3>2. CASE i = n + 1 /\ n # 0
      <4>1. i # 1 /\ i - 1 = n /\ n \in 1 .. n + 1 /\ n # n + 1
        BY <3>2
      <4>2. h[n] = g[n]
        BY <4>1
      <4>3. h[i] = g[n] \o seqs[n + 1]
        BY <3>2
      <4>4. QED
        BY <3>2, <4>1, <4>2, <4>3
    <3>3. CASE i # n + 1
      <4>1. i \in 1 .. n /\ (i # 1 => i - 1 \in 1 .. n + 1 /\ i - 1 # n + 1)
        BY <3>3
      <4>2. h[i] = g[i] /\ (i # 1 => h[i - 1] = g[i - 1])
        BY <3>3, <4>1
      <4>3. g[i] = IF i = 1 THEN seqs[i] ELSE g[i - 1] \o seqs[i]
        BY <2>1, <4>1 DEF Flattens
      <4>4. QED
        BY <4>2, <4>3
    <3>4. QED
      BY <3>1, <3>2, <3>3
  <2>3. h = [i \in 1 .. n + 1 |-> h[i]]
    OBVIOUS
  <2> HIDE DEF h
  <2>4. Flattens(h, n + 1, seqs)
    BY <2>2, <2>3 DEF Flattens
  <2>5. QED
    BY <2>4
<1>3. T = Nat
  <2> HIDE DEF T
  <2>1. T \in SUBSET Nat
    BY DEF T
  <2>2. QED
    BY <1>1, <1>2, <2>1, Induction
<1>4. QED
  BY <1>3

(* Lists one after another, if the elements of each come before those of   *)
(* the next ones.                                                          *)
LEMMA ListsFlatten ==
  ASSUME NEW n \in Nat, NEW seqs, seqs = [k \in 1 .. n |-> seqs[k]], NEW X, NEW R,
         \A k \in 1 .. n : Lists(seqs[k], X[k], R),
         \A j, k \in 1 .. n : j < k => X[j] \X X[k] \subseteq R
  PROVE  Lists(FlattenSeq(seqs), UNION {X[k] : k \in 1 .. n}, R)
<1>1. Len(seqs) = n
  OBVIOUS
<1>2. CASE n = 0
  <2>1. FlattenSeq(seqs) = <<>>
    BY <1>1, <1>2 DEF FlattenSeq
  <2>2. UNION {X[k] : k \in 1 .. n} = {}
    BY <1>2
  <2>3. QED
    BY <2>1, <2>2, ListsNothing
<1>3. CASE n # 0
  <2>1. PICK g : Flattens(g, n, seqs) /\ FlattenSeq(seqs) = g[n]
    <3> DEFINE f == CHOOSE f : f = [i \in 1 .. n |-> IF i = 1 THEN seqs[i] ELSE f[i - 1] \o seqs[i]]
    <3>1. Flattens(f, n, seqs)
      BY ZenonT(60), FlattensExists DEF Flattens
    <3>2. FlattenSeq(seqs) = f[n]
      BY Zenon, <1>1, <1>3 DEF FlattenSeq
    <3>3. QED
      BY <3>1, <3>2
  <2> DEFINE Upto(m) == UNION {X[k] : k \in 1 .. m}
             T == {m \in Nat : m \in 1 .. n => Lists(g[m], Upto(m), R)}
  <2>2. 0 \in T
    OBVIOUS
  <2>3. ASSUME NEW m \in T, m + 1 \in 1 .. n PROVE Lists(g[m + 1], Upto(m + 1), R)
    <3>1. CASE m = 0
      <4>1. g[1] = seqs[1] /\ 1 \in 1 .. n
        BY <1>3, <2>1 DEF Flattens
      <4>2. Upto(1) = X[1] /\ m + 1 = 1
        BY <3>1
      <4>3. Lists(seqs[1], X[1], R)
        BY <4>1
      <4> HIDE DEF Upto
      <4>4. QED
        BY <4>1, <4>2, <4>3
    <3>2. CASE m # 0
      <4>1. m + 1 # 1 /\ m + 1 - 1 = m /\ m \in 1 .. n
        BY <2>3, <3>2
      <4>2. g[m + 1] = g[m] \o seqs[m + 1]
        <5>1. \A i \in 1 .. n : g[i] = IF i = 1 THEN seqs[i] ELSE g[i - 1] \o seqs[i]
          BY Zenon, <2>1 DEF Flattens
        <5>2. PICK i : i = m + 1
          OBVIOUS
        <5>3. i \in 1 .. n /\ i # 1 /\ i - 1 = m
          BY <2>3, <4>1, <5>2
        <5>4. g[i] = g[m] \o seqs[i]
          BY <5>1, <5>3
        <5>5. QED
          BY <5>2, <5>4
      <4>3. Lists(g[m], Upto(m), R) /\ Lists(seqs[m + 1], X[m + 1], R)
        BY <2>3, <4>1
      <4>4. Upto(m + 1) = Upto(m) \cup X[m + 1]
        <5>1. 1 .. m + 1 = 1 .. m \cup {m + 1}
          OBVIOUS
        <5>2. QED
          BY <5>1
      <4>5. Upto(m) \X X[m + 1] \subseteq R
        <5>1. \A j \in 1 .. m : j \in 1 .. n /\ j < m + 1
          BY <4>1
        <5>2. QED
          BY <2>3, <5>1
      <4> HIDE DEF Upto
      <4>6. QED
        BY <4>2, <4>3, <4>4, <4>5, ListsConcat
    <3>3. QED
      BY <3>1, <3>2
  <2>4. T = Nat
    <3>1. \A m \in T : m + 1 \in T
      <4> HIDE DEF Upto
      <4>1. QED
        BY <2>3
    <3> HIDE DEF T
    <3>2. T \in SUBSET Nat
      BY DEF T
    <3>3. QED
      BY <2>2, <3>1, <3>2, Induction
  <2>5. Lists(g[n], Upto(n), R)
    <3> HIDE DEF Upto
    <3>1. n \in T /\ n \in 1 .. n
      BY <1>3, <2>4
    <3>2. QED
      BY <3>1
  <2>6. QED
    BY <2>1, <2>5
<1>4. QED
  BY <1>2, <1>3

(* How often Down turns.                                                   *)
LEMMA DownLength ==
  ASSUME NEW hi \in Int, NEW lo \in Int
  PROVE  Max({hi - lo + 1, 0}) = IF hi < lo THEN 0 ELSE hi - lo + 1
<1> DEFINE S == {hi - lo + 1, 0}
           m == IF hi < lo THEN 0 ELSE hi - lo + 1
<1>1. m \in S /\ \A y \in S : m >= y
  OBVIOUS
<1>2. \A x \in S : (\A y \in S : x >= y) => x = m
  OBVIOUS
<1>3. QED
  BY <1>1, <1>2 DEF Max

(* seqs holds lists for the numbers from hi down to lo, of sets that       *)
(* follow each other.                                                      *)
DownLists(seqs, hi, lo, Y, R) ==
  /\ seqs = [k \in 1 .. Max({hi - lo + 1, 0}) |-> seqs[k]]
  /\ \A m \in lo .. hi : Lists(seqs[hi - m + 1], Y[m], R)
  /\ \A l, m \in lo .. hi : l < m => Y[m] \X Y[l] \subseteq R

(* One after another they are a list.                                      *)
LEMMA ListsDown ==
  ASSUME NEW hi \in Int, NEW lo \in Int, NEW seqs, NEW Y, NEW R, DownLists(seqs, hi, lo, Y, R)
  PROVE  Lists(FlattenSeq(seqs), UNION {Y[m] : m \in lo .. hi}, R)
<1>0. /\ seqs = [k \in 1 .. Max({hi - lo + 1, 0}) |-> seqs[k]]
      /\ \A m \in lo .. hi : Lists(seqs[hi - m + 1], Y[m], R)
      /\ \A l, m \in lo .. hi : l < m => Y[m] \X Y[l] \subseteq R
  BY Zenon DEF DownLists
<1>1. PICK n \in Nat : n = Max({hi - lo + 1, 0}) /\ n = IF hi < lo THEN 0 ELSE hi - lo + 1
  BY DownLength
<1> DEFINE X == [k \in 1 .. n |-> Y[hi - k + 1]]
<1>2. \A k \in 1 .. n : hi - k + 1 \in lo .. hi /\ hi - (hi - k + 1) + 1 = k
  BY <1>1
<1>3. ASSUME NEW k \in 1 .. n PROVE Lists(seqs[k], X[k], R)
  <2>1. PICK m \in lo .. hi : m = hi - k + 1 /\ hi - m + 1 = k
    BY <1>2
  <2>2. QED
    BY <1>0, <2>1
<1>4. \A j, k \in 1 .. n : j < k => X[j] \X X[k] \subseteq R
  <2>1. \A j, k \in 1 .. n : j < k => hi - k + 1 < hi - j + 1
    BY <1>1
  <2>2. QED
    BY <1>0, <1>2, <2>1
<1>5. {X[k] : k \in 1 .. n} = {Y[m] : m \in lo .. hi}
  <2>1. \A m \in lo .. hi : hi - m + 1 \in 1 .. n /\ hi - (hi - m + 1) + 1 = m
    BY <1>1
  <2>2. QED
    BY <1>2, <2>1
<1>6. seqs = [k \in 1 .. n |-> seqs[k]]
  BY <1>0, <1>1
<1> HIDE DEF X
<1>7. Lists(FlattenSeq(seqs), UNION {X[k] : k \in 1 .. n}, R)
  BY <1>3, <1>4, <1>6, ListsFlatten
<1>8. QED
  BY <1>5, <1>7

(* A set of at most one element is listed by SetToSeq.                     *)
LEMMA ListsFew ==
  ASSUME NEW S, \A x, y \in S : x = y
  PROVE  \A R : Lists(SetToSeq(S), S, R)
<1>1. CASE S = {}
  <2>1. Cardinality(S) = 0
    BY <1>1, FS_EmptySet
  <2>2. \A f : f \in [1 .. 0 -> S] => f = <<>>
    OBVIOUS
  <2>3. \E f \in [1 .. 0 -> S] : IsInjective(f)
    <3>1. <<>> \in [1 .. 0 -> S] /\ IsInjective(<<>>)
      BY DEF IsInjective
    <3>2. QED
      BY <3>1
  <2>4. SetToSeq(S) = <<>>
    BY <2>1, <2>2, <2>3 DEF SetToSeq
  <2>5. QED
    BY <1>1, <2>4, ListsNothing
<1>2. CASE S # {}
  <2>1. PICK x : S = {x}
    BY <1>2
  <2>2. Cardinality(S) = 1
    BY Zenon, <2>1, FS_Singleton
  <2>3. \A f : f \in [1 .. 1 -> {x}] => f = <<x>>
    OBVIOUS
  <2>4. <<x>> \in [1 .. 1 -> {x}] /\ IsInjective(<<x>>)
    BY DEF IsInjective
  <2>5. SetToSeq(S) = <<x>>
    BY <2>1, <2>2, <2>3, <2>4 DEF SetToSeq
  <2>6. QED
    BY <2>1, <2>5, ListsOne
<1>3. QED
  BY <1>1, <1>2

(***************************************************************************)
(* Platforms                                                               *)
(***************************************************************************)
(* The version a platform asks for; a bare linux one comes after all that  *)
(* ask for one.                                                            *)
PlatVer(p) ==
  IF p.family \in {"manylinux", "musllinux", "macosx"} THEN p.ver
  ELSE IF p.family \in DOMAIN LegacyAlias(p.arch) THEN LegacyAlias(p.arch)[p.family]
  ELSE <<-1, -1>>

(* The place of a binary format in macosBinaryFormats.                     *)
FormatRank(arch) ==
  CASE arch = "x86_64" \/ arch = "arm64" -> 1
    [] arch = "intel" -> 2
    [] arch = "fat64" -> 3
    [] arch = "fat32" -> 4
    [] arch = "universal2" -> 5
    [] OTHER -> 6

(* Of one version, the binary formats in their order, and a legacy alias   *)
(* after the name it is one for.                                           *)
PlatForm(p) ==
  IF p.family = "macosx" THEN FormatRank(p.arch) ELSE IF p.family = "manylinux" THEN 0 ELSE 1

(* Newer versions first, and of one version the preferred form.            *)
AheadOf(p, q) ==
  \/ Above(PlatVer(p), PlatVer(q))
  \/ PlatVer(p) = PlatVer(q) /\ PlatForm(p) < PlatForm(q)

(* What platforms are made of.                                             *)
Families == {"manylinux", "manylinux1", "manylinux2010", "manylinux2014", "musllinux", "macosx", "linux", "win"}
Formats  == {"x86_64", "arm64", "intel", "fat64", "fat32", "universal2", "universal"}
Platform ==
  {p \in [family : Families, ver : {<<>>} \cup (Int \X Int), arch : LinuxArchs \cup Formats \cup WindowsArchs] :
     PlatVer(p) \in Int \X Int}

(* The order of preference among platforms.                                *)
PlatOrder == {pq \in Platform \X Platform : AheadOf(pq[1], pq[2])}

(* The order of platforms has no cycle of two.                             *)
LEMMA PlatOrderAsymmetric == \A p, q : <<p, q>> \in PlatOrder => <<q, p>> \notin PlatOrder
<1> SUFFICES ASSUME NEW p, NEW q, <<p, q>> \in PlatOrder, <<q, p>> \in PlatOrder PROVE FALSE
  OBVIOUS
<1>1. p \in Platform /\ q \in Platform /\ AheadOf(p, q) /\ AheadOf(q, p)
  BY DEF PlatOrder
<1>2. PlatVer(p) \in Int \X Int /\ PlatVer(q) \in Int \X Int
  BY <1>1 DEF Platform
<1>3. PlatForm(p) \in Int /\ PlatForm(q) \in Int
  BY DEF PlatForm, FormatRank
<1>4. QED
  BY <1>1, <1>2, <1>3 DEF AheadOf, Above

(* The platforms that name a glibc version.                                *)
AliasesOf(arch, u) == {Plat(name, <<>>, arch) : name \in {a \in DOMAIN LegacyAlias(arch) : LegacyAlias(arch)[a] = u}}

(* With the tag that names the version itself.                             *)
VersionTags(arch, u) == {Plat("manylinux", u, arch)} \cup AliasesOf(arch, u)

(* They ask for it, wherever they are parsed.                              *)
LEMMA VersionTagsFacts ==
  ASSUME NEW arch \in LinuxArchs, NEW u \in Int \X Int, NEW p \in VersionTags(arch, u)
  PROVE  /\ p \in Platform /\ p.arch = arch /\ PlatVer(p) = u
         /\ LibcPlatform(p) = {[libc |-> "glibc", ver |-> u]}
<1>1. CASE p = Plat("manylinux", u, arch)
  <2>1. p.family = "manylinux" /\ p.ver = u /\ p.arch = arch
    BY <1>1 DEF Plat
  <2>2. PlatVer(p) = u
    BY <2>1 DEF PlatVer
  <2>3. p \in Platform
    BY <1>1, <2>2 DEF Plat, Platform, Families
  <2>4. p.family # "musllinux" /\ p.family \notin DOMAIN LegacyAlias(p.arch)
    BY <2>1 DEF LegacyAlias
  <2>5. LibcPlatform(p) = {[libc |-> "glibc", ver |-> u]}
    BY <2>1, <2>4 DEF LibcPlatform
  <2>6. QED
    BY <2>1, <2>2, <2>3, <2>5
<1>2. CASE p \in AliasesOf(arch, u)
  <2>1. PICK name \in DOMAIN LegacyAlias(arch) : LegacyAlias(arch)[name] = u /\ p = Plat(name, <<>>, arch)
    BY <1>2 DEF AliasesOf
  <2>2. p.family = name /\ p.arch = arch /\ p.ver = <<>>
    BY <2>1 DEF Plat
  <2>3. name \in {"manylinux1", "manylinux2010", "manylinux2014"}
    BY <2>1 DEF LegacyAlias
  <2>4. name \in Families /\ name \notin {"manylinux", "musllinux", "macosx"}
    BY <2>3 DEF Families
  <2>5. PlatVer(p) = u
    BY <2>1, <2>2, <2>4 DEF PlatVer
  <2>6. p \in Platform
    BY <2>1, <2>4, <2>5 DEF Plat, Platform
  <2>7. LibcPlatform(p) = {[libc |-> "glibc", ver |-> u]}
    BY <2>1, <2>2, <2>4 DEF LibcPlatform
  <2>8. QED
    BY <2>2, <2>5, <2>6, <2>7
<1>3. QED
  BY <1>1, <1>2 DEF VersionTags

(* A version has one alias at most.                                        *)
LEMMA AliasesLists ==
  ASSUME NEW arch, NEW u
  PROVE  \A R : Lists(Aliases(arch, u), AliasesOf(arch, u), R)
<1>1. \A a, b \in DOMAIN LegacyAlias(arch) : LegacyAlias(arch)[a] = LegacyAlias(arch)[b] => a = b
  BY DEF LegacyAlias
<1>2. \A p, q \in AliasesOf(arch, u) : p = q
  BY <1>1 DEF AliasesOf
<1>3. Aliases(arch, u) = SetToSeq(AliasesOf(arch, u))
  BY Zenon DEF Aliases, AliasesOf
<1>4. QED
  BY <1>2, <1>3, ListsFew

(* A version's platforms, its alias last.                                  *)
LEMMA VersionLists ==
  ASSUME NEW arch \in LinuxArchs, NEW u \in Int \X Int
  PROVE  Lists(<<Plat("manylinux", u, arch)>> \o Aliases(arch, u), VersionTags(arch, u), PlatOrder)
<1>1. {Plat("manylinux", u, arch)} \X AliasesOf(arch, u) \subseteq PlatOrder
  <2>1. ASSUME NEW q \in AliasesOf(arch, u) PROVE <<Plat("manylinux", u, arch), q>> \in PlatOrder
    <3>1. PICK p : p = Plat("manylinux", u, arch)
      OBVIOUS
    <3>2. p \in Platform /\ q \in Platform /\ PlatVer(p) = u /\ PlatVer(q) = u
      BY <3>1, VersionTagsFacts DEF VersionTags
    <3>3. PlatForm(p) = 0
      BY <3>1 DEF PlatForm, Plat
    <3>4. PlatForm(q) = 1
      BY <2>1 DEF AliasesOf, PlatForm, Plat, LegacyAlias
    <3>5. QED
      BY <3>1, <3>2, <3>3, <3>4 DEF PlatOrder, AheadOf
  <2>2. QED
    BY <2>1
<1>2. QED
  BY <1>1, ListsOne, AliasesLists, ListsConcat DEF VersionTags

(* The manylinux walk over one major.                                      *)
LEMMA SeriesLists ==
  ASSUME NEW arch \in LinuxArchs, NEW a \in Int, NEW b \in Int
  PROVE  Lists(Series(arch, <<a, b>>), UNION {VersionTags(arch, <<a, m>>) : m \in OldestMinor(arch, a) .. b}, PlatOrder)
<1>1. PICK lo \in Int : lo = OldestMinor(arch, a)
  BY DEF OldestMinor, FloorMinor
<1> DEFINE seqs == [k \in 1 .. Max({b - lo + 1, 0}) |->
                      <<Plat("manylinux", <<a, b - k + 1>>, arch)>> \o Aliases(arch, <<a, b - k + 1>>)]
           Y == [m \in lo .. b |-> VersionTags(arch, <<a, m>>)]
<1>2. Series(arch, <<a, b>>) = FlattenSeq(seqs)
  BY <1>1 DEF Series, Down
<1>3. ASSUME NEW m \in lo .. b PROVE Lists(seqs[b - m + 1], Y[m], PlatOrder)
  <2>1. b - m + 1 \in 1 .. Max({b - lo + 1, 0}) /\ b - (b - m + 1) + 1 = m /\ <<a, m>> \in Int \X Int
    <3>0. Max({b - lo + 1, 0}) = IF b < lo THEN 0 ELSE b - lo + 1
      BY <1>1, DownLength
    <3>1. Max({b - lo + 1, 0}) = b - lo + 1
      BY <1>1, <1>3, <3>0
    <3>2. QED
      BY <1>1, <3>1
  <2>2. seqs[b - m + 1] = <<Plat("manylinux", <<a, m>>, arch)>> \o Aliases(arch, <<a, m>>)
    BY <2>1
  <2>3. QED
    BY <2>1, <2>2, VersionLists
<1>4. \A l, m \in lo .. b : l < m => Y[m] \X Y[l] \subseteq PlatOrder
  <2>1. ASSUME NEW l \in lo .. b, NEW m \in lo .. b, l < m,
               NEW p \in VersionTags(arch, <<a, m>>), NEW q \in VersionTags(arch, <<a, l>>)
        PROVE  <<p, q>> \in PlatOrder
    <3>1. <<a, m>> \in Int \X Int /\ <<a, l>> \in Int \X Int
      OBVIOUS
    <3>2. p \in Platform /\ q \in Platform /\ PlatVer(p) = <<a, m>> /\ PlatVer(q) = <<a, l>>
      BY <3>1, VersionTagsFacts
    <3>3. QED
      BY <2>1, <3>2 DEF PlatOrder, AheadOf, Above
  <2>2. QED
    BY <2>1
<1>5. {Y[m] : m \in lo .. b} = {VersionTags(arch, <<a, m>>) : m \in lo .. b}
  OBVIOUS
<1>6. seqs = [k \in 1 .. Max({b - lo + 1, 0}) |-> seqs[k]]
  OBVIOUS
<1> HIDE DEF seqs, Y
<1>7. Lists(FlattenSeq(seqs), UNION {Y[m] : m \in lo .. b}, PlatOrder)
  <2>1. DownLists(seqs, b, lo, Y, PlatOrder)
    BY Zenon, <1>3, <1>4, <1>6 DEF DownLists
  <2>2. QED
    BY <1>1, <2>1, ListsDown
<1>8. QED
  BY <1>1, <1>2, <1>5, <1>7

(* The glibc versions a target of version v walks through.                 *)
Walked(arch, v) ==
  {u \in Int \X Int :
     /\ u[2] >= OldestMinor(arch, u[1])
     /\ \/ u[1] = v[1] /\ u[2] <= v[2]
        \/ FloorMajor <= u[1] /\ u[1] < v[1] /\ u[2] <= LastGlibcMinor}

(* The manylinux walk over all majors.                                     *)
LEMMA ManylinuxLists ==
  ASSUME NEW arch \in LinuxArchs, NEW a \in Int, NEW b \in Int
  PROVE  Lists(ManylinuxTags(arch, <<a, b>>), UNION {VersionTags(arch, u) : u \in Walked(arch, <<a, b>>)}, PlatOrder)
<1>0. PICK hi \in Int : hi = a - 1
  OBVIOUS
<1> DEFINE Of(c, top) == UNION {VersionTags(arch, <<c, m>>) : m \in OldestMinor(arch, c) .. top}
           seqs == [k \in 1 .. Max({hi - FloorMajor + 1, 0}) |-> Series(arch, <<hi - k + 1, LastGlibcMinor>>)]
           Y    == [c \in FloorMajor .. hi |-> Of(c, LastGlibcMinor)]
<1>1. ManylinuxTags(arch, <<a, b>>) = Series(arch, <<a, b>>) \o FlattenSeq(seqs)
  BY <1>0 DEF ManylinuxTags, Down
<1>2. FloorMajor \in Int /\ LastGlibcMinor \in Int /\ hi \in Int /\ hi = a - 1
  BY <1>0 DEF FloorMajor, LastGlibcMinor
<1>3. ASSUME NEW c \in FloorMajor .. hi PROVE Lists(seqs[hi - c + 1], Y[c], PlatOrder)
  <2>1. hi - c + 1 \in 1 .. Max({hi - FloorMajor + 1, 0}) /\ hi - (hi - c + 1) + 1 = c /\ c \in Int
    <3>1. FloorMajor <= hi /\ FloorMajor <= c /\ c <= hi /\ c \in Int
      BY <1>2
    <3>2. Max({hi - FloorMajor + 1, 0}) = hi - FloorMajor + 1
      <4>1. Max({hi - FloorMajor + 1, 0}) = IF hi < FloorMajor THEN 0 ELSE hi - FloorMajor + 1
        BY <1>2, DownLength
      <4>2. QED
        BY <1>2, <3>1, <4>1
    <3>3. QED
      BY <1>2, <3>1, <3>2
  <2>2. seqs[hi - c + 1] = Series(arch, <<c, LastGlibcMinor>>)
    BY <2>1
  <2>3. Lists(Series(arch, <<c, LastGlibcMinor>>), Of(c, LastGlibcMinor), PlatOrder)
    BY <1>2, <2>1, SeriesLists
  <2>4. QED
    BY <2>2, <2>3
<1>4. ASSUME NEW c \in Int, NEW d \in Int, c > d, NEW tc \in Int, NEW td \in Int
      PROVE  Of(c, tc) \X Of(d, td) \subseteq PlatOrder
  <2>1. ASSUME NEW p \in Of(c, tc), NEW q \in Of(d, td) PROVE <<p, q>> \in PlatOrder
    <3>1. PICK m \in OldestMinor(arch, c) .. tc : p \in VersionTags(arch, <<c, m>>)
      BY <2>1
    <3>2. PICK l \in OldestMinor(arch, d) .. td : q \in VersionTags(arch, <<d, l>>)
      BY <2>1
    <3>3. <<c, m>> \in Int \X Int /\ <<d, l>> \in Int \X Int
      BY DEF OldestMinor, FloorMinor
    <3>4. p \in Platform /\ q \in Platform /\ PlatVer(p) = <<c, m>> /\ PlatVer(q) = <<d, l>>
      BY <3>1, <3>2, <3>3, VersionTagsFacts
    <3>5. QED
      BY <1>4, <3>4 DEF PlatOrder, AheadOf, Above
  <2> HIDE DEF Of
  <2>2. QED
    BY <2>1
<1>5. \A l, m \in FloorMajor .. hi : l < m => Y[m] \X Y[l] \subseteq PlatOrder
  <2>1. \A l \in FloorMajor .. hi : l \in Int
    BY <1>2
  <2> HIDE DEF Of
  <2>2. QED
    BY <1>2, <1>4, <2>1
<1>6. seqs = [k \in 1 .. Max({hi - FloorMajor + 1, 0}) |-> seqs[k]]
  OBVIOUS
<1>7. Lists(FlattenSeq(seqs), UNION {Y[m] : m \in FloorMajor .. hi}, PlatOrder)
  <2> HIDE DEF seqs, Y
  <2>1. DownLists(seqs, hi, FloorMajor, Y, PlatOrder)
    BY Zenon, <1>3, <1>5, <1>6 DEF DownLists
  <2>2. QED
    BY <1>2, <2>1, ListsDown
<1>8. Of(a, b) \X UNION {Y[m] : m \in FloorMajor .. hi} \subseteq PlatOrder
  <2>1. \A m \in FloorMajor .. hi : m \in Int /\ a > m
    BY <1>2
  <2>2. \A m \in FloorMajor .. hi : Of(a, b) \X Y[m] \subseteq PlatOrder
    <3> HIDE DEF Of
    <3>1. QED
      BY <1>2, <1>4, <2>1
  <2> HIDE DEF Of, Y
  <2>3. QED
    BY <2>2
<1>9. Lists(Series(arch, <<a, b>>) \o FlattenSeq(seqs), Of(a, b) \cup UNION {Y[m] : m \in FloorMajor .. hi}, PlatOrder)
  <2>1. Lists(Series(arch, <<a, b>>), Of(a, b), PlatOrder)
    BY SeriesLists
  <2> HIDE DEF Of, Y, seqs
  <2>2. QED
    BY <1>7, <1>8, <2>1, ListsConcat
<1>10. Of(a, b) \cup UNION {Y[m] : m \in FloorMajor .. hi} = UNION {VersionTags(arch, u) : u \in Walked(arch, <<a, b>>)}
  <2>1. ASSUME NEW c \in Int, NEW m \in Int
        PROVE  <<c, m>> \in Walked(arch, <<a, b>>) <=>
                 \/ c = a /\ m \in OldestMinor(arch, c) .. b
                 \/ c \in FloorMajor .. hi /\ m \in OldestMinor(arch, c) .. LastGlibcMinor
    BY <1>2 DEF Walked, OldestMinor, FloorMinor
  <2>2. ASSUME NEW p PROVE p \in Of(a, b) \cup UNION {Y[m] : m \in FloorMajor .. hi}
                          <=> \E c, m \in Int : <<c, m>> \in Walked(arch, <<a, b>>) /\ p \in VersionTags(arch, <<c, m>>)
    <3>1. \A c \in Int : OldestMinor(arch, c) \in Int
      BY DEF OldestMinor, FloorMinor
    <3>2. p \in Of(a, b) <=> \E m \in Int : m \in OldestMinor(arch, a) .. b /\ p \in VersionTags(arch, <<a, m>>)
      BY SMTT(60), <3>1
    <3>3. p \in UNION {Y[m] : m \in FloorMajor .. hi}
            <=> \E c, m \in Int : /\ c \in FloorMajor .. hi /\ m \in OldestMinor(arch, c) .. LastGlibcMinor
                                  /\ p \in VersionTags(arch, <<c, m>>)
      <4>1. p \in UNION {Y[m] : m \in FloorMajor .. hi} <=> \E c \in FloorMajor .. hi : p \in Of(c, LastGlibcMinor)
        <5> HIDE DEF Of
        <5>1. QED
          OBVIOUS
      <4>2. ASSUME NEW c \in FloorMajor .. hi
            PROVE  p \in Of(c, LastGlibcMinor) <=>
                     \E m \in Int : m \in OldestMinor(arch, c) .. LastGlibcMinor /\ p \in VersionTags(arch, <<c, m>>)
        BY SMTT(60), <1>2, <3>1
      <4>3. \A c \in FloorMajor .. hi : c \in Int
        BY <1>2
      <4> HIDE DEF Of, Y
      <4>4. QED
        BY Zenon, <4>1, <4>2, <4>3
    <3>4. QED
      BY <2>1, <3>2, <3>3
  <2>3. ASSUME NEW u \in Walked(arch, <<a, b>>) PROVE \E c, m \in Int : u = <<c, m>>
    BY <2>3 DEF Walked
  <2>4. Walked(arch, <<a, b>>) \subseteq Int \X Int
    BY DEF Walked
  <2> HIDE DEF Of, Y
  <2>5. ASSUME NEW p PROVE p \in Of(a, b) \cup UNION {Y[m] : m \in FloorMajor .. hi}
                          <=> p \in UNION {VersionTags(arch, u) : u \in Walked(arch, <<a, b>>)}
    <3>1. p \in UNION {VersionTags(arch, u) : u \in Walked(arch, <<a, b>>)}
            <=> \E u \in Walked(arch, <<a, b>>) : p \in VersionTags(arch, u)
      OBVIOUS
    <3>2. (\E u \in Walked(arch, <<a, b>>) : p \in VersionTags(arch, u))
            <=> \E c, m \in Int : <<c, m>> \in Walked(arch, <<a, b>>) /\ p \in VersionTags(arch, <<c, m>>)
      BY Zenon, <2>3
    <3>3. QED
      BY <2>2, <3>1, <3>2
  <2>6. QED
    BY Zenon, <2>5
<1>11. QED
  BY <1>1, <1>9, <1>10

(* The musllinux walk.                                                     *)
LEMMA MusllinuxLists ==
  ASSUME NEW arch \in LinuxArchs, NEW a \in Int, NEW b \in Int
  PROVE  Lists(MusllinuxTags(arch, <<a, b>>), {Plat("musllinux", <<a, m>>, arch) : m \in 0 .. b}, PlatOrder)
<1> DEFINE n == Max({b - 0 + 1, 0})
           s == [k \in 1 .. n |-> Plat("musllinux", <<a, b - k + 1>>, arch)]
<1>1. n = (IF b < 0 THEN 0 ELSE b + 1) /\ n \in Nat
  BY DownLength
<1>2. MusllinuxTags(arch, <<a, b>>) = s
  BY DEF MusllinuxTags, Down
<1> HIDE DEF n
<1>3. {s[k] : k \in DOMAIN s} = {Plat("musllinux", <<a, m>>, arch) : m \in 0 .. b}
  <2>1. \A k \in 1 .. n : b - k + 1 \in 0 .. b
    BY <1>1
  <2>2. \A m \in 0 .. b : b - m + 1 \in 1 .. n /\ b - (b - m + 1) + 1 = m
    BY <1>1
  <2>3. ASSUME NEW m \in 0 .. b PROVE \E k \in 1 .. n : s[k] = Plat("musllinux", <<a, m>>, arch)
    <3>1. PICK k \in 1 .. n : b - k + 1 = m
      BY <2>2
    <3>2. s[k] = Plat("musllinux", <<a, m>>, arch)
      BY <3>1
    <3>3. QED
      BY <3>2
  <2>4. QED
    BY <2>1, <2>3
<1>4. s \in Seq({Plat("musllinux", <<a, m>>, arch) : m \in 0 .. b})
  <2>1. \A k \in 1 .. n : b - k + 1 \in 0 .. b
    BY <1>1
  <2>2. QED
    BY <1>1, <2>1
<1>5. Sorted(s, PlatOrder)
  <2>1. ASSUME NEW j \in 1 .. n, NEW k \in 1 .. n, j < k PROVE <<s[j], s[k]>> \in PlatOrder
    <3>1. PICK x \in Int, y \in Int : x = b - j + 1 /\ y = b - k + 1 /\ x > y
      BY <2>1, <1>1
    <3>2. s[j] = Plat("musllinux", <<a, x>>, arch) /\ s[k] = Plat("musllinux", <<a, y>>, arch)
      BY <3>1
    <3>3. PICK p, q : p = s[j] /\ q = s[k]
      OBVIOUS
    <3>4. p \in Platform /\ q \in Platform /\ PlatVer(p) = <<a, x>> /\ PlatVer(q) = <<a, y>>
      BY <3>2, <3>3 DEF Plat, Platform, Families, PlatVer
    <3>5. QED
      BY <3>1, <3>3, <3>4 DEF PlatOrder, AheadOf, Above
  <2>2. QED
    BY <2>1 DEF Sorted
<1>6. QED
  BY ZenonT(60), <1>2, <1>3, <1>4, <1>5 DEF Lists

(* The binary formats are named in their order.                            *)
OrderedFormats(formats) ==
  /\ formats \in Seq(Formats)
  /\ \A j, k \in DOMAIN formats : j < k => FormatRank(formats[j]) < FormatRank(formats[k])

(* All lists of formats follow that order.                                 *)
LEMMA FormatsAreOrdered ==
  ASSUME NEW arch
  PROVE  /\ OrderedFormats(MacosBinaryFormats(arch)) /\ OrderedFormats(MacosTailFormats(arch))
         /\ \A v : OrderedFormats(MacosBinaryFormatsFor(v, arch))
<1>1. OrderedFormats(<<>>)
  BY DEF OrderedFormats
<1>2. OrderedFormats(<<"universal2">>)
  BY DEF OrderedFormats, Formats
<1>3. OrderedFormats(<<"arm64", "universal2">>)
  <2>1. FormatRank("arm64") = 1 /\ FormatRank("universal2") = 5
    BY DEF FormatRank
  <2>2. QED
    BY <2>1 DEF OrderedFormats, Formats
<1>4. OrderedFormats(<<"x86_64", "intel", "fat64", "fat32", "universal2", "universal">>)
  <2>1. /\ FormatRank("x86_64") = 1 /\ FormatRank("intel") = 2 /\ FormatRank("fat64") = 3
        /\ FormatRank("fat32") = 4 /\ FormatRank("universal2") = 5 /\ FormatRank("universal") = 6
    BY DEF FormatRank
  <2>2. PICK s : s = <<"x86_64", "intel", "fat64", "fat32", "universal2", "universal">>
    OBVIOUS
  <2>3. \A k \in 1 .. 6 : FormatRank(s[k]) = k
    BY <2>1, <2>2
  <2>4. s \in Seq(Formats) /\ DOMAIN s = 1 .. 6
    BY <2>2 DEF Formats
  <2>5. QED
    BY <2>2, <2>3, <2>4 DEF OrderedFormats
<1>5. QED
  BY <1>1, <1>2, <1>3, <1>4 DEF MacosBinaryFormats, MacosTailFormats, MacosBinaryFormatsFor

(* The platforms that name a version of macOS.                             *)
MacTags(u, formats) == {Plat("macosx", u, formats[k]) : k \in DOMAIN formats}

(* They are platforms of that version.                                     *)
LEMMA MacTagsFacts ==
  ASSUME NEW u \in Int \X Int, NEW formats \in Seq(Formats), NEW p \in MacTags(u, formats)
  PROVE  p \in Platform /\ PlatVer(p) = u /\ p.family = "macosx" /\ p.ver = u /\ p.arch \in Range(formats)
<1>1. PICK k \in DOMAIN formats : p = Plat("macosx", u, formats[k])
  BY DEF MacTags
<1>2. formats[k] \in Formats /\ formats[k] \in Range(formats)
  BY DEF Range
<1>3. p.family = "macosx" /\ p.ver = u /\ p.arch = formats[k] /\ PlatVer(p) = u
  BY <1>1 DEF Plat, PlatVer
<1>4. p \in Platform
  BY <1>1, <1>2, <1>3 DEF Plat, Platform, Families
<1>5. QED
  BY <1>2, <1>3, <1>4

(* A version's platforms, in the order of the formats.                     *)
LEMMA MacVersionLists ==
  ASSUME NEW u \in Int \X Int, NEW formats, OrderedFormats(formats)
  PROVE  Lists(MacosVersionTags(u, formats), MacTags(u, formats), PlatOrder)
<1>1. PICK s : s = MacosVersionTags(u, formats)
  OBVIOUS
<1>2. formats \in Seq(Formats) /\ Len(formats) \in Nat /\ DOMAIN formats = 1 .. Len(formats)
  BY DEF OrderedFormats
<1>3. s = [n \in 1 .. Len(formats) |-> Plat("macosx", u, formats[n])]
  BY <1>1, <1>2 DEF MacosVersionTags
<1>4. s \in Seq(MacTags(u, formats)) /\ DOMAIN s = 1 .. Len(formats)
  BY SMTT(60), <1>2, <1>3 DEF MacTags
<1>5. MacTags(u, formats) = {s[k] : k \in DOMAIN s}
  BY <1>2, <1>3 DEF MacTags
<1>6. ASSUME NEW j \in DOMAIN s, NEW k \in DOMAIN s, j < k PROVE <<s[j], s[k]>> \in PlatOrder
  <2>1. PICK p, q : p = s[j] /\ q = s[k]
    OBVIOUS
  <2>2. p \in Platform /\ q \in Platform /\ PlatVer(p) = u /\ PlatVer(q) = u
    BY <1>2, <1>4, <2>1, MacTagsFacts
  <2>3. p.family = "macosx" /\ q.family = "macosx" /\ p.arch = formats[j] /\ q.arch = formats[k]
    BY <1>3, <1>4, <2>1 DEF Plat
  <2>4. FormatRank(formats[j]) < FormatRank(formats[k])
    BY <1>2, <1>4, <1>6 DEF OrderedFormats
  <2>5. PlatForm(p) < PlatForm(q)
    BY <2>3, <2>4 DEF PlatForm
  <2>6. QED
    BY <2>1, <2>2, <2>5 DEF PlatOrder, AheadOf
<1>7. QED
  BY <1>1, <1>4, <1>5, <1>6 DEF Lists, Sorted

(* A walk over the versions V[hi] down to V[lo] of macOS, the formats of    *)
(* each being those of F.                                                  *)
MacWalk(seqs, hi, lo, V, F) ==
  /\ seqs = [k \in 1 .. Max({hi - lo + 1, 0}) |-> MacosVersionTags(V[hi - k + 1], F[hi - k + 1])]
  /\ \A m \in lo .. hi : V[m] \in Int \X Int /\ OrderedFormats(F[m])
  /\ \A l, m \in lo .. hi : l < m => Above(V[m], V[l])

(* The tags of such a walk.                                                *)
LEMMA MacWalkLists ==
  ASSUME NEW hi \in Int, NEW lo \in Int, NEW V, NEW F, NEW seqs, MacWalk(seqs, hi, lo, V, F)
  PROVE  Lists(FlattenSeq(seqs), UNION {MacTags(V[m], F[m]) : m \in lo .. hi}, PlatOrder)
<1> USE DEF MacWalk
<1> DEFINE Y == [m \in lo .. hi |-> MacTags(V[m], F[m])]
<1>1. seqs = [k \in 1 .. Max({hi - lo + 1, 0}) |-> seqs[k]]
  OBVIOUS
<1>2. ASSUME NEW m \in lo .. hi PROVE Lists(seqs[hi - m + 1], Y[m], PlatOrder)
  <2>1. Max({hi - lo + 1, 0}) = hi - lo + 1
    <3>1. Max({hi - lo + 1, 0}) = IF hi < lo THEN 0 ELSE hi - lo + 1
      BY DownLength
    <3>2. ~(hi < lo)
      OBVIOUS
    <3>3. QED
      BY <3>1, <3>2
  <2>2. hi - m + 1 \in 1 .. Max({hi - lo + 1, 0}) /\ hi - (hi - m + 1) + 1 = m
    BY <2>1
  <2>3. seqs[hi - m + 1] = MacosVersionTags(V[m], F[m])
    BY <2>2
  <2>4. QED
    BY <2>3, MacVersionLists
<1>3. \A l, m \in lo .. hi : l < m => Y[m] \X Y[l] \subseteq PlatOrder
  <2>1. ASSUME NEW l \in lo .. hi, NEW m \in lo .. hi, l < m, NEW p \in Y[m], NEW q \in Y[l]
        PROVE  <<p, q>> \in PlatOrder
    <3>1. p \in Platform /\ q \in Platform /\ PlatVer(p) = V[m] /\ PlatVer(q) = V[l]
      BY SMTT(60), <2>1, MacTagsFacts DEF OrderedFormats
    <3>2. QED
      BY <2>1, <3>1 DEF PlatOrder, AheadOf
  <2> HIDE DEF Y
  <2>2. QED
    BY <2>1
<1>4. {Y[m] : m \in lo .. hi} = {MacTags(V[m], F[m]) : m \in lo .. hi}
  OBVIOUS
<1> HIDE DEF Y
<1>5. DownLists(seqs, hi, lo, Y, PlatOrder)
  BY Zenon, <1>1, <1>2, <1>3 DEF DownLists
<1>6. Lists(FlattenSeq(seqs), UNION {Y[m] : m \in lo .. hi}, PlatOrder)
  BY <1>5, ListsDown
<1>7. QED
  BY <1>4, <1>6

(* The platforms of macOS version <<a, b>>.                                *)
MacSet(arch, a, b) ==
  IF a = 10
    THEN UNION {MacTags(<<10, m>>, MacosBinaryFormatsFor(<<10, m>>, arch)) : m \in 0 .. b}
    ELSE (UNION {MacTags(<<m, 0>>, MacosBinaryFormatsFor(<<m, 0>>, arch)) : m \in 11 .. a})
           \cup UNION {MacTags(<<10, m>>, MacosTailFormats(arch)) : m \in 4 .. MacosCompatTailMinor}

(* Both walks of macosPlatformTags, one after the other.                   *)
LEMMA MacosLists ==
  ASSUME NEW arch, NEW a \in Int, NEW b \in Int
  PROVE  Lists(MacosPlatformTags(arch, <<a, b>>), MacSet(arch, a, b), PlatOrder)
<1>1. Max({b - 0 + 1, 0}) = IF b < 0 THEN 0 ELSE b - 0 + 1
  BY SMTT(60), DownLength
<1>2. CASE a = 10
  <2> DEFINE V == [m \in 0 .. b |-> <<10, m>>]
             F == [m \in 0 .. b |-> MacosBinaryFormatsFor(<<10, m>>, arch)]
             seqs == [k \in 1 .. Max({b - 0 + 1, 0}) |-> MacosVersionTags(V[b - k + 1], F[b - k + 1])]
  <2>1. MacosPlatformTags(arch, <<a, b>>) = FlattenSeq(seqs)
    <3>1. seqs = [k \in 1 .. Max({b - 0 + 1, 0}) |->
                    MacosVersionTags(<<10, b - k + 1>>, MacosBinaryFormatsFor(<<10, b - k + 1>>, arch))]
      <4>0. Max({b - 0 + 1, 0}) = IF b < 0 THEN 0 ELSE b - 0 + 1
        BY <1>1
      <4>1. \A k \in 1 .. Max({b - 0 + 1, 0}) : b - k + 1 \in 0 .. b
        BY <4>0
      <4>2. \A k \in 1 .. Max({b - 0 + 1, 0}) :
              V[b - k + 1] = <<10, b - k + 1>> /\ F[b - k + 1] = MacosBinaryFormatsFor(<<10, b - k + 1>>, arch)
        BY <4>1
      <4> HIDE DEF V, F
      <4>3. QED
        BY <4>2
    <3>2. QED
      BY <1>2, <3>1 DEF MacosPlatformTags, Down
  <2>2. \A m \in 0 .. b : /\ V[m] = <<10, m>> /\ V[m] \in Int \X Int
                          /\ OrderedFormats(F[m]) /\ F[m] = MacosBinaryFormatsFor(<<10, m>>, arch)
    BY FormatsAreOrdered
  <2>3. \A l, m \in 0 .. b : l < m => Above(V[m], V[l])
    BY <2>2 DEF Above
  <2>4. {MacTags(V[m], F[m]) : m \in 0 .. b} = {MacTags(<<10, m>>, MacosBinaryFormatsFor(<<10, m>>, arch)) : m \in 0 .. b}
    BY <2>2
  <2>5. seqs = [k \in 1 .. Max({b - 0 + 1, 0}) |-> MacosVersionTags(V[b - k + 1], F[b - k + 1])]
    OBVIOUS
  <2> HIDE DEF V, F, seqs
  <2>6. MacWalk(seqs, b, 0, V, F)
    BY Zenon, <2>2, <2>3, <2>5 DEF MacWalk
  <2>7. Lists(FlattenSeq(seqs), UNION {MacTags(V[m], F[m]) : m \in 0 .. b}, PlatOrder)
    BY <2>6, MacWalkLists
  <2>8. QED
    BY <1>2, <2>1, <2>4, <2>7 DEF MacSet
<1>3. CASE a # 10
  <2>0. PICK top \in Int : top = MacosCompatTailMinor
    BY DEF MacosCompatTailMinor
  <2> DEFINE V == [m \in 11 .. a |-> <<m, 0>>]
             F == [m \in 11 .. a |-> MacosBinaryFormatsFor(<<m, 0>>, arch)]
             W == [m \in 4 .. top |-> <<10, m>>]
             G == [m \in 4 .. top |-> MacosTailFormats(arch)]
             news == [k \in 1 .. Max({a - 11 + 1, 0}) |-> MacosVersionTags(V[a - k + 1], F[a - k + 1])]
             olds == [k \in 1 .. Max({top - 4 + 1, 0}) |-> MacosVersionTags(W[top - k + 1], G[top - k + 1])]
             New  == UNION {MacTags(V[m], F[m]) : m \in 11 .. a}
             Old  == UNION {MacTags(W[m], G[m]) : m \in 4 .. top}
  <2>1. MacosPlatformTags(arch, <<a, b>>) = FlattenSeq(news) \o FlattenSeq(olds)
    <3>1. news = [k \in 1 .. Max({a - 11 + 1, 0}) |->
                    MacosVersionTags(<<a - k + 1, 0>>, MacosBinaryFormatsFor(<<a - k + 1, 0>>, arch))]
      <4>0. Max({a - 11 + 1, 0}) = IF a < 11 THEN 0 ELSE a - 11 + 1
        <5>1. 11 \in Int
          OBVIOUS
        <5>2. QED
          BY Zenon, <5>1, DownLength
      <4>1. \A k \in 1 .. Max({a - 11 + 1, 0}) : a - k + 1 \in 11 .. a
        BY <4>0
      <4>2. \A k \in 1 .. Max({a - 11 + 1, 0}) :
              V[a - k + 1] = <<a - k + 1, 0>> /\ F[a - k + 1] = MacosBinaryFormatsFor(<<a - k + 1, 0>>, arch)
        BY <4>1
      <4> HIDE DEF V, F
      <4>3. QED
        BY <4>2
    <3>2. olds = [k \in 1 .. Max({top - 4 + 1, 0}) |-> MacosVersionTags(<<10, top - k + 1>>, MacosTailFormats(arch))]
      <4>0. Max({top - 4 + 1, 0}) = IF top < 4 THEN 0 ELSE top - 4 + 1
        <5>1. 4 \in Int
          OBVIOUS
        <5>2. QED
          BY Zenon, <2>0, <5>1, DownLength
      <4>1. \A k \in 1 .. Max({top - 4 + 1, 0}) : top - k + 1 \in 4 .. top
        BY <4>0, <2>0
      <4>2. \A k \in 1 .. Max({top - 4 + 1, 0}) :
              W[top - k + 1] = <<10, top - k + 1>> /\ G[top - k + 1] = MacosTailFormats(arch)
        BY <4>1
      <4> HIDE DEF W, G
      <4>3. QED
        BY <4>2
    <3>3. QED
      BY <1>3, <2>0, <3>1, <3>2 DEF MacosPlatformTags, Down
  <2>2. \A m \in 11 .. a : /\ V[m] = <<m, 0>> /\ V[m] \in Int \X Int
                           /\ OrderedFormats(F[m]) /\ F[m] = MacosBinaryFormatsFor(<<m, 0>>, arch)
    BY FormatsAreOrdered
  <2>3. \A m \in 4 .. top : /\ W[m] = <<10, m>> /\ W[m] \in Int \X Int
                            /\ OrderedFormats(G[m]) /\ G[m] = MacosTailFormats(arch)
    BY <2>0, FormatsAreOrdered
  <2>4. \A l, m \in 11 .. a : l < m => Above(V[m], V[l])
    BY <2>2 DEF Above
  <2>5. \A l, m \in 4 .. top : l < m => Above(W[m], W[l])
    BY <2>0, <2>3 DEF Above
  <2>6. \A m \in 11 .. a : \A l \in 4 .. top : Above(V[m], W[l])
    BY <2>2, <2>3 DEF Above
  <2>7. New = UNION {MacTags(<<m, 0>>, MacosBinaryFormatsFor(<<m, 0>>, arch)) : m \in 11 .. a}
    <3>1. \A m \in 11 .. a : MacTags(V[m], F[m]) = MacTags(<<m, 0>>, MacosBinaryFormatsFor(<<m, 0>>, arch))
      BY <2>2
    <3> HIDE DEF V, F
    <3>2. QED
      BY <3>1
  <2>8. Old = UNION {MacTags(<<10, m>>, MacosTailFormats(arch)) : m \in 4 .. top}
    <3>1. \A m \in 4 .. top : MacTags(W[m], G[m]) = MacTags(<<10, m>>, MacosTailFormats(arch))
      BY <2>3
    <3> HIDE DEF W, G
    <3>2. QED
      BY <3>1
  <2>9. /\ news = [k \in 1 .. Max({a - 11 + 1, 0}) |-> MacosVersionTags(V[a - k + 1], F[a - k + 1])]
        /\ olds = [k \in 1 .. Max({top - 4 + 1, 0}) |-> MacosVersionTags(W[top - k + 1], G[top - k + 1])]
    OBVIOUS
  <2> HIDE DEF V, F, W, G, news, olds
  <2>10. MacWalk(news, a, 11, V, F) /\ MacWalk(olds, top, 4, W, G)
    BY Zenon, <2>2, <2>3, <2>4, <2>5, <2>9 DEF MacWalk
  <2>11. Lists(FlattenSeq(news), New, PlatOrder) /\ Lists(FlattenSeq(olds), Old, PlatOrder)
    BY <2>0, <2>10, MacWalkLists
  <2>12. MacSet(arch, a, b) = New \cup Old
    <3> HIDE DEF New, Old
    <3>1. Old = UNION {MacTags(<<10, m>>, MacosTailFormats(arch)) : m \in 4 .. MacosCompatTailMinor}
      BY Zenon, <2>0, <2>8
    <3>2. QED
      BY Zenon, <1>3, <2>7, <3>1 DEF MacSet
  <2>13. ASSUME NEW p \in New, NEW q \in Old PROVE <<p, q>> \in PlatOrder
    <3>1. PICK m \in 11 .. a : p \in MacTags(V[m], F[m])
      BY <2>13
    <3>2. PICK l \in 4 .. top : q \in MacTags(W[l], G[l])
      BY <2>13
    <3>3. p \in Platform /\ PlatVer(p) = V[m]
      <4>1. V[m] \in Int \X Int /\ F[m] \in Seq(Formats)
        BY <2>2 DEF OrderedFormats
      <4>2. QED
        BY SMTT(60), <3>1, <4>1, MacTagsFacts
    <3>4. q \in Platform /\ PlatVer(q) = W[l]
      BY SMTT(60), <2>3, <3>2, MacTagsFacts DEF OrderedFormats
    <3>5. QED
      BY <2>6, <3>3, <3>4 DEF PlatOrder, AheadOf
  <2> HIDE DEF New, Old
  <2>14. New \X Old \subseteq PlatOrder
    BY <2>13
  <2>15. QED
    BY ZenonT(60), <2>1, <2>11, <2>12, <2>14, ListsConcat
<1>4. QED
  BY <1>2, <1>3

(* The fields of a target that are numbers are numbers.                    *)
Typed(t) == t.py \in Int \X Int /\ t.implVer \in Int \X Int /\ t.ver \in Int \X Int

(* The platforms of each family, and of a target.                          *)
GlibcPlatforms(arch, v) == UNION {VersionTags(arch, u) : u \in Walked(arch, v)}
MuslPlatforms(arch, v)  == {Plat("musllinux", <<v[1], m>>, arch) : m \in 0 .. v[2]}
LibcPlatforms(t) == IF t.libc = "glibc" THEN GlibcPlatforms(t.arch, t.ver) ELSE MuslPlatforms(t.arch, t.ver)

PlatformSet(t) ==
  CASE t.os = "windows" -> {Plat("win", <<>>, t.arch)}
    [] t.os = "linux"   -> LibcPlatforms(t) \cup {Plat("linux", <<>>, t.arch)}
    [] t.os = "macos"   -> MacSet(t.arch, t.ver[1], t.ver[2])

(* A pair is the pair of its parts.                                        *)
LEMMA PairParts == \A v \in Int \X Int : v = <<v[1], v[2]>> /\ v[1] \in Int /\ v[2] \in Int
OBVIOUS

(* A valid target is of one of the three systems.                          *)
LEMMA ValidFacts ==
  ASSUME NEW t, Typed(t), Valid(t)
  PROVE  /\ t.os \in {"linux", "macos", "windows"}
         /\ t.os = "linux" => t.arch \in LinuxArchs /\ t.ver[1] > 0
         /\ t.os = "macos" => t.ver[1] >= 10
         /\ t.os = "macos" => t.arch \in MacosArchs
         /\ t.os = "windows" => t.arch \in WindowsArchs
         /\ t.os = "macos" /\ t.ver[1] = 10 => t.arch = "x86_64"
<1>1. t.os = "linux" => Archs(t.os) = LinuxArchs
  BY DEF Archs
<1>2. t.os = "macos" => Archs(t.os) = MacosArchs
  BY DEF Archs
<1>3. t.os = "windows" => Archs(t.os) = WindowsArchs
  BY DEF Archs
<1>4. t.os \notin {"linux", "macos", "windows"} => Archs(t.os) = {}
  BY DEF Archs
<1>5. QED
  BY <1>1, <1>2, <1>3, <1>4 DEF Valid

(* What glibc and musl platforms ask for.                                  *)
LEMMA LibcPlatformsFacts ==
  ASSUME NEW t, Typed(t), t.arch \in LinuxArchs, NEW p \in LibcPlatforms(t)
  PROVE  /\ p \in Platform /\ p.arch = t.arch
         /\ t.libc = "glibc" =>
              /\ PlatVer(p) \in Walked(t.arch, t.ver)
              /\ LibcPlatform(p) = {[libc |-> "glibc", ver |-> PlatVer(p)]}
              /\ p \in VersionTags(t.arch, PlatVer(p))
         /\ t.libc # "glibc" =>
              /\ PlatVer(p) = p.ver /\ p.ver[1] = t.ver[1] /\ p.ver[2] \in 0 .. t.ver[2] /\ p.ver \in Int \X Int
              /\ LibcPlatform(p) = {[libc |-> "musl", ver |-> p.ver]}
              /\ p = Plat("musllinux", p.ver, t.arch)
<1>1. CASE t.libc = "glibc"
  <2>1. PICK u \in Walked(t.arch, t.ver) : p \in VersionTags(t.arch, u)
    BY <1>1 DEF LibcPlatforms, GlibcPlatforms
  <2>2. u \in Int \X Int
    BY DEF Walked
  <2>3. QED
    BY <1>1, <2>1, <2>2, VersionTagsFacts
<1>2. CASE t.libc # "glibc"
  <2>1. PICK m \in 0 .. t.ver[2] : p = Plat("musllinux", <<t.ver[1], m>>, t.arch)
    BY <1>2 DEF LibcPlatforms, MuslPlatforms
  <2>2. t.ver[1] \in Int /\ t.ver[2] \in Int /\ m \in Int
    BY PairParts DEF Typed
  <2>3. PICK u \in Int \X Int : u = <<t.ver[1], m>>
    BY <2>2
  <2>4. p.family = "musllinux" /\ p.ver = u /\ p.arch = t.arch
    BY <2>1, <2>3 DEF Plat
  <2>5. PlatVer(p) = u
    BY <2>4 DEF PlatVer
  <2>6. p \in Platform
    BY <2>1, <2>3, <2>5 DEF Plat, Platform, Families
  <2>7. LibcPlatform(p) = {[libc |-> "musl", ver |-> u]}
    <3>1. p.family # "manylinux" /\ p.family \notin DOMAIN LegacyAlias(p.arch)
      BY <2>4 DEF LegacyAlias
    <3>2. QED
      BY <2>3, <2>4, <3>1 DEF LibcPlatform
  <2>8. u[1] = t.ver[1] /\ u[2] = m
    BY <2>3
  <2>9. p = Plat("musllinux", u, t.arch)
    BY <2>1, <2>3
  <2>10. QED
    BY <1>2, <2>3, <2>4, <2>5, <2>6, <2>7, <2>8, <2>9
<1>3. QED
  BY <1>1, <1>2

(* The platforms of a target are listed by PlatformTags.                   *)
LEMMA PlatformLists ==
  ASSUME NEW t, Typed(t), Valid(t)
  PROVE  Lists(PlatformTags(t), PlatformSet(t), PlatOrder)
<1>1. PICK a \in Int, b \in Int : t.ver = <<a, b>>
  BY PairParts DEF Typed
<1>2. CASE t.os = "windows"
  BY <1>2, ListsOne DEF PlatformTags, PlatformSet
<1>3. CASE t.os = "macos"
  <2>1. t.ver[1] = a /\ t.ver[2] = b
    BY <1>1
  <2>2. PlatformTags(t) = MacosPlatformTags(t.arch, <<a, b>>) /\ PlatformSet(t) = MacSet(t.arch, a, b)
    BY <1>1, <1>3, <2>1 DEF PlatformTags, PlatformSet
  <2>3. QED
    BY <2>2, MacosLists
<1>4. CASE t.os = "linux"
  <2>1. t.arch \in LinuxArchs /\ a > 0
    BY <1>1, <1>4, ValidFacts
  <2> DEFINE bare == Plat("linux", <<>>, t.arch)
             libc == IF t.libc = "glibc" THEN ManylinuxTags(t.arch, t.ver) ELSE MusllinuxTags(t.arch, t.ver)
  <2>2. PlatformTags(t) = libc \o <<bare>> /\ PlatformSet(t) = LibcPlatforms(t) \cup {bare}
    BY <1>4 DEF PlatformTags, PlatformSet, LinuxPlatformTags
  <2>3. Lists(libc, LibcPlatforms(t), PlatOrder)
    <3>1. CASE t.libc = "glibc"
      BY <1>1, <2>1, <3>1, ManylinuxLists DEF LibcPlatforms, GlibcPlatforms
    <3>2. CASE t.libc # "glibc"
      <4>1. MuslPlatforms(t.arch, t.ver) = {Plat("musllinux", <<a, m>>, t.arch) : m \in 0 .. b}
        BY <1>1 DEF MuslPlatforms
      <4>2. QED
        BY <1>1, <2>1, <3>2, <4>1, MusllinuxLists DEF LibcPlatforms
    <3>3. QED
      BY <3>1, <3>2
  <2>4. ASSUME NEW p \in LibcPlatforms(t) PROVE <<p, bare>> \in PlatOrder
    <3>1. p \in Platform /\ PlatVer(p) \in Int \X Int /\ PlatVer(p)[1] > 0
      <4>1. t.libc = "glibc" => PlatVer(p) \in Int \X Int /\ PlatVer(p)[1] > 0
        BY <1>1, <2>1, <2>4, LibcPlatformsFacts DEF Walked, FloorMajor
      <4>2. t.libc # "glibc" => PlatVer(p) \in Int \X Int /\ PlatVer(p)[1] > 0
        BY <1>1, <2>1, <2>4, LibcPlatformsFacts
      <4>3. QED
        BY <2>1, <2>4, <4>1, <4>2, LibcPlatformsFacts
    <3>2. PICK q : q = bare
      OBVIOUS
    <3>3. q.family = "linux" /\ q.arch = t.arch
      BY <3>2 DEF Plat
    <3>4. PlatVer(q) = <<-1, -1>>
      BY <3>3 DEF PlatVer, LegacyAlias
    <3>5. q \in Platform
      BY <2>1, <3>2, <3>4 DEF Platform, Plat, Families
    <3>6. QED
      BY <3>1, <3>2, <3>4, <3>5 DEF PlatOrder, AheadOf, Above
  <2>5. LibcPlatforms(t) \X {bare} \subseteq PlatOrder
    <3> HIDE DEF bare
    <3>1. QED
      BY <2>4
  <2> HIDE DEF libc, bare
  <2>6. Lists(<<bare>>, {bare}, PlatOrder)
    BY ListsOne
  <2>7. QED
    BY <2>2, <2>3, <2>5, <2>6, ListsConcat
<1>5. QED
  BY <1>2, <1>3, <1>4, ValidFacts

(***************************************************************************)
(* A host after upgrades                                                   *)
(***************************************************************************)
(* A glibc version the upgraded host walks through is walked through by    *)
(* the target, or above it.                                                *)
LEMMA WalkedOrAbove ==
  ASSUME NEW arch, NEW v \in Int \X Int, NEW w \in Int \X Int, AtLeast(w, v), NEW u \in Walked(arch, w), ~Above(u, v)
  PROVE  u \in Walked(arch, v)
BY DEF Walked, AtLeast, Above

(* Within a major an upgraded host walks through what it did.              *)
LEMMA WalkedStays ==
  ASSUME NEW arch, NEW v \in Int \X Int, NEW w \in Int \X Int, AtLeast(w, v), v[1] = w[1], NEW u \in Walked(arch, v)
  PROVE  u \in Walked(arch, w)
BY DEF Walked, AtLeast, Above

(* The versions of macOS a target names, and the formats it names them     *)
(* with.                                                                   *)
MacVersions(a, b) ==
  IF a = 10 THEN {<<10, m>> : m \in 4 .. b}
  ELSE {<<m, 0>> : m \in 11 .. a} \cup {<<10, m>> : m \in 4 .. MacosCompatTailMinor}

(* The formats a version is named with.                                    *)
MacFormats(arch, u) == IF u[1] = 10 THEN MacosTailFormats(arch) ELSE MacosBinaryFormats(arch)

(* The platforms of macOS by version.                                      *)
LEMMA MacSetIs ==
  ASSUME NEW arch \in MacosArchs, NEW a \in Int, NEW b \in Int, a = 10 => arch = "x86_64", NEW p
  PROVE  p \in MacSet(arch, a, b) <=> \E u \in MacVersions(a, b) : p \in MacTags(u, MacFormats(arch, u))
<1>1. \A m \in Int : m >= 11 => /\ MacosBinaryFormatsFor(<<m, 0>>, arch) = MacosBinaryFormats(arch)
                               /\ MacFormats(arch, <<m, 0>>) = MacosBinaryFormats(arch)
  BY DEF MacosBinaryFormatsFor, AtLeast, Above, MacFormats
<1>2. \A m \in Int : MacFormats(arch, <<10, m>>) = MacosTailFormats(arch)
  BY DEF MacFormats
<1>3. CASE a = 10
  <2>1. ASSUME NEW m \in 0 .. b, p \in MacTags(<<10, m>>, MacosBinaryFormatsFor(<<10, m>>, arch))
        PROVE  m \in 4 .. b /\ p \in MacTags(<<10, m>>, MacFormats(arch, <<10, m>>))
    <3>1. CASE m >= 4
      <4>1. MacosBinaryFormatsFor(<<10, m>>, arch) = MacosTailFormats(arch)
        BY <1>3, <3>1 DEF MacosBinaryFormatsFor, AtLeast, Above, MacosTailFormats
      <4>2. QED
        BY <1>2, <2>1, <3>1, <4>1
    <3>2. CASE m < 4
      <4>1. MacosBinaryFormatsFor(<<10, m>>, arch) = <<>>
        BY <1>3, <3>2 DEF MacosBinaryFormatsFor, AtLeast, Above
      <4>2. QED
        BY <2>1, <4>1 DEF MacTags
    <3>3. QED
      BY <3>1, <3>2
  <2>2. ASSUME NEW m \in 4 .. b, p \in MacTags(<<10, m>>, MacFormats(arch, <<10, m>>))
        PROVE  m \in 0 .. b /\ p \in MacTags(<<10, m>>, MacosBinaryFormatsFor(<<10, m>>, arch))
    <3>1. MacosBinaryFormatsFor(<<10, m>>, arch) = MacosTailFormats(arch)
      BY <1>3 DEF MacosBinaryFormatsFor, AtLeast, Above, MacosTailFormats
    <3>2. QED
      BY <1>2, <2>2, <3>1
  <2>3. p \in MacSet(arch, a, b) <=> \E m \in 0 .. b : p \in MacTags(<<10, m>>, MacosBinaryFormatsFor(<<10, m>>, arch))
    BY <1>3 DEF MacSet
  <2>4. MacVersions(a, b) = {<<10, m>> : m \in 4 .. b}
    BY <1>3 DEF MacVersions
  <2>5. (\E u \in MacVersions(a, b) : p \in MacTags(u, MacFormats(arch, u)))
          <=> \E m \in 4 .. b : p \in MacTags(<<10, m>>, MacFormats(arch, <<10, m>>))
    BY <2>4
  <2>6. QED
    BY <2>1, <2>2, <2>3, <2>5
<1>4. CASE a # 10
  <2>0. MacosCompatTailMinor \in Int
    BY DEF MacosCompatTailMinor
  <2>1. p \in MacSet(arch, a, b) <=>
          \/ \E m \in 11 .. a : p \in MacTags(<<m, 0>>, MacosBinaryFormatsFor(<<m, 0>>, arch))
          \/ \E m \in 4 .. MacosCompatTailMinor : p \in MacTags(<<10, m>>, MacosTailFormats(arch))
    BY <1>4 DEF MacSet
  <2>2. MacVersions(a, b) = {<<m, 0>> : m \in 11 .. a} \cup {<<10, m>> : m \in 4 .. MacosCompatTailMinor}
    BY <1>4 DEF MacVersions
  <2>3. (\E u \in MacVersions(a, b) : p \in MacTags(u, MacFormats(arch, u))) <=>
          \/ \E m \in 11 .. a : p \in MacTags(<<m, 0>>, MacFormats(arch, <<m, 0>>))
          \/ \E m \in 4 .. MacosCompatTailMinor : p \in MacTags(<<10, m>>, MacFormats(arch, <<10, m>>))
    BY <2>2
  <2>4. \A m \in 11 .. a : MacosBinaryFormatsFor(<<m, 0>>, arch) = MacFormats(arch, <<m, 0>>)
    <3>1. \A m \in 11 .. a : m \in Int /\ m >= 11
      OBVIOUS
    <3>2. QED
      BY <1>1, <3>1
  <2>5. \A m \in 4 .. MacosCompatTailMinor : MacosTailFormats(arch) = MacFormats(arch, <<10, m>>)
    <3>1. \A m \in 4 .. MacosCompatTailMinor : m \in Int
      BY <2>0
    <3>2. QED
      BY <1>2, <3>1
  <2>6. QED
    BY <2>1, <2>3, <2>4, <2>5
<1>5. QED
  BY <1>3, <1>4

(* Which versions of macOS an upgraded host names beside those of the      *)
(* target, and keeps.                                                      *)
LEMMA MacVersionsOrAbove ==
  ASSUME NEW v \in Int \X Int, NEW w \in Int \X Int, AtLeast(w, v), v[1] >= 10,
         NEW u \in MacVersions(w[1], w[2]), ~Above(u, v)
  PROVE  u \in MacVersions(v[1], v[2])
<1>1. PICK a \in Int, b \in Int, c \in Int, d \in Int : v = <<a, b>> /\ w = <<c, d>>
  BY PairParts
<1>2. a >= 10 /\ (c > a \/ (c = a /\ d >= b))
  BY <1>1 DEF AtLeast, Above
<1>3. MacosCompatTailMinor \in Int
  BY DEF MacosCompatTailMinor
<1>4. \/ \E m \in 4 .. d : c = 10 /\ u = <<10, m>>
      \/ \E m \in 11 .. c : c # 10 /\ u = <<m, 0>>
      \/ \E m \in 4 .. MacosCompatTailMinor : c # 10 /\ u = <<10, m>>
  BY <1>1 DEF MacVersions
<1>5. ASSUME NEW m \in 4 .. d, c = 10, u = <<10, m>> PROVE u \in MacVersions(a, b)
  <2>1. a = 10 /\ m <= b
    BY <1>1, <1>2, <1>5 DEF Above
  <2>2. QED
    BY <1>5, <2>1 DEF MacVersions
<1>6. ASSUME NEW m \in 11 .. c, u = <<m, 0>> PROVE u \in MacVersions(a, b)
  <2>1. a # 10 /\ m <= a
    BY <1>1, <1>2, <1>6 DEF Above
  <2>2. QED
    BY <1>6, <2>1 DEF MacVersions
<1>7. ASSUME NEW m \in 4 .. MacosCompatTailMinor, u = <<10, m>> PROVE u \in MacVersions(a, b)
  <2>1. CASE a = 10
    <3>1. m <= b
      BY <1>1, <1>3, <1>7, <2>1 DEF Above
    <3>2. QED
      BY <1>3, <1>7, <2>1, <3>1 DEF MacVersions
  <2>2. CASE a # 10
    BY <1>7, <2>2 DEF MacVersions
  <2>3. QED
    BY <2>1, <2>2
<1>8. QED
  BY <1>1, <1>4, <1>5, <1>6, <1>7

(* An upgraded host names the versions it named, if no macOS 10 is later   *)
(* than the tail of macOS 11.                                              *)
LEMMA MacVersionsStay ==
  ASSUME NEW v \in Int \X Int, NEW w \in Int \X Int, AtLeast(w, v), v[1] >= 10,
         v[1] = 10 => v[2] <= MacosCompatTailMinor, NEW u \in MacVersions(v[1], v[2])
  PROVE  u \in MacVersions(w[1], w[2])
<1>1. PICK a \in Int, b \in Int, c \in Int, d \in Int : v = <<a, b>> /\ w = <<c, d>>
  BY PairParts
<1>2. a >= 10 /\ (c > a \/ (c = a /\ d >= b)) /\ (a = 10 => b <= MacosCompatTailMinor)
  BY <1>1 DEF AtLeast, Above
<1>3. MacosCompatTailMinor \in Int
  BY DEF MacosCompatTailMinor
<1>4. CASE a = 10
  <2>1. PICK m \in 4 .. b : u = <<10, m>>
    BY <1>1, <1>4 DEF MacVersions
  <2>2. m \in 4 .. MacosCompatTailMinor /\ (c = 10 => m \in 4 .. d)
    BY <1>2, <1>3, <1>4
  <2>3. QED
    BY <1>1, <2>1, <2>2 DEF MacVersions
<1>5. CASE a # 10
  <2>1. c # 10 /\ c >= a
    BY <1>2, <1>5
  <2>2. \/ \E m \in 11 .. a : u = <<m, 0>>
        \/ \E m \in 4 .. MacosCompatTailMinor : u = <<10, m>>
    BY <1>1, <1>5 DEF MacVersions
  <2>3. \A m \in 11 .. a : m \in 11 .. c
    BY <2>1
  <2>4. QED
    BY <1>1, <2>1, <2>2, <2>3 DEF MacVersions
<1>6. QED
  BY <1>4, <1>5

(* h is t with another version of the platform, and maybe another libc.    *)
Alike(h, t) ==
  /\ h.impl = t.impl /\ h.py = t.py /\ h.freeThreaded = t.freeThreaded /\ h.implVer = t.implVer
  /\ h.os = t.os /\ h.arch = t.arch

(* The formats of macOS are among those of the architecture.               *)
LEMMA MacFormatsFacts ==
  ASSUME NEW arch \in MacosArchs, NEW u
  PROVE  MacFormats(arch, u) \in Seq(Formats) /\ Range(MacFormats(arch, u)) \subseteq Range(MacosBinaryFormats(arch))
<1>1. MacFormats(arch, u) \in Seq(Formats)
  BY FormatsAreOrdered DEF MacFormats, OrderedFormats
<1>2. MacFormats(arch, u) = MacosBinaryFormats(arch) \/ (arch = "arm64" /\ MacFormats(arch, u) = <<"universal2">>)
  BY DEF MacFormats, MacosTailFormats, MacosArchs
<1>3. CASE arch = "arm64" /\ MacFormats(arch, u) = <<"universal2">>
  <2>1. Range(MacFormats(arch, u)) = {"universal2"}
    BY <1>3 DEF Range
  <2>2. PICK s : s = <<"arm64", "universal2">>
    OBVIOUS
  <2>3. 2 \in DOMAIN s /\ s[2] = "universal2"
    BY <2>2
  <2>4. MacosBinaryFormats(arch) = s
    BY <1>3, <2>2 DEF MacosBinaryFormats
  <2>5. "universal2" \in Range(s)
    BY <2>3 DEF Range
  <2>6. QED
    BY <1>1, <2>1, <2>4, <2>5
<1>4. QED
  BY <1>1, <1>2, <1>3

(* A macOS platform of an upgraded host.                                   *)
LEMMA MacPlatformNewer ==
  ASSUME NEW t, NEW h, Typed(t), Valid(t), Typed(h), Valid(h), Alike(h, t), AtLeast(h.ver, t.ver), t.os = "macos",
         NEW p \in PlatformSet(h), NEW m, m.target = t
  PROVE  p \in PlatformSet(t) \/ PlatformIsNewer(m, p)
<1>1. /\ t.ver \in Int \X Int /\ h.ver \in Int \X Int /\ h.arch = t.arch /\ h.os = "macos"
      /\ t.ver[1] \in Int /\ t.ver[2] \in Int /\ h.ver[1] \in Int /\ h.ver[2] \in Int
  BY PairParts DEF Typed, Alike
<1>2. t.arch \in MacosArchs /\ t.ver[1] >= 10 /\ (t.ver[1] = 10 => t.arch = "x86_64") /\ (h.ver[1] = 10 => t.arch = "x86_64")
  BY <1>1, ValidFacts
<1>3. PICK u \in MacVersions(h.ver[1], h.ver[2]) : p \in MacTags(u, MacFormats(t.arch, u))
  BY <1>1, <1>2, MacSetIs DEF PlatformSet
<1>4. u \in Int \X Int
  BY <1>1 DEF MacVersions, MacosCompatTailMinor
<1>5. p.family = "macosx" /\ p.ver = u /\ p.arch \in Range(MacosBinaryFormats(t.arch))
  BY <1>2, <1>3, <1>4, MacTagsFacts, MacFormatsFacts
<1>6. CASE Above(u, t.ver)
  BY <1>5, <1>6 DEF PlatformIsNewer
<1>7. CASE ~Above(u, t.ver)
  <2>1. u \in MacVersions(t.ver[1], t.ver[2])
    BY <1>1, <1>2, <1>7, MacVersionsOrAbove
  <2>2. p \in MacSet(t.arch, t.ver[1], t.ver[2])
    BY <1>1, <1>2, <1>3, <2>1, MacSetIs
  <2>3. QED
    BY <2>2 DEF PlatformSet
<1>8. QED
  BY <1>6, <1>7

(* A platform of an upgraded host is one of the target, or newer to a      *)
(* Matcher of the host's libc: the version it asks for is above the floor  *)
(* f the Matcher compares it with.                                         *)
LEMMA LinuxPlatformNewer ==
  ASSUME NEW h, Typed(h), Valid(h), h.os = "linux", NEW p \in LibcPlatforms(h),
         NEW m, m.target.os = "linux", m.target.arch = h.arch,
         LibcFamilyMatches(m, h.libc), NEW f \in Int \X Int, f = LibcFloorFor(m, h.libc),
         h.libc = "glibc" => AtLeast(h.ver, f), h.libc = "musl" => f[1] > 0
  PROVE  \/ h.libc = "glibc" /\ p \in GlibcPlatforms(h.arch, f)
         \/ h.libc = "musl" /\ h.ver[1] = f[1] /\ p \in MuslPlatforms(h.arch, f)
         \/ h.libc = "musl" /\ h.ver[1] < f[1]
         \/ PlatformIsNewer(m, p)
<1>1. h.arch \in LinuxArchs /\ h.libc \in {"glibc", "musl"} /\ h.ver \in Int \X Int
  BY ValidFacts DEF Valid, Typed
<1>2. CASE h.libc = "glibc"
  <2>1. /\ p \in Platform /\ p.arch = h.arch /\ PlatVer(p) \in Walked(h.arch, h.ver)
        /\ LibcPlatform(p) = {[libc |-> "glibc", ver |-> PlatVer(p)]} /\ p \in VersionTags(h.arch, PlatVer(p))
    BY <1>1, <1>2, LibcPlatformsFacts
  <2>2. CASE Above(PlatVer(p), f)
    BY <1>2, <2>1, <2>2 DEF PlatformIsNewer
  <2>3. CASE ~Above(PlatVer(p), f)
    <3>1. PlatVer(p) \in Walked(h.arch, f)
      BY <1>1, <1>2, <2>1, <2>3, WalkedOrAbove
    <3>2. QED
      BY <1>2, <2>1, <3>1 DEF GlibcPlatforms
  <2>4. QED
    BY <2>2, <2>3
<1>3. CASE h.libc = "musl"
  <2>1. /\ p.arch = h.arch /\ p.ver[1] = h.ver[1] /\ p.ver[2] \in 0 .. h.ver[2] /\ p.ver \in Int \X Int
        /\ LibcPlatform(p) = {[libc |-> "musl", ver |-> p.ver]} /\ p = Plat("musllinux", p.ver, h.arch)
    BY <1>1, <1>3, LibcPlatformsFacts
  <2>2. CASE Above(p.ver, f)
    BY <1>3, <2>1, <2>2 DEF PlatformIsNewer
  <2>3. CASE ~Above(p.ver, f) /\ h.ver[1] >= f[1]
    <3>1. p.ver = <<f[1], p.ver[2]>> /\ p.ver[2] \in 0 .. f[2] /\ h.ver[1] = f[1]
      BY <1>1, <2>1, <2>3 DEF Above
    <3>2. QED
      BY <1>3, <2>1, <3>1 DEF MuslPlatforms
  <2>4. QED
    BY <1>1, <1>3, <2>2, <2>3
<1>4. QED
  BY <1>1, <1>2, <1>3

(***************************************************************************)
(* Tags                                                                    *)
(***************************************************************************)
(* The pairs (s[j], s[k]) with j before k.                                 *)
InOrder(s) == {xy \in Range(s) \X Range(s) : \E j, k \in DOMAIN s : j < k /\ xy[1] = s[j] /\ xy[2] = s[k]}

(* No element occurs twice.                                                *)
Distinct(s) == \A j, k \in DOMAIN s : j < k => s[j] # s[k]

(* The tiers T over the platforms P.                                       *)
Over(T, P) == {Tag(x[1], x[2], p) : x \in T, p \in P}

(* Tiers in the order Q over platforms in the order O are ordered by R.    *)
OverOrder(T, Q, P, O, R) ==
  /\ \A x, y \in T, p, q \in P : <<x, y>> \in Q => <<Tag(x[1], x[2], p), Tag(y[1], y[2], q)>> \in R
  /\ \A x \in T, p, q \in P : <<p, q>> \in O => <<Tag(x[1], x[2], p), Tag(x[1], x[2], q)>> \in R

(* One tier over the platforms.                                            *)
LEMMA ListsTier ==
  ASSUME NEW plats, NEW P, NEW O, NEW T, NEW Q, NEW R, Lists(plats, P, O), OverOrder(T, Q, P, O, R), NEW x \in T
  PROVE  Lists([p \in DOMAIN plats |-> Tag(x[1], x[2], plats[p])], Over({x}, P), R)
<1> DEFINE s == [p \in DOMAIN plats |-> Tag(x[1], x[2], plats[p])]
<1>1. /\ plats \in Seq(P) /\ P = {plats[k] : k \in DOMAIN plats}
      /\ \A j, k \in DOMAIN plats : j < k => <<plats[j], plats[k]>> \in O
  BY DEF Lists, Sorted
<1>2. DOMAIN plats = 1 .. Len(plats) /\ Len(plats) \in Nat
  BY <1>1
<1>3. s \in Seq(Over({x}, P))
  <2>1. \A p \in DOMAIN plats : Tag(x[1], x[2], plats[p]) \in Over({x}, P)
    BY <1>1 DEF Over
  <2>2. s \in [1 .. Len(plats) -> Over({x}, P)]
    BY <1>2, <2>1
  <2> HIDE DEF s
  <2>3. Seq(Over({x}, P)) = UNION {[1 .. n -> Over({x}, P)] : n \in Nat}
    BY SeqDef, Zenon
  <2>4. QED
    BY <1>2, <2>2, <2>3, Zenon
<1>4. DOMAIN s = DOMAIN plats /\ \A k \in DOMAIN s : s[k] = Tag(x[1], x[2], plats[k])
  OBVIOUS
<1> HIDE DEF s
<1>5. Over({x}, P) = {s[k] : k \in DOMAIN s}
  <2>1. ASSUME NEW y \in Over({x}, P) PROVE \E k \in DOMAIN s : y = s[k]
    <3>1. PICK p \in P : y = Tag(x[1], x[2], p)
      BY <2>1 DEF Over
    <3>2. PICK k \in DOMAIN plats : p = plats[k]
      BY <1>1, <3>1
    <3>3. QED
      BY <1>4, <3>1, <3>2
  <2>2. ASSUME NEW k \in DOMAIN s PROVE s[k] \in Over({x}, P)
    <3>1. plats[k] \in P
      BY <1>1, <1>4, <2>2
    <3>2. QED
      BY <1>4, <2>2, <3>1 DEF Over
  <2>3. QED
    BY <2>1, <2>2
<1>6. Sorted(s, R)
  <2>1. ASSUME NEW j \in DOMAIN s, NEW k \in DOMAIN s, j < k PROVE <<s[j], s[k]>> \in R
    <3>1. plats[j] \in P /\ plats[k] \in P /\ <<plats[j], plats[k]>> \in O
      BY <1>1, <1>4, <2>1
    <3>2. <<Tag(x[1], x[2], plats[j]), Tag(x[1], x[2], plats[k])>> \in R
      BY <3>1 DEF OverOrder
    <3>3. QED
      BY <1>4, <3>2
  <2>2. QED
    BY <2>1 DEF Sorted
<1>7. Lists(s, Over({x}, P), R)
  BY <1>3, <1>5, <1>6 DEF Lists
<1>8. QED
  BY <1>7 DEF s

(* One tier after the other.                                               *)
LEMMA ListsOver ==
  ASSUME NEW tiers, NEW T, NEW Q, NEW plats, NEW P, NEW O, NEW R,
         Lists(tiers, T, Q), Lists(plats, P, O), OverOrder(T, Q, P, O, R)
  PROVE  Lists(OverPlatforms(tiers, plats), Over(T, P), R)
<1>1. /\ tiers \in Seq(T) /\ T = {tiers[k] : k \in DOMAIN tiers}
      /\ \A j, k \in DOMAIN tiers : j < k => <<tiers[j], tiers[k]>> \in Q
  BY DEF Lists, Sorted
<1>2. PICK n \in Nat : n = Len(tiers) /\ DOMAIN tiers = 1 .. n
  BY <1>1
<1> DEFINE seqs == [k \in 1 .. n |-> [p \in DOMAIN plats |-> Tag(tiers[k][1], tiers[k][2], plats[p])]]
           X == [k \in 1 .. n |-> Over({tiers[k]}, P)]
<1>3. OverPlatforms(tiers, plats) = FlattenSeq(seqs)
  BY <1>2 DEF OverPlatforms
<1>4. seqs = [k \in 1 .. n |-> seqs[k]] /\ \A k \in 1 .. n : X[k] = Over({tiers[k]}, P)
  OBVIOUS
<1>5. \A k \in 1 .. n : Lists(seqs[k], X[k], R)
  <2>1. ASSUME NEW k \in 1 .. n PROVE Lists(seqs[k], X[k], R)
    <3>1. tiers[k] \in T
      BY <1>1, <1>2
    <3>2. Lists([p \in DOMAIN plats |-> Tag(tiers[k][1], tiers[k][2], plats[p])], Over({tiers[k]}, P), R)
      BY <3>1, ListsTier
    <3>3. QED
      BY <3>2
  <2>2. QED
    BY <2>1
<1> HIDE DEF X, seqs
<1>6. \A j, k \in 1 .. n : j < k => X[j] \X X[k] \subseteq R
  <2>1. ASSUME NEW j \in 1 .. n, NEW k \in 1 .. n, j < k, NEW a \in X[j], NEW b \in X[k] PROVE <<a, b>> \in R
    <3>1. PICK p \in P : a = Tag(tiers[j][1], tiers[j][2], p)
      BY <1>4, <2>1 DEF Over
    <3>2. PICK q \in P : b = Tag(tiers[k][1], tiers[k][2], q)
      BY <1>4, <2>1 DEF Over
    <3>3. tiers[j] \in T /\ tiers[k] \in T /\ <<tiers[j], tiers[k]>> \in Q
      BY <1>1, <1>2, <2>1
    <3>4. QED
      BY <3>1, <3>2, <3>3 DEF OverOrder
  <2>2. QED
    BY <2>1
<1>7. UNION {X[k] : k \in 1 .. n} = Over(T, P)
  <2>1. ASSUME NEW a PROVE a \in Over(T, P) <=> \E k \in 1 .. n : a \in X[k]
    <3>1. a \in Over(T, P) <=> \E x \in T, p \in P : a = Tag(x[1], x[2], p)
      BY DEF Over
    <3>2. \A k \in 1 .. n : a \in X[k] <=> \E p \in P : a = Tag(tiers[k][1], tiers[k][2], p)
      BY <1>4 DEF Over
    <3>3. \A x : x \in T <=> \E k \in 1 .. n : x = tiers[k]
      BY <1>1, <1>2
    <3>4. QED
      BY <3>1, <3>2, <3>3
  <2>2. QED
    BY <2>1
<1>8. Lists(FlattenSeq(seqs), UNION {X[k] : k \in 1 .. n}, R)
  BY <1>4, <1>5, <1>6, ListsFlatten
<1>9. QED
  BY <1>3, <1>7, <1>8

(* A sequence none of whose elements occurs twice.                         *)
Unrepeated(s) == s \in Seq(Range(s)) /\ Distinct(s)

(* Its elements are in its order, which has no cycle of two.               *)
LEMMA UnrepeatedLists ==
  ASSUME NEW s, s \in Seq(Range(s))
  PROVE  Lists(s, Range(s), InOrder(s))
<1>1. Range(s) = {s[k] : k \in DOMAIN s}
  BY DEF Range
<1>2. \A j, k \in DOMAIN s : j < k => <<s[j], s[k]>> \in InOrder(s)
  BY <1>1 DEF InOrder
<1>3. QED
  BY <1>1, <1>2 DEF Lists, Sorted

(* No two elements are in order both ways.                                 *)
LEMMA InOrderAsymmetric ==
  ASSUME NEW s, Unrepeated(s)
  PROVE  \A x, y : <<x, y>> \in InOrder(s) => <<y, x>> \notin InOrder(s) /\ x # y
<1>1. PICK n \in Nat : DOMAIN s = 1 .. n
  BY DEF Unrepeated
<1>0. \A j, k \in 1 .. n : s[j] = s[k] => j = k
  <2>1. \A j, k \in 1 .. n : j < k => s[j] # s[k]
    BY <1>1 DEF Unrepeated, Distinct
  <2>2. \A j, k \in 1 .. n : j < k \/ j = k \/ k < j
    OBVIOUS
  <2>3. QED
    BY <2>1, <2>2
<1>2. ASSUME NEW x, NEW y, <<x, y>> \in InOrder(s) PROVE <<y, x>> \notin InOrder(s) /\ x # y
  <2>1. PICK j \in DOMAIN s, k \in DOMAIN s : j < k /\ x = s[j] /\ y = s[k]
    BY <1>2 DEF InOrder
  <2>2. ASSUME NEW l \in DOMAIN s, NEW m \in DOMAIN s, l < m, y = s[l], x = s[m] PROVE FALSE
    <3>0. j \in 1 .. n /\ k \in 1 .. n /\ l \in 1 .. n /\ m \in 1 .. n
      BY <1>1, <2>1, <2>2
    <3>1. k = l
      BY <1>0, <2>1, <2>2, <3>0
    <3>2. j = m
      BY <1>0, <2>1, <2>2, <3>0
    <3>3. QED
      BY <2>1, <2>2, <3>0, <3>1, <3>2
  <2>3. x # y
    BY <1>0, <1>1, <2>1
  <2>4. QED
    BY <2>2, <2>3 DEF InOrder
<1>3. QED
  BY <1>2

(* Two sequences one after the other.                                      *)
LEMMA Concatenated ==
  ASSUME NEW s, NEW t, s \in Seq(Range(s)), t \in Seq(Range(t))
  PROVE  /\ s \o t \in Seq(Range(s \o t)) /\ Range(s \o t) = Range(s) \cup Range(t)
         /\ Lists(s, Range(s), InOrder(s \o t)) /\ Lists(t, Range(t), InOrder(s \o t))
         /\ Range(s) \X Range(t) \subseteq InOrder(s \o t)
         /\ Distinct(s) /\ Distinct(t) /\ Range(s) \cap Range(t) = {} => Distinct(s \o t)
<1>1. PICK m \in Nat, n \in Nat : m = Len(s) /\ n = Len(t) /\ DOMAIN s = 1 .. m /\ DOMAIN t = 1 .. n
  OBVIOUS
<1>2. PICK X : X = Range(s) \cup Range(t)
  OBVIOUS
<1>3. s \in Seq(X) /\ t \in Seq(X)
  BY <1>2
<1>4. PICK u : u = s \o t
  OBVIOUS
<1>5. /\ u \in Seq(X) /\ Len(u) = m + n /\ DOMAIN u = 1 .. m + n
      /\ \A k \in 1 .. m : u[k] = s[k]
      /\ \A k \in 1 .. n : u[k + m] = t[k]
      /\ \A k \in 1 .. m + n : k > m => k - m \in 1 .. n /\ u[k] = t[k - m]
  BY <1>1, <1>3, <1>4
<1>6. Range(s) = {s[k] : k \in 1 .. m} /\ Range(t) = {t[k] : k \in 1 .. n} /\ Range(u) = {u[k] : k \in 1 .. m + n}
  BY <1>1, <1>5 DEF Range
<1>7. Range(u) = X
  <2>1. \A x \in Range(s) : x \in Range(u)
    <3>1. \A k \in 1 .. m : k \in 1 .. m + n
      OBVIOUS
    <3>2. QED
      BY <1>5, <1>6, <3>1
  <2>2. \A x \in Range(t) : x \in Range(u)
    <3>1. \A k \in 1 .. n : k + m \in 1 .. m + n
      OBVIOUS
    <3>2. QED
      BY <1>5, <1>6, <3>1
  <2>3. \A x \in Range(u) : x \in X
    <3>1. \A k \in 1 .. m + n : k \in 1 .. m \/ k > m
      OBVIOUS
    <3>2. QED
      BY ZenonT(60), <1>2, <1>5, <1>6, <3>1
  <2>4. QED
    BY <1>2, <2>1, <2>2, <2>3
<1>8. \A j, k \in 1 .. m + n : j < k => <<u[j], u[k]>> \in InOrder(u)
  BY <1>5, <1>6 DEF InOrder
<1>9. Lists(s, Range(s), InOrder(u))
  <2>1. \A j, k \in 1 .. m : j < k => <<s[j], s[k]>> \in InOrder(u)
    <3>1. \A k \in 1 .. m : k \in 1 .. m + n
      OBVIOUS
    <3>2. QED
      BY <1>5, <1>8, <3>1
  <2>2. QED
    BY <1>1, <1>6, <2>1 DEF Lists, Sorted
<1>10. Lists(t, Range(t), InOrder(u))
  <2>1. \A j, k \in 1 .. n : j < k => <<t[j], t[k]>> \in InOrder(u)
    <3>1. \A k \in 1 .. n : k + m \in 1 .. m + n
      OBVIOUS
    <3>2. \A j, k \in 1 .. n : j < k => j + m < k + m
      OBVIOUS
    <3>3. QED
      BY <1>5, <1>8, <3>1, <3>2
  <2>2. QED
    BY <1>1, <1>6, <2>1 DEF Lists, Sorted
<1>11. Range(s) \X Range(t) \subseteq InOrder(u)
  <2>1. ASSUME NEW x \in Range(s), NEW y \in Range(t) PROVE <<x, y>> \in InOrder(u)
    <3>1. PICK j \in 1 .. m : x = s[j]
      BY <1>6, <2>1
    <3>2. PICK k \in 1 .. n : y = t[k]
      BY <1>6, <2>1
    <3>3. j \in 1 .. m + n /\ k + m \in 1 .. m + n /\ j < k + m /\ u[j] = x /\ u[k + m] = y
      BY <1>5, <3>1, <3>2
    <3>4. QED
      BY <1>8, <3>3
  <2>2. QED
    BY <2>1
<1>12. ASSUME Distinct(s), Distinct(t), Range(s) \cap Range(t) = {} PROVE Distinct(u)
  <2>1. ASSUME NEW j \in 1 .. m + n, NEW k \in 1 .. m + n, j < k PROVE u[j] # u[k]
    <3>1. CASE k <= m
      <4>1. j \in 1 .. m /\ k \in 1 .. m
        BY <2>1, <3>1
      <4>2. s[j] # s[k]
        BY <1>1, <1>12, <2>1, <4>1 DEF Distinct
      <4>3. QED
        BY <1>5, <4>1, <4>2
    <3>2. CASE j > m
      <4>1. j - m \in 1 .. n /\ k - m \in 1 .. n /\ j - m < k - m /\ k > m
        BY <2>1, <3>2
      <4>2. t[j - m] # t[k - m]
        BY <1>1, <1>12, <4>1 DEF Distinct
      <4>3. u[j] = t[j - m] /\ u[k] = t[k - m]
        BY <1>5, <2>1, <3>2, <4>1
      <4>4. QED
        BY <4>2, <4>3
    <3>3. CASE j <= m /\ k > m
      <4>1. j \in 1 .. m /\ k - m \in 1 .. n /\ u[j] = s[j] /\ u[k] = t[k - m]
        BY <1>5, <2>1, <3>3
      <4>2. u[j] \in Range(s) /\ u[k] \in Range(t)
        BY <1>6, <4>1
      <4>3. QED
        BY <1>12, <4>2
    <3>4. QED
      BY <2>1, <3>1, <3>2, <3>3
  <2>2. QED
    BY <1>5, <2>1 DEF Distinct
<1>13. QED
  BY <1>2, <1>4, <1>5, <1>7, <1>9, <1>10, <1>11, <1>12

(* A word and the two numbers of a version.                                *)
LEMMA Numbered ==
  ASSUME NEW w, NEW a, NEW b
  PROVE  /\ <<w>> \o <<a, b>> = <<w, a, b>>
         /\ DOMAIN <<w, a, b>> = 1 .. 3 /\ Len(<<w, a, b>>) = 3
<1>1. PICK S : S = {w, a, b}
  OBVIOUS
<1>2. PICK s, t : s = <<w>> /\ t = <<a, b>>
  OBVIOUS
<1>3. s \in Seq(S) /\ t \in Seq(S) /\ Len(s) = 1 /\ Len(t) = 2 /\ s[1] = w /\ t[1] = a /\ t[2] = b
  BY <1>1, <1>2
<1>4. PICK u : u = s \o t
  OBVIOUS
<1>5. u \in Seq(S) /\ Len(u) = 3 /\ u[1] = w /\ u[2] = a /\ u[3] = b
  <2>0. /\ u \in Seq(S) /\ Len(u) = Len(s) + Len(t)
        /\ \A k \in 1 .. Len(s) + Len(t) : u[k] = IF k <= Len(s) THEN s[k] ELSE t[k - Len(s)]
    BY <1>3, <1>4, ConcatProperties
  <2>1. u \in Seq(S) /\ Len(u) = 3
    BY <1>3, <2>0
  <2>2. u[1] = s[1]
    BY <1>3, <2>0
  <2>3. u[2] = t[2 - 1]
    BY <1>3, <2>0
  <2>4. u[3] = t[3 - 1]
    BY <1>3, <2>0
  <2>5. QED
    BY <1>3, <2>1, <2>2, <2>3, <2>4
<1>6. PICK v : v = <<w, a, b>>
  OBVIOUS
<1>7. v \in Seq(S) /\ Len(v) = 3 /\ v[1] = w /\ v[2] = a /\ v[3] = b /\ DOMAIN v = 1 .. 3
  BY <1>1, <1>6
<1>8. u = v
  <2>1. u \in [1 .. 3 -> S] /\ v \in [1 .. 3 -> S]
    <3>1. \A z \in Seq(S) : z \in [1 .. Len(z) -> S]
      OBVIOUS
    <3>2. QED
      BY <1>5, <1>7, <3>1
  <2>2. \A k \in 1 .. 3 : u[k] = v[k]
    BY <1>5, <1>7
  <2>3. QED
    BY <2>1, <2>2
<1>9. QED
  BY <1>2, <1>4, <1>6, <1>7, <1>8

(* The pure interpreters of a version.                                     *)
LEMMA RangeFacts ==
  ASSUME NEW py \in Int \X Int
  PROVE  /\ Unrepeated(PyInterpreterRange(py))
         /\ \A x \in Range(PyInterpreterRange(py)) : x[1] = "py"
<1>1. PICK a \in Int, b \in Int : py = <<a, b>>
  BY PairParts
<1>2. PICK n \in Nat : n = Max({b - 1 - 0 + 1, 0})
  <2>1. PICK c \in Int, z \in Int : c = b - 1 /\ z = 0
    BY <1>1
  <2>2. Max({c - z + 1, 0}) = IF c < z THEN 0 ELSE c - z + 1
    BY DownLength
  <2>3. Max({c - z + 1, 0}) \in Nat
    BY <2>2
  <2>4. QED
    BY <2>1, <2>3
<1> DEFINE older == [k \in 1 .. n |-> <<"py", a, b - 1 - k + 1>>]
<1>3. PyInterpreterRange(py) = <<<<"py", a, b>>, <<"py", a>>>> \o older
  BY ZenonT(60), <1>1, <1>2, Numbered DEF PyInterpreterRange, Down
<1>4. PICK x, y : x = <<"py", a, b>> /\ y = <<"py", a>>
  OBVIOUS
<1>5. x[1] = "py" /\ y[1] = "py" /\ x[3] = b /\ Len(x) = 3 /\ Len(y) = 2
  BY <1>4
<1>6. PICK s : s = <<x, y>>
  OBVIOUS
<1>7. s \in Seq(Range(s)) /\ Range(s) = {x, y} /\ Distinct(s)
  <2>1. DOMAIN s = 1 .. 2 /\ s[1] = x /\ s[2] = y
    BY <1>6
  <2>2. Range(s) = {x, y}
    BY <2>1 DEF Range
  <2>3. Distinct(s)
    BY <1>5, <2>1 DEF Distinct
  <2>4. QED
    BY <1>6, <2>2, <2>3
<1>8. \A k \in 1 .. n : older[k][1] = "py" /\ older[k][3] = b - k /\ Len(older[k]) = 3
  OBVIOUS
<1>9. older \in Seq(Range(older)) /\ DOMAIN older = 1 .. n
  <2>1. \A k \in 1 .. n : older[k] \in Range(older)
    BY DEF Range
  <2>2. DOMAIN older = 1 .. n /\ older \in [1 .. n -> Range(older)]
    BY <2>1
  <2> HIDE DEF older
  <2>3. QED
    BY <2>2
<1> HIDE DEF older
<1>10. Range(older) = {older[k] : k \in 1 .. n}
  BY <1>9 DEF Range
<1>11. Distinct(older)
  BY <1>1, <1>8, <1>9 DEF Distinct
<1>12. Range(s) \cap Range(older) = {}
  BY <1>5, <1>7, <1>8, <1>10
<1>13. \A z \in Range(s) \cup Range(older) : z[1] = "py"
  BY <1>5, <1>7, <1>8, <1>10
<1>14. s \o older \in Seq(Range(s \o older)) /\ Distinct(s \o older) /\ Range(s \o older) = Range(s) \cup Range(older)
  BY <1>7, <1>9, <1>11, <1>12, Concatenated
<1>15. PyInterpreterRange(py) = s \o older
  BY <1>3, <1>4, <1>6
<1>16. QED
  BY <1>13, <1>14, <1>15 DEF Unrepeated

(* Each of the interpreters i with an ABI.                                 *)
LEMMA PairedFacts ==
  ASSUME NEW s, Unrepeated(s), NEW f, f = [n \in DOMAIN s |-> f[n]],
         \A j, k \in DOMAIN s : s[j] # s[k] => f[j] # f[k]
  PROVE  Unrepeated(f)
<1>1. PICK n \in Nat : DOMAIN s = 1 .. n
  BY DEF Unrepeated
<1>2. f \in [1 .. n -> Range(f)]
  BY <1>1 DEF Range
<1>3. f \in Seq(Range(f))
  BY <1>2
<1>4. QED
  BY <1>1, <1>3 DEF Unrepeated, Distinct

(* The tiers of an interpreter's own tags (CpTags, ImplTags), those of its *)
(* pure ones, and the interpreters of the tags of any platform.            *)
CpAbis(t)  == <<CpythonExactABI(t)>> \o StableABI(t) \o <<None>>

(* The older minor versions with the stable ABI.                           *)
CpOlder(t) ==
  IF StableABI(t) = <<>> THEN <<>>
  ELSE Down(t.py[2] - 1, 2, LAMBDA m : <<<<"cp", t.py[1], m>>, StableABI(t)[1]>>)

(* The ABIs of another implementation.                                     *)
ImplAbis(t) == ImplABI(t) \o <<None>>

(* The tiers of the interpreter itself.                                    *)
OwnTiers(t) ==
  IF t.impl = "cp" THEN [n \in DOMAIN CpAbis(t) |-> <<<<"cp">> \o t.py, CpAbis(t)[n]>>] \o CpOlder(t)
  ELSE IF t.impl = "pp" THEN [n \in DOMAIN ImplAbis(t) |-> <<<<t.impl>> \o t.py, ImplAbis(t)[n]>>]
  ELSE <<>>

(* Those of the pure interpreters.                                         *)
PureTiers(t) == [n \in DOMAIN PyInterpreterRange(t.py) |-> <<PyInterpreterRange(t.py)[n], None>>]

(* The interpreter of its own that a tag of any platform names.            *)
Named(t) ==
  IF t.impl = "cp" THEN <<<<"cp">> \o t.py>> ELSE IF t.impl = "pp" THEN <<<<t.impl, t.py[1]>>>> ELSE <<>>

(* All of them, in the order of the code.                                  *)
Tiers(t) == OwnTiers(t) \o PureTiers(t)
Bares(t) == Named(t) \o PyInterpreterRange(t.py)

(* Three different things, or two.                                         *)
LEMMA UnrepeatedFew ==
  /\ Unrepeated(<<>>) /\ Range(<<>>) = {}
  /\ \A x : Unrepeated(<<x>>) /\ Range(<<x>>) = {x}
  /\ \A x, y : x # y => Unrepeated(<<x>> \o <<y>>)
  /\ \A x, y, z : x # y /\ y # z /\ x # z => Unrepeated(<<x>> \o <<y>> \o <<z>>)
<1>1. Unrepeated(<<>>) /\ Range(<<>>) = {}
  BY DEF Unrepeated, Range, Distinct
<1>2. ASSUME NEW x PROVE Unrepeated(<<x>>) /\ Range(<<x>>) = {x}
  <2>1. PICK s : s = <<x>>
    OBVIOUS
  <2>2. DOMAIN s = 1 .. 1 /\ s[1] = x /\ s \in Seq({x})
    BY <2>1
  <2>3. Range(s) = {x}
    BY <2>2 DEF Range
  <2>4. QED
    BY <2>1, <2>2, <2>3 DEF Unrepeated, Distinct
<1>3. ASSUME NEW s, NEW y, Unrepeated(s), y \notin Range(s) PROVE Unrepeated(s \o <<y>>) /\ Range(s \o <<y>>) = Range(s) \cup {y}
  <2>1. PICK u : u = <<y>>
    OBVIOUS
  <2>2. Unrepeated(u) /\ Range(u) = {y}
    BY <1>2, <2>1
  <2>3. s \in Seq(Range(s)) /\ u \in Seq(Range(u)) /\ Distinct(s) /\ Distinct(u) /\ Range(s) \cap Range(u) = {}
    BY <1>3, <2>2 DEF Unrepeated
  <2>4. s \o u \in Seq(Range(s \o u)) /\ Range(s \o u) = Range(s) \cup Range(u) /\ Distinct(s \o u)
    BY <2>3, Concatenated
  <2>5. QED
    BY <2>1, <2>2, <2>4 DEF Unrepeated
<1>4. ASSUME NEW x, NEW y, x # y PROVE Unrepeated(<<x>> \o <<y>>) /\ Range(<<x>> \o <<y>>) = {x, y}
  <2>1. Unrepeated(<<x>>) /\ Range(<<x>>) = {x}
    BY <1>2
  <2>2. PICK s : s = <<x>>
    OBVIOUS
  <2>3. Unrepeated(s \o <<y>>) /\ Range(s \o <<y>>) = Range(s) \cup {y}
    BY <1>3, <1>4, <2>1, <2>2
  <2>4. QED
    BY <2>1, <2>2, <2>3
<1>5. ASSUME NEW x, NEW y, NEW z, x # y, y # z, x # z PROVE Unrepeated(<<x>> \o <<y>> \o <<z>>)
  <2>1. PICK s : s = <<x>> \o <<y>>
    OBVIOUS
  <2>2. Unrepeated(s) /\ Range(s) = {x, y}
    BY <1>4, <1>5, <2>1
  <2>3. Unrepeated(s \o <<z>>)
    BY <1>3, <1>5, <2>2
  <2>4. QED
    BY <2>1, <2>3
<1>6. QED
  BY <1>1, <1>2, <1>4, <1>5

(* The exact ABI is longer than the name of any other.                     *)
LEMMA ExactIsLong ==
  ASSUME NEW t, t.py \in Int \X Int
  PROVE  /\ CpythonExactABI(t) # None /\ \A w : CpythonExactABI(t) # <<w>>
<1>1. PICK a \in Int, b \in Int : t.py = <<a, b>>
  BY PairParts
<1>2. PICK S : S = {"cp", "t", "m", "u", a, b}
  OBVIOUS
<1>3. PICK p : p = <<"cp">> \o t.py
  OBVIOUS
<1>4. p = <<"cp", a, b>>
  BY <1>1, <1>3, Numbered
<1>5. p \in Seq(S) /\ Len(p) = 3
  BY <1>2, <1>4
<1>6. PICK u \in Seq(S), v \in Seq(S), w \in Seq(S) :
        /\ u = (IF t.freeThreaded THEN <<"t">> ELSE <<>>)
        /\ v = (IF AtLeast(t.py, <<3, 8>>) THEN <<>> ELSE <<"m">>)
        /\ w = (IF AtLeast(t.py, <<3, 3>>) THEN <<>> ELSE <<"u">>)
  <2>1. <<>> \in Seq(S) /\ <<"t">> \in Seq(S) /\ <<"m">> \in Seq(S) /\ <<"u">> \in Seq(S)
    BY <1>2
  <2>2. (IF t.freeThreaded THEN <<"t">> ELSE <<>>) \in Seq(S)
    BY <2>1
  <2>3. (IF AtLeast(t.py, <<3, 8>>) THEN <<>> ELSE <<"m">>) \in Seq(S)
    BY <2>1
  <2>4. (IF AtLeast(t.py, <<3, 3>>) THEN <<>> ELSE <<"u">>) \in Seq(S)
    BY <2>1
  <2>5. QED
    BY <2>2, <2>3, <2>4, Zenon
<1>7. CpythonExactABI(t) = p \o u \o v \o w
  BY <1>3, <1>6 DEF CpythonExactABI
<1>8. PICK d : d = p \o u
  OBVIOUS
<1>9. d \in Seq(S) /\ Len(d) >= 3
  <2>1. d \in Seq(S) /\ Len(d) = Len(p) + Len(u)
    <3>1. p \in Seq(S) /\ u \in Seq(S)
      BY <1>5, <1>6
    <3>2. QED
      BY <1>8, <3>1, ConcatProperties
  <2>2. Len(u) \in Nat
    BY <1>6
  <2>3. QED
    BY <1>5, <2>1, <2>2
<1>10. PICK e : e = d \o v
  OBVIOUS
<1>11. e \in Seq(S) /\ Len(e) >= 3
  <2>1. e \in Seq(S) /\ Len(e) = Len(d) + Len(v)
    BY <1>6, <1>9, <1>10, ConcatProperties
  <2>2. Len(v) \in Nat /\ Len(d) \in Nat
    BY <1>6, <1>9
  <2>3. QED
    BY <1>9, <2>1, <2>2
<1>12. Len(e \o w) >= 3
  <2>1. Len(e \o w) = Len(e) + Len(w)
    BY <1>6, <1>11, ConcatProperties
  <2>2. Len(w) \in Nat /\ Len(e) \in Nat
    BY <1>6, <1>11
  <2>3. QED
    BY <1>11, <2>1, <2>2
<1>13. \A x : Len(<<x>>) = 1
  OBVIOUS
<1>14. CpythonExactABI(t) = e \o w
  BY <1>7, <1>8, <1>10
<1>15. \A x : CpythonExactABI(t) # <<x>>
  <2>1. SUFFICES ASSUME NEW x, CpythonExactABI(t) = <<x>> PROVE FALSE
    OBVIOUS
  <2>2. Len(CpythonExactABI(t)) = 1
    BY <1>13, <2>1
  <2>3. QED
    BY <1>12, <1>14, <2>2
<1>16. QED
  BY <1>15 DEF None

(* The parts of a tier.                                                    *)
IsPair(x) == x = <<x[1], x[2]>>

(* The parts of a pair.                                                    *)
LEMMA PairIs == \A x, y : <<x, y>>[1] = x /\ <<x, y>>[2] = y /\ IsPair(<<x, y>>)
BY DEF IsPair

(* An interpreter with each of some ABIs.                                  *)
LEMMA WithAbis ==
  ASSUME NEW i, NEW s, Unrepeated(s), NEW f, f = [n \in DOMAIN s |-> <<i, s[n]>>]
  PROVE  Unrepeated(f) /\ \A x \in Range(f) : x[1] = i /\ IsPair(x)
<1>1. \A n \in DOMAIN s : f[n] = <<i, s[n]>>
  OBVIOUS
<1>2. \A j, k \in DOMAIN s : s[j] # s[k] => f[j] # f[k]
  BY <1>1, PairIs
<1>3. f = [n \in DOMAIN s |-> f[n]] /\ DOMAIN f = DOMAIN s
  OBVIOUS
<1>4. Unrepeated(f)
  BY <1>2, <1>3, PairedFacts
<1>5. \A x \in Range(f) : x[1] = i /\ IsPair(x)
  BY <1>1, <1>3, PairIs DEF Range
<1>6. QED
  BY <1>4, <1>5

(* The tiers of older minor versions with the stable ABI.                  *)
LEMMA OlderTiers ==
  ASSUME NEW a \in Int, NEW b \in Int, NEW s,
         NEW f, f = [k \in 1 .. Max({b - 1 - 2 + 1, 0}) |-> <<<<"cp", a, b - 1 - k + 1>>, s>>]
  PROVE  Unrepeated(f) /\ \A x \in Range(f) : x[1][1] = "cp" /\ x[1] # <<"cp", a, b>> /\ IsPair(x)
<1>1. PICK n \in Nat : n = Max({b - 1 - 2 + 1, 0})
  <2>1. PICK c \in Int, z \in Int : c = b - 1 /\ z = 2
    OBVIOUS
  <2>2. Max({c - z + 1, 0}) = IF c < z THEN 0 ELSE c - z + 1
    BY DownLength
  <2>3. Max({c - z + 1, 0}) \in Nat
    BY <2>2
  <2>4. QED
    BY <2>1, <2>3
<1>2. f = [k \in 1 .. n |-> <<<<"cp", a, b - 1 - k + 1>>, s>>]
  BY <1>1
<1>3. DOMAIN f = 1 .. n /\ \A k \in 1 .. n : f[k] = <<<<"cp", a, b - 1 - k + 1>>, s>>
  BY <1>2
<1>4. \A k \in 1 .. n : f[k][1] = <<"cp", a, b - 1 - k + 1>>
  BY <1>3, PairIs
<1>5. \A m : <<"cp", a, m>>[1] = "cp" /\ <<"cp", a, m>>[3] = m
  OBVIOUS
<1>6. \A k \in 1 .. n : f[k][1][1] = "cp" /\ f[k][1][3] = b - k
  <2>1. ASSUME NEW k \in 1 .. n PROVE f[k][1][1] = "cp" /\ f[k][1][3] = b - k
    <3>1. PICK m : m = b - 1 - k + 1
      OBVIOUS
    <3>2. f[k][1] = <<"cp", a, m>>
      BY <1>4, <2>1, <3>1
    <3>3. b - 1 - k + 1 = b - k
      BY <2>1
    <3>4. QED
      BY <1>5, <3>1, <3>2, <3>3
  <2>2. QED
    BY <2>1
<1>7. Distinct(f)
  <2>1. \A j, k \in 1 .. n : j < k => b - j # b - k
    OBVIOUS
  <2>2. QED
    BY <1>3, <1>6, <2>1 DEF Distinct
<1>8. f \in [1 .. n -> Range(f)]
  BY <1>2 DEF Range
<1>9. f \in Seq(Range(f))
  <2>1. Seq(Range(f)) = UNION {[1 .. m -> Range(f)] : m \in Nat}
    BY SeqDef, Zenon
  <2>2. QED
    BY <1>8, <2>1, Zenon
<1>10. \A k \in 1 .. n : f[k][1] # <<"cp", a, b>>
  <2>1. \A k \in 1 .. n : b - k # b
    OBVIOUS
  <2>2. QED
    BY <1>5, <1>6, <2>1
<1>11. \A x \in Range(f) : x[1][1] = "cp" /\ x[1] # <<"cp", a, b>> /\ IsPair(x)
  BY <1>3, <1>6, <1>10, PairIs DEF Range
<1>12. QED
  BY <1>7, <1>9, <1>11 DEF Unrepeated

(* Unrepeated sequences of disjoint ranges make one.                       *)
LEMMA UnrepeatedConcat ==
  ASSUME NEW s, NEW u, Unrepeated(s), Unrepeated(u), Range(s) \cap Range(u) = {}
  PROVE  Unrepeated(s \o u) /\ Range(s \o u) = Range(s) \cup Range(u)
<1>1. s \in Seq(Range(s)) /\ u \in Seq(Range(u)) /\ Distinct(s) /\ Distinct(u)
  BY DEF Unrepeated
<1>2. s \o u \in Seq(Range(s \o u)) /\ Range(s \o u) = Range(s) \cup Range(u) /\ Distinct(s \o u)
  BY <1>1, Concatenated
<1>3. QED
  BY <1>2 DEF Unrepeated

(* The stable ABI, if any, is a word.                                      *)
LEMMA StableIs ==
  ASSUME NEW t
  PROVE  StableABI(t) = <<>> \/ \E w \in {"abi3", "abi3t"} : StableABI(t) = <<<<w>>>>
BY DEF StableABI

(* No tier of an interpreter's own is listed twice, and none is that of a  *)
(* pure one; CPython has one without an ABI.                               *)
LEMMA OwnFacts ==
  ASSUME NEW t, Typed(t), t.impl \in {"cp", "pp", "py"}
  PROVE  /\ Unrepeated(OwnTiers(t)) /\ \A x \in Range(OwnTiers(t)) : x[1][1] # "py" /\ IsPair(x)
         /\ t.impl = "cp" => <<<<"cp">> \o t.py, None>> \in Range(OwnTiers(t))
<1>1. PICK a \in Int, b \in Int : t.py = <<a, b>>
  BY PairParts DEF Typed
<1>2. t.py \in Int \X Int
  BY DEF Typed
<1>3. CASE t.impl = "cp"
  <2>1. PICK e : e = CpythonExactABI(t)
    OBVIOUS
  <2>2. e # None /\ \A w : e # <<w>>
    BY <1>2, <2>1, ExactIsLong
  <2>3. \A w \in {"abi3", "abi3t"} : <<w>> # None
    <3>1. \A w : <<w>>[1] = w
      OBVIOUS
    <3>2. QED
      BY <3>1 DEF None
  <2>4. Unrepeated(CpAbis(t))
    <3>1. CASE StableABI(t) = <<>>
      <4>1. <<e>> \o <<>> = <<e>>
        OBVIOUS
      <4>2. CpAbis(t) = <<e>> \o <<None>>
        BY <2>1, <3>1, <4>1 DEF CpAbis
      <4>3. QED
        BY <2>2, <4>2, UnrepeatedFew
    <3>2. CASE StableABI(t) # <<>>
      <4>1. PICK w \in {"abi3", "abi3t"} : StableABI(t) = <<<<w>>>>
        BY <3>2, StableIs
      <4>2. CpAbis(t) = <<e>> \o <<<<w>>>> \o <<None>>
        BY <2>1, <4>1 DEF CpAbis
      <4>3. QED
        BY <2>2, <2>3, <4>2, UnrepeatedFew
    <3>3. QED
      BY <3>1, <3>2
  <2>4a. None \in Range(CpAbis(t))
    <3>1. PICK y : y = <<e>> \o StableABI(t)
      OBVIOUS
    <3>2. Unrepeated(y)
      <4>1. CASE StableABI(t) = <<>>
        <5>1. <<e>> \o <<>> = <<e>>
          OBVIOUS
        <5>2. QED
          BY <3>1, <4>1, <5>1, UnrepeatedFew
      <4>2. CASE StableABI(t) # <<>>
        <5>1. PICK w : StableABI(t) = <<<<w>>>>
          BY <4>2, StableIs
        <5>2. QED
          BY <2>2, <3>1, <5>1, UnrepeatedFew
      <4>3. QED
        BY <4>1, <4>2
    <3>3. PICK s : s = <<None>>
      OBVIOUS
    <3>4. Unrepeated(s) /\ Range(s) = {None}
      BY <3>3, UnrepeatedFew
    <3>5. Range(y \o s) = Range(y) \cup Range(s)
      BY <3>2, <3>4, Concatenated DEF Unrepeated
    <3>6. CpAbis(t) = y \o s
      BY <2>1, <3>1, <3>3 DEF CpAbis
    <3>7. QED
      BY <3>4, <3>5, <3>6
  <2>5. PICK f : f = [n \in DOMAIN CpAbis(t) |-> <<<<"cp">> \o t.py, CpAbis(t)[n]>>]
    OBVIOUS
  <2>6. PICK i : i = <<"cp", a, b>>
    OBVIOUS
  <2>6a. i = <<"cp">> \o t.py /\ i[1] = "cp"
    BY <1>1, <2>6, Numbered
  <2>7. f = [n \in DOMAIN CpAbis(t) |-> <<i, CpAbis(t)[n]>>]
    BY <2>5, <2>6a
  <2>8. Unrepeated(f) /\ \A x \in Range(f) : x[1] = i /\ IsPair(x)
    BY <2>4, <2>7, WithAbis
  <2>9. Unrepeated(CpOlder(t)) /\ \A x \in Range(CpOlder(t)) : x[1][1] = "cp" /\ x[1] # i /\ IsPair(x)
    <3>1. CASE StableABI(t) = <<>>
      BY <3>1, UnrepeatedFew DEF CpOlder
    <3>2. CASE StableABI(t) # <<>>
      <4>1. t.py[1] = a /\ t.py[2] = b
        BY <1>1
      <4>2. CpOlder(t) = [k \in 1 .. Max({b - 1 - 2 + 1, 0}) |-> <<<<"cp", a, b - 1 - k + 1>>, StableABI(t)[1]>>]
        BY <3>2, <4>1 DEF CpOlder, Down
      <4>3. PICK s, g : s = StableABI(t)[1] /\ g = CpOlder(t)
        OBVIOUS
      <4>4. g = [k \in 1 .. Max({b - 1 - 2 + 1, 0}) |-> <<<<"cp", a, b - 1 - k + 1>>, s>>]
        BY <4>2, <4>3
      <4>5. Unrepeated(g) /\ \A x \in Range(g) : x[1][1] = "cp" /\ x[1] # <<"cp", a, b>> /\ IsPair(x)
        BY <4>4, OlderTiers
      <4>6. QED
        BY <2>6, <4>3, <4>5
    <3>3. QED
      BY <3>1, <3>2
  <2>10. Range(f) \cap Range(CpOlder(t)) = {}
    BY <2>8, <2>9
  <2>11. Unrepeated(f \o CpOlder(t)) /\ Range(f \o CpOlder(t)) = Range(f) \cup Range(CpOlder(t))
    BY <2>8, <2>9, <2>10, UnrepeatedConcat
  <2>12. OwnTiers(t) = f \o CpOlder(t)
    BY <1>3, <2>5 DEF OwnTiers
  <2>13. \A x \in Range(f) \cup Range(CpOlder(t)) : x[1][1] # "py" /\ IsPair(x)
    BY <2>6a, <2>8, <2>9
  <2>14. <<i, None>> \in Range(f)
    BY <2>4a, <2>7 DEF Range
  <2>15. QED
    BY <2>6a, <2>11, <2>12, <2>13, <2>14
<1>4. CASE t.impl = "pp"
  <2>1. PICK v : v = <<"pypy">> \o t.py \o t.implVer
    OBVIOUS
  <2>2. v # None
    <3>1. PICK c \in Int, d \in Int : t.implVer = <<c, d>>
      BY PairParts DEF Typed
    <3>2. PICK S : S = {"pypy", a, b, c, d}
      OBVIOUS
    <3>3. PICK p, q : p = <<"pypy", a, b>> /\ q = <<c, d>> /\ v = p \o q
      BY <1>1, <2>1, <3>1, Numbered
    <3>4. p \in Seq(S) /\ q \in Seq(S) /\ Len(p) = 3 /\ Len(q) = 2
      BY <3>2, <3>3
    <3>5. Len(v) = Len(p) + Len(q)
      BY <3>3, <3>4, ConcatProperties
    <3>6. Len(None) = 1
      BY DEF None
    <3>7. Len(v) = 5
      BY <3>4, <3>5
    <3>8. QED
      BY <3>6, <3>7
  <2>3. Unrepeated(ImplAbis(t))
    <3>1. CASE ImplABI(t) = <<>>
      <4>1. <<>> \o <<None>> = <<None>>
        OBVIOUS
      <4>2. ImplAbis(t) = <<None>>
        BY <3>1, <4>1 DEF ImplAbis
      <4>3. QED
        BY <4>2, UnrepeatedFew
    <3>2. CASE ImplABI(t) # <<>>
      <4>1. ImplAbis(t) = <<v>> \o <<None>>
        BY <2>1, <3>2 DEF ImplAbis, ImplABI
      <4>2. QED
        BY <2>2, <4>1, UnrepeatedFew
    <3>3. QED
      BY <3>1, <3>2
  <2>4. PICK i : i = <<"pp", a, b>>
    OBVIOUS
  <2>4a. i = <<t.impl>> \o t.py /\ i[1] = "pp"
    BY <1>1, <1>4, <2>4, Numbered
  <2>5. PICK f : f = OwnTiers(t)
    OBVIOUS
  <2>6. f = [n \in DOMAIN ImplAbis(t) |-> <<i, ImplAbis(t)[n]>>]
    BY <1>4, <2>4a, <2>5 DEF OwnTiers
  <2>7. Unrepeated(f) /\ \A x \in Range(f) : x[1] = i /\ IsPair(x)
    BY <2>3, <2>6, WithAbis
  <2>8. QED
    BY <1>4, <2>4a, <2>5, <2>7
<1>5. CASE t.impl = "py"
  BY <1>5, UnrepeatedFew DEF OwnTiers
<1>6. QED
  BY <1>3, <1>4, <1>5

(* The tiers are those of the interpreter before the pure ones, and so are *)
(* the interpreters of the tags of any platform; nothing is listed twice.  *)
LEMMA TiersFacts ==
  ASSUME NEW t, Typed(t), t.impl \in {"cp", "pp", "py"}
  PROVE  /\ Unrepeated(OwnTiers(t)) /\ Unrepeated(PureTiers(t))
         /\ Unrepeated(Tiers(t)) /\ Unrepeated(Bares(t))
         /\ \A x \in Range(Tiers(t)) : IsPair(x)
<1>1. t.py \in Int \X Int
  BY DEF Typed
<1>2. PICK s : s = PyInterpreterRange(t.py)
  OBVIOUS
<1>3. Unrepeated(s) /\ \A x \in Range(s) : x[1] = "py"
  BY <1>1, <1>2, RangeFacts
<1>4. PICK f : f = PureTiers(t)
  OBVIOUS
<1>5. f = [n \in DOMAIN s |-> <<s[n], None>>]
  BY <1>2, <1>4 DEF PureTiers
<1>6. DOMAIN f = DOMAIN s /\ \A n \in DOMAIN s : f[n][1] = s[n]
  BY <1>5, PairIs
<1>7. Unrepeated(f)
  <2>1. f = [n \in DOMAIN s |-> f[n]]
    BY <1>5
  <2>2. QED
    BY <1>3, <1>6, <2>1, PairedFacts
<1>8. \A x \in Range(f) : x[1][1] = "py" /\ IsPair(x)
  <2>1. \A n \in DOMAIN s : s[n] \in Range(s)
    BY DEF Range
  <2>2. QED
    BY <1>3, <1>5, <1>6, <2>1, PairIs DEF Range
<1>9. Unrepeated(OwnTiers(t)) /\ Range(OwnTiers(t)) \cap Range(f) = {}
  BY <1>8, OwnFacts
<1>10. Unrepeated(Tiers(t)) /\ \A x \in Range(Tiers(t)) : IsPair(x)
  <2>1. Unrepeated(Tiers(t)) /\ Range(Tiers(t)) = Range(OwnTiers(t)) \cup Range(f)
    BY <1>4, <1>7, <1>9, UnrepeatedConcat DEF Tiers
  <2>2. QED
    BY <1>8, <2>1, OwnFacts
<1>11. Unrepeated(Named(t)) /\ \A x \in Range(Named(t)) : x[1] # "py"
  <2>1. PICK a \in Int, b \in Int : t.py = <<a, b>>
    BY <1>1, PairParts
  <2>2. CASE t.impl = "cp"
    <3>1. PICK i : i = <<"cp", a, b>>
      OBVIOUS
    <3>1a. i[1] = "cp"
      BY <3>1
    <3>2. Named(t) = <<i>>
      BY <2>1, <2>2, <3>1, Numbered DEF Named
    <3>3. QED
      BY <3>1a, <3>2, UnrepeatedFew
  <2>3. CASE t.impl = "pp"
    <3>1. PICK i : i = <<t.impl, t.py[1]>> /\ i[1] = "pp"
      BY <2>3, PairIs
    <3>2. Named(t) = <<i>>
      BY <2>3, <3>1 DEF Named
    <3>3. QED
      BY <3>1, <3>2, UnrepeatedFew
  <2>4. CASE t.impl = "py"
    BY <2>4, UnrepeatedFew DEF Named
  <2>5. QED
    BY <2>2, <2>3, <2>4
<1>12. Unrepeated(Bares(t))
  <2>1. Range(Named(t)) \cap Range(s) = {}
    BY <1>3, <1>11
  <2>2. QED
    BY <1>2, <1>3, <1>11, <2>1, UnrepeatedConcat DEF Bares
<1>13. QED
  BY <1>4, <1>7, <1>9, <1>10, <1>12

(* The tags of any platform.                                               *)
BareTags(t)     == {Tag(b, None, AnyPlatform) : b \in Range(Bares(t))}
BareSequence(t) == [n \in DOMAIN Bares(t) |-> Tag(Bares(t)[n], None, AnyPlatform)]

(* The tags of a target.                                                   *)
TagSet(t) == Over(Range(Tiers(t)), PlatformSet(t)) \cup BareTags(t)

(* The tier of a tag.                                                      *)
TierOf(x) == <<x.interpreter, x.abi>>

(* By tier and then by platform; the tags of any platform come last.       *)
TagAhead(t, x, y) ==
  \/ /\ x.platform \in Platform /\ y.platform \in Platform
     /\ \/ <<TierOf(x), TierOf(y)>> \in InOrder(Tiers(t))
        \/ TierOf(x) = TierOf(y) /\ <<x.platform, y.platform>> \in PlatOrder
  \/ x.platform \in Platform /\ y.platform = AnyPlatform
  \/ /\ x.platform = AnyPlatform /\ y.platform = AnyPlatform
     /\ <<x.interpreter, y.interpreter>> \in InOrder(Bares(t))

(* The order of preference among tags.                                     *)
AllTags(t)  == Over(Range(Tiers(t)), Platform) \cup BareTags(t)
TagOrder(t) == {xy \in AllTags(t) \X AllTags(t) : TagAhead(t, xy[1], xy[2])}

(* The parts of a tag.                                                     *)
LEMMA TagParts ==
  /\ \A i, a, p : Tag(i, a, p).interpreter = i /\ Tag(i, a, p).abi = a /\ Tag(i, a, p).platform = p
  /\ \A i, a, p, j, b, q : Tag(i, a, p) = Tag(j, b, q) => i = j /\ a = b /\ p = q
BY DEF Tag

(* No target generates the platform any.                                   *)
LEMMA AnyIsNoPlatform == AnyPlatform \notin Platform
<1>1. AnyPlatform.family = "any"
  BY DEF AnyPlatform, Plat
<1>2. \A p \in Platform : p.family # "any"
  BY DEF Platform, Families
<1>3. QED
  BY <1>1, <1>2

(* The order of tags has no cycle of two.                                  *)
LEMMA TagOrderAsymmetric ==
  ASSUME NEW t, Unrepeated(Tiers(t)), Unrepeated(Bares(t))
  PROVE  \A x, y : <<x, y>> \in TagOrder(t) => <<y, x>> \notin TagOrder(t)
<1>1. ASSUME NEW x, NEW y, TagAhead(t, x, y), TagAhead(t, y, x) PROVE FALSE
  <2>1. CASE x.platform \in Platform /\ y.platform \in Platform
    <3>1. /\ <<TierOf(x), TierOf(y)>> \in InOrder(Tiers(t)) \/ (TierOf(x) = TierOf(y) /\ <<x.platform, y.platform>> \in PlatOrder)
          /\ <<TierOf(y), TierOf(x)>> \in InOrder(Tiers(t)) \/ (TierOf(x) = TierOf(y) /\ <<y.platform, x.platform>> \in PlatOrder)
      BY <1>1, <2>1, AnyIsNoPlatform, Zenon DEF TagAhead
    <3>2. \A i, j : <<i, j>> \in InOrder(Tiers(t)) => <<j, i>> \notin InOrder(Tiers(t)) /\ i # j
      BY InOrderAsymmetric
    <3>3. QED
      BY <3>1, <3>2, PlatOrderAsymmetric, Zenon
  <2>2. CASE ~(x.platform \in Platform /\ y.platform \in Platform)
    <3>1. /\ <<x.interpreter, y.interpreter>> \in InOrder(Bares(t))
          /\ <<y.interpreter, x.interpreter>> \in InOrder(Bares(t))
      BY <1>1, <2>2, AnyIsNoPlatform, Zenon DEF TagAhead
    <3>2. \A i, j : <<i, j>> \in InOrder(Bares(t)) => <<j, i>> \notin InOrder(Bares(t))
      BY InOrderAsymmetric
    <3>3. QED
      BY <3>1, <3>2, Zenon
  <2>3. QED
    BY <2>1, <2>2
<1>2. \A x, y : <<x, y>> \in TagOrder(t) => TagAhead(t, x, y)
  BY DEF TagOrder
<1>3. QED
  BY <1>1, <1>2

(* Platforms of any of the three systems are platforms.                    *)
LEMMA PlatformSetFacts ==
  ASSUME NEW t, Typed(t), Valid(t)
  PROVE  PlatformSet(t) \subseteq Platform
<1>1. PICK a \in Int, b \in Int : t.ver = <<a, b>> /\ t.ver[1] = a /\ t.ver[2] = b
  BY PairParts DEF Typed
<1>2. \A n, r : n \in {"linux", "win"} /\ r \in LinuxArchs \cup WindowsArchs => Plat(n, <<>>, r) \in Platform
  <2>1. ASSUME NEW n \in {"linux", "win"}, NEW r \in LinuxArchs \cup WindowsArchs PROVE Plat(n, <<>>, r) \in Platform
    <3>1. PICK q : q = Plat(n, <<>>, r)
      OBVIOUS
    <3>2. q.family = n /\ q.arch = r /\ q \in [family : Families, ver : {<<>>} \cup (Int \X Int), arch : LinuxArchs \cup Formats \cup WindowsArchs]
      BY <2>1, <3>1 DEF Plat, Families
    <3>3. PlatVer(q) = <<-1, -1>>
      BY <2>1, <3>2 DEF PlatVer, LegacyAlias
    <3>4. QED
      BY <3>1, <3>2, <3>3 DEF Platform
  <2>2. QED
    BY <2>1
<1>3. CASE t.os = "windows"
  BY <1>2, <1>3, ValidFacts DEF PlatformSet
<1>4. CASE t.os = "linux"
  <2>1. t.arch \in LinuxArchs
    BY <1>4, ValidFacts
  <2>2. LibcPlatforms(t) \subseteq Platform
    BY <2>1, LibcPlatformsFacts
  <2>3. QED
    BY <1>2, <1>4, <2>1, <2>2 DEF PlatformSet
<1>5. CASE t.os = "macos"
  <2>1. t.arch \in MacosArchs /\ (a = 10 => t.arch = "x86_64")
    BY <1>1, <1>5, ValidFacts
  <2>2. ASSUME NEW p \in PlatformSet(t) PROVE p \in Platform
    <3>1. PICK u \in MacVersions(a, b) : p \in MacTags(u, MacFormats(t.arch, u))
      BY <1>1, <1>5, <2>1, <2>2, MacSetIs DEF PlatformSet
    <3>2. u \in Int \X Int
      BY <1>1 DEF MacVersions, MacosCompatTailMinor
    <3>3. QED
      BY <2>1, <3>1, <3>2, MacTagsFacts, MacFormatsFacts
  <2>3. QED
    BY <2>2
<1>6. QED
  BY <1>3, <1>4, <1>5, ValidFacts

(* Tiers in the order of all of them, over the platforms.                  *)
LEMMA TiersInOrder ==
  ASSUME NEW t, Typed(t), t.impl \in {"cp", "pp", "py"}, NEW T, T \subseteq Range(Tiers(t)), NEW P, P \subseteq Platform
  PROVE  OverOrder(T, InOrder(Tiers(t)), P, PlatOrder, TagOrder(t))
<1>0. T \X P \subseteq Range(Tiers(t)) \X Platform
  OBVIOUS
<1>1. ASSUME NEW x \in T, NEW y \in T, NEW p \in P, NEW q \in P, x = <<x[1], x[2]>>, y = <<y[1], y[2]>>
      PROVE  /\ <<x, y>> \in InOrder(Tiers(t)) => <<Tag(x[1], x[2], p), Tag(y[1], y[2], q)>> \in TagOrder(t)
             /\ <<p, q>> \in PlatOrder => <<Tag(x[1], x[2], p), Tag(x[1], x[2], q)>> \in TagOrder(t)
  <2>1. PICK f, g, h : f = Tag(x[1], x[2], p) /\ g = Tag(y[1], y[2], q) /\ h = Tag(x[1], x[2], q)
    OBVIOUS
  <2>2. /\ f.platform = p /\ g.platform = q /\ h.platform = q
        /\ TierOf(f) = x /\ TierOf(g) = y /\ TierOf(h) = x
    BY <1>1, <2>1, TagParts DEF TierOf
  <2>3. f \in AllTags(t) /\ g \in AllTags(t) /\ h \in AllTags(t)
    BY <1>0, <2>1 DEF AllTags, Over
  <2>4. <<x, y>> \in InOrder(Tiers(t)) => TagAhead(t, f, g)
    BY <1>1, <2>2 DEF TagAhead
  <2>5. <<p, q>> \in PlatOrder => TagAhead(t, f, h)
    BY <1>1, <2>2 DEF TagAhead
  <2>6. QED
    BY <2>1, <2>3, <2>4, <2>5 DEF TagOrder
<1>2. \A x \in Range(Tiers(t)) : x = <<x[1], x[2]>>
  BY TiersFacts DEF IsPair
<1>3. QED
  BY <1>1, <1>2 DEF OverOrder

(* The tags of any platform, in order.                                     *)
LEMMA BaresLists ==
  ASSUME NEW t, Unrepeated(Bares(t))
  PROVE  Lists(BareSequence(t), BareTags(t), TagOrder(t))
<1>1. PICK n \in Nat : DOMAIN Bares(t) = 1 .. n
  BY DEF Unrepeated
<1>2. PICK s : s = BareSequence(t)
  OBVIOUS
<1>3. s = [k \in 1 .. n |-> Tag(Bares(t)[k], None, AnyPlatform)]
  BY <1>1, <1>2 DEF BareSequence
<1>4. DOMAIN s = 1 .. n /\ \A k \in 1 .. n : s[k] = Tag(Bares(t)[k], None, AnyPlatform)
  BY <1>3
<1>5. \A k \in 1 .. n : s[k] \in BareTags(t)
  BY <1>1, <1>4 DEF BareTags, Range
<1>6. s \in [1 .. n -> BareTags(t)]
  BY <1>3, <1>4, <1>5
<1>7. s \in Seq(BareTags(t))
  <2>1. Seq(BareTags(t)) = UNION {[1 .. m -> BareTags(t)] : m \in Nat}
    BY SeqDef, Zenon
  <2>2. QED
    BY <1>6, <2>1, Zenon
<1>8. BareTags(t) = {s[k] : k \in DOMAIN s}
  <2>1. \A x \in BareTags(t) : \E k \in 1 .. n : x = s[k]
    BY <1>1, <1>4 DEF BareTags, Range
  <2>2. QED
    BY <1>4, <1>5, <2>1
<1>9. ASSUME NEW j \in 1 .. n, NEW k \in 1 .. n, j < k PROVE <<s[j], s[k]>> \in TagOrder(t)
  <2>1. <<Bares(t)[j], Bares(t)[k]>> \in InOrder(Bares(t))
    BY <1>1, <1>9 DEF InOrder, Range
  <2>2. PICK x, y : x = s[j] /\ y = s[k]
    OBVIOUS
  <2>3. x.interpreter = Bares(t)[j] /\ y.interpreter = Bares(t)[k] /\ x.platform = AnyPlatform /\ y.platform = AnyPlatform
    BY <1>4, <1>9, <2>2, TagParts
  <2>4. TagAhead(t, x, y)
    BY <2>1, <2>3 DEF TagAhead
  <2>5. x \in AllTags(t) /\ y \in AllTags(t)
    BY <1>5, <1>9, <2>2 DEF AllTags
  <2>6. QED
    BY <2>2, <2>4, <2>5 DEF TagOrder
<1>10. QED
  BY <1>2, <1>4, <1>7, <1>8, <1>9 DEF Lists, Sorted

(* A target's tags are listed by GenerateTags.                             *)
LEMMA TagsLists ==
  ASSUME NEW t, Typed(t), Valid(t)
  PROVE  Lists(GenerateTags(t), TagSet(t), TagOrder(t))
<1>1. t.impl \in {"cp", "pp", "py"}
  BY DEF Valid
<1>2. /\ Unrepeated(OwnTiers(t)) /\ Unrepeated(PureTiers(t)) /\ Unrepeated(Tiers(t)) /\ Unrepeated(Bares(t))
      /\ \A x \in Range(Tiers(t)) : IsPair(x)
  BY <1>1, TiersFacts
<1>3. PICK s, u, P, R, Q : /\ s = OwnTiers(t) /\ u = PureTiers(t) /\ P = PlatformSet(t)
                           /\ R = TagOrder(t) /\ Q = InOrder(Tiers(t))
  OBVIOUS
<1>4. /\ Range(Tiers(t)) = Range(s) \cup Range(u) /\ Lists(s, Range(s), Q) /\ Lists(u, Range(u), Q)
      /\ Range(s) \X Range(u) \subseteq Q
  BY <1>2, <1>3, Concatenated DEF Unrepeated, Tiers
<1>5. PICK plats : plats = PlatformTags(t)
  OBVIOUS
<1>6. P \subseteq Platform /\ Lists(plats, P, PlatOrder)
  BY <1>3, <1>5, PlatformSetFacts, PlatformLists
<1>7. OverOrder(Range(s), Q, P, PlatOrder, R) /\ OverOrder(Range(u), Q, P, PlatOrder, R)
      /\ OverOrder(Range(s) \cup Range(u), Q, P, PlatOrder, R)
  BY <1>1, <1>3, <1>4, <1>6, TiersInOrder
<1>8. Lists(OverPlatforms(s, plats), Over(Range(s), P), R) /\ Lists(OverPlatforms(u, plats), Over(Range(u), P), R)
  BY <1>4, <1>6, <1>7, ListsOver
<1>9. Lists(BareSequence(t), BareTags(t), R)
  BY <1>2, <1>3, BaresLists
<1>10. Over(Range(s) \cup Range(u), P) \X BareTags(t) \subseteq R
  <2>1. ASSUME NEW x \in Over(Range(s) \cup Range(u), P), NEW y \in BareTags(t) PROVE <<x, y>> \in R
    <3>1. PICK a \in Range(s) \cup Range(u), p \in P : x = Tag(a[1], a[2], p)
      BY <2>1 DEF Over
    <3>2. PICK b \in Range(Bares(t)) : y = Tag(b, None, AnyPlatform)
      BY <2>1 DEF BareTags
    <3>3. x.platform = p /\ p \in Platform /\ y.platform = AnyPlatform
      BY <1>6, <3>1, <3>2, TagParts
    <3>4. x \in AllTags(t) /\ y \in AllTags(t)
      BY <1>4, <2>1, <3>1, <3>3 DEF AllTags, Over
    <3>5. QED
      BY <1>3, <3>3, <3>4 DEF TagOrder, TagAhead
  <2>2. QED
    BY <2>1
<1>11. Over(Range(s) \cup Range(u), P) = Over(Range(s), P) \cup Over(Range(u), P)
  BY DEF Over
<1>12. Lists(OverPlatforms(u, plats) \o BareSequence(t), Over(Range(u), P) \cup BareTags(t), R)
  <2>1. Over(Range(u), P) \X BareTags(t) \subseteq R
    BY <1>10, <1>11
  <2>2. QED
    BY <1>8, <1>9, <2>1, ListsConcat
<1>13. Over(Range(s), P) \X (Over(Range(u), P) \cup BareTags(t)) \subseteq R
  <2>1. ASSUME NEW x \in Over(Range(s), P), NEW y \in Over(Range(u), P) PROVE <<x, y>> \in R
    <3>1. PICK a \in Range(s), p \in P : x = Tag(a[1], a[2], p)
      BY <2>1 DEF Over
    <3>2. PICK b \in Range(u), q \in P : y = Tag(b[1], b[2], q)
      BY <2>1 DEF Over
    <3>3. <<a, b>> \in Q
      BY <1>4, <3>1, <3>2
    <3>4. QED
      BY <1>7, <3>1, <3>2, <3>3 DEF OverOrder
  <2>2. ASSUME NEW x \in Over(Range(s), P), NEW y \in BareTags(t) PROVE <<x, y>> \in R
    <3>1. x \in Over(Range(s) \cup Range(u), P)
      BY <1>11, <2>2
    <3>2. QED
      BY <1>10, <2>2, <3>1
  <2>3. \A x \in Over(Range(s), P), y \in Over(Range(u), P) \cup BareTags(t) : <<x, y>> \in R
    BY <2>1, <2>2
  <2>4. PICK A, B : A = Over(Range(s), P) /\ B = Over(Range(u), P) \cup BareTags(t)
    OBVIOUS
  <2>5. QED
    BY <2>3, <2>4
<1>14. TagSet(t) = Over(Range(s), P) \cup (Over(Range(u), P) \cup BareTags(t))
  BY <1>3, <1>4, <1>11 DEF TagSet
<1>15. CompatibleTags(t, plats, Named(t)) = OverPlatforms(u, plats) \o BareSequence(t)
  BY <1>3 DEF CompatibleTags, BareSequence, Bares, PureTiers
<1>16. CASE t.impl = "py"
  <2>1. GenerateTags(t) = CompatibleTags(t, plats, Named(t))
    BY <1>5, <1>16 DEF GenerateTags, Named
  <2>2. Range(s) = {}
    BY <1>3, <1>16, UnrepeatedFew DEF OwnTiers
  <2>3. Over(Range(s), P) = {}
    BY <2>2 DEF Over
  <2>4. QED
    BY <1>3, <1>12, <1>14, <1>15, <2>1, <2>3
<1>17. CASE t.impl # "py"
  <2>1. GenerateTags(t) = OverPlatforms(s, plats) \o CompatibleTags(t, plats, Named(t))
    <3>1. CASE t.impl = "cp"
      <4>1. CpTags(t, plats) = OverPlatforms(s, plats) \o CompatibleTags(t, plats, Named(t))
        BY <1>3, <3>1 DEF CpTags, OwnTiers, CpAbis, CpOlder, Named
      <4>2. QED
        BY <1>5, <3>1, <4>1 DEF GenerateTags
    <3>2. CASE t.impl = "pp"
      <4>1. ImplTags(t, plats) = OverPlatforms(s, plats) \o CompatibleTags(t, plats, Named(t))
        BY <1>3, <3>2 DEF ImplTags, OwnTiers, ImplAbis, Named
      <4>2. QED
        BY <1>5, <3>2, <4>1 DEF GenerateTags
    <3>3. QED
      BY <1>1, <1>17, <3>1, <3>2
  <2>2. Lists(OverPlatforms(s, plats) \o (OverPlatforms(u, plats) \o BareSequence(t)),
              Over(Range(s), P) \cup (Over(Range(u), P) \cup BareTags(t)), R)
    BY <1>8, <1>12, <1>13, ListsConcat
  <2>3. QED
    BY <1>3, <1>14, <1>15, <2>1, <2>2
<1>18. QED
  BY <1>16, <1>17

(***************************************************************************)
(* Matchers                                                                *)
(***************************************************************************)
Asymmetric(R) == \A x, y : <<x, y>> \in R => <<y, x>> \notin R

(* A Matcher ranks what was listed in the order it was listed in.          *)
LEMMA MatcherFacts ==
  ASSUME NEW s, NEW X, NEW R, Lists(s, X, R), Asymmetric(R), NEW t, NEW anyLibc, NEW musl,
         NEW m, m = Matcher(s, t, anyLibc, musl)
  PROVE  /\ m.target = t /\ m.anyLibc = anyLibc /\ m.musl = musl
         /\ DOMAIN m.rank = X /\ m.abis = {TierOf(x) : x \in X}
         /\ \A a, b \in X : m.rank[a] < m.rank[b] <=> <<a, b>> \in R
<1>1. PICK n \in Nat : n = Len(s) /\ DOMAIN s = 1 .. n
  BY DEF Lists
<1>2. X = {s[k] : k \in 1 .. n} /\ \A j, k \in 1 .. n : j < k => <<s[j], s[k]>> \in R
  BY <1>1 DEF Lists, Sorted
<1>3. Range(s) = X
  BY <1>1, <1>2 DEF Range
<1> DEFINE First(a, k) == k \in 1 .. n /\ s[k] = a /\ \A l \in 1 .. k - 1 : s[l] # a
           rank == [tag \in X |-> CHOOSE k \in DOMAIN s : /\ s[k] = tag
                                                          /\ \A l \in 1 .. k - 1 : s[l] # tag]
<1>4. /\ m.target = t /\ m.anyLibc = anyLibc /\ m.musl = musl
      /\ m.rank = rank
      /\ m.abis = {TierOf(x) : x \in X}
  BY <1>3 DEF Matcher, TierOf
<1>5. \A j, k \in 1 .. n : s[j] = s[k] => j = k
  <2>1. \A j, k \in 1 .. n : j < k => s[j] # s[k]
    BY <1>2 DEF Asymmetric
  <2>2. \A j, k \in 1 .. n : j < k \/ j = k \/ k < j
    OBVIOUS
  <2>3. QED
    BY <2>1, <2>2
<1>6. ASSUME NEW a \in X PROVE rank[a] \in 1 .. n /\ s[rank[a]] = a
  <2>1. PICK k \in 1 .. n : s[k] = a
    BY <1>2, <1>6
  <2>2. \A l \in 1 .. k - 1 : l \in 1 .. n /\ l # k
    OBVIOUS
  <2>3. \A l \in 1 .. k - 1 : s[l] # a
    BY <1>5, <2>1, <2>2
  <2>4. \E j \in DOMAIN s : s[j] = a /\ \A l \in 1 .. j - 1 : s[l] # a
    BY <1>1, <2>1, <2>3
  <2>5. rank[a] = CHOOSE j \in DOMAIN s : s[j] = a /\ \A l \in 1 .. j - 1 : s[l] # a
    BY <1>6
  <2> HIDE DEF rank
  <2>6. rank[a] \in DOMAIN s /\ s[rank[a]] = a
    BY <2>4, <2>5, Zenon
  <2>7. QED
    BY <1>1, <2>6
<1>7. DOMAIN rank = X
  OBVIOUS
<1> HIDE DEF rank
<1>8. ASSUME NEW a \in X, NEW b \in X PROVE rank[a] < rank[b] <=> <<a, b>> \in R
  <2>1. PICK j \in 1 .. n, k \in 1 .. n : j = rank[a] /\ k = rank[b] /\ s[j] = a /\ s[k] = b
    BY <1>6, <1>8
  <2>2. j < k => <<a, b>> \in R
    BY <1>2, <2>1
  <2>3. k < j => <<b, a>> \in R
    BY <1>2, <2>1
  <2>4. j = k => a = b
    BY <2>1
  <2>5. j < k \/ j = k \/ k < j
    BY <2>1
  <2>6. <<a, b>> \in R => <<b, a>> \notin R
    BY DEF Asymmetric
  <2>7. ~(j < k) => <<a, b>> \notin R
    BY <2>3, <2>4, <2>5, <2>6
  <2>8. QED
    BY <2>1, <2>2, <2>7
<1>9. QED
  BY <1>4, <1>7, <1>8

(* What a target compiles into.                                            *)
LEMMA CompileFacts ==
  ASSUME NEW t, Typed(t), Valid(t), NEW m, m = Compile(t)
  PROVE  /\ m.target = t /\ m.anyLibc = FALSE
         /\ DOMAIN m.rank = TagSet(t) /\ m.abis = {TierOf(x) : x \in TagSet(t)}
         /\ \A a, b \in TagSet(t) : m.rank[a] < m.rank[b] <=> <<a, b>> \in TagOrder(t)
<1>1. Lists(GenerateTags(t), TagSet(t), TagOrder(t))
  BY TagsLists
<1>2. Asymmetric(TagOrder(t))
  <2>1. Unrepeated(Tiers(t)) /\ Unrepeated(Bares(t))
    BY TiersFacts DEF Valid
  <2>2. QED
    BY <2>1, TagOrderAsymmetric DEF Asymmetric
<1>3. PICK s, X, R, anyLibc, musl : s = GenerateTags(t) /\ X = TagSet(t) /\ R = TagOrder(t) /\ anyLibc = FALSE /\ musl = <<0, 0>>
  OBVIOUS
<1>4. m = Matcher(s, t, anyLibc, musl)
  BY <1>3 DEF Compile
<1>5. Lists(s, X, R) /\ Asymmetric(R)
  BY <1>1, <1>2, <1>3
<1>6. /\ m.target = t /\ m.anyLibc = anyLibc
      /\ DOMAIN m.rank = X /\ m.abis = {TierOf(x) : x \in X}
      /\ \A a, b \in X : m.rank[a] < m.rank[b] <=> <<a, b>> \in R
  BY <1>4, <1>5, MatcherFacts
<1>7. QED
  BY <1>3, <1>6

(* The fields of a target of TargetType.                                   *)
LEMMA TypedTargets ==
  ASSUME NEW t \in TargetType
  PROVE  /\ Typed(t) /\ Typed(AsGlibc(t)) /\ Typed(AsMusl(t))
         /\ Alike(AsGlibc(t), t) /\ AsGlibc(t).libc = "glibc" /\ AsGlibc(t).ver = t.ver
         /\ Alike(AsMusl(t), t) /\ AsMusl(t).libc = "musl" /\ AsMusl(t).ver = MuslLatest
BY DEF TargetType, Typed, AsGlibc, AsMusl, Alike, MuslLatest

(* What does not depend on the version of the platform.                    *)
LEMMA AlikeFacts ==
  ASSUME NEW h, NEW t, Alike(h, t)
  PROVE  Tiers(h) = Tiers(t) /\ Bares(h) = Bares(t) /\ BareTags(h) = BareTags(t) /\ TagOrder(h) = TagOrder(t)
<1>1. Bares(h) = Bares(t)
  BY DEF Alike, Bares, Named
<1>2. PureTiers(h) = PureTiers(t)
  BY DEF Alike, PureTiers
<1>3. OwnTiers(h) = OwnTiers(t)
  <2>1. StableABI(h) = StableABI(t) /\ CpythonExactABI(h) = CpythonExactABI(t) /\ ImplABI(h) = ImplABI(t)
    BY DEF Alike, StableABI, CpythonExactABI, ImplABI
  <2>2. CpAbis(h) = CpAbis(t) /\ ImplAbis(h) = ImplAbis(t)
    BY <2>1 DEF CpAbis, ImplAbis
  <2>3. CpOlder(h) = CpOlder(t)
    BY <2>1 DEF Alike, CpOlder, Down
  <2>4. QED
    BY <2>2, <2>3 DEF Alike, OwnTiers
<1>4. Tiers(h) = Tiers(t)
  BY <1>2, <1>3 DEF Tiers
<1>5. BareTags(h) = BareTags(t)
  BY <1>1 DEF BareTags
<1>6. AllTags(h) = AllTags(t)
  BY <1>4, <1>5 DEF AllTags
<1>7. \A x, y : TagAhead(h, x, y) <=> TagAhead(t, x, y)
  BY <1>1, <1>4 DEF TagAhead
<1>8. TagOrder(h) = TagOrder(t)
  BY <1>6, <1>7 DEF TagOrder
<1>9. QED
  BY <1>1, <1>4, <1>5, <1>8

(* A tag of an upgraded host is one of the target, or newer to what the    *)
(* target compiled into.                                                   *)
LEMMA UpgradedTag ==
  ASSUME NEW t, NEW h, Typed(t), Valid(t), Typed(h), Valid(h), Alike(h, t), h.libc = t.libc, AtLeast(h.ver, t.ver),
         PlatformSet(t) # {}, NEW m, m = Compile(t), NEW x \in TagSet(h)
  PROVE  x \in DOMAIN m.rank \/ (TierOf(x) \in m.abis /\ PlatformIsNewer(m, x.platform))
<1>1. /\ m.target = t /\ m.anyLibc = FALSE
      /\ DOMAIN m.rank = TagSet(t) /\ m.abis = {TierOf(y) : y \in TagSet(t)}
  BY CompileFacts
<1>2. Tiers(h) = Tiers(t) /\ BareTags(h) = BareTags(t)
  BY AlikeFacts
<1>3. CASE x \in BareTags(h)
  BY <1>1, <1>2, <1>3 DEF TagSet
<1>4. CASE x \in Over(Range(Tiers(h)), PlatformSet(h))
  <2>1. PICK y \in Range(Tiers(t)), p \in PlatformSet(h) : x = Tag(y[1], y[2], p)
    BY <1>2, <1>4 DEF Over
  <2>2. x.platform = p /\ TierOf(x) = <<y[1], y[2]>>
    BY <2>1, TagParts DEF TierOf
  <2>3. TierOf(x) \in m.abis
    <3>1. PICK q : q \in PlatformSet(t)
      OBVIOUS
    <3>2. PICK z : z = Tag(y[1], y[2], q)
      OBVIOUS
    <3>3. z \in TagSet(t)
      BY <2>1, <3>1, <3>2 DEF TagSet, Over
    <3>4. TierOf(z) = <<y[1], y[2]>>
      BY <3>2, TagParts DEF TierOf
    <3>5. QED
      BY <1>1, <2>2, <3>3, <3>4
  <2>4. p \in PlatformSet(t) => x \in TagSet(t)
    BY <2>1 DEF TagSet, Over
  <2>5. p \in PlatformSet(t) \/ PlatformIsNewer(m, p)
    <3>1. CASE t.os = "windows"
      BY <3>1 DEF Alike, PlatformSet
    <3>2. CASE t.os = "macos"
      BY <1>1, <3>2, MacPlatformNewer
    <3>3. CASE t.os = "linux"
      <4>1. h.os = "linux" /\ h.arch = t.arch /\ t.libc \in {"glibc", "musl"} /\ t.ver[1] > 0 /\ t.ver \in Int \X Int /\ h.ver \in Int \X Int
        BY <3>3 DEF Alike, Valid, Typed
      <4>2. PlatformSet(h) = LibcPlatforms(h) \cup {Plat("linux", <<>>, t.arch)}
            /\ PlatformSet(t) = LibcPlatforms(t) \cup {Plat("linux", <<>>, t.arch)}
        BY <3>3, <4>1 DEF PlatformSet
      <4>3. CASE p = Plat("linux", <<>>, t.arch)
        BY <4>2, <4>3
      <4>4. CASE p \in LibcPlatforms(h)
        <5>1. LibcFamilyMatches(m, h.libc) /\ LibcFloorFor(m, h.libc) = t.ver
          BY <1>1 DEF LibcFamilyMatches, LibcFloorFor
        <5>2. PICK f \in Int \X Int : f = t.ver
          BY <4>1
        <5>3. \/ h.libc = "glibc" /\ p \in GlibcPlatforms(h.arch, f)
              \/ h.libc = "musl" /\ h.ver[1] = f[1] /\ p \in MuslPlatforms(h.arch, f)
              \/ h.libc = "musl" /\ h.ver[1] < f[1]
              \/ PlatformIsNewer(m, p)
          BY <1>1, <3>3, <4>1, <4>4, <5>1, <5>2, LinuxPlatformNewer
        <5>4. ~(h.ver[1] < f[1])
          BY <4>1, <5>2 DEF AtLeast, Above
        <5>5. QED
          BY <4>1, <4>2, <5>2, <5>3, <5>4 DEF LibcPlatforms
      <4>5. QED
        BY <4>2, <4>3, <4>4
    <3>4. QED
      BY <3>1, <3>2, <3>3, ValidFacts
  <2>6. QED
    BY <1>1, <2>2, <2>3, <2>4, <2>5
<1>5. QED
  BY <1>3, <1>4 DEF TagSet

(* What a target compiles into for both families: the tags of the one,     *)
(* then those only the other has.                                          *)
MuslOnlySet(t) == TagSet(AsMusl(t)) \ TagSet(AsGlibc(t))

(* What glibc has comes first; otherwise the order is that of the tags.    *)
UnionAhead(G, R, x, y) ==
  \/ x \in G /\ y \notin G
  \/ (x \in G <=> y \in G) /\ <<x, y>> \in R
UnionOrder(t) ==
  LET G == TagSet(AsGlibc(t))
      X == G \cup TagSet(AsMusl(t))
  IN  {xy \in X \X X : UnionAhead(G, TagOrder(t), xy[1], xy[2])}

(* A list without the elements of another is a list of what is left.       *)
LEMMA ListsMuslOnly ==
  ASSUME NEW s, NEW u, NEW G, NEW M, NEW R, Range(s) = G, Lists(u, M, R)
  PROVE  Lists(MuslOnly(s, u), M \ G, R)
<1>1. PICK n \in Nat : n = Len(u) /\ DOMAIN u = 1 .. n
  BY DEF Lists
<1>2. M = {u[k] : k \in 1 .. n} /\ \A j, k \in 1 .. n : j < k => <<u[j], u[k]>> \in R
  BY <1>1 DEF Lists, Sorted
<1> DEFINE seqs == [k \in 1 .. n |-> IF u[k] \in G THEN <<>> ELSE <<u[k]>>]
           X == [k \in 1 .. n |-> IF u[k] \in G THEN {} ELSE {u[k]}]
<1>3. MuslOnly(s, u) = FlattenSeq(seqs)
  BY <1>1 DEF MuslOnly
<1>4. seqs = [k \in 1 .. n |-> seqs[k]] /\ \A k \in 1 .. n : X[k] = IF u[k] \in G THEN {} ELSE {u[k]}
  OBVIOUS
<1>5. \A k \in 1 .. n : Lists(seqs[k], X[k], R)
  <2>1. ASSUME NEW k \in 1 .. n PROVE Lists(seqs[k], X[k], R)
    <3>1. CASE u[k] \in G
      <4>1. seqs[k] = <<>> /\ X[k] = {}
        BY <2>1, <3>1
      <4> HIDE DEF seqs, X
      <4>2. QED
        BY <4>1, ListsNothing
    <3>2. CASE u[k] \notin G
      <4>1. seqs[k] = <<u[k]>> /\ X[k] = {u[k]}
        BY <2>1, <3>2
      <4> HIDE DEF seqs, X
      <4>2. QED
        BY <4>1, ListsOne
    <3>3. QED
      BY <3>1, <3>2
  <2>2. QED
    BY <2>1
<1> HIDE DEF X, seqs
<1>6. \A j, k \in 1 .. n : j < k => X[j] \X X[k] \subseteq R
  <2>1. ASSUME NEW j \in 1 .. n, NEW k \in 1 .. n, j < k, NEW a \in X[j], NEW b \in X[k] PROVE <<a, b>> \in R
    <3>1. a = u[j] /\ b = u[k]
      BY <1>4, <2>1
    <3>2. QED
      BY <1>2, <2>1, <3>1
  <2>2. QED
    BY <2>1
<1>7. UNION {X[k] : k \in 1 .. n} = M \ G
  <2>1. ASSUME NEW a PROVE a \in M \ G <=> \E k \in 1 .. n : a \in X[k]
    BY <1>2, <1>4
  <2>2. QED
    BY <2>1
<1>8. Lists(FlattenSeq(seqs), UNION {X[k] : k \in 1 .. n}, R)
  BY <1>4, <1>5, <1>6, ListsFlatten
<1>9. QED
  BY <1>3, <1>7, <1>8

(* A list is listed by any relation its elements have.                     *)
LEMMA ListsWithin ==
  ASSUME NEW s, NEW X, NEW R, NEW Q, Lists(s, X, R), \A x, y \in X : <<x, y>> \in R => <<x, y>> \in Q
  PROVE  Lists(s, X, Q)
<1>1. \A j, k \in DOMAIN s : j < k => <<s[j], s[k]>> \in R
  BY DEF Lists, Sorted
<1>2. \A k \in DOMAIN s : s[k] \in X
  BY DEF Lists
<1>3. QED
  BY <1>1, <1>2 DEF Lists, Sorted

(* CompileAnyLibc ranks the union of both families in that order.          *)
LEMMA CompileAnyLibcFacts ==
  ASSUME NEW t \in TargetType, ValidAnyLibc(t), NEW m, m = CompileAnyLibc(t)
  PROVE  /\ m.target = AsGlibc(t) /\ m.anyLibc = TRUE /\ m.musl = MuslLatest
         /\ DOMAIN m.rank = TagSet(AsGlibc(t)) \cup TagSet(AsMusl(t))
         /\ m.abis = {TierOf(x) : x \in TagSet(AsGlibc(t)) \cup TagSet(AsMusl(t))}
         /\ \A a, b \in DOMAIN m.rank : m.rank[a] < m.rank[b] <=> <<a, b>> \in UnionOrder(t)
<1>1. PICK g, u : g = AsGlibc(t) /\ u = AsMusl(t)
  OBVIOUS
<1>2. Typed(g) /\ Valid(g) /\ Alike(g, t) /\ Typed(u) /\ Valid(u) /\ Alike(u, t)
  BY <1>1, TypedTargets DEF ValidAnyLibc
<1>3. PICK G, M, R, Q : G = TagSet(g) /\ M = TagSet(u) /\ R = TagOrder(t) /\ Q = UnionOrder(t)
  OBVIOUS
<1>4. TagOrder(g) = R /\ TagOrder(u) = R
  BY <1>2, <1>3, AlikeFacts
<1>5. Lists(GenerateTags(g), G, R) /\ Lists(GenerateTags(u), M, R)
  BY <1>2, <1>3, <1>4, TagsLists
<1>6. Range(GenerateTags(g)) = G
  BY <1>5 DEF Lists, Range
<1>7. Lists(MuslOnly(GenerateTags(g), GenerateTags(u)), M \ G, R)
  BY <1>5, <1>6, ListsMuslOnly
<1>8. Q = {xy \in (G \cup M) \X (G \cup M) : UnionAhead(G, R, xy[1], xy[2])}
  BY <1>1, <1>3 DEF UnionOrder
<1>9. \A x, y : <<x, y>> \in Q <=> x \in G \cup M /\ y \in G \cup M /\ UnionAhead(G, R, x, y)
  BY <1>8
<1>10. Lists(GenerateTags(g), G, Q)
  <2>1. \A x, y \in G : <<x, y>> \in R => <<x, y>> \in Q
    BY <1>9 DEF UnionAhead
  <2>2. QED
    BY <1>5, <2>1, ListsWithin
<1>11. Lists(MuslOnly(GenerateTags(g), GenerateTags(u)), M \ G, Q)
  <2>1. PICK s, X : s = MuslOnly(GenerateTags(g), GenerateTags(u)) /\ X = M \ G
    OBVIOUS
  <2>2. Lists(s, X, R) /\ \A x, y \in X : <<x, y>> \in R => <<x, y>> \in Q
    <3>1. \A x, y \in M \ G : <<x, y>> \in R => <<x, y>> \in Q
      BY <1>9 DEF UnionAhead
    <3>2. QED
      BY <1>7, <2>1, <3>1
  <2>3. Lists(s, X, Q)
    BY <2>2, ListsWithin
  <2>4. QED
    BY <2>1, <2>3
<1>12. G \X (M \ G) \subseteq Q
  <2>1. \A x \in G, y \in M \ G : <<x, y>> \in Q
    BY <1>9 DEF UnionAhead
  <2>2. QED
    BY <2>1
<1>13. Lists(Union(GenerateTags(g), GenerateTags(u)), G \cup M, Q)
  <2>1. Lists(Union(GenerateTags(g), GenerateTags(u)), G \cup (M \ G), Q)
    BY <1>10, <1>11, <1>12, ListsConcat DEF Union
  <2>2. G \cup (M \ G) = G \cup M
    OBVIOUS
  <2>3. QED
    BY <2>1, <2>2
<1>14. Asymmetric(Q)
  <2>1. Unrepeated(Tiers(t)) /\ Unrepeated(Bares(t))
    <3>1. Unrepeated(Tiers(g)) /\ Unrepeated(Bares(g))
      BY <1>2, TiersFacts DEF Valid
    <3>2. QED
      BY <1>2, <3>1, AlikeFacts
  <2>2. \A x, y : <<x, y>> \in R => <<y, x>> \notin R
    BY <1>3, <2>1, TagOrderAsymmetric
  <2>3. \A x, y : UnionAhead(G, R, x, y) => ~UnionAhead(G, R, y, x)
    BY <2>2, Zenon DEF UnionAhead
  <2>4. QED
    BY <1>9, <2>3, Zenon DEF Asymmetric
<1>15. PICK s, X, anyLibc, musl : s = Union(GenerateTags(g), GenerateTags(u)) /\ X = G \cup M /\ anyLibc = TRUE /\ musl = MuslLatest
  OBVIOUS
<1>16. m = Matcher(s, g, anyLibc, musl)
  BY <1>1, <1>15 DEF CompileAnyLibc
<1>17. Lists(s, X, Q)
  BY <1>13, <1>15
<1>18. /\ m.target = g /\ m.anyLibc = anyLibc /\ m.musl = musl
       /\ DOMAIN m.rank = X /\ m.abis = {TierOf(x) : x \in X}
       /\ \A a, b \in X : m.rank[a] < m.rank[b] <=> <<a, b>> \in Q
  BY <1>14, <1>16, <1>17, MatcherFacts
<1>19. QED
  BY <1>1, <1>3, <1>15, <1>18

(* The same for a client of a mirror of both families.                     *)
LEMMA UpgradedTagAnyLibc ==
  ASSUME NEW t \in TargetType, ValidAnyLibc(t), NEW h, Typed(h), Valid(h), Alike(h, t),
         h.libc = "musl" \/ (h.libc = "glibc" /\ AtLeast(h.ver, t.ver)),
         NEW m, m = CompileAnyLibc(t), NEW x \in TagSet(h)
  PROVE  x \in DOMAIN m.rank \/ (TierOf(x) \in m.abis /\ PlatformIsNewer(m, x.platform))
<1>1. PICK g, u : g = AsGlibc(t) /\ u = AsMusl(t)
  OBVIOUS
<1>2. /\ Typed(g) /\ Valid(g) /\ Alike(g, t) /\ g.libc = "glibc" /\ g.ver = t.ver
      /\ Typed(u) /\ Valid(u) /\ Alike(u, t) /\ u.libc = "musl" /\ u.ver = MuslLatest
  BY <1>1, TypedTargets DEF ValidAnyLibc
<1>3. /\ m.target = g /\ m.anyLibc = TRUE /\ m.musl = MuslLatest
      /\ DOMAIN m.rank = TagSet(g) \cup TagSet(u)
      /\ m.abis = {TierOf(y) : y \in TagSet(g) \cup TagSet(u)}
  BY <1>1, CompileAnyLibcFacts
<1>4. /\ Tiers(h) = Tiers(t) /\ BareTags(h) = BareTags(t)
      /\ Tiers(g) = Tiers(t) /\ BareTags(g) = BareTags(t)
      /\ Tiers(u) = Tiers(t) /\ BareTags(u) = BareTags(t)
  BY <1>2, AlikeFacts
<1>5. CASE x \in BareTags(h)
  BY <1>3, <1>4, <1>5 DEF TagSet
<1>6. CASE x \in Over(Range(Tiers(h)), PlatformSet(h))
  <2>1. PICK y \in Range(Tiers(t)), p \in PlatformSet(h) : x = Tag(y[1], y[2], p)
    BY <1>4, <1>6 DEF Over
  <2>2. x.platform = p /\ TierOf(x) = <<y[1], y[2]>>
    BY <2>1, TagParts DEF TierOf
  <2>3. /\ h.os = "linux" /\ g.os = "linux" /\ u.os = "linux" /\ h.arch = t.arch /\ g.arch = t.arch /\ u.arch = t.arch
        /\ t.ver \in Int \X Int /\ h.ver \in Int \X Int /\ h.ver[1] > 0
    BY <1>2, TypedTargets DEF ValidAnyLibc, Valid, Typed, Alike
  <2>4. PICK bare : bare = Plat("linux", <<>>, t.arch)
    OBVIOUS
  <2>5. /\ PlatformSet(h) = LibcPlatforms(h) \cup {bare}
        /\ PlatformSet(g) = GlibcPlatforms(t.arch, t.ver) \cup {bare}
        /\ PlatformSet(u) = MuslPlatforms(t.arch, MuslLatest) \cup {bare}
    BY <1>2, <2>3, <2>4 DEF PlatformSet, LibcPlatforms
  <2>6. TierOf(x) \in m.abis
    <3>1. PICK z : z = Tag(y[1], y[2], bare)
      OBVIOUS
    <3>2. z \in TagSet(g)
      BY <1>4, <2>1, <2>5, <3>1 DEF TagSet, Over
    <3>3. TierOf(z) = <<y[1], y[2]>>
      BY <3>1, TagParts DEF TierOf
    <3>4. QED
      BY <1>3, <2>2, <3>2, <3>3
  <2>7. p \in PlatformSet(g) => x \in TagSet(g)
    BY <1>4, <2>1 DEF TagSet, Over
  <2>8. p \in PlatformSet(u) => x \in TagSet(u)
    BY <1>4, <2>1 DEF TagSet, Over
  <2>9. p \in PlatformSet(g) \/ p \in PlatformSet(u) \/ PlatformIsNewer(m, p)
    <3>1. CASE p = bare
      BY <2>5, <3>1
    <3>2. CASE p \in LibcPlatforms(h)
      <4>1. LibcFamilyMatches(m, h.libc)
        BY <1>3 DEF LibcFamilyMatches
      <4>2. CASE h.libc = "glibc"
        <5>1. PICK f \in Int \X Int : f = t.ver
          BY <2>3
        <5>2. f = LibcFloorFor(m, h.libc)
          BY <1>2, <1>3, <4>2, <5>1 DEF LibcFloorFor
        <5>3. \/ h.libc = "glibc" /\ p \in GlibcPlatforms(h.arch, f)
              \/ h.libc = "musl" /\ h.ver[1] = f[1] /\ p \in MuslPlatforms(h.arch, f)
              \/ h.libc = "musl" /\ h.ver[1] < f[1]
              \/ PlatformIsNewer(m, p)
          BY <1>2, <1>3, <2>3, <3>2, <4>1, <4>2, <5>1, <5>2, LinuxPlatformNewer
        <5>4. QED
          BY <2>3, <2>5, <4>2, <5>1, <5>3
      <4>3. CASE h.libc = "musl"
        <5>0. <<1, 2>> \in Int \X Int
          OBVIOUS
        <5>1. PICK f \in Int \X Int : f = <<1, 2>>
          BY <5>0, Zenon
        <5>2. f = LibcFloorFor(m, h.libc) /\ f[1] = 1
          BY <1>3, <4>3, <5>1 DEF LibcFloorFor, MuslLatest
        <5>3. \/ h.libc = "glibc" /\ p \in GlibcPlatforms(h.arch, f)
              \/ h.libc = "musl" /\ h.ver[1] = f[1] /\ p \in MuslPlatforms(h.arch, f)
              \/ h.libc = "musl" /\ h.ver[1] < f[1]
              \/ PlatformIsNewer(m, p)
          BY <1>2, <1>3, <2>3, <3>2, <4>1, <4>3, <5>2, LinuxPlatformNewer
        <5>4. ~(h.ver[1] < f[1])
          BY <2>3, <5>2
        <5>5. QED
          BY <2>3, <2>5, <4>3, <5>1, <5>3, <5>4 DEF MuslLatest
      <4>4. QED
        BY <4>2, <4>3
    <3>3. QED
      BY <2>5, <3>1, <3>2
  <2>10. QED
    BY <1>3, <2>2, <2>6, <2>7, <2>8, <2>9
<1>7. QED
  BY <1>5, <1>6 DEF TagSet

(* An upgrade that stays within a libc major keeps every platform, if no   *)
(* macOS 10 is later than the tail of macOS 11 reaches.                    *)
LEMMA PlatformsStay ==
  ASSUME NEW t, NEW h, Typed(t), Valid(t), Typed(h), Valid(h), Alike(h, t), h.libc = t.libc, AtLeast(h.ver, t.ver),
         t.os = "linux" => h.ver[1] = t.ver[1],
         t.os = "macos" /\ t.ver[1] = 10 => t.ver[2] <= MacosCompatTailMinor
  PROVE  TagSet(t) \subseteq TagSet(h)
<1>1. PlatformSet(t) \subseteq PlatformSet(h)
  <2>1. CASE t.os = "windows"
    BY <2>1 DEF Alike, PlatformSet
  <2>2. CASE t.os = "linux"
    <3>1. h.os = "linux" /\ h.arch = t.arch /\ t.ver \in Int \X Int /\ h.ver \in Int \X Int
          /\ t.ver[2] \in Int /\ h.ver[2] \in Int
      BY <2>2, PairParts DEF Alike, Typed
    <3>2. GlibcPlatforms(t.arch, t.ver) \subseteq GlibcPlatforms(h.arch, h.ver)
      <4>1. \A u \in Walked(t.arch, t.ver) : u \in Walked(t.arch, h.ver)
        BY <2>2, <3>1, WalkedStays
      <4>2. QED
        BY <3>1, <4>1 DEF GlibcPlatforms
    <3>3. MuslPlatforms(t.arch, t.ver) \subseteq MuslPlatforms(h.arch, h.ver)
      <4>1. h.ver[2] >= t.ver[2]
        BY <2>2, <3>1 DEF AtLeast, Above
      <4>2. \A m \in 0 .. t.ver[2] : m \in 0 .. h.ver[2]
        BY <3>1, <4>1
      <4>3. QED
        BY <2>2, <3>1, <4>2 DEF MuslPlatforms
    <3>4. QED
      BY <2>2, <3>1, <3>2, <3>3 DEF PlatformSet, LibcPlatforms
  <2>3. CASE t.os = "macos"
    <3>1. /\ t.ver \in Int \X Int /\ h.ver \in Int \X Int /\ h.arch = t.arch /\ h.os = "macos"
          /\ t.ver[1] \in Int /\ t.ver[2] \in Int /\ h.ver[1] \in Int /\ h.ver[2] \in Int
      BY <2>3, PairParts DEF Typed, Alike
    <3>2. t.arch \in MacosArchs /\ t.ver[1] >= 10 /\ (t.ver[1] = 10 => t.arch = "x86_64") /\ (h.ver[1] = 10 => t.arch = "x86_64")
      BY <2>3, <3>1, ValidFacts
    <3>3. ASSUME NEW p \in PlatformSet(t) PROVE p \in PlatformSet(h)
      <4>1. PICK u \in MacVersions(t.ver[1], t.ver[2]) : p \in MacTags(u, MacFormats(t.arch, u))
        BY <2>3, <3>1, <3>2, <3>3, MacSetIs DEF PlatformSet
      <4>2. u \in MacVersions(h.ver[1], h.ver[2])
        BY <2>3, <3>1, <3>2, MacVersionsStay
      <4>3. p \in MacSet(h.arch, h.ver[1], h.ver[2])
        BY <3>1, <3>2, <4>1, <4>2, MacSetIs
      <4>4. QED
        BY <3>1, <4>3 DEF PlatformSet
    <3>4. QED
      BY <3>3
  <2>4. QED
    BY <2>1, <2>2, <2>3, ValidFacts
<1>2. Tiers(h) = Tiers(t) /\ BareTags(h) = BareTags(t)
  BY AlikeFacts
<1>3. Over(Range(Tiers(t)), PlatformSet(t)) \subseteq Over(Range(Tiers(t)), PlatformSet(h))
  BY <1>1 DEF Over
<1>4. QED
  BY <1>2, <1>3 DEF TagSet

(* A libc version a platform of a valid host asks for is one it has.       *)
LEMMA PlatformsAreOld ==
  ASSUME NEW h, Typed(h), Valid(h), NEW x \in TagSet(h), NEW l \in LibcPlatform(x.platform)
  PROVE  l.libc = h.libc /\ AtLeast(h.ver, l.ver)
<1>1. \A w \in {"any", "win", "linux", "macosx"} : \A v, r : LibcPlatform(Plat(w, v, r)) = {}
  <2>1. ASSUME NEW w \in {"any", "win", "linux", "macosx"}, NEW v, NEW r PROVE LibcPlatform(Plat(w, v, r)) = {}
    <3>1. PICK q : q = Plat(w, v, r)
      OBVIOUS
    <3>2. q.family = w
      BY <3>1 DEF Plat
    <3>3. w \notin DOMAIN LegacyAlias(q.arch)
      BY <2>1 DEF LegacyAlias
    <3>4. QED
      BY <2>1, <3>1, <3>2, <3>3 DEF LibcPlatform
  <2>2. QED
    BY <2>1
<1>2. CASE x \in BareTags(h)
  <2>1. x.platform = AnyPlatform
    BY <1>2, TagParts DEF BareTags
  <2>2. PICK w, v, r : w = "any" /\ v = <<>> /\ r = ""
    OBVIOUS
  <2>3. x.platform = Plat(w, v, r)
    BY <2>1, <2>2 DEF AnyPlatform
  <2>4. w \in {"any", "win", "linux", "macosx"}
    BY <2>2
  <2>5. LibcPlatform(Plat(w, v, r)) = {}
    BY <1>1, <2>4
  <2>6. QED
    BY <2>3, <2>5
<1>3. CASE x.platform \in PlatformSet(h)
  <2>1. PICK p : p = x.platform
    OBVIOUS
  <2>2. CASE h.os = "windows"
    BY <1>1, <1>3, <2>2 DEF PlatformSet
  <2>3. CASE h.os = "macos"
    <3>1. PICK u, r : p = Plat("macosx", u, r)
      BY <1>3, <2>1, <2>3 DEF PlatformSet, MacSet, MacTags
    <3>2. QED
      BY <1>1, <2>1, <3>1
  <2>4. CASE h.os = "linux"
    <3>1. h.arch \in LinuxArchs /\ h.libc \in {"glibc", "musl"} /\ h.ver \in Int \X Int
      BY <2>4, ValidFacts DEF Valid, Typed
    <3>2. CASE p = Plat("linux", <<>>, h.arch)
      BY <1>1, <2>1, <3>2
    <3>3. CASE p \in LibcPlatforms(h)
      <4>1. CASE h.libc = "glibc"
        <5>1. PlatVer(p) \in Walked(h.arch, h.ver) /\ l.libc = "glibc" /\ l.ver = PlatVer(p)
          BY <2>1, <3>1, <3>3, <4>1, LibcPlatformsFacts
        <5>2. PICK u \in Int \X Int : u = PlatVer(p)
          BY <5>1 DEF Walked
        <5>3. u[1] < h.ver[1] \/ (u[1] = h.ver[1] /\ u[2] <= h.ver[2])
          BY <5>1, <5>2 DEF Walked
        <5>4. QED
          BY <3>1, <4>1, <5>1, <5>2, <5>3 DEF AtLeast, Above
      <4>2. CASE h.libc = "musl"
        <5>1. p.ver[1] = h.ver[1] /\ p.ver[2] \in 0 .. h.ver[2] /\ p.ver \in Int \X Int /\ l.libc = "musl" /\ l.ver = p.ver
          BY <2>1, <3>1, <3>3, <4>2, LibcPlatformsFacts
        <5>2. QED
          BY <3>1, <4>2, <5>1 DEF AtLeast, Above
      <4>3. QED
        BY <3>1, <4>1, <4>2
    <3>4. QED
      BY <1>3, <2>1, <2>4, <3>2, <3>3 DEF PlatformSet
  <2>5. QED
    BY <2>2, <2>3, <2>4, ValidFacts
<1>4. x \in Over(Range(Tiers(h)), PlatformSet(h)) => x.platform \in PlatformSet(h)
  BY TagParts DEF Over
<1>5. QED
  BY <1>2, <1>3, <1>4 DEF TagSet

(***************************************************************************)
(* The invariant                                                           *)
(***************************************************************************)
(* The host is the declared target, or the target of one of the families,  *)
(* after upgrades.                                                         *)
HostOfOne(h, t) ==
  /\ Valid(t) /\ h \in DOMAIN Compiled
  /\ Alike(h, t) /\ h.libc = t.libc /\ AtLeast(h.ver, t.ver)

(* The host is of either family.                                           *)
HostOfBoth(h, t) ==
  /\ ValidAnyLibc(t) /\ h \in DOMAIN Compiled
  /\ Alike(h, t)
  /\ h.libc = "musl" \/ (h.libc = "glibc" /\ AtLeast(h.ver, t.ver))

(* What was seen is decided: the mirror keeps answering with the Matcher   *)
(* it compiled first.                                                      *)
Decided == Declared => \A c \in seen : IsCompatibleOrNewer(Held, Parsed[c]) => c \in collected

(* The inductive invariant.                                                *)
Kept ==
  /\ target \in Target /\ seen \subseteq Component
  /\ mode = "none" => seen = {} /\ host = target
  /\ mode = "one" => HostOfOne(host, target)
  /\ mode = "anyLibc" => HostOfBoth(host, target)
  /\ Decided

(* Targets are typed, and compiled if valid.                               *)
LEMMA Targets ==
  ASSUME NEW t \in Target
  PROVE  /\ t \in TargetType /\ Typed(t)
         /\ t \in DOMAIN Compiled <=> Valid(t)
         /\ Valid(t) => Compiled[t] = Compile(t)
         /\ ValidAnyLibc(t) => t \in DOMAIN CompiledAnyLibc /\ CompiledAnyLibc[t] = CompileAnyLibc(t)
         /\ ValidAnyLibc(t) => EachLibc[t] = [glibc |-> Compile(AsGlibc(t)), musl |-> Compile(AsMusl(t))]
<1>1. t \in TargetType /\ Typed(t)
  BY TargetAssumption, TypedTargets
<1>2. /\ t \in DOMAIN Compiled <=> Valid(t)
      /\ Valid(t) => Compiled[t] = Compile(t)
      /\ ValidAnyLibc(t) => t \in DOMAIN CompiledAnyLibc /\ CompiledAnyLibc[t] = CompileAnyLibc(t)
  BY DEF Compiled, CompiledAnyLibc
<1>3. ValidAnyLibc(t) => EachLibc[t] = [glibc |-> Compile(AsGlibc(t)), musl |-> Compile(AsMusl(t))]
  BY <1>2 DEF EachLibc
<1>4. QED
  BY <1>1, <1>2, <1>3

(* Only targets are compiled.                                              *)
LEMMA CompiledAreTargets == DOMAIN Compiled \subseteq Target
BY DEF Compiled

(* Upgrades add up.                                                        *)
LEMMA Later ==
  ASSUME NEW u \in Int \X Int, NEW v \in Int \X Int, NEW w \in Int \X Int, Above(w, v), AtLeast(v, u)
  PROVE  AtLeast(w, u)
BY DEF AtLeast, Above

(* It holds of an undeclared target.                                       *)
LEMMA KeptInit == Init => Kept
BY DEF Init, Kept, Decided, Declared

(* An upgrade leaves the host one of the declared target.                  *)
LEMMA UpgradeKept ==
  ASSUME NEW t \in Target, NEW h \in DOMAIN Compiled, NEW u \in DOMAIN Compiled, Upgraded(h, u)
  PROVE  /\ HostOfOne(h, t) => HostOfOne(u, t)
         /\ HostOfBoth(h, t) => HostOfBoth(u, t)
         /\ Alike(u, h) /\ u.libc = h.libc /\ AtLeast(u.ver, h.ver)
<1>1. h \in TargetType /\ u \in TargetType /\ t \in TargetType
  BY CompiledAreTargets, Targets
<1>2. t.ver \in Int \X Int /\ h.ver \in Int \X Int /\ u.ver \in Int \X Int
  BY <1>1 DEF TargetType
<1>3. u = [h EXCEPT !.ver = u.ver] /\ Above(u.ver, h.ver)
  BY DEF Upgraded
<1>4. Alike(u, h) /\ u.libc = h.libc
  BY <1>1, <1>3 DEF TargetType, Alike
<1>5. AtLeast(u.ver, h.ver)
  BY <1>3 DEF AtLeast
<1>6. AtLeast(h.ver, t.ver) => AtLeast(u.ver, t.ver)
  BY <1>2, <1>3, Later
<1>7. Alike(h, t) => Alike(u, t)
  BY <1>4 DEF Alike
<1>8. QED
  BY <1>4, <1>5, <1>6, <1>7 DEF HostOfOne, HostOfBoth

(* Every step keeps it, decisions and upgrades in any order.               *)
LEMMA KeptNext == Kept /\ [Next]_vars => Kept'
<1> SUFFICES ASSUME Kept, [Next]_vars PROVE Kept'
  OBVIOUS
<1>0. target \in Target /\ seen \subseteq Component /\ Decided
  BY DEF Kept
<1>1. ASSUME Declare PROVE Kept'
  <2>1. /\ mode = "none" /\ mode' = "one" /\ target' = target /\ host' = target /\ seen' = {} /\ Valid(target)
    BY <1>1 DEF Declare, Kept
  <2>2. HostOfOne(target, target)
    BY <1>0, <2>1, Targets DEF HostOfOne, Alike, AtLeast
  <2>3. QED
    BY <1>0, <2>1, <2>2 DEF Kept, Decided
<1>2. ASSUME NEW b \in Baselines, DeclareRelease(b) PROVE Kept'
  <2>1. /\ mode' = "one" /\ target' \in DOMAIN Compiled /\ host' = target' /\ seen' = {}
    BY <1>2 DEF DeclareRelease, Kept
  <2>2. \A t \in DOMAIN Compiled : t \in Target /\ HostOfOne(t, t)
    BY CompiledAreTargets, Targets DEF HostOfOne, Alike, AtLeast
  <2>3. QED
    BY <2>1, <2>2 DEF Kept, Decided
<1>3. ASSUME NEW h \in DOMAIN Compiled, DeclareAnyLibc(h) PROVE Kept'
  <2>1. /\ mode' = "anyLibc" /\ target' = target /\ host' = h /\ seen' = {} /\ ValidAnyLibc(target)
        /\ h = AsGlibc(target) \/ (h.libc = "musl" /\ [h EXCEPT !.ver = MuslLatest] = AsMusl(target))
    BY <1>3 DEF DeclareAnyLibc, Kept
  <2>2. HostOfBoth(h, target)
    <3>1. h \in TargetType /\ target \in TargetType
      BY <1>0, CompiledAreTargets, Targets
    <3>2. CASE h = AsGlibc(target)
      <4>1. Alike(h, target) /\ h.libc = "glibc" /\ h.ver = target.ver
        BY <3>1, <3>2, TypedTargets
      <4>2. QED
        BY <2>1, <4>1 DEF HostOfBoth, AtLeast
    <3>3. CASE h.libc = "musl" /\ [h EXCEPT !.ver = MuslLatest] = AsMusl(target)
      <4>1. Alike(AsMusl(target), target)
        BY <3>1, TypedTargets
      <4>2. PICK u : u = [h EXCEPT !.ver = MuslLatest]
        OBVIOUS
      <4>3. Alike(u, h)
        BY <3>1, <4>2 DEF TargetType, Alike
      <4>4. Alike(h, target)
        BY <3>3, <4>1, <4>2, <4>3 DEF Alike
      <4>5. QED
        BY <2>1, <3>3, <4>4 DEF HostOfBoth
    <3>4. QED
      BY <2>1, <3>2, <3>3
  <2>3. QED
    BY <1>0, <2>1, <2>2 DEF Kept, Decided
<1>4. ASSUME Refuse PROVE Kept'
  BY <1>0, <1>4 DEF Refuse, Kept, Decided, Declared
<1>5. ASSUME NEW c \in Component, See(c) PROVE Kept'
  <2>1. /\ Declared /\ mode' = mode /\ target' = target /\ host' = host /\ seen' = seen \cup {c}
        /\ collected' = IF IsCompatibleOrNewer(Held, Parsed[c]) THEN collected \cup {c} ELSE collected
    BY <1>5 DEF See
  <2>2. Declared' <=> Declared
    BY <2>1 DEF Declared
  <2>3. Held' = Held
    BY <2>1 DEF Held
  <2>4. \A d \in seen' : IsCompatibleOrNewer(Held, Parsed[d]) => d \in collected'
    BY <1>0, <2>1 DEF Decided
  <2>5. Decided'
    BY <2>3, <2>4 DEF Decided, Parsed
  <2>6. QED
    BY <1>0, <2>1, <2>5 DEF Kept, Declared
<1>6. ASSUME NEW u \in DOMAIN Compiled, Upgrade(u) PROVE Kept'
  <2>1. /\ Declared /\ mode' = mode /\ target' = target /\ host' = u /\ seen' = seen /\ collected' = collected
        /\ Upgraded(host, u)
    BY <1>6 DEF Upgrade
  <2>2. host \in DOMAIN Compiled
    BY <2>1 DEF Kept, Declared, HostOfOne, HostOfBoth
  <2>3. (HostOfOne(host, target) => HostOfOne(u, target)) /\ (HostOfBoth(host, target) => HostOfBoth(u, target))
    BY <1>0, <2>1, <2>2, UpgradeKept
  <2>4. Decided'
    BY <1>0, <2>1 DEF Decided, Declared, Held, Parsed
  <2>5. QED
    BY <1>0, <2>1, <2>3, <2>4 DEF Kept, Declared
<1>7. ASSUME UNCHANGED <<mode, target, host, seen, collected>> PROVE Kept'
  BY <1>7 DEF Kept, Decided, Declared, Held, Parsed
<1>8. Install => UNCHANGED <<mode, target, host, seen, collected>>
  BY DEF Install
<1>9. UNCHANGED vars => UNCHANGED <<mode, target, host, seen, collected>>
  BY DEF vars
<1>10. QED
  BY <1>1, <1>2, <1>3, <1>4, <1>5, <1>6, <1>7, <1>8, <1>9 DEF Next

(* In every behaviour the host stays comparable with the declared target,  *)
(* and every wheel accepted is collected.                                  *)
THEOREM MirrorKept == Spec => []Kept
BY KeptInit, KeptNext, PTL DEF Spec

(***************************************************************************)
(* What follows                                                            *)
(***************************************************************************)
(* A wheel is what its component parses into.                              *)
LEMMA WheelIs == \A c \in Component : Parsed[c] = ParseTag(c)
BY DEF Parsed

(* A valid host runs a wheel that has one of its tags.                     *)
LEMMA RunsIs ==
  ASSUME NEW h \in DOMAIN Compiled, NEW c
  PROVE  /\ Runs(h, c) <=> Parsed[c] \cap TagSet(h) # {}
         /\ DOMAIN Compiled[h].rank = TagSet(h)
         /\ \A a, b \in TagSet(h) : Compiled[h].rank[a] < Compiled[h].rank[b] <=> <<a, b>> \in TagOrder(h)
<1>1. Typed(h) /\ Valid(h) /\ Compiled[h] = Compile(h)
  BY CompiledAreTargets, Targets
<1>2. PICK m : m = Compile(h)
  OBVIOUS
<1>3. /\ DOMAIN m.rank = TagSet(h)
      /\ \A a, b \in TagSet(h) : m.rank[a] < m.rank[b] <=> <<a, b>> \in TagOrder(h)
  BY <1>1, <1>2, CompileFacts
<1>4. QED
  BY <1>1, <1>2, <1>3 DEF Runs, IsCompatible

(* A target with platforms at all has some for its tags.                   *)
LEMMA PlatformsGiven ==
  ASSUME NEW t, Typed(t), Valid(t), PlatformTags(t) # <<>>
  PROVE  PlatformSet(t) # {}
<1>1. PICK s : s = PlatformTags(t)
  OBVIOUS
<1>2. s \in Seq(PlatformSet(t)) /\ PlatformSet(t) = {s[k] : k \in DOMAIN s} /\ s # <<>>
  BY <1>1, PlatformLists DEF Lists
<1>3. 1 \in DOMAIN s
  BY <1>2
<1>4. QED
  BY <1>2, <1>3

(* Nothing is missed, unless the target has no platform.                   *)
LEMMA KeptMissesNothing ==
  ASSUME Kept, PlatformTags(target) # <<>>
  PROVE  NothingMissed
<1> SUFFICES ASSUME Declared, NEW c \in seen, Runs(host, c) PROVE c \in collected
  BY DEF NothingMissed
<1>1. target \in Target /\ target \in TargetType /\ Typed(target)
  BY Targets DEF Kept
<1>2. HostOfOne(host, target) \/ HostOfBoth(host, target)
  BY DEF Kept, Declared
<1>3. host \in DOMAIN Compiled /\ Typed(host) /\ Valid(host)
  BY <1>2, CompiledAreTargets, Targets DEF HostOfOne, HostOfBoth
<1>4. PICK x : x \in Parsed[c] /\ x \in TagSet(host)
  BY <1>3, RunsIs
<1>5. x \in DOMAIN Held.rank \/ (TierOf(x) \in Held.abis /\ PlatformIsNewer(Held, x.platform))
  <2>1. CASE mode = "one"
    <3>1. HostOfOne(host, target) /\ Held = Compile(target)
      BY <1>1, <2>1, Targets DEF Kept, HostOfOne, Held
    <3>2. PlatformSet(target) # {}
      BY <1>1, <3>1, PlatformsGiven DEF HostOfOne
    <3>3. QED
      BY <1>1, <1>3, <1>4, <3>1, <3>2, UpgradedTag DEF HostOfOne
  <2>2. CASE mode = "anyLibc"
    <3>1. HostOfBoth(host, target) /\ Held = CompileAnyLibc(target)
      BY <1>1, <2>2, Targets DEF Kept, HostOfBoth, Held
    <3>2. QED
      BY <1>1, <1>3, <1>4, <3>1, UpgradedTagAnyLibc DEF HostOfBoth
  <2>3. QED
    BY <2>1, <2>2 DEF Declared
<1>6. IsCompatibleOrNewer(Held, Parsed[c])
  BY <1>4, <1>5 DEF IsCompatibleOrNewer, IsCompatible, TierOf
<1>7. QED
  BY <1>6 DEF Kept, Decided

(* A wheel that was not collected is one the client cannot use, now or     *)
(* after any upgrade, if the declared target has a platform tag at all     *)
(* (IsCompatibleOrNewer).                                                  *)
THEOREM MirrorMissesNothing == Spec => [](PlatformTags(target) # <<>> => NothingMissed)
<1>1. Kept => (PlatformTags(target) # <<>> => NothingMissed)
  BY KeptMissesNothing
<1>2. QED
  BY <1>1, MirrorKept, PTL

(* What a step does to the host once a target is declared.                 *)
LEMMA HostSteps ==
  ASSUME Kept, [Next]_vars, Declared, mode' = mode
  PROVE  /\ host \in DOMAIN Compiled /\ host' \in DOMAIN Compiled
         /\ Alike(host', host) /\ host'.libc = host.libc /\ AtLeast(host'.ver, host.ver)
<1>1. host \in DOMAIN Compiled /\ target \in Target
  BY DEF Kept, Declared, HostOfOne, HostOfBoth
<1>2. CASE host' = host
  BY <1>1, <1>2 DEF Alike, AtLeast
<1>3. ASSUME NEW u \in DOMAIN Compiled, Upgrade(u) PROVE host' = u /\ Upgraded(host, u)
  BY <1>3 DEF Upgrade
<1>4. CASE \E u \in DOMAIN Compiled : Upgrade(u)
  <2>1. PICK u \in DOMAIN Compiled : Upgrade(u)
    BY <1>4
  <2>2. host' = u /\ Upgraded(host, u)
    BY <1>3, <2>1
  <2>3. QED
    BY <1>1, <2>2, UpgradeKept
<1>5. CASE ~\E u \in DOMAIN Compiled : Upgrade(u)
  <2>1. \/ UNCHANGED vars \/ Install \/ \E c \in Component : See(c)
    BY <1>5 DEF Next, Declared, Declare, Refuse, DeclareRelease, DeclareAnyLibc
  <2>2. host' = host
    BY <2>1 DEF vars, Install, See
  <2>3. QED
    BY <1>2, <2>2
<1>6. QED
  BY <1>4, <1>5

(* No macOS 10 is later than the tail of macOS 11 reaches.                 *)
TailReaches ==
  \A t \in Target : t.os = "macos" /\ t.ver[1] = 10 => t.ver[2] <= MacosCompatTailMinor

(* The action of UpgradeKeepsWheels.                                       *)
KeepsWheels ==
  Declared /\ (host'.os = "linux" => host'.ver[1] = host.ver[1]) =>
    \A c \in seen : Runs(host, c) => Runs(host', c)

(* Every step has it: the platforms of the host are still among its        *)
(* platforms.                                                              *)
LEMMA StepKeepsWheels ==
  ASSUME TailReaches, Kept, [Next]_vars
  PROVE  KeepsWheels
<1> SUFFICES ASSUME Declared, host'.os = "linux" => host'.ver[1] = host.ver[1], NEW c \in seen, Runs(host, c)
             PROVE  Runs(host', c)
  BY DEF KeepsWheels
<1>1. mode' = mode
  BY DEF Next, vars, Declared, Declare, Refuse, Install, DeclareRelease, DeclareAnyLibc, Upgrade, See
<1>2. /\ host \in DOMAIN Compiled /\ host' \in DOMAIN Compiled
      /\ Alike(host', host) /\ host'.libc = host.libc /\ AtLeast(host'.ver, host.ver)
  BY <1>1, HostSteps
<1>3. PICK h, u : h = host /\ u = host'
  OBVIOUS
<1>4. /\ h \in DOMAIN Compiled /\ u \in DOMAIN Compiled /\ h \in Target
      /\ Typed(h) /\ Valid(h) /\ Typed(u) /\ Valid(u)
  BY <1>2, <1>3, CompiledAreTargets, Targets
<1>5. TagSet(h) \subseteq TagSet(u)
  <2>1. h.os = "linux" => u.ver[1] = h.ver[1]
    BY <1>2, <1>3 DEF Alike
  <2>2. h.os = "macos" /\ h.ver[1] = 10 => h.ver[2] <= MacosCompatTailMinor
    BY <1>4 DEF TailReaches
  <2>3. QED
    BY <1>2, <1>3, <1>4, <2>1, <2>2, PlatformsStay
<1>6. Parsed[c] \cap TagSet(h) # {}
  BY <1>3, <1>4, RunsIs
<1>7. Runs(u, c)
  BY <1>4, <1>5, <1>6, RunsIs
<1>8. QED
  BY <1>3, <1>7

(* Within a libc major, and from macOS 10 on, an upgraded host still runs  *)
(* every wheel it ran (the floors of the walks and the tail of             *)
(* macosPlatformTags).                                                     *)
THEOREM UpgradesKeepWheels == TailReaches => (Spec => UpgradeKeepsWheels)
<1> SUFFICES ASSUME TailReaches PROVE Spec => UpgradeKeepsWheels
  OBVIOUS
<1>1. Kept /\ [Next]_vars => [KeepsWheels]_vars
  BY StepKeepsWheels
<1>2. UpgradeKeepsWheels <=> [][KeepsWheels]_vars
  BY Zenon DEF UpgradeKeepsWheels, KeepsWheels
<1>3. QED
  BY <1>1, <1>2, MirrorKept, PTL DEF Spec

(* The action of PreferenceStable.                                         *)
StableOrder ==
  Declared /\ mode' = mode =>
    LET old == Compiled[host].rank
        new == Compiled[host'].rank
    IN  \A a, b \in SeenTags \cap DOMAIN old \cap DOMAIN new :
          old[a] < old[b] <=> new[a] < new[b]

(* Every step has it: the order of tags does not depend on the version of  *)
(* the platform.                                                           *)
LEMMA StepKeepsOrder ==
  ASSUME Kept, [Next]_vars
  PROVE  StableOrder
<1> SUFFICES ASSUME Declared, mode' = mode PROVE StableOrder
  BY DEF StableOrder
<1>1. host \in DOMAIN Compiled /\ host' \in DOMAIN Compiled /\ Alike(host', host)
  BY HostSteps
<1>2. PICK h, u : h = host /\ u = host'
  OBVIOUS
<1>3. h \in DOMAIN Compiled /\ u \in DOMAIN Compiled /\ TagOrder(u) = TagOrder(h)
  BY <1>1, <1>2, AlikeFacts
<1>4. DOMAIN Compiled[h].rank = TagSet(h) /\ DOMAIN Compiled[u].rank = TagSet(u)
  BY <1>3, RunsIs
<1>5. ASSUME NEW a \in SeenTags \cap TagSet(h) \cap TagSet(u), NEW b \in SeenTags \cap TagSet(h) \cap TagSet(u)
      PROVE  Compiled[h].rank[a] < Compiled[h].rank[b] <=> Compiled[u].rank[a] < Compiled[u].rank[b]
  <2>1. Compiled[h].rank[a] < Compiled[h].rank[b] <=> <<a, b>> \in TagOrder(h)
    BY <1>3, <1>5, RunsIs
  <2>2. Compiled[u].rank[a] < Compiled[u].rank[b] <=> <<a, b>> \in TagOrder(u)
    BY <1>3, <1>5, RunsIs
  <2>3. QED
    BY <1>3, <2>1, <2>2
<1>6. QED
  BY <1>2, <1>4, <1>5 DEF StableOrder

(* No upgrade turns round the order of two tags (the downward walks of     *)
(* generate.go).                                                           *)
THEOREM PreferencesAreStable == Spec => PreferenceStable
<1>1. Kept /\ [Next]_vars => [StableOrder]_vars
  BY StepKeepsOrder
<1>2. PreferenceStable <=> [][StableOrder]_vars
  BY Zenon DEF PreferenceStable, StableOrder
<1>3. QED
  BY <1>1, <1>2, MirrorKept, PTL DEF Spec

(* No host accepts a wheel that asks for a later libc.                     *)
LEMMA KeptCovers == Kept => BaselinesCoverTargets
<1> SUFFICES ASSUME Kept, Declared, NEW b \in Baselines, Apply(b, host) = host,
                    NEW x \in SeenTags \cap DOMAIN Compiled[host].rank, LibcPlatform(x.platform) # {}
             PROVE  b \in BaselinesFor(x.platform)
  BY DEF BaselinesCoverTargets
<1>1. host \in DOMAIN Compiled
  BY DEF Kept, Declared, HostOfOne, HostOfBoth
<1>2. host \in TargetType /\ Typed(host) /\ Valid(host) /\ x \in TagSet(host)
  BY <1>1, CompiledAreTargets, Targets, RunsIs
<1>3. host.libc = b.libc /\ host.ver = b.ver
  <2>1. Apply(b, host).libc = b.libc /\ Apply(b, host).ver = b.ver
    BY <1>2 DEF Apply, TargetType
  <2>2. QED
    BY <2>1
<1>4. PICK l \in LibcPlatform(x.platform) : TRUE
  OBVIOUS
<1>5. l.libc = host.libc /\ AtLeast(host.ver, l.ver)
  BY <1>2, <1>4, PlatformsAreOld
<1>6. QED
  BY <1>3, <1>4, <1>5 DEF BaselinesFor

(* A release whose hosts accept a wheel is among those reported to be able *)
(* to run it (BaselinesFor).                                               *)
THEOREM BaselinesAreCovered == Spec => []BaselinesCoverTargets
BY KeptCovers, MirrorKept, PTL

(* What names a glibc version is no tag of musl, and the other way round.  *)
LEMMA FamiliesDiffer ==
  ASSUME NEW arch, NEW v, NEW w
  PROVE  /\ \A p \in GlibcPlatforms(arch, v) : p.family # "musllinux"
         /\ \A p \in MuslPlatforms(arch, w) : p.family = "musllinux"
<1>1. ASSUME NEW p \in GlibcPlatforms(arch, v) PROVE p.family # "musllinux"
  <2>1. PICK u \in Walked(arch, v) : p \in VersionTags(arch, u)
    BY DEF GlibcPlatforms
  <2>2. CASE p = Plat("manylinux", u, arch)
    BY <2>2 DEF Plat
  <2>3. CASE p \in AliasesOf(arch, u)
    <3>1. PICK name \in DOMAIN LegacyAlias(arch) : p = Plat(name, <<>>, arch)
      BY <2>3 DEF AliasesOf
    <3>2. name # "musllinux"
      BY DEF LegacyAlias
    <3>3. QED
      BY <3>1, <3>2 DEF Plat
  <2>4. QED
    BY <2>1, <2>2, <2>3 DEF VersionTags
<1>2. ASSUME NEW p \in MuslPlatforms(arch, w) PROVE p.family = "musllinux"
  BY DEF MuslPlatforms, Plat
<1>3. QED
  BY <1>1, <1>2

(* Both families list the tags of the bare platform and of any; only musl  *)
(* lists those of musllinux.                                               *)
LEMMA SharedTags ==
  ASSUME NEW t, t.os = "linux", NEW g, Alike(g, t), g.libc = "glibc", NEW u, Alike(u, t), u.libc = "musl"
  PROVE  /\ \A a \in TagSet(g) \cap TagSet(u) : a.platform \in {Plat("linux", <<>>, t.arch), AnyPlatform}
         /\ \A b \in TagSet(u) \ TagSet(g) : b.platform.family = "musllinux"
<1> DEFINE bare == Plat("linux", <<>>, t.arch)
<1>1. Tiers(g) = Tiers(t) /\ Tiers(u) = Tiers(t) /\ BareTags(g) = BareTags(t) /\ BareTags(u) = BareTags(t)
  BY AlikeFacts
<1>2. /\ PlatformSet(g) = GlibcPlatforms(t.arch, g.ver) \cup {bare}
      /\ PlatformSet(u) = MuslPlatforms(t.arch, u.ver) \cup {bare}
  BY DEF PlatformSet, LibcPlatforms, Alike
<1>3. ASSUME NEW x \in BareTags(t) PROVE x.platform = AnyPlatform
  BY <1>3, TagParts DEF BareTags
<1>4. ASSUME NEW P, NEW x \in Over(Range(Tiers(t)), P) PROVE x.platform \in P
  BY <1>4, TagParts DEF Over
<1>5. ASSUME NEW a \in TagSet(g) \cap TagSet(u), a \notin BareTags(t) PROVE a.platform = bare
  <2>1. a.platform \in PlatformSet(g)
    BY <1>1, <1>4, <1>5 DEF TagSet
  <2>2. a.platform \in PlatformSet(u)
    BY <1>1, <1>4, <1>5 DEF TagSet
  <2>3. QED
    BY <1>2, <2>1, <2>2, FamiliesDiffer
<1>6. ASSUME NEW b \in TagSet(u) \ TagSet(g) PROVE b.platform.family = "musllinux"
  <2>1. b \in Over(Range(Tiers(t)), PlatformSet(u)) /\ b \notin Over(Range(Tiers(t)), PlatformSet(g))
    BY <1>1, <1>6 DEF TagSet
  <2>2. PICK x \in Range(Tiers(t)), p \in PlatformSet(u) : b = Tag(x[1], x[2], p)
    BY <2>1 DEF Over
  <2>3. p \notin PlatformSet(g)
    BY <2>1, <2>2 DEF Over
  <2>4. p \in MuslPlatforms(t.arch, u.ver)
    BY <1>2, <2>2, <2>3
  <2>5. b.platform = p
    BY <2>2, TagParts
  <2>6. QED
    BY <2>4, <2>5, FamiliesDiffer
<1>7. QED
  BY <1>3, <1>5, <1>6

(* The Matcher held is the union of the two.                               *)
LEMMA KeptIsUnion == Kept => AnyLibcIsUnion
<1> SUFFICES ASSUME Kept, mode = "anyLibc" PROVE AnyLibcIsUnion
  BY DEF AnyLibcIsUnion
<1>1. target \in Target /\ target \in TargetType /\ ValidAnyLibc(target) /\ Held = CompiledAnyLibc[target]
  BY Targets DEF Kept, HostOfBoth, Held
<1>2. PICK m, g, u : m = CompileAnyLibc(target) /\ g = Compile(AsGlibc(target)) /\ u = Compile(AsMusl(target))
  OBVIOUS
<1>3. Held = m /\ EachLibc[target].glibc = g /\ EachLibc[target].musl = u
  <2>1. Held = m
    BY <1>1, <1>2, Targets
  <2>2. EachLibc[target] = [glibc |-> g, musl |-> u]
    BY <1>1, <1>2, Targets
  <2>3. QED
    BY <2>1, <2>2
<1>4. PICK G, M, R, Q : G = TagSet(AsGlibc(target)) /\ M = TagSet(AsMusl(target)) /\ R = TagOrder(target) /\ Q = UnionOrder(target)
  OBVIOUS
<1>5. /\ Typed(AsGlibc(target)) /\ Valid(AsGlibc(target)) /\ Alike(AsGlibc(target), target)
      /\ Typed(AsMusl(target)) /\ Valid(AsMusl(target)) /\ Alike(AsMusl(target), target)
  BY <1>1, TypedTargets DEF ValidAnyLibc
<1>6. TagOrder(AsGlibc(target)) = R /\ TagOrder(AsMusl(target)) = R
  BY <1>4, <1>5, AlikeFacts
<1>7. DOMAIN g.rank = G /\ \A a, b \in G : g.rank[a] < g.rank[b] <=> <<a, b>> \in R
  BY ZenonT(60), <1>2, <1>4, <1>5, <1>6, CompileFacts
<1>8. DOMAIN u.rank = M /\ \A a, b \in M : u.rank[a] < u.rank[b] <=> <<a, b>> \in R
  BY ZenonT(60), <1>2, <1>4, <1>5, <1>6, CompileFacts
<1>9. DOMAIN m.rank = G \cup M /\ \A a, b \in G \cup M : m.rank[a] < m.rank[b] <=> <<a, b>> \in Q
  BY <1>1, <1>2, <1>4, CompileAnyLibcFacts
<1>10. \A a, b \in G \cup M : <<a, b>> \in Q <=> UnionAhead(G, R, a, b)
  BY <1>4 DEF UnionOrder
<1>11. ASSUME NEW a \in G \cup M, NEW b \in G \cup M
       PROVE  /\ a \in G /\ b \in G => (m.rank[a] < m.rank[b] <=> g.rank[a] < g.rank[b])
              /\ a \in G /\ b \notin G => m.rank[a] < m.rank[b]
              /\ a \notin G /\ b \notin G => (m.rank[a] < m.rank[b] <=> u.rank[a] < u.rank[b])
  <2>1. m.rank[a] < m.rank[b] <=> UnionAhead(G, R, a, b)
    BY <1>9, <1>10, <1>11
  <2>2. a \in G /\ b \in G => (UnionAhead(G, R, a, b) <=> <<a, b>> \in R)
    BY DEF UnionAhead
  <2>3. a \in G /\ b \notin G => UnionAhead(G, R, a, b)
    BY DEF UnionAhead
  <2>4. a \notin G /\ b \notin G => (UnionAhead(G, R, a, b) <=> <<a, b>> \in R)
    BY DEF UnionAhead
  <2>5. a \notin G => a \in M
    BY <1>11
  <2>6. b \notin G => b \in M
    BY <1>11
  <2>7. QED
    BY <1>7, <1>8, <2>1, <2>2, <2>3, <2>4, <2>5, <2>6
<1>12. \A x, y : <<x, y>> \in R => <<y, x>> \notin R
  <2>1. target.os = "linux" /\ AsGlibc(target).impl \in {"cp", "pp", "py"}
    BY <1>1, <1>5 DEF ValidAnyLibc, Valid
  <2>2. Unrepeated(Tiers(target)) /\ Unrepeated(Bares(target))
    BY <1>5, <2>1, TiersFacts, AlikeFacts
  <2>3. QED
    BY <1>4, <2>2, TagOrderAsymmetric
<1>13. /\ \A a \in G \cap M : a.platform \in {Plat("linux", <<>>, target.arch), AnyPlatform}
       /\ \A b \in M \ G : b.platform.family = "musllinux"
  <2>1. target.os = "linux" /\ AsGlibc(target).libc = "glibc" /\ AsMusl(target).libc = "musl"
    BY <1>1, TypedTargets DEF ValidAnyLibc
  <2>2. QED
    BY <1>4, <1>5, <2>1, SharedTags
<1>14. ASSUME NEW a \in M, NEW b \in M, m.rank[a] < m.rank[b], u.rank[b] < u.rank[a]
       PROVE  /\ a.platform \in {Plat("linux", <<>>, target.arch), AnyPlatform}
              /\ b.platform.family = "musllinux"
  <2>1. <<b, a>> \in R /\ <<a, b>> \notin R
    BY <1>8, <1>12, <1>14
  <2>2. UnionAhead(G, R, a, b)
    BY <1>9, <1>10, <1>14
  <2>3. a \in G /\ b \notin G
    BY <2>1, <2>2 DEF UnionAhead
  <2>4. QED
    BY <1>13, <1>14, <2>3
<1>15. QED
  BY <1>3, <1>7, <1>8, <1>9, <1>11, <1>14 DEF AnyLibcIsUnion

(* A Matcher of both families accepts what one of the two does: glibc's    *)
(* tags in glibc's order, and behind them what only musl lists, in musl's; *)
(* musl's order is turned round for the tags of the bare platform and of   *)
(* any alone, which come ahead of the musllinux ones (CompileAnyLibc).     *)
THEOREM AnyLibcIsTheUnion == Spec => []AnyLibcIsUnion
BY KeptIsUnion, MirrorKept, PTL

(***************************************************************************)
(* What a mirror collects runs on some version of its target               *)
(***************************************************************************)
(* t with another version of the platform, and of another libc.            *)
Version(n, t) ==
  /\ n = [t EXCEPT !.ver = n.ver, !.libc = n.libc]
  /\ n.ver \in Int \X Int /\ n.libc \in {t.libc, "glibc", "musl"}

(* The fields that stay.                                                   *)
LEMMA VersionFacts ==
  ASSUME NEW t \in TargetType, NEW v \in Int \X Int, NEW l \in {t.libc, "glibc", "musl"}
  PROVE  \E n : Version(n, t) /\ Alike(n, t) /\ n.ver = v /\ n.libc = l
<1>0. PICK n : n = [t EXCEPT !.ver = v, !.libc = l]
  OBVIOUS
<1>1. n.ver = v /\ n.libc = l
  BY <1>0 DEF TargetType
<1>2. Alike(n, t)
  BY <1>0 DEF TargetType, Alike
<1>3. Version(n, t)
  BY <1>0, <1>1 DEF Version
<1>4. QED
  BY <1>1, <1>2, <1>3

(* It is valid with a version that a valid target of the same system and   *)
(* architecture has.                                                       *)
LEMMA VersionValid ==
  ASSUME NEW t, Valid(t), NEW n, Alike(n, t),
         t.os = "linux" => n.libc \in {"glibc", "musl"} /\ n.ver[1] > 0 /\ n.ver[2] >= 0,
         t.os = "macos" => n.ver[1] >= 10 /\ n.ver[2] >= 0 /\ (n.ver[1] = 10 => t.arch = "x86_64")
  PROVE  Valid(n)
BY DEF Valid, ValidABI, Alike

(* What names a libc is no platform of macOS or Windows, nor the bare one  *)
(* of Linux.                                                               *)
LEMMA NamesALibc ==
  ASSUME NEW p, LibcPlatform(p) # {}
  PROVE  p.family \notin {"macosx", "win", "linux"}
<1>1. p.family \notin DOMAIN LegacyAlias(p.arch) \/ p.family \in {"manylinux1", "manylinux2010", "manylinux2014"}
  BY DEF LegacyAlias
<1>2. QED
  BY <1>1 DEF LibcPlatform

(* A Linux platform above the declared one, of the version that lists it.  *)
LEMMA NewerLinux ==
  ASSUME NEW t \in TargetType, Valid(t), t.os = "linux", NEW m, m.target = t,
         NEW u \in TargetType, Valid(u), NEW p \in PlatformSet(u), PlatformIsNewer(m, p)
  PROVE  \E n : Version(n, t) /\ Valid(n) /\ p \in PlatformSet(n) /\ (m.anyLibc \/ n.libc = t.libc)
<1>1. PICK l \in LibcPlatform(p) : p.arch = t.arch /\ LibcFamilyMatches(m, l.libc)
  BY DEF PlatformIsNewer
<1>2. p.family \notin {"macosx", "win", "linux"}
  BY <1>1, NamesALibc
<1>3. Typed(t) /\ Typed(u) /\ u.ver \in Int \X Int /\ u.libc \in STRING
  BY TypedTargets DEF TargetType
<1>4. u.os = "linux" /\ u.arch \in LinuxArchs /\ p \in LibcPlatforms(u)
  <2>1. CASE u.os = "windows"
    <3>1. p.family = "win"
      BY <2>1 DEF PlatformSet, Plat
    <3>2. QED
      BY <1>2, <3>1
  <2>2. CASE u.os = "macos"
    <3>1. u.ver[1] \in Int /\ u.ver[2] \in Int /\ u.arch \in MacosArchs /\ (u.ver[1] = 10 => u.arch = "x86_64")
      BY <1>3, <2>2, PairParts, ValidFacts
    <3>2. PICK w \in MacVersions(u.ver[1], u.ver[2]) : p \in MacTags(w, MacFormats(u.arch, w))
      BY <2>2, <3>1, MacSetIs DEF PlatformSet
    <3>3. p.family = "macosx"
      BY <3>2 DEF MacTags, Plat
    <3>4. QED
      BY <1>2, <3>3
  <2>3. CASE u.os = "linux"
    <3>1. p \in LibcPlatforms(u) \/ p = Plat("linux", <<>>, u.arch)
      BY <2>3 DEF PlatformSet
    <3>2. Plat("linux", <<>>, u.arch).family = "linux"
      BY DEF Plat
    <3>3. QED
      BY <1>2, <1>3, <2>3, <3>1, <3>2, ValidFacts
  <2>4. QED
    BY <1>3, <2>1, <2>2, <2>3, ValidFacts
<1>5. /\ p.arch = u.arch /\ l.libc = u.libc
  <2>1. u.libc \in {"glibc", "musl"}
    BY <1>4 DEF Valid
  <2>2. p.arch = u.arch
    BY <1>3, <1>4, LibcPlatformsFacts
  <2>3. CASE u.libc = "glibc"
    <3>1. LibcPlatform(p) = {[libc |-> "glibc", ver |-> PlatVer(p)]}
      BY <1>3, <1>4, <2>3, LibcPlatformsFacts
    <3>2. QED
      BY <1>1, <2>2, <2>3, <3>1
  <2>4. CASE u.libc = "musl"
    <3>1. LibcPlatform(p) = {[libc |-> "musl", ver |-> p.ver]}
      BY <1>3, <1>4, <2>4, LibcPlatformsFacts
    <3>2. QED
      BY <1>1, <2>2, <2>4, <3>1
  <2>5. QED
    BY <2>1, <2>3, <2>4
<1>6. PICK n : Version(n, t) /\ Alike(n, t) /\ n.ver = u.ver /\ n.libc = u.libc
  <2>1. PICK v \in Int \X Int, f \in {t.libc, "glibc", "musl"} : v = u.ver /\ f = u.libc
    BY <1>3, <1>4 DEF Valid
  <2>2. \E n : Version(n, t) /\ Alike(n, t) /\ n.ver = v /\ n.libc = f
    BY VersionFacts
  <2>3. QED
    BY <2>1, <2>2
<1>7. Valid(n)
  <2>1. u.libc \in {"glibc", "musl"} /\ u.ver[1] > 0 /\ u.ver[2] >= 0
    BY <1>4 DEF Valid
  <2>2. QED
    BY <1>6, <2>1, VersionValid
<1>8. p \in PlatformSet(n)
  <2>1. LibcPlatforms(n) = LibcPlatforms(u)
    BY <1>1, <1>5, <1>6 DEF LibcPlatforms, Alike
  <2>2. n.os = "linux"
    BY <1>6 DEF Alike
  <2>3. QED
    BY <1>4, <2>1, <2>2 DEF PlatformSet
<1>9. QED
  BY <1>1, <1>5, <1>6, <1>7, <1>8 DEF LibcFamilyMatches

(* A macOS platform above the declared one.                                *)
LEMMA NewerMacos ==
  ASSUME NEW t \in TargetType, Valid(t), t.os = "macos", NEW m, m.target = t,
         NEW u \in TargetType, Valid(u), NEW p \in PlatformSet(u), PlatformIsNewer(m, p)
  PROVE  \E n : Version(n, t) /\ Valid(n) /\ p \in PlatformSet(n) /\ n.libc = t.libc
<1>1. p.family = "macosx" /\ p.arch \in Range(MacosBinaryFormats(t.arch)) /\ Above(p.ver, t.ver)
  BY DEF PlatformIsNewer
<1>2. Typed(t) /\ Typed(u) /\ t.ver \in Int \X Int /\ u.ver \in Int \X Int /\ t.libc \in STRING
  BY TypedTargets DEF TargetType
<1>3. /\ t.ver[1] \in Int /\ t.ver[2] \in Int /\ u.ver[1] \in Int /\ u.ver[2] \in Int
      /\ t.arch \in MacosArchs /\ t.ver[1] >= 10 /\ (t.ver[1] = 10 => t.arch = "x86_64")
  BY <1>2, PairParts, ValidFacts
<1>4. u.os = "macos"
  <2>1. CASE u.os = "windows"
    <3>1. p.family = "win"
      BY <2>1 DEF PlatformSet, Plat
    <3>2. QED
      BY <1>1, <3>1
  <2>2. CASE u.os = "linux"
    <3>1. p \in LibcPlatforms(u) \/ p = Plat("linux", <<>>, u.arch)
      BY <2>2 DEF PlatformSet
    <3>2. Plat("linux", <<>>, u.arch).family = "linux"
      BY DEF Plat
    <3>3. u.arch \in LinuxArchs
      BY <1>2, <2>2, ValidFacts
    <3>4. p \in LibcPlatforms(u) => LibcPlatform(p) # {}
      BY <1>2, <3>3, LibcPlatformsFacts
    <3>5. QED
      BY <1>1, <3>1, <3>2, <3>4, NamesALibc
  <2>3. QED
    BY <1>2, <2>1, <2>2, ValidFacts
<1>5. u.arch \in MacosArchs /\ u.ver[1] >= 10 /\ u.ver[2] >= 0 /\ (u.ver[1] = 10 => u.arch = "x86_64")
  BY <1>2, <1>4, ValidFacts DEF Valid
<1>6. PICK w \in MacVersions(u.ver[1], u.ver[2]) : p \in MacTags(w, MacFormats(u.arch, w))
  BY <1>3, <1>4, <1>5, MacSetIs DEF PlatformSet
<1>7. w \in Int \X Int /\ (u.ver[1] = 10 => w[1] = 10)
  BY <1>3 DEF MacVersions, MacosCompatTailMinor
<1>8. p.ver = w /\ p = Plat("macosx", w, p.arch)
  BY <1>6 DEF MacTags, Plat
<1>9. w[1] = 10 => t.arch = "x86_64"
  BY <1>1, <1>3, <1>7, <1>8 DEF Above
<1>10. MacFormats(t.arch, w) = MacosBinaryFormats(t.arch)
  BY <1>9 DEF MacFormats, MacosTailFormats
<1>11. p \in MacTags(w, MacFormats(t.arch, w))
  BY <1>1, <1>8, <1>10 DEF MacTags, Range
<1>12. PICK n : Version(n, t) /\ Alike(n, t) /\ n.ver = u.ver /\ n.libc = t.libc
  <2>1. PICK v \in Int \X Int, f \in {t.libc, "glibc", "musl"} : v = u.ver /\ f = t.libc
    BY <1>2
  <2>2. \E n : Version(n, t) /\ Alike(n, t) /\ n.ver = v /\ n.libc = f
    BY VersionFacts
  <2>3. QED
    BY <2>1, <2>2
<1>13. Valid(n)
  BY <1>5, <1>7, <1>9, <1>12, VersionValid
<1>14. p \in PlatformSet(n)
  <2>1. p \in MacSet(t.arch, u.ver[1], u.ver[2])
    BY <1>3, <1>6, <1>7, <1>9, <1>11, MacSetIs
  <2>2. n.os = "macos" /\ n.arch = t.arch
    BY <1>12 DEF Alike
  <2>3. QED
    BY <1>12, <2>1, <2>2 DEF PlatformSet
<1>15. QED
  BY <1>12, <1>13, <1>14

(* The interpreters of the tags of any platform are those of tiers without *)
(* an ABI, but for the major version of PyPy.                              *)
LEMMA BareTiers ==
  ASSUME NEW t, Typed(t), t.impl \in {"cp", "pp", "py"}, NEW b \in Range(Bares(t))
  PROVE  <<b, None>> \in Range(Tiers(t)) \/ b = <<"pp", b[2]>>
<1>1. /\ Range(Bares(t)) = Range(Named(t)) \cup Range(PyInterpreterRange(t.py))
      /\ Range(Tiers(t)) = Range(OwnTiers(t)) \cup Range(PureTiers(t))
  <2>1. PICK s, n, o, f : s = PyInterpreterRange(t.py) /\ n = Named(t) /\ o = OwnTiers(t) /\ f = PureTiers(t)
    OBVIOUS
  <2>2. Unrepeated(s) /\ Unrepeated(o) /\ Unrepeated(f)
    BY <2>1, RangeFacts, TiersFacts DEF Typed
  <2>3. n = <<>> \/ \E i : n = <<i>>
    BY <2>1 DEF Named
  <2>4. Unrepeated(n)
    BY <2>3, UnrepeatedFew
  <2>5. Range(n \o s) = Range(n) \cup Range(s) /\ Range(o \o f) = Range(o) \cup Range(f)
    BY <2>2, <2>4, Concatenated DEF Unrepeated
  <2>6. QED
    BY <2>1, <2>5 DEF Bares, Tiers
<1>2. CASE b \in Range(PyInterpreterRange(t.py))
  <2>1. PICK s : s = PyInterpreterRange(t.py)
    OBVIOUS
  <2>2. PICK k \in DOMAIN s : b = s[k]
    BY <1>2, <2>1 DEF Range
  <2>3. PureTiers(t) = [n \in DOMAIN s |-> <<s[n], None>>]
    BY <2>1 DEF PureTiers
  <2>4. <<b, None>> \in Range(PureTiers(t))
    BY <2>2, <2>3 DEF Range
  <2>5. QED
    BY <1>1, <2>4
<1>3. CASE b \in Range(Named(t))
  <2>1. CASE t.impl = "cp"
    <3>1. PICK i : i = <<"cp">> \o t.py
      OBVIOUS
    <3>2. b = i
      BY <1>3, <2>1, <3>1 DEF Named, Range
    <3>3. <<i, None>> \in Range(OwnTiers(t))
      BY <2>1, <3>1, OwnFacts
    <3>4. QED
      BY <1>1, <3>2, <3>3
  <2>2. CASE t.impl = "pp"
    <3>1. PICK i : i = <<"pp", t.py[1]>>
      OBVIOUS
    <3>2. b = i /\ i[2] = t.py[1]
      BY <1>3, <2>2, <3>1, PairIs DEF Named, Range
    <3>3. QED
      BY <3>1, <3>2
  <2>3. CASE t.impl = "py"
    BY <1>3, <2>3 DEF Named, Range
  <2>4. QED
    BY <2>1, <2>2, <2>3
<1>4. QED
  BY <1>1, <1>2, <1>3

(* A tag with the interpreter and ABI of one of k, a version of h, and a   *)
(* platform newer to a Matcher of h, is one of a version of h, if some     *)
(* host accepts its platform at all.                                       *)
LEMMA NewerTag ==
  ASSUME NEW h \in TargetType, Valid(h), NEW m, m.target = h, NEW x,
         NEW k, Alike(k, h), TierOf(x) \in {TierOf(y) : y \in TagSet(k)},
         x = Tag(x.interpreter, x.abi, x.platform), PlatformIsNewer(m, x.platform),
         NEW u \in TargetType, Valid(u), x.platform \in Range(PlatformTags(u)),
         x.abi = None => x.interpreter # <<"pp", x.interpreter[2]>>
  PROVE  \E n : Version(n, h) /\ Valid(n) /\ x \in TagSet(n) /\ (m.anyLibc \/ n.libc = h.libc)
<1>1. Typed(h) /\ Typed(u)
  BY TypedTargets
<1>2. x.platform \in PlatformSet(u)
  <2>1. PICK s, P, R : s = PlatformTags(u) /\ P = PlatformSet(u) /\ R = PlatOrder
    OBVIOUS
  <2>2. Lists(s, P, R)
    BY <1>1, <2>1, PlatformLists
  <2>3. QED
    BY <2>1, <2>2 DEF Lists, Range
<1>3. PICK n : Version(n, h) /\ Valid(n) /\ x.platform \in PlatformSet(n) /\ (m.anyLibc \/ n.libc = h.libc)
  <2>1. h.os \in {"linux", "macos"}
    BY DEF PlatformIsNewer
  <2>2. CASE h.os = "linux"
    BY <1>2, <2>2, NewerLinux
  <2>3. CASE h.os = "macos"
    BY <1>2, <2>3, NewerMacos
  <2>4. QED
    BY <2>1, <2>2, <2>3
<1>4. Alike(n, h)
  BY <1>3 DEF Version, TargetType, Alike
<1>5. \E y \in Range(Tiers(h)) : y[1] = x.interpreter /\ y[2] = x.abi
  <2>1. PICK z \in TagSet(k) : TierOf(x) = TierOf(z)
    OBVIOUS
  <2>2. x.interpreter = z.interpreter /\ x.abi = z.abi
    BY <2>1, PairIs DEF TierOf
  <2>3. CASE z \in Over(Range(Tiers(h)), PlatformSet(k))
    <3>1. PICK y \in Range(Tiers(h)), p \in PlatformSet(k) : z = Tag(y[1], y[2], p)
      BY <2>3 DEF Over
    <3>2. QED
      BY <2>2, <3>1, TagParts
  <2>4. CASE z \in BareTags(h)
    <3>1. PICK b \in Range(Bares(h)) : z = Tag(b, None, AnyPlatform)
      BY <2>4 DEF BareTags
    <3>2. x.interpreter = b /\ x.abi = None
      BY <2>2, <3>1, TagParts
    <3>3. <<b, None>> \in Range(Tiers(h)) \/ b = <<"pp", b[2]>>
      BY <1>1, BareTiers DEF Valid
    <3>4. <<b, None>> \in Range(Tiers(h))
      BY <3>2, <3>3
    <3>5. QED
      BY <3>2, <3>4, PairIs
  <2>5. Tiers(k) = Tiers(h) /\ BareTags(k) = BareTags(h)
    BY AlikeFacts
  <2>6. QED
    BY <2>3, <2>4, <2>5 DEF TagSet
<1>6. x \in TagSet(n)
  <2>1. Tiers(n) = Tiers(h)
    BY <1>4, AlikeFacts
  <2>2. PICK y \in Range(Tiers(n)) : y[1] = x.interpreter /\ y[2] = x.abi
    BY <1>5, <2>1
  <2>3. x = Tag(y[1], y[2], x.platform)
    BY <2>2
  <2>4. QED
    BY <1>3, <2>2, <2>3 DEF TagSet, Over
<1>7. QED
  BY <1>3, <1>6

(* Whatever version a target could have, a host could have.                *)
EveryVersion == \A t \in Target : \A n : Version(n, t) => n \in Target

(* Wheels are published for platforms that some host accepts, and those of *)
(* a platform name the implementation with its minor version (the          *)
(* interpreter pp3 stands in pp3-none-any alone).                          *)
Published ==
  \A c \in Component : \A x \in ParseTag(c) :
    x.platform # AnyPlatform =>
      /\ \E u \in TargetType : Valid(u) /\ x.platform \in Range(PlatformTags(u))
      /\ x.abi = None => x.interpreter # <<"pp", x.interpreter[2]>>

(* What is collected was accepted.                                         *)
Accepted ==
  /\ collected \subseteq Component
  /\ mode = "none" => collected = {}
  /\ \A c \in collected : Declared /\ IsCompatibleOrNewer(Held, Parsed[c])

(* Nothing is collected before the target is declared, and the Matcher     *)
(* stays.                                                                  *)
LEMMA AcceptedNext == Kept /\ Accepted /\ [Next]_vars => Accepted'
<1> SUFFICES ASSUME Kept, Accepted, [Next]_vars PROVE Accepted'
  OBVIOUS
<1>1. CASE UNCHANGED <<mode, target, collected>>
  BY <1>1 DEF Accepted, Declared, Held, Parsed
<1>2. CASE mode = "none" /\ collected' = {} /\ mode' # "none"
  BY <1>2 DEF Accepted
<1>3. ASSUME NEW c \in Component, See(c) PROVE Accepted'
  <2>1. /\ Declared /\ mode' = mode /\ target' = target
        /\ collected' = IF IsCompatibleOrNewer(Held, Parsed[c]) THEN collected \cup {c} ELSE collected
    BY <1>3 DEF See
  <2>2. Declared' /\ Held' = Held /\ mode' # "none"
    BY <2>1 DEF Declared, Held
  <2>3. \A d \in collected' : d \in Component /\ IsCompatibleOrNewer(Held, Parsed[d])
    BY <2>1 DEF Accepted
  <2>4. QED
    BY <2>2, <2>3 DEF Accepted, Parsed
<1>4. (Declare \/ Refuse \/ (\E b \in Baselines : DeclareRelease(b)) \/ \E h \in DOMAIN Compiled : DeclareAnyLibc(h)) =>
        mode = "none" /\ collected' = {} /\ mode' # "none"
  BY DEF Declare, Refuse, DeclareRelease, DeclareAnyLibc, Accepted
<1>5. (Install \/ (\E h \in DOMAIN Compiled : Upgrade(h)) \/ UNCHANGED vars) => UNCHANGED <<mode, target, collected>>
  BY DEF Install, Upgrade, vars
<1>6. QED
  BY <1>1, <1>2, <1>3, <1>4, <1>5 DEF Next

(* Some version of the target runs wheel c.                                *)
RunsSomeday(c) ==
  \E u \in DOMAIN Compiled :
    /\ u = [target EXCEPT !.ver = u.ver, !.libc = u.libc]
    /\ mode = "anyLibc" \/ u.libc = target.libc
    /\ Runs(u, c)

(* What was accepted runs on a version of the target.                      *)
LEMMA AcceptedRuns ==
  ASSUME EveryVersion, Published, Kept, Accepted
  PROVE  CollectedRunsSomeday
<1> SUFFICES ASSUME NEW c \in collected
             PROVE  RunsSomeday(c)
  BY DEF CollectedRunsSomeday, RunsSomeday
<1>1. c \in Component /\ Parsed[c] = ParseTag(c) /\ Declared /\ IsCompatibleOrNewer(Held, Parsed[c])
  BY WheelIs DEF Accepted
<1>2. target \in Target /\ target \in TargetType /\ Typed(target)
  BY Targets DEF Kept
<1>3. ASSUME NEW n, Version(n, target), Valid(n), mode = "anyLibc" \/ n.libc = target.libc,
             NEW x \in Parsed[c], x \in TagSet(n)
      PROVE  RunsSomeday(c)
  <2>1. n = [target EXCEPT !.ver = n.ver, !.libc = n.libc]
    BY <1>3 DEF Version
  <2>2. n \in Target
    BY <1>2, <1>3 DEF EveryVersion
  <2>3. n \in DOMAIN Compiled
    BY <1>3, <2>2, Targets
  <2>4. Runs(n, c)
    BY <1>3, <2>3, RunsIs
  <2>5. QED
    BY <1>3, <2>1, <2>3, <2>4 DEF RunsSomeday
<1>4. ASSUME NEW h \in TargetType, Valid(h), NEW x \in Parsed[c],
             NEW k, Alike(k, h), TierOf(x) \in {TierOf(y) : y \in TagSet(k)},
             Held.target = h, PlatformIsNewer(Held, x.platform)
      PROVE  \E n : Version(n, h) /\ Valid(n) /\ x \in TagSet(n) /\ (Held.anyLibc \/ n.libc = h.libc)
  <2>1. x = Tag(x.interpreter, x.abi, x.platform)
    BY <1>1, <1>4, TagParts DEF ParseTag
  <2>2. x.platform # AnyPlatform
    <3>1. AnyPlatform.family = "any"
      BY DEF AnyPlatform, Plat
    <3>2. \A p : p.family = "any" => LibcPlatform(p) = {}
      BY DEF LibcPlatform, LegacyAlias
    <3>3. QED
      BY <1>4, <3>1, <3>2 DEF PlatformIsNewer
  <2>3. /\ \E u \in TargetType : Valid(u) /\ x.platform \in Range(PlatformTags(u))
        /\ x.abi = None => x.interpreter # <<"pp", x.interpreter[2]>>
    BY <1>1, <1>4, <2>2 DEF Published
  <2>4. PICK u \in TargetType : Valid(u) /\ x.platform \in Range(PlatformTags(u))
    BY <2>3
  <2>5. PICK m : m = Held
    OBVIOUS
  <2>6. QED
    BY <1>4, <2>1, <2>3, <2>4, <2>5, NewerTag
<1>5. CASE mode = "one"
  <2>1. Held = Compile(target) /\ Valid(target)
    BY <1>2, <1>5, Targets DEF Kept, HostOfOne, Held
  <2>2. /\ Held.target = target /\ Held.anyLibc = FALSE
        /\ DOMAIN Held.rank = TagSet(target) /\ Held.abis = {TierOf(x) : x \in TagSet(target)}
    BY <1>2, <2>1, CompileFacts
  <2>3. CASE IsCompatible(Held, Parsed[c])
    <3>1. PICK x \in Parsed[c] : x \in TagSet(target)
      BY <2>2, <2>3 DEF IsCompatible
    <3>2. Version(target, target)
      BY <1>2 DEF Version, TargetType
    <3>3. QED
      BY <1>3, <2>1, <3>1, <3>2
  <2>4. CASE ~IsCompatible(Held, Parsed[c])
    <3>1. PICK x \in Parsed[c] : TierOf(x) \in Held.abis /\ PlatformIsNewer(Held, x.platform)
      BY <1>1, <2>4 DEF IsCompatibleOrNewer, TierOf
    <3>2. Alike(target, target)
      BY DEF Alike
    <3>3. PICK n : Version(n, target) /\ Valid(n) /\ x \in TagSet(n) /\ n.libc = target.libc
      BY <1>2, <1>4, <2>1, <2>2, <3>1, <3>2
    <3>4. QED
      BY <1>3, <3>1, <3>3
  <2>5. QED
    BY <2>3, <2>4
<1>6. CASE mode = "anyLibc"
  <2>1. Held = CompileAnyLibc(target) /\ ValidAnyLibc(target)
    BY <1>2, <1>6, Targets DEF Kept, HostOfBoth, Held
  <2>2. PICK g, u : g = AsGlibc(target) /\ u = AsMusl(target)
    OBVIOUS
  <2>3. /\ Held.target = g
        /\ DOMAIN Held.rank = TagSet(g) \cup TagSet(u) /\ Held.abis = {TierOf(x) : x \in TagSet(g) \cup TagSet(u)}
    BY <1>2, <2>1, <2>2, CompileAnyLibcFacts
  <2>4. Valid(g) /\ Valid(u) /\ Version(g, target) /\ Version(u, target)
    <3>1. Valid(g) /\ Valid(u)
      BY <2>1, <2>2 DEF ValidAnyLibc
    <3>2. Version(g, target) /\ Version(u, target)
      <4>1. <<1, 2>> \in Int \X Int
        OBVIOUS
      <4>2. MuslLatest \in Int \X Int
        BY <4>1, Zenon DEF MuslLatest
      <4>3. PICK m \in Int \X Int : m = MuslLatest
        BY <4>2
      <4>4. g = [target EXCEPT !.libc = "glibc"] /\ u = [target EXCEPT !.libc = "musl", !.ver = m]
        BY <2>2, <4>3 DEF AsGlibc, AsMusl
      <4>5. Version(g, target)
        BY <1>2, <4>4 DEF Version, TargetType
      <4>6. Version(u, target)
        BY <1>2, <4>4 DEF Version, TargetType
      <4>7. QED
        BY <4>5, <4>6
    <3>3. QED
      BY <3>1, <3>2
  <2>5. CASE IsCompatible(Held, Parsed[c])
    <3>1. PICK x \in Parsed[c] : x \in TagSet(g) \/ x \in TagSet(u)
      BY <2>3, <2>5 DEF IsCompatible
    <3>2. QED
      BY <1>3, <1>6, <2>4, <3>1
  <2>6. CASE ~IsCompatible(Held, Parsed[c])
    <3>1. PICK x \in Parsed[c] : TierOf(x) \in Held.abis /\ PlatformIsNewer(Held, x.platform)
      BY <1>1, <2>6 DEF IsCompatibleOrNewer, TierOf
    <3>2. PICK z : TierOf(x) = TierOf(z) /\ (z \in TagSet(g) \/ z \in TagSet(u))
      BY <2>3, <3>1
    <3>3. PICK k \in {g, u} : z \in TagSet(k)
      BY <3>2
    <3>4. g \in TargetType /\ Alike(k, g)
      <4>1. g \in Target
        BY <1>2, <2>4 DEF EveryVersion
      <4>2. Alike(k, g)
        BY <1>2, <2>2, <3>3, TypedTargets DEF Alike
      <4>3. QED
        BY <4>1, <4>2, TargetAssumption
    <3>5. PICK n : Version(n, g) /\ Valid(n) /\ x \in TagSet(n)
      BY <1>4, <2>3, <2>4, <3>1, <3>2, <3>3, <3>4
    <3>6. Version(n, target)
      BY <1>2, <2>2, <3>5 DEF Version, AsGlibc, TargetType
    <3>7. QED
      BY <1>3, <1>6, <3>1, <3>5, <3>6
  <2>7. QED
    BY <2>5, <2>6
<1>7. QED
  BY <1>1, <1>5, <1>6 DEF Declared

(* A mirror collects no wheel that no version of its target runs, if hosts *)
(* come in every version and wheels are published for platforms that exist *)
(* (IsCompatibleOrNewer: the interpreter and ABI are not relaxed).         *)
THEOREM CollectedWheelsRun == EveryVersion /\ Published => (Spec => []CollectedRunsSomeday)
<1> SUFFICES ASSUME EveryVersion, Published PROVE Spec => []CollectedRunsSomeday
  OBVIOUS
<1>1. Init => Accepted
  BY DEF Init, Accepted
<1>2. Kept /\ Accepted => CollectedRunsSomeday
  BY AcceptedRuns
<1>3. QED
  BY <1>1, <1>2, AcceptedNext, MirrorKept, PTL DEF Spec
=============================================================================
