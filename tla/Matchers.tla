------------------------------ MODULE Matchers ------------------------------
(***************************************************************************)
(* The Matcher a target compiles into (Target.Compile, CompileAnyLibc),    *)
(* its two questions about a wheel (Rank, IsCompatibleOrNewer), and the    *)
(* releases of distributions that can run a platform tag (BaselinesFor).   *)
(***************************************************************************)
EXTENDS Tags

CONSTANT Baselines   \* the embedded table: records of release, libc and ver

(* A Matcher keeps what it was compiled from.  The first position of a tag *)
(* is its rank; abis forgets the platforms.                                *)
Matcher(ordered, t, anyLibc, musl) ==
  [rank    |-> [tag \in Range(ordered) |-> CHOOSE n \in DOMAIN ordered :
                  /\ ordered[n] = tag
                  /\ \A k \in 1 .. n - 1 : ordered[k] # tag],
   target  |-> t,
   abis    |-> {<<tag.interpreter, tag.abi>> : tag \in Range(ordered)},
   anyLibc |-> anyLibc,
   musl    |-> musl]

Compile(t) == Matcher(GenerateTags(t), t, FALSE, <<0, 0>>)

MuslLatest == <<1, 2>>

\* Mutant: the tags both families have are ranked with those of musl.
UnionMuslFirst(ordered, musl) ==
  SelectSeq(ordered, LAMBDA tag : tag \notin Range(musl)) \o musl

\* In the order of musl, those glibc does not have.
MuslOnly(ordered, musl) ==
  FlattenSeq([n \in DOMAIN musl |-> IF musl[n] \in Range(ordered) THEN <<>> ELSE <<musl[n]>>])

Union(ordered, musl) == ordered \o MuslOnly(ordered, musl)

AsGlibc(t) == [t EXCEPT !.libc = "glibc"]
AsMusl(t)  == [t EXCEPT !.libc = "musl", !.ver = MuslLatest]

(* Both families of one Linux target, glibc before musl.                   *)
ValidAnyLibc(t) == t.os = "linux" /\ Valid(AsGlibc(t)) /\ Valid(AsMusl(t))

CompileAnyLibc(t) ==
  Matcher(Union(GenerateTags(AsGlibc(t)), GenerateTags(AsMusl(t))), AsGlibc(t), TRUE, MuslLatest)

(***************************************************************************)
(* Wheels: a tag component is a product of alternatives (ParseTag)         *)
(***************************************************************************)
ParseTag(c) ==
  {Tag(i, a, p) : i \in c.interpreters, a \in c.abis, p \in c.platforms}

IsCompatible(m, w) == w \cap DOMAIN m.rank # {}

Rank(m, w) ==
  LET ranks == {m.rank[tag] : tag \in w \cap DOMAIN m.rank}
  IN  CHOOSE r \in ranks : \A s \in ranks : r <= s

(***************************************************************************)
(* Platforms newer than the declared one                                   *)
(***************************************************************************)
(* parseLibcPlatformTag: the family and version a platform asks for, if it *)
(* names them.                                                             *)
LibcPlatform(p) ==
  CASE p.family = "manylinux" /\ p.arch \in LinuxArchs -> {[libc |-> "glibc", ver |-> p.ver]}
    [] p.family = "musllinux" /\ p.arch \in LinuxArchs -> {[libc |-> "musl", ver |-> p.ver]}
    [] p.arch \in LinuxArchs /\ p.family \in DOMAIN LegacyAlias(p.arch) ->
         {[libc |-> "glibc", ver |-> LegacyAlias(p.arch)[p.family]]}
    [] OTHER -> {}

LibcFamilyMatches(m, libc) == m.anyLibc \/ libc = m.target.libc

\* Mutant: a musl version is compared with the declared glibc version.
DeclaredFloor(m, libc) == m.target.ver

LibcFloorFor(m, libc) == IF m.anyLibc /\ libc = "musl" THEN m.musl ELSE m.target.ver

PlatformIsNewer(m, p) ==
  CASE m.target.os = "linux" ->
         \E l \in LibcPlatform(p) :
           /\ p.arch = m.target.arch
           /\ LibcFamilyMatches(m, l.libc)
           /\ Above(l.ver, LibcFloorFor(m, l.libc))
    [] m.target.os = "macos" ->
         /\ p.family = "macosx"
         /\ p.arch \in Range(MacosBinaryFormats(m.target.arch))
         /\ Above(p.ver, m.target.ver)
    [] OTHER -> FALSE

\* Mutant: interpreter and ABI are looked up one by one.
IsCompatibleOrNewerOneByOne(m, w) ==
  \/ IsCompatible(m, w)
  \/ \E tag \in w, p, q \in m.abis :
       tag.interpreter = p[1] /\ tag.abi = q[2] /\ PlatformIsNewer(m, tag.platform)

IsCompatibleOrNewer(m, w) ==
  \/ IsCompatible(m, w)
  \/ \E tag \in w : /\ <<tag.interpreter, tag.abi>> \in m.abis
                    /\ PlatformIsNewer(m, tag.platform)

(***************************************************************************)
(* Distribution releases                                                   *)
(***************************************************************************)
Apply(b, t) == [t EXCEPT !.libc = b.libc, !.ver = b.ver]

\* Mutant: a release satisfies a floor of its own major version only.
BaselinesForMajor(p) ==
  {b \in Baselines : \E l \in LibcPlatform(p) :
     b.libc = l.libc /\ b.ver[1] = l.ver[1] /\ b.ver[2] >= l.ver[2]}

BaselinesFor(p) ==
  {b \in Baselines : \E l \in LibcPlatform(p) : b.libc = l.libc /\ AtLeast(b.ver, l.ver)}
=============================================================================
