------------------------------- MODULE Tags -------------------------------
(***************************************************************************)
(* The compatibility tags of a declared target (tags/generate.go,          *)
(* tags/target.go, tags/anylibc.go, tags/newer.go, tags/distro.go): the    *)
(* ordered list a target compiles into, the rank of a wheel in it, and     *)
(* the relaxed question a mirror asks.                                     *)
(*                                                                         *)
(* A tag is a triple; interpreters and ABIs are tuples of a name and       *)
(* numbers, and a platform is a family, a version if the family has one,   *)
(* and an architecture (on macOS, a binary format).                        *)
(***************************************************************************)
EXTENDS Integers, SequencesExt

Tag(i, a, p)              == [interpreter |-> i, abi |-> a, platform |-> p]
Plat(family, ver, arch)   == [family |-> family, ver |-> ver, arch |-> arch]

None == <<"none">>
AnyPlatform  == Plat("any", <<>>, "")

(* Versions are compared as versions (versionAtLeast, versionAbove).       *)
Above(v, floor)   == v[1] > floor[1] \/ (v[1] = floor[1] /\ v[2] > floor[2])
AtLeast(v, floor) == v = floor \/ Above(v, floor)

\* <<F(hi), ..., F(lo)>>, empty if hi < lo.
Down(hi, lo, F(_)) == [n \in 1 .. Max({hi - lo + 1, 0}) |-> F(hi - n + 1)]

(***************************************************************************)
(* Targets                                                                 *)
(***************************************************************************)
LinuxArchs   == {"x86_64", "i686", "aarch64", "armv7l", "ppc64", "ppc64le",
                 "s390x", "riscv64", "loongarch64"}
MacosArchs   == {"x86_64", "arm64"}
WindowsArchs == {"amd64", "x86", "arm64"}

Archs(os) == CASE os = "linux" -> LinuxArchs
               [] os = "macos" -> MacosArchs
               [] os = "windows" -> WindowsArchs
               [] OTHER -> {}

(* Target.ver is LibcMajor and LibcMinor on Linux, MacMajor and MacMinor   *)
(* on macOS; Target.implVer is <<0, 0>> if unknown.                        *)
TargetType ==
  [impl : STRING, py : Int \X Int, freeThreaded : BOOLEAN, implVer : Int \X Int,
   os : STRING, arch : STRING, libc : STRING, ver : Int \X Int]

ValidABI(t) ==
  /\ t.freeThreaded => t.impl = "cp" /\ t.py[1] = 3 /\ t.py[2] >= 13
  /\ t.implVer # <<0, 0>> => t.impl = "pp" /\ t.implVer[1] > 0 /\ t.implVer[2] >= 0

Valid(t) ==
  /\ t.impl \in {"cp", "pp", "py"}
  /\ t.py[1] > 0 /\ t.py[2] >= 0
  /\ ValidABI(t)
  /\ t.arch \in Archs(t.os)
  /\ t.os = "linux" => t.libc \in {"glibc", "musl"} /\ t.ver[1] > 0 /\ t.ver[2] >= 0
  /\ t.os = "macos" => /\ t.ver[1] >= 10 /\ t.ver[2] >= 0
                       /\ t.ver[1] = 10 => t.arch = "x86_64"

(***************************************************************************)
(* Platforms, most preferred first                                         *)
(***************************************************************************)
FloorMajor       == 2
FloorMinor(arch) == IF arch \in {"x86_64", "i686"} THEN 5 ELSE 17

LegacyAlias(arch) ==
  IF arch \in {"x86_64", "i686"}
    THEN [manylinux1 |-> <<2, 5>>, manylinux2010 |-> <<2, 12>>, manylinux2014 |-> <<2, 17>>]
    ELSE [manylinux2014 |-> <<2, 17>>]

Aliases(arch, v) ==
  SetToSeq({Plat(name, <<>>, arch) : name \in {a \in DOMAIN LegacyAlias(arch) : LegacyAlias(arch)[a] = v}})

LastGlibcMinor == 50

OldestMinor(arch, major) == IF major = FloorMajor THEN FloorMinor(arch) ELSE 0

\* The tags of one major, from a minor version down.
Series(arch, hi) ==
  FlattenSeq(Down(hi[2], OldestMinor(arch, hi[1]),
                  LAMBDA m : <<Plat("manylinux", <<hi[1], m>>, arch)>> \o Aliases(arch, <<hi[1], m>>)))

\* Mutant: an older major is walked upwards.
ManylinuxTagsUpwards(arch, v) ==
  Series(arch, v)
    \o FlattenSeq(Down(v[1] - 1, FloorMajor, LAMBDA m : Reverse(Series(arch, <<m, LastGlibcMinor>>))))

(* The declared major from the declared minor on, then every older major   *)
(* down to the one the architecture's series begins in.                    *)
ManylinuxTags(arch, v) ==
  Series(arch, v)
    \o FlattenSeq(Down(v[1] - 1, FloorMajor, LAMBDA m : Series(arch, <<m, LastGlibcMinor>>)))

MusllinuxTags(arch, v) == Down(v[2], 0, LAMBDA m : Plat("musllinux", <<v[1], m>>, arch))

LinuxPlatformTags(t) ==
  (IF t.libc = "glibc" THEN ManylinuxTags(t.arch, t.ver) ELSE MusllinuxTags(t.arch, t.ver))
    \o <<Plat("linux", <<>>, t.arch)>>

MacosBinaryFormats(arch) ==
  IF arch = "x86_64" THEN <<"x86_64", "intel", "fat64", "fat32", "universal2", "universal">>
                     ELSE <<"arm64", "universal2">>

MacosBinaryFormatsFor(v, arch) ==
  IF arch = "x86_64" /\ ~AtLeast(v, <<10, 4>>) THEN <<>> ELSE MacosBinaryFormats(arch)

\* Mutant: the tail of macOS 11 starts at the last release called 10.
LastMacos10 == 15

MacosCompatTailMinor == 16

MacosVersionTags(v, formats) == [n \in DOMAIN formats |-> Plat("macosx", v, formats[n])]

MacosTailFormats(arch) == IF arch = "x86_64" THEN MacosBinaryFormats(arch) ELSE <<"universal2">>

(* The minor versions of macOS 10, or the major ones down to 11 and then   *)
(* the versions of macOS 10 whose binaries still run.                      *)
MacosPlatformTags(arch, v) ==
  IF v[1] = 10
    THEN FlattenSeq(Down(v[2], 0, LAMBDA m : MacosVersionTags(<<10, m>>, MacosBinaryFormatsFor(<<10, m>>, arch))))
    ELSE FlattenSeq(Down(v[1], 11, LAMBDA m : MacosVersionTags(<<m, 0>>, MacosBinaryFormatsFor(<<m, 0>>, arch))))
           \o FlattenSeq(Down(MacosCompatTailMinor, 4, LAMBDA m : MacosVersionTags(<<10, m>>, MacosTailFormats(arch))))

PlatformTags(t) ==
  CASE t.os = "windows" -> <<Plat("win", <<>>, t.arch)>>
    [] t.os = "linux"   -> LinuxPlatformTags(t)
    [] t.os = "macos"   -> MacosPlatformTags(t.arch, t.ver)

(***************************************************************************)
(* The ordered tags of a target                                            *)
(***************************************************************************)
\* tiers: pairs of an interpreter and an ABI.
OverPlatforms(tiers, plats) ==
  FlattenSeq([n \in DOMAIN tiers |->
    [p \in DOMAIN plats |-> Tag(tiers[n][1], tiers[n][2], plats[p])]])

PyInterpreterRange(py) ==
  <<<<"py">> \o py, <<"py", py[1]>>>> \o Down(py[2] - 1, 0, LAMBDA m : <<"py", py[1], m>>)

\* named: the interpreter of a "-none-any" tag, if the target names one.
CompatibleTags(t, plats, named) ==
  LET range == PyInterpreterRange(t.py)
      tiers == [n \in DOMAIN range |-> <<range[n], None>>]
      bare  == named \o range
  IN  OverPlatforms(tiers, plats) \o [n \in DOMAIN bare |-> Tag(bare[n], None, AnyPlatform)]

CpythonExactABI(t) ==
  <<"cp">> \o t.py
    \o (IF t.freeThreaded THEN <<"t">> ELSE <<>>)
    \o (IF AtLeast(t.py, <<3, 8>>) THEN <<>> ELSE <<"m">>)
    \o (IF AtLeast(t.py, <<3, 3>>) THEN <<>> ELSE <<"u">>)

StableABI(t) ==
  IF ~AtLeast(t.py, <<3, 2>>) THEN <<>>
  ELSE <<IF t.freeThreaded THEN <<"abi3t">> ELSE <<"abi3">>>>

CpTags(t, plats) ==
  LET interp == <<"cp">> \o t.py
      stable == StableABI(t)
      own    == <<CpythonExactABI(t)>> \o stable \o <<None>>
      older  == IF stable = <<>> THEN <<>>
                ELSE Down(t.py[2] - 1, 2, LAMBDA m : <<<<"cp", t.py[1], m>>, stable[1]>>)
  IN  OverPlatforms([n \in DOMAIN own |-> <<interp, own[n]>>] \o older, plats)
        \o CompatibleTags(t, plats, <<interp>>)

ImplABI(t) ==
  IF t.implVer = <<0, 0>> THEN <<>> ELSE <<<<"pypy">> \o t.py \o t.implVer>>

ImplTags(t, plats) ==
  LET interp == <<t.impl>> \o t.py
      abis   == ImplABI(t) \o <<None>>
  IN  OverPlatforms([n \in DOMAIN abis |-> <<interp, abis[n]>>], plats)
        \o CompatibleTags(t, plats, <<<<t.impl, t.py[1]>>>>)

GenerateTags(t) ==
  CASE t.impl = "cp" -> CpTags(t, PlatformTags(t))
    [] t.impl = "pp" -> ImplTags(t, PlatformTags(t))
    [] OTHER         -> CompatibleTags(t, PlatformTags(t), <<>>)
=============================================================================
