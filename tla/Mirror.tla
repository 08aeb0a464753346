------------------------------- MODULE Mirror -------------------------------
(***************************************************************************)
(* A mirror and the client it serves, as tags/newer.go describes them: the *)
(* mirror compiles a declared target once and keeps the Matcher for months *)
(* (IsCompatibleOrNewer decides which wheels to collect), while the host   *)
(* the target stands for is upgraded and installs, from what the mirror    *)
(* collected, the wheel that ranks best on the host as it is then.         *)
(***************************************************************************)
EXTENDS Matchers, FiniteSets

CONSTANTS
  Target,      \* targets a caller may declare, and hosts
  Component,   \* tag components of wheels
  MaxSeen      \* bound: wheels the mirror comes to see

ASSUME TargetAssumption    == Target \subseteq TargetType
ASSUME BaselinesAssumption == Baselines \subseteq [release : STRING, libc : STRING, ver : Int \X Int]

VARIABLES
  mode,       \* "none", "refused", "one" or "anyLibc": how the target was compiled
  target,     \* the declared target
  host,       \* the client's platform now
  seen,       \* wheels released, and looked at by the mirror
  collected,  \* those it collected
  installed   \* what the client would install: the best wheels collected

vars == <<mode, target, host, seen, collected, installed>>

\* Compiled once each.
Compiled        == [t \in {u \in Target : Valid(u)} |-> Compile(t)]
CompiledAnyLibc == [t \in {u \in Target : ValidAnyLibc(u)} |-> CompileAnyLibc(t)]

EachLibc        == [t \in DOMAIN CompiledAnyLibc |-> [glibc |-> Compile(AsGlibc(t)), musl |-> Compile(AsMusl(t))]]

Declared == mode \in {"one", "anyLibc"}
Held     == IF mode = "anyLibc" THEN CompiledAnyLibc[target] ELSE Compiled[target]

Parsed == [c \in Component |-> ParseTag(c)]

Init ==
  /\ mode = "none"
  /\ target \in Target
  /\ host = target
  /\ seen = {} /\ collected = {} /\ installed = {}

Declare ==
  /\ mode = "none" /\ Valid(target)
  /\ mode' = "one"
  /\ UNCHANGED <<target, host, seen, collected, installed>>

(* A release of a distribution names the libc (Baseline.Apply).            *)
DeclareRelease(b) ==
  /\ mode = "none" /\ Apply(b, target) \in DOMAIN Compiled
  /\ mode' = "one"
  /\ target' = Apply(b, target)
  /\ host' = target'
  /\ UNCHANGED <<seen, collected, installed>>

(* The clients of an any-libc mirror are of either family; the one of musl *)
(* may have any version of it.                                             *)
DeclareAnyLibc(h) ==
  /\ mode = "none" /\ ValidAnyLibc(target)
  /\ h = AsGlibc(target) \/ (h.libc = "musl" /\ [h EXCEPT !.ver = MuslLatest] = AsMusl(target))
  /\ mode' = "anyLibc"
  /\ host' = h
  /\ UNCHANGED <<target, seen, collected, installed>>

(* ErrUnsupportedTarget.                                                   *)
Refuse ==
  /\ mode = "none" /\ ~Valid(target)
  /\ mode' = "refused"
  /\ UNCHANGED <<target, host, seen, collected, installed>>

See(c) ==
  /\ Declared /\ c \notin seen /\ Cardinality(seen) < MaxSeen
  /\ seen' = seen \cup {c}
  /\ collected' = IF IsCompatibleOrNewer(Held, Parsed[c]) THEN collected \cup {c} ELSE collected
  /\ UNCHANGED <<mode, target, host, installed>>

(* The platform of the host gets newer; its interpreter stays.             *)
Upgraded(h, u) == u = [h EXCEPT !.ver = u.ver] /\ Above(u.ver, h.ver)

Upgrade(u) ==
  /\ Declared /\ Upgraded(host, u)
  /\ host' = u
  /\ UNCHANGED <<mode, target, seen, collected, installed>>

Runs(h, c)    == IsCompatible(Compiled[h], Parsed[c])
RankOn(h, c)  == Rank(Compiled[h], Parsed[c])

Install ==
  LET able == {c \in collected : Runs(host, c)}
  IN  /\ able # {}
      /\ installed' = {c \in able : \A d \in able : RankOn(host, c) <= RankOn(host, d)}
      /\ UNCHANGED <<mode, target, host, seen, collected>>

Next ==
  \/ Declare \/ Refuse \/ Install
  \/ \E b \in Baselines : DeclareRelease(b)
  \/ \E h \in DOMAIN Compiled : DeclareAnyLibc(h) \/ Upgrade(h)
  \/ \E c \in Component : See(c)

Spec == Init /\ [][Next]_vars

(***************************************************************************)
(* Properties                                                              *)
(***************************************************************************)

(* A wheel the mirror looked at and did not collect is one the client      *)
(* cannot use, now or after any upgrade: "rejecting one costs              *)
(* availability" (IsCompatibleOrNewer).                                    *)
NothingMissed ==
  Declared => \A c \in seen : Runs(host, c) => c \in collected

(* And the mirror relaxes the version of the platform alone: a wheel it    *)
(* collected is one some upgrade of the client runs ("The interpreter and  *)
(* ABI axes are NOT relaxed").                                             *)
CollectedRunsSomeday ==
  \A c \in collected :
    \E u \in DOMAIN Compiled :
      /\ u = [target EXCEPT !.ver = u.ver, !.libc = u.libc]
      /\ mode = "anyLibc" \/ u.libc = target.libc
      /\ Runs(u, c)

SeenTags == UNION {Parsed[c] : c \in seen}

(* An upgrade adds tags and never turns round the order of two that the    *)
(* host could rank before (the downward walks of generate.go).             *)
PreferenceStable ==
  [][Declared /\ mode' = mode =>
      LET old == Compiled[host].rank
          new == Compiled[host'].rank
      IN  \A a, b \in SeenTags \cap DOMAIN old \cap DOMAIN new :
            old[a] < old[b] <=> new[a] < new[b]]_vars

(* Within a libc major, and from macOS 10 to 11 and beyond, the upgraded   *)
(* host still runs every wheel the old one did (the floor of each series   *)
(* and the tail macosPlatformTags adds).                                   *)
UpgradeKeepsWheels ==
  [][Declared /\ (host'.os = "linux" => host'.ver[1] = host.ver[1]) =>
       \A c \in seen : Runs(host, c) => Runs(host', c)]_vars

(* A Matcher of both families accepts what one of the two does: glibc's    *)
(* tags in glibc's order, and behind all of them what only musl lists, in  *)
(* musl's order. Musl's own order is turned round for one kind of pair     *)
(* only, a tag glibc lists too, of the bare linux platform or of any,      *)
(* which comes ahead of a musllinux one (CompileAnyLibc).                  *)
AnyLibcIsUnion ==
  mode = "anyLibc" =>
    LET both  == Held.rank
        glibc == EachLibc[target].glibc.rank
        musl  == EachLibc[target].musl.rank
    IN  /\ SeenTags \cap DOMAIN both = SeenTags \cap (DOMAIN glibc \cup DOMAIN musl)
        /\ \A a, b \in SeenTags \cap DOMAIN both :
             /\ a \in DOMAIN glibc /\ b \in DOMAIN glibc =>
                  (both[a] < both[b] <=> glibc[a] < glibc[b])
             /\ a \in DOMAIN glibc /\ b \notin DOMAIN glibc => both[a] < both[b]
             /\ a \notin DOMAIN glibc /\ b \notin DOMAIN glibc =>
                  (both[a] < both[b] <=> musl[a] < musl[b])
             /\ /\ {a, b} \subseteq DOMAIN musl
                /\ both[a] < both[b] /\ musl[b] < musl[a]
                => /\ a.platform \in {Plat("linux", <<>>, target.arch), AnyPlatform}
                   /\ b.platform.family = "musllinux"

(* A release whose hosts accept a wheel is among those reported to be able *)
(* to run it: the two answers differ in one direction only (the warning of *)
(* BaselinesFor).                                                          *)
BaselinesCoverTargets ==
  Declared =>
    \A b \in Baselines : Apply(b, host) = host =>
      \A tag \in SeenTags \cap DOMAIN Compiled[host].rank :
        LibcPlatform(tag.platform) # {} => b \in BaselinesFor(tag.platform)
=============================================================================
