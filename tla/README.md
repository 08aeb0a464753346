# A verification of go-python-packaging

TLA+ modules that model the library, the TLC configurations that check them on
small instances, and theorems about them that TLAPS checks. Every definition is
translated from the Go source; `PROJECT.json` gives the lines of each one
(`map`), the runs, a plausible bug per property that the run must detect
(`mutants`), the hazards of the code and the properties that cover them.

To check a module: `tlc -config MCFlatten.cfg MCFlatten`; to check its proofs:
`tlapm FlattenProofs.tla`.

## 1. The system

The library is a set of pure Go packages for the metadata of Python packages. It
starts no goroutine and keeps no state between calls. What makes it hard is
elsewhere: a recursive walk with shared mutable state and callbacks of the
caller's, two implementations of one order that must agree, policies that are
decided over a whole list and not item by item, algebra on disjunctions, and
documents (PEP 440, PEP 508, pip) that state exactly what each has to do.

| Component | State it keeps | Operations | Interacts with | What makes it correct |
|---|---|---|---|---|
| `reqtxt.Flatten` | recursion stack, `visited` map shared by all levels, entries collected | `Flatten`, `flattenWalk`, `resolveInclude` | calls the caller's `open` and `Parse` at every level | ends; rejects a cycle and only a cycle; order and constraint flags of entries; all or nothing |
| `version.Version` | parsed segments, a comparison key and a packed key, both computed once | `Parse`, `Compare`, `ReleaseKey`, derived versions | specifiers, sorting by callers | one total preorder whichever key decides; PEP 440's order |
| `version.Specifier` | operator, operand text, policy | `Check`, `Equal`, `PreReleases` | reparses its operand at every call | each operator cuts the order where PEP 440 says; equal means interchangeable |
| `version.Specifiers` | an OR of AND-groups and a policy | constructors, `And`, `Equal`, `Check` | groups share `Specifier` values | intersection is intersection; never universal by accident |
| filtering | a mark per candidate, a buffer of held pre-releases | `Filter`, `Contains`, `ContainsInstalled` | resolved policies of members and sets, and the policy of the call | pre-releases decided over all matching candidates |
| `marker` | environment, active extras, list of undecidable comparisons | `EnvironmentFromTarget`, `With`, `Evaluate`, `EvaluateUndecidable`, `Variables`, `String` | the expression tree of `internal/pep508` | a result reported as decided does not depend on what is unknown |
| `requirement`, `internal/pep508` | token cursor | `Parse`, `ParseMarker` | specifiers, markers, names | accepts the grammar, precedence of and/or |
| `reqtxt` reader | logical line under construction, option state | `Parse`, `preprocess`, `shlexSplit`, dispatch | `requirement.Parse`, Flatten | a line is joined, cut and expanded in pip's order; line numbers survive |
| `distribution` | open archive, running digests, list of packages | `Parse`, `makePackage`, `NewArchiveReader`, `Hash` | file system | an error is never lost; digests belong to the file whose metadata was read |
| `tags` | a `Matcher`: the index of a generated tag list, kept by a mirror for months | `Compile`, `CompileAnyLibc`, `Rank`, `IsCompatibleOrNewer`, `BaselinesFor`, `Apply` | wheel names, a host that is upgraded meanwhile | a mirror misses nothing its host may come to run, and collects nothing it never runs; rank is one preference order across upgrades |
| `license` | tables | `Types` | metadata of a distribution | precedence of the declared sources |
| `canonname`, `packagename`, `extras`, `wheelname` | none | `Normalize`, `CompareBuildTags` | all of the above | idempotent; a total order |

How they interact: `reqtxt.Parse` builds a `File` of entries, each holding a
`requirement.Requirement`, whose `Specifiers` come from `version` and whose
marker from `marker`. `Flatten` calls `Parse` once per file. A resolver (the
caller) intersects the `Specifiers` of all requirements on one project with
`And` and then asks `Filter` for the candidates; `Filter` relies on
`Version.Compare`. Composition therefore runs Flatten -> And -> Filter ->
Compare, and these are the modules of the core. On the other side of an index,
`distribution.Parse` reads the files that are to be published, and a mirror
asks a `tags.Matcher` which wheels to keep.

Hard behaviours, by kind (the lines are in `PROJECT.json` under `hazards`):

- state shared along a recursion with several ways out (`visited`);
- a callback that answers differently the second time (a file edited during the
  walk), fails late, or is absent;
- cycles hidden by two spellings of one path;
- two code paths for one answer (packed and general comparison; `Specifier` and
  `Specifiers` filtering) and fields that overflow into each other;
- a decision that must wait for the whole list (pre-releases held back);
- long sequences of legal operations (chains of `And`) that must never lead to
  a set the constructors would refuse;
- equality that ignores something (spelling, zeros, policy) that another
  operation then depends on;
- values shared between goroutines of the caller (slices inside `Version` and
  `ReleaseKey`);
- files that change between the many calls that read one of them, and error
  paths that must close what was opened;
- a generated preference order whose answers are used long after the platform it
  was generated for has changed.

## 2. The modules

    IncludePaths ----------\                 Versions ------ VersionPairs --\
                            MCFlatten           |                          SpecifierLaws -- MCMatching
    Flatten -- FlattenFrom -/               Specifiers --------------------/     |
                 |    |  refines                |                          VersionsProofs
                 |  FlattenPromise          Candidates
            FlattenProofs                       :
                                                : (gives the constants a meaning)
                     SpecifierSets ----+---- AndSets ------ MCAndSets
                                       |        |
                                       |     AndSetsProofs
                                       +---- Selection ---- MCSelection
                                                |
                                             SelectionProofs

    MarkerText ------------------\
                                  MarkerRoundTrip ---- MCMarkers
    Markers -- MarkerVariables --/
                     |
               MarkersProofs

    ReqText ---- Reader ---- ReaderRoundTrip ---- MCReader

    SharedCompare ---- MCSharedCompare        Distribution ---- MCDistribution
       |                                         |
    SharedCompareProofs                       DistributionProofs

    Tags ---- Matchers ---- Mirror ---- MCMirror
                               |
                            MirrorProofs

`AndSets` and `Selection` are written over abstract members and items
(constants), so that what is proved about them holds for every meaning of an
operator. The MC modules give the constants the concrete meaning of
`Candidates`, `Specifiers` and `Versions`, so the runs compose the set algebra
and the selection with the real operators and the real order.

### Flatten and IncludePaths (`reqtxt/flatten.go`)

`Flatten` unfolds the recursion: `stack` holds one frame per activation of
`flattenWalk` (path, constraint flag, entries, cursor, entries collected),
`call` is the activation about to begin, `visited` the shared map. Actions are
the steps between which another activation can run: `Begin`, `RecursiveInclude`
(the check), `OpenFails`, `ParseFails`, `Enter` (open, parse, mark visited),
`Include` and `Collect` (one entry of the range loop), `Return`, `ReturnFile`,
and `Unwind` (the error path, with the deferred delete of each level), then
`ReturnError`. `NilOpen` is the early return of `Flatten`.

The open callback is the environment. `opener` says whether it is nil, answers
the same for the same file ("stable") or may answer anew each time
("changing"). `disk` is what it has answered; it starts unread and is chosen
when it is first read, so that TLC explores every file system without
enumerating them in `Init`. What `Parse` makes of a file is one of `Text`,
malformed, or the file does not open.

`IncludePaths` is `resolveInclude` over paths as sequences of segments, with
`path.Clean`, `path.Dir` and `net/url` (external) as it uses them: rooted
targets and those with a scheme go to `open` as they are written, others are
joined to the directory of the referring file, or resolved against its URL, and
cleaned. Where `net/url` refuses the URL or the target, the URL is taken for a
relative path, whose scheme is then a directory (`Mangled`). So neither the root
nor a rooted target is ever cleaned, and `visited` does not see that `/../a` is
the file `a` it is inside of. What the walk promises about aliases is
`AliasedAsWritten`: a file is walked inside itself only by way of a path that
`open` got as somebody wrote it, the caller or a directive (`Verbatim`), at one
of the two levels or between them; levels that relative targets lead to never
repeat a file.

`FlattenPromise` is the abstract specification, without a walk: the answer is a
function of the files, the expansion along the routes of include directives or
the first trouble on them in reading order. A route is a sequence of line
numbers from the root down; `Routes` is the set of those the promise looks at,
bounded in the run and all sequences in the theorem. The n-th entry promised is
the one whose route has n - 1 others before it (`Place`). `FlattenFrom` keeps
the root, which `Flatten` forgets, as a history variable, and states that
`Flatten` implements the promise (`PromiseKept`, with the answer as the
refinement mapping), including that an answer is always given. If the callback
is "changing" nothing is promised but an answer.

### Versions and Specifiers (`version/`)

`Versions` models the parsed version as a record (`ZeroValue` is the
uninitialised Go value), the general key (`Key`, `CompareKeys`), the packed key
(`PackRelease`, `PackSuffix`: the number of values of each field is a constant,
a power of two in the code; the fields are laid out by the same sum of shifts,
and the word is cut at its width), and the choice `Compare` makes between them.
`CompareRelease` is `ReleaseKey.Compare`.

`VersionPairs` holds any two parsed versions up to each other and then turns
them round. It states what the comparison promises, with no sample in it, so
that `VersionsProofs` can prove it and `MCMatching` can check it on a sample.

`Specifiers` models the operators over these versions. Prefix matching
(`==V.*`) splits, pads and cuts component lists as the code does. For `~=` the
prefix comes from the operand's text, so an operand carries how it is spelled:
the plain way, with an alias that `isNotSuffix` does not know, or with a
leading "v". An operand with two such aliases (`1.0.c1.rev2`) is not modelled. `CanonicalSpec` is what equality and `And` go by; `DerivedPolicy`
is the policy of a specifier built without one.

`SpecifierLaws` states what the operators promise of any version that
`VersionPairs` holds, over a set of operands and one of specifiers that
`NewSpecifier` accepts; `VersionsProofs` proves it for all such sets.

### SharedCompare (`version/version.go`, `padParts`)

A `Version` is copied by value, but its copies share the array behind
`key.release`, and that array is longer than the slice: `cmpkey` cuts trailing
zeros off. `SharedCompare` puts the arrays on a `heap` and lets goroutines
compare copies at the same time. `Make` is the allocation of a padded copy,
`BeginZero` and `EndZero` write one zero into it, `SameSegment` and `Differ` read
one segment of each operand. A segment is an interface value of two words, so
between the two halves of a write a reader may see anything (`Torn`). Only the
general path is stepped; packed words are copied with the value. The mutant pads
in place where the capacity allows it, as an `append` would.

### SpecifierSets, Candidates and AndSets (`version/specifier_query.go`)

`SpecifierSets` is what a set is and admits; `AndSets` is a caller collecting
constraints: each `Ask` intersects one more set into the result so far. The
double loop over groups and the loop of `dedupeSpecifiers` are stepped member by
member (`Keep`, `Drop`, `EndGroup`, `Return`). `Conflict` is
`ErrPreReleaseConflict`. `asked` is a history variable: the sets that went into
the result.

`Candidates` is the concrete meaning: members with a policy of their own, `===`
operands that are no versions, the nil operator of the zero `Specifier`, and
candidate strings that do not parse.

### Selection (`version/specifier_query.go`)

Both `filterKeep` methods stepped candidate by candidate: for one specifier the
loop that offers, holds back or passes over (`OfferItem`, `HoldItem`,
`PassItem`, `EndMember`), for a set `matchAll`/`filterEmpty` (`MatchItem`,
`EndMatch`) and then `applyPEP440Preference` (`PreferItem`, `EndPrefer`).
`AskInstalled` is `ContainsInstalled`. The promise is stated without loops: of
the candidates that match, every final release and opaque string, and
pre-releases as the policy says, decided over all of them.

### Markers, MarkerVariables, MarkerText and MarkerRoundTrip (`marker/`, `internal/pep508/marker.go`)

`Markers` is what a caller does who plans an installation for a machine it does
not have: `EnvironmentFromTarget` (or `NoEnvironment`), `With` stepped key by
key in any order (`Override`, `UnknownVariable`), then `EvaluateUndecidable`.
The recursion of `evalExpr` and `evalBool` is unfolded: `stack` holds an
activation per nested expression with its next operand, `result` the bool of
the activation that returned last, `und` the reports. `Compare` is one
`evalCompare` with its notes, `Descend` calls the next operand, `Continue` and
`ReturnBool` are the two outcomes of hearing from one. The meaning of texts as
versions is given by constants, and so is `Truth`, the reference meaning: any
function for which "and" is true iff every operand is, "or" iff some operand is.

`MarkerVariables` is what that caller asks next: it had to invent fields, and
`Variables` lists the names the marker consults. The recursion of `collectVars`
is unfolded as that of `evalExpr` is: `walk` holds its activations, `out` the
names met so far, which are also the keys of `seen` (`CollectCompare`,
`CollectOperand`, `CollectReturn`). The walk visits what evaluation skipped too.

`MarkerText` is the parser from a sequence of tokens (one comparison is one
token, holding its operands as they were spelled), `groupByPrecedence`, the
folding of aliases and extras, and `String`. A literal is spelled as its contents,
what stands between the quotes; `Decoded` gives the value they stand for
(`decodeQuotedStringContents`; what the escapes mean is the constant
`Unescape`), and contents with a wrong escape do not parse. `String` writes the
value between quotes as it is, without escapes (`quoteLiteral`), so printing and
reading is no identity: what is read next time is the value decoded once more. It needs RECURSIVE operators and is
therefore kept apart from `Markers`. `Says` is the reference: a text is read off
its operators, without a tree. `MarkerRoundTrip` composes the two: a marker is
parsed, evaluated and asked for its variables, then its `String` is parsed and
goes the same way in the same environment (`Reparse`), if it can be parsed
(`ReparseFails`). That the answer comes back is promised where no literal has a
value with a backslash or with both kinds of quote (`Unescaped`); the divergence
on literals is what happens to the rest.

### ReqText, Reader and ReaderRoundTrip (`reqtxt/`)

`ReqText` holds the pure parts: the comment scan, expansion of references, the
shell splitter mark by mark (`ShlexMark`), the split of a line into arguments
and options, classification of targets, and `File.String`. A text is a sequence
of marks: a character with a meaning to the reader, or a chunk that is never
taken apart. Two kinds of space are told apart, because the comment scan and
`strings.Fields` know Unicode spaces and the shell splitter does not.

`Reader` is `Parse`. `Join`, `EndLine` and `EndOfContent` are the loop of
`preprocess` over physical lines. Each logical line is then dispatched:
`FlagLine` splits it whole, `PackageLine` only its options. The recursion of
`dispatchLine` is a loop over `tokens`, one directive per step (`Include`,
`Editable`, `FileOption`, `PackageToken`), and `attachReqOptions` another one over
the tail of an entry that is `pending`. `EndOfLine` stamps the line on what the
logical line gave. `BadLine`, `BadToken` and `BadOption` end the parse.
`ReaderRoundTrip` prints what was parsed and parses it again, without an
environment.

`CommentsInert` compares what was joined with a reading of the file in which
whole-line comments are blank, stated without a loop over `joined`.
`EveryMarkOnce` counts words, so it sees a value that is dropped, used twice, or
made into an entry of its own. `Printable` says which entries can be written at
all, and `PrintableRoundTrips` that those come back.

### Distribution (`distribution/`)

`Distribution` is one call of `Parse`, cut wherever the code calls into the file
system: `StatFile`, `StatDirectory`, `ReadEntry`, `EndDirectory` and `StatMissing`
collect the files the arguments name, `FindFile` and `NoMatch` look each up again
(a path that is gone is taken for a glob pattern, which matches only itself),
`Group` puts wheels first, `Separate` splits signatures off. Then, for each
distribution: `OpenZip`, `NotZip`, `OpenTar`, `OpenFails` and `NilReader` are
`NewArchiveReader` with its fall through from zip to tar; `FileNames`, `ReadFile`,
`NextCandidate` and `ReadFails` find the metadata, shortest path first; `Hash`,
`Sign` and `Size` follow. Every call that goes by a path opens it anew
(`OpenPath`), works on what it then has in hand (`handle`) and closes it on its
way out (`Released`); `Vanished` is such an open of a path that is gone. `Fail`
is an error return with all the deferred closes. `opened` counts descriptors:
the reader's (`held`) and that of the call under way, so two while the reader of
a tar keeps its own and one of its calls opens the path again. The open that
`zip.OpenReader` makes and closes before `NotZip` is the library's.

Between any two steps `Replace` may put another file in place of one that was
listed, or remove it: the program does not lock what it reads. A replacement is
atomic, as a rename is; each content has a `stamp`, so that properties can tell
which look at a file saw which content. An open descriptor goes on showing what
the file held when it was opened. A zip is read through the descriptor it
was opened with, a tar through its path. What a file holds is reduced to the kind
of archive and its members, and a document to the three fields that decide
whether it is accepted. An archive may break off after its members: then the
list of names fails. A member of a zip that cannot be read, and one whose document
is not acceptable, are one case: both are turned down for the next candidate. Names hold no glob metacharacters, and a directory that
could be listed can be read to its end.

### Tags, Matchers and Mirror (`tags/`)

`Tags` generates the ordered list of a target: platforms (the walk down each
libc series with its legacy aliases, macOS with its binary formats and the tail
of macOS 10), interpreters and ABIs (`CpTags`, `ImplTags`, `CompatibleTags`). A
tag is a triple, an interpreter or an ABI a tuple of a name and numbers.
`Matchers` is the compiled `Matcher` (`Compile`, `CompileAnyLibc`), where the
first position of a tag is its rank, with `Rank`, `IsCompatibleOrNewer` and
`BaselinesFor`.

`Mirror` is their use that `newer.go` describes: a mirror declares a target once
(`Declare`, `DeclareRelease` for a named distribution release, `DeclareAnyLibc`,
`Refuse`), looks at wheels as they appear (`See` collects what
`IsCompatibleOrNewer` accepts), while the host is upgraded (`Upgrade`) and
installs the best collected wheel (`Install`). So the question the mirror asked
once is compared with the answers a client gets later.

## 3. The runs

| Run | Checks | Shows |
|---|---|---|
| `flatten` | `TypeOK`, `VisitedIsStack`, `ImmediateConstraint`, `AllOrNothing`, `AliasedAsWritten`, `CycleIsReal`, `PromiseKept` | the walk's books are right on every way out, cycles are real, a file repeats inside itself only by a path written as it is, flags are the immediate directive's, and the answer is the promised one |
| `matching` | `PackedAgrees`, `OneOrder`, `ReleaseOrderCoarser`, `GapIsExact`, `PrefixIsConvex`, `PlainEqualMatchesAlike` | the two comparisons agree and are one order; operators leave out exactly what PEP 440 says; equal specifiers behave alike |
| `shared_compare` | `AnswersAreOrder`, `SharedIntact` | comparing copies from several goroutines writes to nothing shared and answers right |
| `and_sets` | `TypeOK`, `AndIsIntersection`, `NeverUniversalByAccident`, `PolicyIsCombined` | And is intersection along chains, with dedupe and distribution |
| `selection` | `OfferKeepsPromise`, `SetAgreesWithMember` | the offer is PEP 440's, for one specifier and for sets |
| `markers` | `AnswerIsTruth`, `Authoritative`, `OverridesApplied`, `ReadAsWritten`, `ReparsedAnswersAlike`, `VariablesSuffice` | a marker answers what its text says of the environment meant, stands under every completion when nothing was reported, survives being printed if no literal needs an escape, and depends on nothing `Variables` does not list |
| `reader` | `CommentsInert`, `EveryMarkOnce`, `PrintableRoundTrips` | comments are inert, every word of a line lands once in an entry of that line, and what can be written is read back whole |
| `distribution` | `WholeOrNothing`, `ExactWhereQuiet`, `NothingLeftOpen`, `Returns` | no file is lost or invented, digests belong to the text they are published with wherever the file stood still, every way out closes what it opened, and there is a way out |
| `mirror` | `NothingMissed`, `CollectedRunsSomeday`, `AnyLibcIsUnion`, `BaselinesCoverTargets`, `PreferenceStable`, `UpgradeKeepsWheels` | the relaxed question errs on no side that matters; a matcher of both libc families is their union, glibc first, each in its order but for what both list; an upgrade reverses no preference |
| `and_spelled` | `AndIsIntersection` (violated) | finding 1 below |
| `reader_comment` | `CommentsInert` (violated) | finding 2 below |
| `distribution_corrupt` | `NeverPanics` (violated) | finding 3 below |

Bounds, and why they are enough:

- `flatten`: four files in two directories and on a server, four targets (a
  relative one, an upward one, a rooted one with a superfluous "..", one that
  `net/url` refuses), eight texts of at most two entries, two roots, one spelled
  with a superfluous ".". The callback takes the working directory for the root
  of the file system, so "./a", "a", "/a" and "/../a" are one file, and the rooted
  target leads into a file the walk may be inside of. Enough for a self-include,
  a cycle of two through either root, a diamond (two directives in one file lead
  to one other), a `-c` over a `-r` and the reverse, an entry on each side of a
  directive, an alias through the root and one through a target.
  Four directives in a row lead to modelled paths; what only a longer chain leads
  to is `Beyond`, which names no file. `MaxNesting = 5` bounds the routes of the
  promise to five lines: no walk of this instance stands deeper, since
  the fifth directive in a row leads to no file or meets its cycle.
- `matching`: every packed field has two values and two segments fit. Each
  field is met at 0, at its limit and one past it. The widths only occur as
  shifts and limits, so a wider field adds no case, and `VersionsProofs` proves
  the properties for every width and all versions. Operands are final releases with and
  without trailing zeros, every kind of suffix, an epoch and a local version;
  those of `~=` in all three spellings.
- `shared_compare`: two goroutines and three versions up to three segments long:
  one shorter than its array by two zeros, one that fills its array and one that
  needs padding past the capacity of another. A torn read gives 9, which no
  segment is.
- `and_sets`: at most four groups in a product and four constraints in a chain
  (`MaxGroups`, `MaxAsked`); ten constraints with two spellings of one member,
  a disjunction, an operand that is no version, the universal set, the zero
  set, the zero specifier, and the policies.
- `selection`: three candidates out of five strings, in every order with
  repetition: a pre-release can stand before and after both a final release and
  another pre-release.
- `markers`: every text of up to three comparisons out of six, with every choice
  of "and", "or" and one pair of parentheses, and texts of four with nested and
  redundant parentheses: each level of precedence inside each other one. Beside
  them, alone and joined to one other, four comparisons with literals that only
  escapes can write: one whose value is read as something else the second time,
  one that no longer parses, one with both quotes, and one that comes back. The
  six comparisons are: an alias with a literal, a literal with an open version
  variable, a variable that `With` changes, two variables of which one is open,
  an operator without string semantics, an extra spelled another way. A
  supported target that leaves machine names alone, one that maps them, one
  that is not supported; a full version that needs repair and one without a
  minor; an override of an open variable and of a derived one, and a
  misspelled name. Open variables may turn out to be empty or one of two
  versions on either side of the literals.
- `reader`: every file of up to three lines out of eleven (continuations with and
  without text, blank lines, comments of each kind, a reference that expands to
  spaces or to a directive), of up to two lines out of those with options,
  every pair of a good line and one of fourteen bad ones, and every text of up
  to four marks (spaces, quotes, backslash, "#", a Unicode space) as the value
  of an option. In these files a comment that follows a continuation is
  indented; `reader_comment` has those that are not.
- `distribution`: two directories, in the first a wheel, a source distribution
  and a signature, in the second a signature of the same base name, which may be
  gone; a `.tar.bz2`
  and an `.egg` by name; six argument lists, among them one that names a file
  twice and one that holds only signatures. Every way an archive is opened or
  turned down or breaks off, documents at two depths, two at the same depth, two under one
  name, members without a document, unsupported versions and a name that reads
  "UNKNOWN". `MaxReplaced = 2`: a file can change and change back, or two files
  one each. In `distribution_corrupt` nothing is replaced.
- `mirror`: 19 declared targets and hosts, on both sides of the boundaries of the
  walks (the floor of a series, its legacy alias and below both, an older glibc
  major, its last minor, macOS 10 and 11 and the last macOS 10, a musl host newer
  than the latest known, the first free-threaded Python), 16 tag components, three
  releases. `MaxSeen = 2` wheels, because
  every property relates at most two.

`CHECK_DEADLOCK FALSE` where a behaviour really ends: a walk or a call of `Parse`
that has returned, a query or a marker that is answered, a file that is read, a
chain that reached its bound or a conflict, a target that is refused. In
`matching` and `shared_compare` deadlock is checked.

Fairness: `Flatten` assumes `WF_vars(Next)`. The walk runs on the caller's
goroutine and waits for nothing but `open`, which is assumed to return; nothing
else is assumed of it. `Distribution` assumes `WF_vars(Step)`: `Parse` goes on as
long as it has not returned, and system calls return. Nothing is assumed of the
disk: `Replace` has no fairness. No other module has a liveness property: their
loops range over slices that do not change.

### Findings

1. `and_spelled`: `dedupeSpecifiers` goes by `canonicalSpec`, which normalises
   the operand of `~=`, but `specifierCompatible` cuts its prefix from the operand
   as it is written. `~=1.0c1` (splits into 1, 0, c1) requires the prefix 1.0,
   `~=1.0rc1` the prefix 1. They count as equal, so `And` keeps the first, and
   the intersection depends on the order of its operands. The comment of
   `dedupeSpecifiers` says matching is unaffected.
2. `reader_comment`: a whole-line comment is joined to a pending continuation
   without a separator. With "#" in the first column, `-f=x\` and `#c` give the
   value `x#c`. The comment of `preprocess` says such a line is dropped.
3. `distribution_corrupt`: in `NewArchiveReader` the error of `gzip.NewReader`
   is replaced, in an inner block, by that of the `Close` that follows, so a file
   named `.tar.gz` that is not gzip gives neither a reader nor an error, and the
   first use of the reader panics. The comment at the head of `parse.go` says that
   `Parse` returns errors instead of raising.

Divergences met while modelling that no run shows:

- *Includes.* Cycles are found by spelling. With the root `/a`, the lines `-r b` in
  `a` and `-r /../a` in `b` walk `a` inside itself before the second spelling is met
  again and rejected: once per spelling, and a rooted or scheme-bearing target goes
  to `open` as written, so files can hold any number of them. What relative targets
  lead to has one spelling per root, as long as the files are told apart by their
  clean paths: a symbolic link, or a path that climbs out of the working directory
  and back in by name, is another spelling too. Both are excluded by `OneSpelling`.
- *Fall back.* The comment of `Specifiers.PreReleases` (`specifier_query.go:71-77`) says
  that a set of final-release specifiers falls back to pre-releases "while a single
  specifier queried directly does not". `Specifier.Filter` does fall back, and the
  examples in its own comment say so. `SetAgreesWithMember` states what the code and
  those examples do: one specifier and the set of it alone make the same offer.
- *Literals.* `quoteLiteral` writes the value of a literal without escapes, and
  the parser decodes them. A marker written with `"a\\b"` has the value a, backslash,
  b, is printed as `"a\b"`, and is read back as a and a backspace; `"C:\\q"` comes
  back as a syntax error, and so does a value with both kinds of quote (the comment
  of `quoteLiteral` names that last one only). The comment of `Marker.String`
  (`marker.go:60-61`) says that `Parse(m.String())` yields an equivalent marker.

- *Policies.* Equality ignores the policy a specifier was built with, so the
  intersection of two specifiers that differ in it keeps the policy of the first
  (`dedupeSpecifiers`). The comment of `And` says member policies are left alone.
- *Extras.* `evalCompare` hands a comparison with `extra` to `evalExtra` before
  empty variables are noted. With the active extra "5.4", `extra !=
  platform_release` is true while the release is open, false on a machine whose
  release is 5.4, and nothing is reported. The comment of `EvaluateUndecidable`
  says the bool is authoritative then. The sample of `markers` compares extras
  with literals only.
- *Printing.* `File.String` writes paths and targets without quotes, so the
  include of "x y" is read back as an include of x and a requirement y. Values
  whose only special marks are an apostrophe or a backslash, or that hold " #",
  are lost likewise; `Printable` lists the conditions. The comment of `String`
  says that every entry survives.
- *Distributions.* A comment at `internal/distributions/metadata.go:83` expects empty metadata where
  `GetHeaderAttrs` returns an error. `.tar.bz2` is a known extension that no
  reader opens; `.tgz` is one a reader opens and `Parse` does not know. A
  character U+FFFD in the metadata is taken for a failed decoding. Arguments that
  name only signatures give an empty list and no error. Signatures are matched by
  base name, so one from another directory may be attached.
- *Tags.* Linux hosts whose glibc or musl has a new major version lose tags of the
  old one (glibc minors beyond 50, all of musl), which is why `UpgradeKeepsWheels`
  speaks of one libc major. macOS 10.0 to 10.3 has no platform tag on x86_64, so a
  mirror for it has no compiled ABI in its index and takes no wheel with one, newer
  or not; the comment of `IsCompatibleOrNewer` knows no such exception.
  From macOS 11 on, a wheel for a minor version counts as newer although the walk
  will generate only `X_0`. `CompileAnyLibc` puts all of glibc's list, what both
  families list included, before the tags of musl alone. So a wheel for the bare
  `linux_<arch>` or for any platform is preferred to every musllinux wheel, where musl's
  own list has the musllinux tag of the same interpreter and ABI first, and
  `doc.go:24-27`, `generate.go:397-399` and `distro.go:151-153` say that a bare
  `linux_<arch>` ranks last, below every manylinux and musllinux tag.
  `AnyLibcIsUnion` says that this is the one way musl's order is turned round.

## 4. What is proved

TLAPS proves the theorems below for all values of the constants (any files, any
texts, any members, any operators, lists and chains of any length; the bounds
of the runs are not used). Every hypothesis beyond the named assumptions on
constants is given with the theorem that has it.

`FlattenProofs`: `TypeCorrect`, `VisitedIsTheStack`, `ConstraintIsImmediate`,
`NothingFromAFailedWalk`, `CyclesAreReal`, from `ConstantsAssumption` (paths
resolve to paths, `Text` holds entry sequences). None of the safety properties
is inductive alone. The invariant is the conjunction of `TypeOK`,
`VisitedIsStack`, `ImmediateConstraint`, `AllOrNothing` and `Bookkeeping`:
`Bookkeeping` ties the call about to begin to the directive before the top
frame's cursor, which is what `Enter` needs, and says which program points have
a stack, an error and a result. The key step is `Return`: deleting the top
path from `visited` removes exactly the top frame's path because no other
frame has it.

`FlattenProofs` also has the refinement: `PromiseIsKept` says that every walk that
ends implements `FlattenPromise`, for files nested to any depth (`Routes` is the
set of all sequences of line numbers), and `PromiseIsKeptWithin` the same for any
set of routes that holds those the walk comes to. That the walk ends is a hypothesis
(`<>(pc = "done")`): termination is liveness and stays with TLC. So the theorem
says that nothing but reads is seen before the answer, and that the one answer is
the promised one. The invariant `RInv` adds to the books of the walk where it stands:
the stack, read from the root, is a route (`Rooted`), each level iterates
over what its file still holds (`Open`), `Here` is the route of what is looked at
next, nothing that comes before it in reading order is a trouble (`Clear`), and what
the levels have collected, in the order of the stack, is exactly the entries of
the leaves before it (`Gathered`, through an enumeration of those leaves,
shared out to the levels). An error that is unwinding is the first trouble
(`Foretold`). The steps that matter are `Collect` and `Enter`, where `Here` moves to
the next route in reading order and nothing lies between, and `Return`, where a
whole file is behind: every route through it comes before the line after its
directive. At the end no route is left, so the number of entries before the n-th
leaf is n - 1, which is what `Place` asks.

`RepeatsAreAsWritten` proves `AliasedAsWritten` from `OneSpelling`: a path that a
relative target resolves to keeps the base of the file it stands in (`Base`: the
root, scheme or directory it hangs from), and under one base a file has one such path.
Nothing is assumed of how roots and rooted or scheme-bearing targets are spelled.
`MCFlatten` assumes `OneSpelling` of `resolveInclude` and its files, so TLC
evaluates it. Along a chain of relative targets the base is constant (`OneBase`, by
induction along the chain), so two levels of one with one file have one path, which
`VisitedIsStack` excludes.

`SelectionProofs`: `TypeCorrect`, `OfferIsThePromise`, `TwoPathsOneAnswer`, from
`MembersAssumption` (what a member admits is yes or no) and
`SubjectsAssumption`. The promise speaks of answered queries only, so it is not
inductive; the invariant adds what each loop has done for the candidates before
`n`: `MemberLoop`, `MatchLoop` and `PreferLoop` say which of them are kept, held
back and matched, and what `found` has seen. The interesting steps are the last
ones: when `EndMember` or `EndPrefer` puts the held pre-releases into the
answer or drops them, the flag `found` is exactly "some final release was
offered", so the one pass over the list decides the same as a look at all of
it. `TwoPathsOneAnswer` follows because both loops then decide by the same
condition, although one asks the member's policy and the other the set's.

`AndSetsProofs`: `TypeCorrect`, `NeverUniversal`, `PoliciesCombine`,
`AndIntersects`, from `MembersAssumption` and `ConstraintAssumption`. `Shape`
carries the first three: the accumulated set is well constructed, no finished
product group that another one will follow is empty, what `dedupeSpecifiers` has
seen are the canonical forms of what it kept, and everything kept stands in the
line.
`AndIntersects` adds `Progress`: between steps, the finished product groups
admit together what the finished pairs of groups admit. It has the hypothesis
`CanonicalSound` (members with one canonical form match alike and have one
policy), which is a statement about operators and their spellings: the code
does not meet it for every operand; finding 1 and the divergence on policies are the ways
it fails.
`MCAndSets` assumes it of the members of the run `and_sets`, so TLC evaluates it
there.

`MarkersProofs`: `TypeCorrect`, `OverridesAreApplied`, `AnswersAreTrue`,
`AnswersStand`, `VariablesAreEnough`, for expressions of any depth, from `ExprAssumption` (expressions
are closed under their operands), `EnvironmentAssumption` (typing) and
`TruthAssumption` (the equation that defines the reference meaning). The two
claims about answers are one proof: `Agreeing` is the declared environment and,
as long as nothing is reported, all its completions; reports only ever make it
smaller. `Chain` says of every activation on the stack that the operands before
the one under way have, in all of `Agreeing`, the value that decides nothing, and
that the activation above it evaluates the one under way; `Answered` says that
`result` is the truth of what has just returned, in all of `Agreeing`. At
`ReturnBool` these two add up to the truth of the whole operand list. At
`Compare` an answer without notes is shown to consult no open variable
(`CompareAgrees`). `AnswersStand` has the hypothesis `ExtrasAgainstLiterals`;
the divergence on extras is what happens without it. `Merging` carries `OverridesAreApplied`
over the keys visited so far. `VariablesAreEnough` goes by what the names collected
so far settle: `Settled` says that two environments alike in them give an
expression one value. A comparison is settled once its operands are collected,
a nested expression once its operands are settled; `Walking` says of every
activation of the walk that the operands before its cursor are. So the depth of
the tree needs no induction, and at the end the whole marker is settled.

`VersionsProofs`: `PackedIsGeneral`, `CompareIsAnOrder` and
`ReleaseOrderIsCoarser` for any parsed versions, and from them `PackingIsUnseen`,
`AllVersionsInOneOrder` and `ReleasesStayTogether` for the behaviours of
`VersionPairs`; from `WidthsAssumption` (what the fields of a packed word are and
that they fill it; nothing says how wide they are) and `ParsedAssumption`. Two
keys are compared place by place, so the argument is about the least place at
which they differ (`LeastNatural`, which is derived from the least element of a
set of numbers rather than by induction). A release padded with zeros to any
length that covers it has one order, which is why cutting trailing zeros off and
padding again, to whatever the other operand needs, changes nothing. A word is a
high and a low field, whose sum orders as the pair does (`PairOrder`); this is
used for two segments in one word and again for each nested field of the suffix,
after showing that nothing reaches the bits that are cut off (`SuffixFits`). The
order laws then come from the endless sequences (`ByPlaceOrder`), and the release
order from the same sequences with the suffix left out.

The laws of the operators are theorems about any parsed versions too
(`OnlyTheGapIsLeftOut`, `PrefixMatchesAStretch`, `EqualSpecifiersMatchAlike`) and
of the behaviours of `VersionPairs` (`GapsAreExact`, `PrefixesAreConvex`,
`EqualPlainSpecifiersMatchAlike`), from `BasesAssumption` (operands without a
local version) and `SpecsAssumption` (specifiers that are valid). For the gap,
`<V` and `>V` are turned into comparisons of keys with a condition on the suffix
(`OperatorsByKey`), and the versions that `PreReleasesFound` and
`PostReleasesFound` describe by their segments are shown to be those the code
excludes by derived versions. For the prefix, the components that are split off,
padded and cut agree with the prefix iff the segments do (`PrefixBySegments`): the
epoch, then as many numbers as the prefix has, zeros standing for the missing ones.
Versions whose first places agree are a stretch of the order by places. Equal
specifiers match alike because trailing zeros of an operand change no key that is
compared; with `~=` and prefixes, where they count, the canonical form keeps them.

`SharedCompareProofs`: `AnswersAreTheOrder` and `VersionsStayIntact`, for any
goroutines, any versions and any number of segments, from `LengthAssumption`,
`ReleaseAssumption` (a segment cut off is zero) and `BufferAssumption` (a new
buffer is no version). The invariant says, besides types and that the arrays of
versions are what they were (`Intact`), what each goroutine has: the arrays it
reads are its versions or its own buffers, what it has padded so far agrees with
the release, and what it has compared so far is equal. That the steps of others
disturb none of this is one lemma (`OthersKeep`): a step writes to buffers of the
goroutine that takes it and to nothing else.

`DistributionProofs`: `NoFileIsLost`, `DescriptorsAreClosed` and
`PackagesAreExact`, for any files, contents, argument lists and any number of
replacements, from `ListingAssumption`, `ArgumentsAssumption` (arguments name files
and directories, and nothing is both), `FileAssumption` (a name has a stem, an
extension and perhaps `.asc`) and `HoldsAssumption` (members of an archive are
a sequence and lie at a depth). `Accounted` counts each file through the stages: how often
it was named is how often it was found, rearranging keeps the count, and the
distributions and signatures separated so far make up what was walked; so at
the end each has one package or the call failed with none. `Resources` says at
which points a reader is held and which calls have a path open, and that `opened` is
the sum of the two.
`Faithful` is what `PackagesAreExact` needs beside it, one conjunct per stage:
what is listed and found is what was named (`Parted`), an open reader and an open
path show what stood in the file when it was opened and no later than now
(`Holding`, `Looking`), the
candidates still to be tried are the ones a look at the members finds, less those
that were turned down, in order of depth (`Searching`), what was read
comes from one of the shallowest of them (`Describing`), finished packages hold what
was read and hashed (`Made`), and on a quiet disk every failure has its file at
fault (`Quiet`). Stamps only grow, so a stamp that is zero at the end was zero at
each look, and all looks saw one content. The unstable sort is any
arrangement by depth, so the proof holds for each of its results.

`MirrorProofs`: all six properties of the mirror, for any targets, wheel
components and table of releases, from `TargetAssumption` (a target is a `Target` of
the code) and `BaselinesAssumption`. A generated list is read as a set and a
relation: `Lists(s, S, R)` says that `s` runs through `S` and that every two positions
are in `R`; concatenation and flattening then become unions and products, once and
for all. `PlatOrder` and `TagOrder` do not mention the declared version, so every two
lists of one interpreter and platform are sorted by the same relation, which has no
pair both ways round. That is `PreferencesAreStable`. The sets
only grow with the version within one libc major, and from macOS 10 on: `UpgradesKeepWheels`.
It has the hypothesis `TailReaches` (no macOS 10 target is later than 10.16):
a host that declared itself 10.17 would lose that tag on upgrading to 11.
`BaselinesAreCovered` follows from what platforms are listed,
`AnyLibcIsTheUnion` from `Union` being the one list with the rest of the other
behind it: both lists are sorted by one relation, so a pair of musl's tags can only
be turned round if glibc lists the one and not the other, and the families share no
platforms but the bare one and any (`SharedTags`). `MirrorMissesNothing` comes from an invariant (`Kept`): the host remains one
an upgrade of the declared target leads to, though it may be of either libc
family, and what was seen is decided. A tag the host runs is either in the
declared list or has the pair of interpreter and ABI of one and a platform
above the declared one. The hypothesis is that the declared target has a platform tag at
all. One without has no pair of an interpreter and a compiled ABI in its index, so
the mirror turns down every wheel with such an ABI, the ones an upgraded host runs
included: macOS 10.3 on x86_64 is such a target.

`CollectedWheelsRun` is the converse: what the mirror collects, some version of
its target runs. What was collected was accepted (`Accepted`, an invariant beside
`Kept`). An accepted tag is in the declared list, or has a pair of interpreter and
ABI from it and a newer platform, and then it is a tag of the target with the version
of the platform's own host (`NewerTag`; the binary formats of a macOS tag depend on the version
as well as on the architecture, and must be those the target has there).
The theorem needs two hypotheses. `EveryVersion`: hosts come in every version a
target could have, as they do for `Target == TargetType`; otherwise the upgrade
that runs the wheel may just be missing from the model. `Published`: wheels exist
only for platforms that some host accepts, and no tag of a platform joins
PyPy's bare `pp3` to `none`. The wheels of the run satisfy it, for the hosts
`TargetType` allows. It cannot be dropped: nothing generates `macosx_11_5` or a manylinux
tag below the floor of its architecture, and the relaxed question compares versions
alone; and `pp3-none-any` puts the pair (`pp3`, `none`) in the index of every PyPy
target, so `pp3-none-<newer platform>` is accepted though no list ever has it.

The prover has no induction over data (the library's theorems take an operator as a
parameter). Where a list or a sum of lengths needs it, the proofs go by the least number
at which a claim fails; that a set of numbers has a least one is proved from the
well-foundedness of inclusion among finite sets.

### What is only model-checked, and why

- That `Flatten` comes to an end (in `PromiseKept`) and that `Parse` does
  (`Returns`): liveness under fairness is outside the prover's reach.
- That `resolveInclude` gives a file one spelling through relative targets
  (`OneSpelling`): `path.Clean` recurs over segments.
- `ReadAsWritten` and `ReparsedAnswersAlike` are about recursive functions on
  texts and trees, the parser and `String` (induction over data, in modules with
  RECURSIVE operators).
- The properties of the reader are about folds over texts.

`SelectionProofs` and `MarkersProofs` prove `TypeCorrect` as well; no run checks
it, since the values are seen by the other invariants.

## 5. What is not modelled yet, and the plan

Order of the work left; each module comes with its run.

1. `AndSets` composed with `Selection` (intersect, then filter), and set
   construction from text (`splitOrSegments`, `parseGroup`) with
   `Specifiers.Equal`.
2. `Reader` composed with `Flatten`, in place of the constant that stands for
   `Parse`, and theorems about its control (one pending entry).
3. `Names` (build tags as a total order), `License` (precedence of sources).

Theorems still worth proving: the control of the reader (each word of a line is
taken once), and that the composition of intersection and selection offers what
all constraints allow.

Left out for good: grammars character by character (`internal/pep508`
tokenizer, SPDX expressions), generated data tables, rendering of error
messages.
