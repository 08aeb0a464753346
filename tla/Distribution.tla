---------------------------- MODULE Distribution ----------------------------
(***************************************************************************)
(* Reading distributions from disk (distribution/parse.go and the          *)
(* packages under distribution/internal): the files the arguments name are *)
(* listed, looked up again and grouped, then each is opened, its metadata  *)
(* found and parsed, and its path opened anew to be hashed, signed and     *)
(* measured.  Every step is a call into the file system, and between two   *)
(* of them a file may be replaced or removed: who opened it before goes on *)
(* reading what it held then.                                              *)
(***************************************************************************)
EXTENDS Integers, FiniteSets, SequencesExt

CONSTANTS
  Arguments,   \* the paths a caller may pass: sequences of files and directories
  Listing,     \* of each directory, the files it may hold, in order of their names
  Holds,       \* of each file, what may stand in it
  MaxReplaced  \* bound: files replaced or removed during a call

(* A file is a directory and a base name: a stem, an extension and whether *)
(* ".asc" follows.  What stands in a file is the kind of archive and its   *)
(* members in order; only a member that says "Metadata-Version" has a doc. *)
File  == DOMAIN Holds
Gone  == [kind |-> "gone", members |-> <<>>]
NoDoc == [version |-> "", project |-> "", release |-> ""]

ASSUME ListingAssumption == \A d \in DOMAIN Listing : Listing[d] \in Seq(File)

ASSUME ArgumentsAssumption ==
  /\ File \cap DOMAIN Listing = {}
  /\ Arguments \subseteq Seq(File \cup DOMAIN Listing)

ASSUME FileAssumption ==
  \A f \in File : f[2] \in [stem : {f[2].stem}, ext : {f[2].ext}, asc : BOOLEAN]

ASSUME HoldsAssumption ==
  \A f \in File : \A content \in Holds[f] :
    /\ content.members \in Seq(Range(content.members))
    /\ \A m \in Range(content.members) : m.name.depth \in Nat

VARIABLES
  disk,        \* of each file, what stands in it and how often it was replaced
  replaced,
  pc,
  paths, n,    \* the arguments, and the position in the list walked at the moment
  entries,     \* what is left to read of a directory
  files,       \* what the arguments name
  found,       \* what of it was there, then with wheels first
  signatures,  \* of that, the signatures by their base names
  distributions,  \* and the rest
  held,        \* the archive reader in use
  handle,      \* the file a call has opened by its path and not closed yet
  candidates,  \* names of members that may be the metadata
  pkg,         \* the package under construction
  out,         \* the packages made
  opened       \* file descriptors held

inputs  == <<paths, entries, files>>
parted  == <<signatures, distributions>>
listing == <<inputs, found, parted>>
reading == <<held, handle, candidates, pkg>>
vars    == <<disk, replaced, pc, n, listing, reading, out, opened>>

Exists(f) == disk[f].content # Gone

NoReader  == [archive |-> "none", at |-> [content |-> Gone, stamp |-> 0]]
NoPackage == [file |-> <<>>, doc |-> NoDoc, read |-> 0, digest |-> Gone, hashed |-> 0, signature |-> <<>>]

Init ==
  /\ disk \in [File -> [content : UNION {Holds[f] : f \in File}, stamp : {0}]]
  /\ \A f \in File : disk[f].content \in Holds[f]
  /\ replaced = 0
  /\ paths \in Arguments
  /\ pc = "stat" /\ n = 1
  /\ entries = <<>> /\ files = <<>> /\ found = <<>>
  /\ signatures = <<>> /\ distributions = <<>> /\ out = <<>>
  /\ held = NoReader /\ handle = NoReader /\ candidates = <<>> /\ pkg = NoPackage
  /\ opened = 0

\* Mutant: the file is left to the garbage collector.
Abandoned == opened

(* What is open once a file that was opened by its path is closed: before  *)
(* an error of NewArchiveReader, deferred in every other call.             *)
Released == IF handle = NoReader THEN opened ELSE opened - 1

(* The deferred Close of a reader, after that.                             *)
Closed == IF held = NoReader THEN Released ELSE Released - 1

Fail ==
  /\ pc' = "failed" /\ out' = <<>>
  /\ opened' = Closed /\ held' = NoReader /\ handle' = NoReader
  /\ UNCHANGED <<disk, replaced, n, listing, candidates, pkg>>

(***************************************************************************)
(* The files (Parse, findDistributions, groupWheelFilesFirst)              *)
(***************************************************************************)
Stating == pc = "stat" /\ n <= Len(paths)

StatFile ==
  /\ Stating /\ paths[n] \in File /\ Exists(paths[n])
  /\ files' = Append(files, paths[n]) /\ n' = n + 1
  /\ UNCHANGED <<disk, replaced, pc, paths, entries, found, parted, reading, out, opened>>

StatDirectory ==
  /\ Stating /\ paths[n] \in DOMAIN Listing
  /\ entries' = Listing[paths[n]]
  /\ pc' = "list"
  /\ UNCHANGED <<disk, replaced, n, paths, files, found, parted, reading, out, opened>>

(* A directory is read while others may write to it.                       *)
ReadEntry ==
  /\ pc = "list" /\ entries # <<>>
  /\ entries' = Tail(entries)
  /\ files' = IF Exists(Head(entries)) THEN Append(files, Head(entries)) ELSE files
  /\ UNCHANGED <<disk, replaced, pc, n, paths, found, parted, reading, out, opened>>

EndDirectory ==
  /\ pc = "list" /\ entries = <<>>
  /\ pc' = "stat" /\ n' = n + 1
  /\ UNCHANGED <<disk, replaced, listing, reading, out, opened>>

StatMissing == Stating /\ paths[n] \in File /\ ~Exists(paths[n]) /\ Fail

NoFiles == pc = "stat" /\ n > Len(paths) /\ files = <<>> /\ Fail

Find ==
  /\ pc = "stat" /\ n > Len(paths) /\ files # <<>>
  /\ pc' = "find" /\ n' = 1
  /\ UNCHANGED <<disk, replaced, listing, reading, out, opened>>

(* A file that is there no more is taken for a pattern; one without        *)
(* metacharacters stands for itself, if it is back by now.                 *)
FindFile ==
  /\ pc \in {"find", "glob"} /\ n <= Len(files)
  /\ IF Exists(files[n])
       THEN pc' = "find" /\ found' = Append(found, files[n]) /\ n' = n + 1
       ELSE pc = "find" /\ pc' = "glob" /\ UNCHANGED <<found, n>>
  /\ UNCHANGED <<disk, replaced, inputs, parted, reading, out, opened>>

NoMatch == pc = "glob" /\ ~Exists(files[n]) /\ Fail

IsSignature(f) == f[2].asc
IsWheel(f)     == f[2].ext = ".whl" /\ ~IsSignature(f)

Rearranged(s)  == {[k \in DOMAIN s |-> s[p[k]]] : p \in Bijection(DOMAIN s, DOMAIN s)}
WheelsFirst(s) == \A j, k \in DOMAIN s : j < k /\ IsWheel(s[k]) => IsWheel(s[j])

\* Mutant: the order of the arguments is kept.
AsFound(s) == {s}

(* sort.Slice promises no order among equals.                              *)
GroupWheelFilesFirst(s) ==
  IF \A k \in DOMAIN s : ~IsWheel(s[k]) THEN {s}
  ELSE {t \in Rearranged(s) : WheelsFirst(t)}

Group ==
  /\ pc = "find" /\ n > Len(files)
  /\ found' \in GroupWheelFilesFirst(found)
  /\ pc' = "separate" /\ n' = 1
  /\ UNCHANGED <<disk, replaced, inputs, parted, reading, out, opened>>

(* Of two signatures with one base name the later one counts.              *)
Separate ==
  /\ pc = "separate" /\ n <= Len(found)
  /\ IF IsSignature(found[n])
       THEN /\ signatures' = [name \in DOMAIN signatures \cup {found[n][2]} |->
                                 IF name = found[n][2] THEN found[n] ELSE signatures[name]]
            /\ UNCHANGED distributions
       ELSE distributions' = Append(distributions, found[n]) /\ UNCHANGED signatures
  /\ n' = n + 1
  /\ UNCHANGED <<disk, replaced, pc, inputs, found, reading, out, opened>>

Separated ==
  /\ pc = "separate" /\ n > Len(found)
  /\ pc' = "open" /\ n' = 1
  /\ UNCHANGED <<disk, replaced, listing, reading, out, opened>>

Current == distributions[n]

SignatureOf(f) ==
  LET name == [f[2] EXCEPT !.asc = TRUE]
  IN  IF name \in DOMAIN signatures THEN signatures[name] ELSE <<>>

Making == pc = "open" /\ n <= Len(distributions)

(***************************************************************************)
(* The archive (NewDistributionMetadata, NewArchiveReader)                 *)
(***************************************************************************)
DistExtensions == [whl |-> ".whl", bz2 |-> ".tar.bz2", gz |-> ".tar.gz", zip |-> ".zip"]
KnownFormat(f) == f[2].ext \in Range(DistExtensions)
Fragment(f)    == IF f[2].ext = DistExtensions.whl THEN "METADATA" ELSE "PKG-INFO"

OpenZip ==
  /\ Making /\ KnownFormat(Current) /\ disk[Current].content.kind = "zip"
  /\ held' = [archive |-> "zip", at |-> disk[Current]]
  /\ opened' = opened + 1
  /\ pc' = "names"
  /\ UNCHANGED <<disk, replaced, n, listing, handle, candidates, pkg, out>>

NotZip ==
  /\ Making /\ KnownFormat(Current)
  /\ Exists(Current) /\ disk[Current].content.kind # "zip"
  /\ pc' = "tar"
  /\ UNCHANGED <<disk, replaced, n, listing, reading, out, opened>>

NotFound == Making /\ ~(KnownFormat(Current) /\ Exists(Current)) /\ Fail

(* os.Open: by NewArchiveReader for a tar, by each call of the tar reader, *)
(* which keeps no more than the path, by Hash and by AddGPGSignature.      *)
Wanted == IF pc = "sign" THEN SignatureOf(Current) ELSE Current

Opening ==
  /\ handle = NoReader
  /\ \/ pc \in {"tar", "hash"}
     \/ pc = "names" /\ held.archive = "tar"
     \/ pc = "read" /\ held.archive = "tar" /\ candidates # <<>>
     \/ pc = "sign" /\ SignatureOf(Current) # <<>>

OpenPath ==
  /\ Opening /\ Exists(Wanted)
  /\ handle' = [archive |-> "path", at |-> disk[Wanted]]
  /\ opened' = opened + 1
  /\ UNCHANGED <<disk, replaced, pc, n, listing, held, candidates, pkg, out>>

Vanished ==
  /\ \/ Opening /\ ~Exists(Wanted)
     \/ pc = "size" /\ ~Exists(Current)
  /\ Fail

\* A gzip stream, one with a tar header at its start, and one whose headers
\* can be read to the last ("torn" is one that breaks off after its members).
Gunzips(content)   == content.kind \in {"tar.gz", "torn tar.gz", "empty tar.gz"}
HasHeader(content) == content.kind \in {"tar.gz", "torn tar.gz"}
Entire(content)    == content.kind \in {"tar.gz", "empty tar.gz"}

\* The file NewArchiveReader has opened.
AtHand == handle # NoReader /\ pc = "tar"
IsTar  == Current[2].ext = DistExtensions.gz

OpenTar ==
  /\ AtHand /\ IsTar /\ HasHeader(handle.at.content)
  /\ held' = [archive |-> "tar", at |-> handle.at]
  /\ handle' = NoReader
  /\ pc' = "names"
  /\ UNCHANGED <<disk, replaced, n, listing, candidates, pkg, out, opened>>

OpenFails ==
  /\ AtHand /\ (IsTar => Gunzips(handle.at.content) /\ ~HasHeader(handle.at.content))
  /\ pc' = "failed" /\ out' = <<>>
  /\ opened' = Released /\ handle' = NoReader
  /\ UNCHANGED <<disk, replaced, n, listing, held, candidates, pkg>>

(* The error of gzip.NewReader is shadowed by that of Close: no reader and *)
(* no error come back, and the first call of the reader panics.            *)
NilReader ==
  /\ AtHand /\ IsTar /\ ~Gunzips(handle.at.content)
  /\ pc' = "panicked" /\ out' = <<>>
  /\ opened' = Released /\ handle' = NoReader
  /\ UNCHANGED <<disk, replaced, n, listing, held, candidates, pkg>>

(***************************************************************************)
(* The metadata (SDist.read, Wheel.read, BaseDistribution.Parse)           *)
(***************************************************************************)
(* A zip is read through the descriptor it was opened with, a tar through  *)
(* its path, opened anew for each call beside the descriptor of the reader.*)
Open   == held.archive = "zip" \/ handle # NoReader
Source == IF held.archive = "zip" THEN held.at ELSE handle.at

\* Mutant: the first member with that name in it.
AsStored(members, wanted) ==
  {p \in Bijection(1 .. Cardinality(wanted), wanted) : \A j, k \in DOMAIN p : j < k => p[j] < p[k]}

\* Shortest path first, in any order among equals.
ByDepth(members, wanted) ==
  {p \in Bijection(1 .. Cardinality(wanted), wanted) :
     \A j, k \in DOMAIN p : j < k => members[p[j]].name.depth <= members[p[k]].name.depth}

Candidates(members, fragment) ==
  LET wanted == {k \in DOMAIN members : members[k].name.info = fragment}
  IN  {[j \in DOMAIN p |-> members[p[j]].name] : p \in ByDepth(members, wanted)}

Listable == held.archive = "zip" \/ Entire(Source.content)

FileNames ==
  /\ pc = "names" /\ Open /\ Listable
  /\ candidates' \in Candidates(Source.content.members, Fragment(Current))
  /\ pc' = "read"
  /\ opened' = Released /\ handle' = NoReader
  /\ UNCHANGED <<disk, replaced, n, listing, held, pkg, out>>

NoFileNames == pc = "names" /\ Open /\ ~Listable /\ Fail

(* The first member of that name, if there is one.                         *)
DocNamed(members, name) ==
  {members[k].doc : k \in {i \in DOMAIN members :
     members[i].name = name /\ \A j \in 1 .. i - 1 : members[j].name # name}}

Supported == {"1.0", "2.1", "2.6"}
Text(value) == IF value = "UNKNOWN" THEN "" ELSE value

(* GetHeaderAttrs, and the required fields of NewDistributionMetadata.     *)
Acceptable(doc) == doc.version \in Supported /\ Text(doc.project) # "" /\ Text(doc.release) # ""

Tried == DocNamed(Source.content.members, Head(candidates))

Readable == held.archive = "zip" \/ Gunzips(Source.content)

ReadFile ==
  /\ pc = "read" /\ candidates # <<>> /\ Open /\ Readable
  /\ \E doc \in Tried :
       /\ Acceptable(doc)
       /\ pkg' = [NoPackage EXCEPT !.file = Current, !.doc = doc, !.read = Source.stamp]
  /\ pc' = "hash"
  /\ opened' = Closed /\ held' = NoReader /\ handle' = NoReader
  /\ UNCHANGED <<disk, replaced, n, listing, candidates, out>>

\* Mutant: a member without the line is tried again.
Retried == candidates

Untried == Tail(candidates)

NextCandidate ==
  /\ pc = "read" /\ candidates # <<>> /\ Open /\ Readable /\ Tried = {NoDoc}
  /\ candidates' = Untried
  /\ opened' = Released /\ handle' = NoReader
  /\ UNCHANGED <<disk, replaced, pc, n, listing, held, pkg, out>>

ReadFails ==
  /\ pc = "read"
  /\ candidates # <<>> =>
       Open /\ (Readable => \A doc \in Tried : doc # NoDoc /\ ~Acceptable(doc))
  /\ Fail

(***************************************************************************)
(* Digests, signature and size (NewPackageFile, makePackage)               *)
(***************************************************************************)
Hash ==
  /\ pc = "hash" /\ handle # NoReader
  /\ pkg' = [pkg EXCEPT !.digest = handle.at.content, !.hashed = handle.at.stamp]
  /\ pc' = "sign"
  /\ opened' = Released /\ handle' = NoReader
  /\ UNCHANGED <<disk, replaced, n, listing, held, candidates, out>>

Sign ==
  /\ pc = "sign"
  /\ SignatureOf(Current) # <<>> => handle # NoReader
  /\ pkg' = [pkg EXCEPT !.signature = SignatureOf(Current)]
  /\ pc' = "size"
  /\ opened' = Released /\ handle' = NoReader
  /\ UNCHANGED <<disk, replaced, n, listing, held, candidates, out>>

Size ==
  /\ pc = "size" /\ Exists(Current)
  /\ out' = Append(out, pkg) /\ n' = n + 1
  /\ pc' = "open"
  /\ UNCHANGED <<disk, replaced, listing, reading, opened>>

Return ==
  /\ pc = "open" /\ n > Len(distributions)
  /\ pc' = "done"
  /\ UNCHANGED <<disk, replaced, n, listing, reading, out, opened>>

(***************************************************************************)
(* The disk: a file is replaced as a whole (a rename), or removed          *)
(***************************************************************************)
Over == pc \in {"done", "failed", "panicked"}

Replace(f, content) ==
  /\ ~Over /\ replaced < MaxReplaced /\ content # disk[f].content
  /\ disk' = [disk EXCEPT ![f] = [content |-> content, stamp |-> @.stamp + 1]]
  /\ replaced' = replaced + 1
  /\ UNCHANGED <<pc, n, listing, reading, out, opened>>

Step ==
  \/ StatFile \/ StatDirectory \/ ReadEntry \/ EndDirectory \/ StatMissing \/ NoFiles
  \/ Find \/ FindFile \/ NoMatch \/ Group \/ Separate \/ Separated
  \/ OpenZip \/ NotZip \/ NotFound \/ OpenPath \/ OpenTar \/ OpenFails \/ NilReader
  \/ FileNames \/ NoFileNames \/ ReadFile \/ NextCandidate \/ ReadFails
  \/ Hash \/ Sign \/ Size \/ Vanished \/ Return

Next == Step \/ \E f \in File : \E content \in Holds[f] : Replace(f, content)

Spec == Init /\ [][Next]_vars /\ WF_vars(Step)

(***************************************************************************)
(* Properties                                                              *)
(***************************************************************************)

NamedBy(p) == IF p \in DOMAIN Listing THEN {f \in Range(Listing[p]) : Exists(f)} ELSE {p}
AllNamed   == UNION {NamedBy(paths[k]) : k \in DOMAIN paths}

Count(s, f) == Cardinality({k \in DOMAIN s : s[k] = f})

(* Parse returns a package for every distribution it listed, as often as   *)
(* it was named and wheels first, or an error and nothing, whatever        *)
(* happens to the files meanwhile (parse's loop, groupWheelFilesFirst).    *)
WholeOrNothing ==
  /\ pc = "done" =>
       /\ \A f \in Range(files) \cup {out[k].file : k \in DOMAIN out} :
            Cardinality({k \in DOMAIN out : out[k].file = f}) = IF IsSignature(f) THEN 0 ELSE Count(files, f)
       /\ \A j, k \in DOMAIN out : j < k /\ IsWheel(out[k].file) => IsWheel(out[j].file)
  /\ pc \in {"failed", "panicked"} => out = <<>>

Opens(f, content) ==
  KnownFormat(f) /\ (content.kind = "zip" \/ (content.kind = "tar.gz" /\ f[2].ext = ".tar.gz"))

(* What a single look at the file finds: of the documents its name calls   *)
(* for, those with the shortest path.                                      *)
DocsOf(f, content) ==
  LET first(m) == \A k \in DOMAIN content.members :
                    content.members[k].name = m.name => \E j \in 1 .. k : content.members[j] = m
      docs == {m \in Range(content.members) : m.name.info = Fragment(f) /\ first(m) /\ m.doc # NoDoc}
  IN  {m.doc : m \in {d \in docs : \A e \in docs : d.name.depth <= e.name.depth}}

AtFault(f) ==
  \/ ~Exists(f)
  \/ ~IsSignature(f) /\ ~(Opens(f, disk[f].content) /\ DocsOf(f, disk[f].content) # {}
                          /\ \A d \in DocsOf(f, disk[f].content) : Acceptable(d))

(* A package whose file nobody touched says what the file says, beside the *)
(* digest of the same bytes, and bears a signature of its own name if one  *)
(* was found; a file that was replaced is never described by a newer text  *)
(* than the bytes hashed.  On a quiet disk only a file at fault is an      *)
(* error (NewPackageFile's two passes, makePackage).                       *)
ExactWhereQuiet ==
  /\ \A k \in DOMAIN out :
       LET f == out[k].file
           signed == {s \in Range(found) : s[2] = [f[2] EXCEPT !.asc = TRUE]}
       IN  /\ out[k].read <= out[k].hashed
           /\ disk[f].stamp = 0 =>
                out[k].digest = disk[f].content /\ out[k].doc \in DocsOf(f, disk[f].content)
           /\ IF signed = {} THEN out[k].signature = <<>> ELSE out[k].signature \in signed
  /\ pc = "failed" /\ replaced = 0 => AllNamed = {} \/ \E f \in AllNamed : AtFault(f)

(* However Parse ends, it holds no file open any more, and on the way at   *)
(* most one, or two while the reader of a tar keeps its own descriptor and *)
(* each of its calls opens the path again (the closes of NewArchiveReader's*)
(* error paths, the deferred ones of the readers, of Hash and of           *)
(* AddGPGSignature).                                                       *)
NothingLeftOpen ==
  /\ opened \in 0 .. (IF held.archive = "tar" THEN 2 ELSE 1)
  /\ Over => opened = 0

(* Parse comes to an end: no loop over arguments, files or members turns   *)
(* on the spot (parse, SDist.read, Wheel.read).                            *)
Returns == <>Over

(* "Parse return Go errors instead of raising" (parse.go).                 *)
NeverPanics == pc # "panicked"
=============================================================================
