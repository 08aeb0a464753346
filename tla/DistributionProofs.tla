------------------------- MODULE DistributionProofs -------------------------
(***************************************************************************)
(* Proofs about Distribution, for all arguments, directories and contents  *)
(* and however often the files are replaced.                               *)
(***************************************************************************)
EXTENDS Distribution, SequenceTheorems, FiniteSetTheorems, FunctionTheorems, TLAPS

(* A reader is in use exactly between opening an archive and the return of *)
(* the read that opened it, and a path is open only in a call that reads   *)
(* it; each is one descriptor.                                             *)
Resources ==
  /\ pc \in {"names", "read"} <=> held # NoReader
  /\ held = NoReader \/ held.archive \in {"zip", "tar"}
  /\ handle = NoReader \/ pc \in {"tar", "hash", "sign"} \/ (held # NoReader /\ held.archive = "tar")
  /\ opened = (IF held = NoReader THEN 0 ELSE 1) + (IF handle = NoReader THEN 0 ELSE 1)

(* An opened file is never the one of no archive.                          *)
LEMMA NoReaderOpened ==
  \A at : \A archive \in {"zip", "tar", "path"} : [archive |-> archive, at |-> at] # NoReader
BY DEF NoReader

(* Parse starts with nothing open.                                         *)
LEMMA ResourcesInit == Init => Resources
BY DEF Init, Resources

(* What is closed is what is open.                                         *)
LEMMA ClosedIsNone ==
  ASSUME Resources
  PROVE  Closed = 0 /\ Released = IF held = NoReader THEN 0 ELSE 1
BY DEF Resources, Closed, Released

(* Every error goes through Fail, which runs the deferred Closes.          *)
LEMMA FailResources == Resources /\ Fail => Resources'
<1> SUFFICES ASSUME Resources, Fail PROVE Resources'
  OBVIOUS
<1>1. pc' = "failed" /\ opened' = 0 /\ held' = NoReader /\ handle' = NoReader
  BY ClosedIsNone DEF Fail
<1>2. QED
  BY <1>1 DEF Resources

(* No step up to the separation of the files opens anything.               *)
LEMMA ListingResources ==
  ASSUME Resources,
         \/ StatFile \/ StatDirectory \/ ReadEntry \/ EndDirectory \/ Find \/ FindFile
         \/ Group \/ Separate \/ Separated \/ Return
  PROVE  Resources'
BY DEF Resources, Stating, StatFile, StatDirectory, ReadEntry, EndDirectory, Find, FindFile, Group,
       Separate, Separated, Return, reading

(* A file that opens is counted once, one that does not is not, and the    *)
(* descriptor of a tar goes over to its reader.                            *)
LEMMA OpeningResources ==
  ASSUME Resources, OpenZip \/ NotZip \/ OpenPath \/ OpenTar \/ OpenFails \/ NilReader
  PROVE  Resources'
<1>1. CASE OpenZip
  <2>1. /\ pc = "open" /\ pc' = "names" /\ opened' = opened + 1 /\ UNCHANGED handle
        /\ held' # NoReader /\ held'.archive = "zip"
    BY <1>1, NoReaderOpened DEF OpenZip, Making
  <2>2. held = NoReader /\ handle = NoReader /\ opened = 0
    BY <2>1 DEF Resources
  <2>3. QED
    BY <2>1, <2>2 DEF Resources
<1>2. CASE NotZip
  BY <1>2 DEF Resources, NotZip, Making, reading
<1>3. CASE OpenPath
  <2>1. Opening /\ handle' # NoReader /\ opened' = opened + 1 /\ UNCHANGED <<pc, held>>
    BY <1>3, NoReaderOpened DEF OpenPath
  <2>2. handle = NoReader /\ (pc \in {"tar", "hash", "sign"} \/ (pc \in {"names", "read"} /\ held.archive = "tar"))
    BY <2>1 DEF Opening
  <2>3. opened' = (IF held' = NoReader THEN 0 ELSE 1) + 1
    BY <2>1, <2>2 DEF Resources
  <2>4. QED
    BY <2>1, <2>2, <2>3 DEF Resources
<1>4. CASE OpenTar
  <2>1. /\ pc = "tar" /\ pc' = "names" /\ handle # NoReader /\ handle' = NoReader /\ UNCHANGED opened
        /\ held' # NoReader /\ held'.archive = "tar"
    BY <1>4, NoReaderOpened DEF OpenTar, AtHand
  <2>2. held = NoReader /\ opened = 1
    BY <2>1 DEF Resources
  <2>3. QED
    BY <2>1, <2>2 DEF Resources
<1>5. CASE OpenFails \/ NilReader
  <2>1. /\ pc = "tar" /\ pc' \in {"failed", "panicked"} /\ opened' = Released
        /\ handle' = NoReader /\ UNCHANGED held
    BY <1>5 DEF OpenFails, NilReader, AtHand
  <2>2. QED
    BY <2>1, ClosedIsNone DEF Resources
<1>6. QED
  BY <1>1, <1>2, <1>3, <1>4, <1>5

(* Reading the members closes the path, and the reader at the end.         *)
LEMMA ReadingResources ==
  ASSUME Resources, FileNames \/ ReadFile \/ NextCandidate
  PROVE  Resources'
<1>1. CASE FileNames \/ NextCandidate
  <2>1. /\ pc \in {"names", "read"} /\ pc' = "read" /\ opened' = Released
        /\ handle' = NoReader /\ UNCHANGED held
    BY <1>1 DEF FileNames, NextCandidate
  <2>2. QED
    BY <2>1, ClosedIsNone DEF Resources
<1>2. CASE ReadFile
  <2>1. pc' = "hash" /\ opened' = Closed /\ held' = NoReader /\ handle' = NoReader
    BY <1>2 DEF ReadFile
  <2>2. QED
    BY <2>1, ClosedIsNone DEF Resources
<1>3. QED
  BY <1>1, <1>2

(* Hashing and signing close what they opened, measuring opens nothing.    *)
LEMMA MakingResources ==
  ASSUME Resources, Hash \/ Sign \/ Size
  PROVE  Resources'
<1>1. CASE Hash \/ Sign
  <2>1. /\ pc \in {"hash", "sign"} /\ pc' \in {"sign", "size"} /\ opened' = Released
        /\ handle' = NoReader /\ UNCHANGED held
    BY <1>1 DEF Hash, Sign
  <2>2. QED
    BY <2>1, ClosedIsNone DEF Resources
<1>2. CASE Size
  BY <1>2 DEF Resources, Size, reading
<1>3. QED
  BY <1>1, <1>2

(* The count is right after every step, those of other processes included. *)
LEMMA ResourcesNext == Resources /\ [Next]_vars => Resources'
<1> SUFFICES ASSUME Resources, [Next]_vars PROVE Resources'
  OBVIOUS
<1>1. CASE Step
  <2>1. Fail => Resources'
    BY FailResources
  <2>2. CASE StatMissing \/ NoFiles \/ NoMatch \/ NotFound \/ NoFileNames \/ ReadFails \/ Vanished
    BY <2>1, <2>2 DEF StatMissing, NoFiles, NoMatch, NotFound, NoFileNames, ReadFails, Vanished
  <2>3. QED
    BY <1>1, <2>2, ListingResources, OpeningResources, ReadingResources, MakingResources DEF Step
<1>2. ASSUME NEW f \in File, NEW content \in Holds[f], Replace(f, content) PROVE Resources'
  BY <1>2 DEF Resources, Replace, reading
<1>3. CASE UNCHANGED vars
  BY <1>3 DEF Resources, vars, reading
<1>4. QED
  BY <1>1, <1>2, <1>3 DEF Next

(* No file is open once Parse is over, on every path: success, each error, *)
(* and the panic; before that at most one, or the path of a tar beside its *)
(* reader's own.                                                           *)
THEOREM DescriptorsAreClosed == Spec => []NothingLeftOpen
<1>1. Resources => NothingLeftOpen
  BY DEF Resources, NothingLeftOpen, Over
<1>2. QED
  BY <1>1, ResourcesInit, ResourcesNext, PTL DEF Spec

(***************************************************************************)
(* How often a file occurs in a list                                       *)
(***************************************************************************)
(* Its occurrences among the first m elements.                             *)
CountTo(s, f, m) == Cardinality({k \in 1 .. m : s[k] = f})

(* A count is a natural number, of a finite set.                           *)
LEMMA CountToNat ==
  ASSUME NEW s, NEW f, NEW m \in Nat
  PROVE  CountTo(s, f, m) \in Nat /\ IsFiniteSet({k \in 1 .. m : s[k] = f})
<1>1. IsFiniteSet(1 .. m)
  BY FS_Interval
<1>2. IsFiniteSet({k \in 1 .. m : s[k] = f})
  BY <1>1, FS_Subset
<1>3. QED
  BY <1>2, FS_CardinalityType DEF CountTo

(* Nothing counts nothing.                                                 *)
LEMMA CountToZero == \A s, f : CountTo(s, f, 0) = 0
<1>1. 1 .. 0 = {}
  OBVIOUS
<1>2. QED
  BY <1>1, FS_EmptySet DEF CountTo

(* One position more counts one more, or the same.                         *)
LEMMA CountToStep ==
  ASSUME NEW s, NEW f, NEW m \in Nat
  PROVE  CountTo(s, f, m + 1) = CountTo(s, f, m) + (IF s[m + 1] = f THEN 1 ELSE 0)
<1> DEFINE Upto(j) == {k \in 1 .. j : s[k] = f}
<1>1. IsFiniteSet(Upto(m)) /\ CountTo(s, f, m) \in Nat
  BY CountToNat
<1>2. CASE s[m + 1] = f
  <2>1. Upto(m + 1) = Upto(m) \cup {m + 1} /\ m + 1 \notin Upto(m)
    BY <1>2
  <2>2. QED
    BY <1>1, <1>2, <2>1, FS_AddElement DEF CountTo
<1>3. CASE s[m + 1] # f
  <2>1. Upto(m + 1) = Upto(m)
    BY <1>3
  <2>2. QED
    BY <1>1, <1>3, <2>1 DEF CountTo
<1>4. QED
  BY <1>2, <1>3

(* The count over a sequence is the count up to its length.                *)
LEMMA CountIsCountTo ==
  ASSUME NEW S, NEW s \in Seq(S), NEW f
  PROVE  Count(s, f) = CountTo(s, f, Len(s))
<1>1. DOMAIN s = 1 .. Len(s)
  OBVIOUS
<1>2. QED
  BY <1>1 DEF Count, CountTo

(* A count depends on the positions it looks at alone.                     *)
LEMMA CountSame ==
  ASSUME NEW s, NEW t, NEW f, NEW m \in Nat, \A k \in 1 .. m : s[k] = t[k]
  PROVE  CountTo(s, f, m) = CountTo(t, f, m)
<1>1. {k \in 1 .. m : s[k] = f} = {k \in 1 .. m : t[k] = f}
  OBVIOUS
<1>2. QED
  BY <1>1 DEF CountTo

(* An element appended adds to its own count alone.                        *)
LEMMA CountAppend ==
  ASSUME NEW S, NEW s \in Seq(S), NEW x \in S, NEW f
  PROVE  Count(Append(s, x), f) = Count(s, f) + (IF x = f THEN 1 ELSE 0)
<1>1. /\ Append(s, x) \in Seq(S) /\ Len(Append(s, x)) = Len(s) + 1 /\ Len(s) \in Nat
      /\ \A k \in 1 .. Len(s) : Append(s, x)[k] = s[k]
      /\ Append(s, x)[Len(s) + 1] = x
  BY AppendProperties
<1>2. Count(Append(s, x), f) = CountTo(Append(s, x), f, Len(s)) + (IF x = f THEN 1 ELSE 0)
  <2>1. Count(Append(s, x), f) = CountTo(Append(s, x), f, Len(s) + 1)
    BY <1>1, CountIsCountTo
  <2>2. \A a : CountTo(a, f, Len(s) + 1) = CountTo(a, f, Len(s)) + (IF a[Len(s) + 1] = f THEN 1 ELSE 0)
    BY <1>1, CountToStep
  <2>3. QED
    BY <1>1, <2>1, <2>2
<1>3. CountTo(Append(s, x), f, Len(s)) = CountTo(s, f, Len(s))
  BY ZenonT(60), <1>1, CountSame
<1>4. QED
  BY <1>2, <1>3, CountIsCountTo

(* Putting the wheel files first (groupWheelFilesFirst) loses and repeats  *)
(* none.                                                                   *)
LEMMA CountRearranged ==
  ASSUME NEW S, NEW s \in Seq(S), NEW t \in Rearranged(s), NEW f
  PROVE  t \in Seq(S) /\ Count(t, f) = Count(s, f)
<1> DEFINE D == DOMAIN s
           From == {k \in D : t[k] = f}
           To   == {k \in D : s[k] = f}
<1>1. PICK p \in Bijection(D, D) : t = [k \in D |-> s[p[k]]]
  BY DEF Rearranged
<1>2. p \in [D -> D] /\ (\A a, b \in D : p[a] = p[b] => a = b) /\ \A y \in D : \E x \in D : p[x] = y
  BY DEF Bijection, Injection, Surjection, IsInjective
<1>3. D = 1 .. Len(s) /\ Len(s) \in Nat
  OBVIOUS
<1>4. t \in Seq(S) /\ DOMAIN t = D
  BY <1>1, <1>2, <1>3
<1> DEFINE q == [k \in From |-> p[k]]
<1>5. q \in Bijection(From, To)
  <2>1. q \in [From -> To]
    BY <1>1, <1>2
  <2>2. \A a, b \in From : q[a] = q[b] => a = b
    BY <1>2
  <2>3. \A y \in To : \E x \in From : q[x] = y
    BY <1>1, <1>2
  <2>4. QED
    BY <2>1, <2>2, <2>3, Fun_IsBij, Fun_IsInj, Fun_IsSurj
<1>6. IsFiniteSet(From)
  <2>1. IsFiniteSet(D)
    BY <1>3, FS_Interval
  <2>2. QED
    BY <2>1, FS_Subset
<1>7. Cardinality(From) = Cardinality(To)
  BY <1>5, <1>6, FS_Bijection DEF ExistsBijection
<1>8. QED
  BY <1>4, <1>7 DEF Count

(***************************************************************************)
(* What becomes of the files named                                         *)
(***************************************************************************)
IsASequence(s) == \E S : s \in Seq(S)

(* The lists of Parse hold files.                                          *)
Lists ==
  /\ files \in Seq(File) /\ entries \in Seq(File)
  /\ found \in Seq(File) /\ distributions \in Seq(File)
  /\ n \in Nat \ {0} /\ IsASequence(out)

(* Until the files are separated nothing is left out and nothing made.     *)
Naming  == pc \in {"stat", "list"} => found = <<>> /\ distributions = <<>> /\ out = <<>>
Finding ==
  pc \in {"find", "glob"} =>
    /\ distributions = <<>> /\ out = <<>>
    /\ n <= Len(files) + 1 /\ Len(found) = n - 1
    /\ \A k \in 1 .. n - 1 : found[k] = files[k]

(* The loop of Separate: what is before n is in distributions, unless it   *)
(* is a signature, and in the same order.                                  *)
Separating ==
  pc = "separate" =>
    /\ out = <<>> /\ n <= Len(found) + 1
    /\ WheelsFirst(found) /\ WheelsFirst(distributions)
    /\ \A f \in File :
         /\ Count(found, f) = Count(files, f)
         /\ Count(distributions, f) = IF IsSignature(f) THEN 0 ELSE CountTo(found, f, n - 1)
    /\ \A k \in DOMAIN distributions : \E i \in 1 .. n - 1 : distributions[k] = found[i]

(* An archive is being read or described.                                  *)
Reading == pc \in {"tar", "names", "read", "hash", "sign", "size"}

(* The loop of parse: the packages made are those of the first n - 1       *)
(* distributions.                                                          *)
Packing ==
  pc = "open" \/ Reading \/ pc = "done" =>
    /\ WheelsFirst(distributions)
    /\ \A f \in File : Count(distributions, f) = IF IsSignature(f) THEN 0 ELSE Count(files, f)
    /\ n <= Len(distributions) + 1 /\ Len(out) = n - 1
    /\ \A k \in 1 .. n - 1 : out[k].file = distributions[k]
    /\ Reading => n <= Len(distributions)
    /\ pc \in {"hash", "sign", "size"} => pkg.file = Current /\ "file" \in DOMAIN pkg
    /\ pc = "done" => n = Len(distributions) + 1

(* An error leaves no packages.                                            *)
Nothing == pc \in {"failed", "panicked"} => out = <<>>

(* The inductive invariant of WholeOrNothing.                              *)
Accounted == Lists /\ Naming /\ Finding /\ Separating /\ Packing /\ Nothing

(* The empty list is a list of anything.                                   *)
LEMMA EmptyIsASequence == IsASequence(<<>>)
<1>1. <<>> \in Seq({})
  OBVIOUS
<1>2. QED
  BY <1>1 DEF IsASequence

(* Parse starts with no file to account for.                               *)
LEMMA AccountedInit == Init => Accounted
BY EmptyIsASequence
DEF Init, Accounted, Lists, Naming, Finding, Separating, Reading, Packing, Nothing

(* An error leaves nothing to account for.                                 *)
LEMMA StopAccounted ==
  ASSUME Accounted, pc' \in {"failed", "panicked"}, out' = <<>>, UNCHANGED <<n, listing>>
  PROVE  Accounted'
BY EmptyIsASequence
DEF Accounted, Lists, Naming, Finding, Separating, Reading, Packing, Nothing, listing, inputs, parted

(* A step that leaves the lists alone leaves the account as it was.        *)
LEMMA IdleAccounted ==
  ASSUME Accounted, UNCHANGED <<pc, n, listing, pkg, out>>
  PROVE  Accounted'
<1> USE DEF Accounted, listing, inputs, parted
<1>1. Lists' /\ Naming' /\ Finding' /\ Nothing'
  BY DEF Lists, Naming, Finding, Nothing
<1>2. Separating'
  BY DEF Separating
<1>3. Packing'
  BY DEF Packing, Reading, Current
<1>4. QED
  BY <1>1, <1>2, <1>3

(* A step in the middle of a package.                                      *)
LEMMA ReadingAccounted ==
  ASSUME Accounted, UNCHANGED <<n, listing, out>>,
         Reading \/ (pc = "open" /\ n <= Len(distributions)), Reading',
         pc' \in {"hash", "sign", "size"} => pkg'.file = Current /\ "file" \in DOMAIN pkg'
  PROVE  Accounted'
<1> USE DEF Accounted, listing, inputs, parted
<1>1. Lists' /\ Naming' /\ Finding' /\ Separating' /\ Nothing'
  BY DEF Lists, Naming, Finding, Separating, Nothing, Reading
<1>2. UNCHANGED Current
  BY DEF Current
<1>3. Packing'
  BY <1>2 DEF Packing, Lists, Reading
<1>4. QED
  BY <1>1, <1>3

(***************************************************************************)
(* The files                                                               *)
(***************************************************************************)
LEMMA StatAccounted ==
  ASSUME Accounted, StatFile \/ StatDirectory \/ ReadEntry \/ EndDirectory
  PROVE  Accounted'
<1> USE DEF Accounted, Lists, Naming, Finding, Separating, Reading, Packing, Nothing, parted
<1>1. CASE StatFile
  BY <1>1, AppendProperties DEF StatFile, Stating
<1>2. CASE StatDirectory
  BY <1>2, ListingAssumption DEF StatDirectory, Stating
<1>3. CASE ReadEntry
  <2>1. Head(entries) \in File /\ Tail(entries) \in Seq(File)
    BY <1>3 DEF ReadEntry
  <2>2. QED
    BY <1>3, <2>1, AppendProperties DEF ReadEntry
<1>4. CASE EndDirectory
  BY <1>4 DEF EndDirectory, listing, inputs
<1>5. QED
  BY <1>1, <1>2, <1>3, <1>4

(* Find takes the files over one by one.                                   *)
LEMMA FindAccounted ==
  ASSUME Accounted, Find \/ FindFile
  PROVE  Accounted'
<1> USE DEF Accounted, Lists, Naming, Finding, Separating, Reading, Packing, Nothing, parted, inputs
<1>1. CASE Find
  BY <1>1 DEF Find, listing
<1>2. CASE FindFile /\ Exists(files[n])
  <2>1. files[n] \in File
    BY <1>2 DEF FindFile
  <2>2. /\ found' \in Seq(File) /\ Len(found') = n
        /\ \A k \in 1 .. n - 1 : found'[k] = found[k]
        /\ found'[n] = files[n]
    <3>1. n \in Nat \ {0} /\ found \in Seq(File) /\ Len(found) = n - 1 /\ found' = Append(found, files[n])
      BY <1>2 DEF FindFile
    <3>2. QED
      BY ONLY <2>1, <3>1, AppendProperties
  <2>3. \A k \in 1 .. n : found'[k] = files[k]
    BY SMTT(60), <1>2, <2>2 DEF FindFile
  <2>4. QED
    BY <1>2, <2>2, <2>3 DEF FindFile
<1>3. CASE FindFile /\ ~Exists(files[n])
  BY <1>3 DEF FindFile
<1>4. QED
  BY <1>1, <1>2, <1>3

(* Grouping changes the order only; without a wheel the order stays.       *)
LEMMA GroupAccounted ==
  ASSUME Accounted, Group
  PROVE  Accounted'
<1> USE DEF Accounted, Lists
<1>1. /\ pc = "find" /\ n > Len(files) /\ found' \in GroupWheelFilesFirst(found)
      /\ pc' = "separate" /\ n' = 1 /\ UNCHANGED <<files, entries, distributions, out>>
  BY DEF Group, inputs, parted
<1>2. Len(found) = Len(files) /\ \A k \in 1 .. Len(files) : found[k] = files[k]
  BY <1>1 DEF Finding
<1>3. \A f : Count(found, f) = Count(files, f)
  BY <1>2, CountSame, CountIsCountTo
<1>4. found' \in Seq(File) /\ WheelsFirst(found') /\ \A f : Count(found', f) = Count(found, f)
  <2>1. CASE found' = found /\ \A k \in DOMAIN found : ~IsWheel(found[k])
    BY <2>1 DEF WheelsFirst
  <2>2. CASE found' \in Rearranged(found) /\ WheelsFirst(found')
    BY <2>2, CountRearranged
  <2>3. QED
    BY <1>1, <2>1, <2>2 DEF GroupWheelFilesFirst
<1>5. distributions = <<>> /\ out = <<>>
  BY <1>1 DEF Finding
<1>6. Separating'
  <2>1. \A f : Count(<<>>, f) = 0
    BY EmptySeq, CountIsCountTo, CountToZero
  <2>2. WheelsFirst(<<>>)
    BY DEF WheelsFirst
  <2>3. \A f : Count(distributions', f) = 0 /\ CountTo(found', f, n' - 1) = 0
    BY <1>1, <1>5, <2>1, CountToZero
  <2>4. QED
    BY <1>1, <1>3, <1>4, <1>5, <2>1, <2>2, <2>3 DEF Separating
<1>7. QED
  BY <1>1, <1>4, <1>6 DEF Naming, Finding, Packing, Reading, Nothing

(* A wheel can only follow wheels: whatever was separated before it stood  *)
(* before it among the files found.                                        *)
LEMMA SeparateAccounted ==
  ASSUME Accounted, Separate
  PROVE  Accounted'
<1> USE DEF Accounted, Lists
<1>1. /\ pc = "separate" /\ n <= Len(found) /\ n' = n + 1
      /\ UNCHANGED <<pc, files, entries, found, out>>
  BY DEF Separate, inputs
<1>2. n \in 1 .. Len(found) /\ found[n] \in File /\ n - 1 \in Nat
  BY <1>1
<1>3. \A f : CountTo(found, f, n) = CountTo(found, f, n - 1) + (IF found[n] = f THEN 1 ELSE 0)
  BY SMTT(60), <1>2, CountToStep
<1>4. CASE IsSignature(found[n])
  <2>1. UNCHANGED distributions
    BY <1>4 DEF Separate
  <2>2. \A f \in File : IsSignature(f) \/ CountTo(found, f, n) = CountTo(found, f, n - 1)
    <3>1. \A f \in File : CountTo(found, f, n - 1) \in Nat
      BY <1>2, CountToNat
    <3>2. \A f \in File : found[n] = f => IsSignature(f)
      BY <1>4
    <3>3. SUFFICES ASSUME NEW f \in File, ~IsSignature(f) PROVE CountTo(found, f, n) = CountTo(found, f, n - 1)
      OBVIOUS
    <3>4. found[n] # f
      BY <3>2, <3>3
    <3>5. QED
      BY <1>3, <3>1, <3>4
  <2>3. Separating'
    BY <1>1, <1>2, <2>1, <2>2 DEF Separating
  <2>4. QED
    BY <1>1, <2>1, <2>3 DEF Naming, Finding, Packing, Reading, Nothing
<1>5. CASE ~IsSignature(found[n])
  <2>1. distributions' = Append(distributions, found[n])
    BY <1>5 DEF Separate
  <2>2. /\ distributions' \in Seq(File)
        /\ Len(distributions) \in Nat /\ Len(distributions') = Len(distributions) + 1
        /\ \A k \in 1 .. Len(distributions) : distributions'[k] = distributions[k]
        /\ distributions'[Len(distributions')] = found[n]
    BY <1>2, <2>1, AppendProperties
  <2>3. \A f \in File : Count(distributions', f) = IF IsSignature(f) THEN 0 ELSE CountTo(found, f, n)
    <3>1. \A f \in File : Count(distributions', f) = Count(distributions, f) + (IF found[n] = f THEN 1 ELSE 0)
      BY <1>2, <2>1, CountAppend
    <3>2. \A f \in File : Count(distributions, f) = IF IsSignature(f) THEN 0 ELSE CountTo(found, f, n - 1)
      BY <1>1 DEF Separating
    <3>3. QED
      BY <1>3, <1>5, <3>1, <3>2
  <2>4. \A k \in DOMAIN distributions' : \E i \in 1 .. n : distributions'[k] = found[i]
    <3>1. \A k \in DOMAIN distributions : \E i \in 1 .. n - 1 : distributions[k] = found[i]
      BY <1>1 DEF Separating
    <3>2. SUFFICES ASSUME NEW k \in 1 .. Len(distributions') PROVE \E i \in 1 .. n : distributions'[k] = found[i]
      BY SMTT(60), <2>2
    <3>3. CASE k = Len(distributions')
      BY <1>2, <2>2, <3>3
    <3>4. CASE k \in DOMAIN distributions
      <4>1. PICK i \in 1 .. n - 1 : distributions[k] = found[i]
        BY <3>1, <3>4
      <4>2. i \in 1 .. n /\ distributions'[k] = distributions[k]
        BY <2>2, <3>4
      <4>3. QED
        BY <4>1, <4>2
    <3>5. QED
      BY <2>2, <3>3, <3>4
  <2>5. WheelsFirst(distributions')
    <3>1. SUFFICES ASSUME NEW j \in DOMAIN distributions', NEW k \in DOMAIN distributions',
                          j < k, IsWheel(distributions'[k])
                   PROVE  IsWheel(distributions'[j])
      BY DEF WheelsFirst
    <3>2. j \in DOMAIN distributions /\ distributions'[j] = distributions[j]
      BY SMTT(60), <2>2, <3>1
    <3>3. CASE k \in DOMAIN distributions
      <4>1. distributions'[k] = distributions[k]
        BY SMTT(60), <2>2, <3>3
      <4>2. WheelsFirst(distributions) /\ IsWheel(distributions[k])
        BY <1>1, <3>1, <4>1 DEF Separating
      <4>3. QED
        BY <3>1, <3>2, <3>3, <4>2 DEF WheelsFirst
    <3>4. CASE k = Len(distributions')
      <4>1. IsWheel(found[n])
        BY <2>2, <3>1, <3>4
      <4>2. PICK i \in 1 .. n - 1 : distributions[j] = found[i]
        BY <1>1, <3>2 DEF Separating
      <4>3. QED
        BY SMTT(60), <1>1, <1>2, <3>2, <4>1, <4>2 DEF Separating, WheelsFirst
    <3>5. QED
      BY <2>2, <3>1, <3>3, <3>4
  <2>6. Separating'
    BY <1>1, <1>2, <2>2, <2>3, <2>4, <2>5 DEF Separating
  <2>7. QED
    BY <1>1, <2>2, <2>6 DEF Naming, Finding, Packing, Reading, Nothing
<1>6. QED
  BY <1>4, <1>5

(* At the end of the loop of Separate every file that is no signature is a *)
(* distribution.                                                           *)
LEMMA SeparatedAccounted ==
  ASSUME Accounted, Separated
  PROVE  Accounted'
<1> USE DEF Accounted, Lists
<1>1. /\ pc = "separate" /\ n > Len(found) /\ pc' = "open" /\ n' = 1
      /\ UNCHANGED <<files, entries, found, distributions, out, pkg>>
  BY DEF Separated, listing, inputs, parted, reading
<1>2. n - 1 = Len(found) /\ out = <<>> /\ WheelsFirst(distributions)
  BY <1>1 DEF Separating
<1>3. \A f \in File : Count(distributions, f) = IF IsSignature(f) THEN 0 ELSE Count(files, f)
  BY <1>1, <1>2, CountIsCountTo DEF Separating
<1>4. Packing'
  BY <1>1, <1>2, <1>3 DEF Packing, Reading
<1>5. QED
  BY <1>1, <1>4 DEF Naming, Finding, Separating, Nothing

(***************************************************************************)
(* The packages                                                            *)
(***************************************************************************)
LEMMA MakeAccounted ==
  ASSUME Accounted,
         OpenZip \/ NotZip \/ OpenTar \/ FileNames \/ ReadFile \/ NextCandidate \/ Hash \/ Sign
  PROVE  Accounted'
<1>1. Reading'
  BY DEF Reading, OpenZip, NotZip, OpenTar, FileNames, ReadFile, NextCandidate, Hash, Sign
<1>2. Reading \/ (pc = "open" /\ n <= Len(distributions))
  <2>1. CASE OpenZip \/ NotZip
    BY <2>1 DEF Making, OpenZip, NotZip
  <2>2. CASE OpenTar \/ FileNames \/ ReadFile \/ NextCandidate
    BY <2>2 DEF Reading, OpenTar, AtHand, FileNames, ReadFile, NextCandidate
  <2>3. CASE Hash \/ Sign
    BY <2>3 DEF Reading, Hash, Sign
  <2>4. QED
    BY <2>1, <2>2, <2>3
<1>3. UNCHANGED <<n, listing, out>>
  BY DEF OpenZip, NotZip, OpenTar, FileNames, ReadFile, NextCandidate, Hash, Sign
<1>4. pc' \in {"hash", "sign", "size"} => pkg'.file = Current /\ "file" \in DOMAIN pkg'
  <2>1. CASE ReadFile
    BY <2>1 DEF ReadFile, NoPackage
  <2>2. CASE Hash \/ Sign
    BY <2>2 DEF Hash, Sign, Accounted, Packing, Reading
  <2>3. CASE OpenZip \/ NotZip \/ OpenTar \/ FileNames \/ NextCandidate
    BY <2>3 DEF OpenZip, NotZip, OpenTar, FileNames, NextCandidate
  <2>4. QED
    BY <2>1, <2>2, <2>3
<1>5. QED
  BY <1>1, <1>2, <1>3, <1>4, ReadingAccounted

(* A finished package is of the next distribution.                         *)
LEMMA SizeAccounted ==
  ASSUME Accounted, Size
  PROVE  Accounted'
<1> USE DEF Accounted, Lists
<1>1. /\ pc = "size" /\ pc' = "open" /\ n' = n + 1 /\ out' = Append(out, pkg)
      /\ UNCHANGED <<files, entries, found, distributions, pkg>>
  BY DEF Size, listing, inputs, parted, reading
<1>2. /\ n \in 1 .. Len(distributions) /\ Len(out) = n - 1 /\ pkg.file = distributions[n]
      /\ \A k \in 1 .. n - 1 : out[k].file = distributions[k]
  BY <1>1 DEF Packing, Reading, Current
<1>3. PICK S : out \in Seq(S)
  BY DEF IsASequence
<1>4. /\ out' \in Seq(S \cup {pkg}) /\ Len(out') = n
      /\ \A k \in 1 .. n - 1 : out'[k] = out[k]
      /\ out'[n] = pkg
  <2>1. out \in Seq(S \cup {pkg})
    BY <1>3
  <2>2. QED
    BY SMTT(60), <1>1, <1>2, <2>1, AppendProperties
<1>5. \A k \in 1 .. n : out'[k].file = distributions[k]
  <2>1. n \in Nat \ {0}
    BY <1>2
  <2>2. QED
    BY ONLY <1>2, <1>4, <2>1
<1>6. IsASequence(out')
  BY <1>4 DEF IsASequence
<1>7. Packing'
  BY <1>1, <1>2, <1>4, <1>5 DEF Packing, Reading
<1>8. QED
  BY <1>1, <1>6, <1>7 DEF Naming, Finding, Separating, Nothing

(* Parse returns once every distribution has its package.                  *)
LEMMA ReturnAccounted ==
  ASSUME Accounted, Return
  PROVE  Accounted'
<1>1. /\ pc = "open" /\ n > Len(distributions) /\ pc' = "done"
      /\ UNCHANGED <<n, files, entries, found, distributions, out, pkg>>
  BY DEF Return, listing, inputs, parted, reading
<1>2. QED
  BY <1>1 DEF Accounted, Lists, Naming, Finding, Separating, Packing, Reading, Nothing

(* Every step keeps the files accounted for.                               *)
LEMMA AccountedNext == Accounted /\ [Next]_vars => Accounted'
<1> SUFFICES ASSUME Accounted, [Next]_vars PROVE Accounted'
  OBVIOUS
<1>1. CASE Step
  <2>1. CASE StatMissing \/ NoFiles \/ NoMatch \/ NotFound \/ NoFileNames \/ ReadFails \/ Vanished
    <3>1. Fail
      BY <2>1 DEF StatMissing, NoFiles, NoMatch, NotFound, NoFileNames, ReadFails, Vanished
    <3>2. QED
      BY <3>1, StopAccounted DEF Fail
  <2>2. CASE OpenFails \/ NilReader
    BY <2>2, StopAccounted DEF OpenFails, NilReader
  <2>3. CASE OpenPath
    BY <2>3, IdleAccounted DEF OpenPath
  <2>4. QED
    BY <1>1, <2>1, <2>2, <2>3, StatAccounted, FindAccounted, GroupAccounted, SeparateAccounted, SeparatedAccounted,
       MakeAccounted, SizeAccounted, ReturnAccounted DEF Step
<1>2. ASSUME NEW f \in File, NEW content \in Holds[f], Replace(f, content) PROVE Accounted'
  BY <1>2, IdleAccounted DEF Replace, reading
<1>3. CASE UNCHANGED vars
  BY <1>3, IdleAccounted DEF vars, reading
<1>4. QED
  BY <1>1, <1>2, <1>3 DEF Next

(* A call that returns has a package for every file named, as often as it  *)
(* was named, signatures aside, and wheels first; one that fails has none. *)
THEOREM NoFileIsLost == Spec => []WholeOrNothing
<1>1. Accounted => WholeOrNothing
  <2>1. SUFFICES ASSUME Accounted PROVE WholeOrNothing
    OBVIOUS
  <2>2. CASE pc # "done"
    BY <2>1, <2>2 DEF WholeOrNothing, Accounted, Nothing
  <2>3. CASE pc = "done"
    <3>1. /\ Len(out) = Len(distributions) /\ WheelsFirst(distributions)
          /\ \A f \in File : Count(distributions, f) = IF IsSignature(f) THEN 0 ELSE Count(files, f)
          /\ \A k \in 1 .. Len(out) : out[k].file = distributions[k]
      BY <2>1, <2>3 DEF Accounted, Lists, Packing, Reading
    <3>2. DOMAIN out = 1 .. Len(out) /\ DOMAIN distributions = 1 .. Len(out)
      BY <2>1, <3>1 DEF Accounted, Lists, IsASequence
    <3>3. \A f : {k \in DOMAIN out : out[k].file = f} = {k \in DOMAIN distributions : distributions[k] = f}
      BY <3>1, <3>2
    <3>4. Range(files) \cup {out[k].file : k \in DOMAIN out} \subseteq File
      BY <2>1, <3>1, <3>2 DEF Accounted, Lists, Range
    <3>5. \A j, k \in DOMAIN out : j < k /\ IsWheel(out[k].file) => IsWheel(out[j].file)
      BY <3>1, <3>2 DEF WheelsFirst
    <3>6. QED
      BY <2>3, <3>1, <3>3, <3>4, <3>5 DEF WholeOrNothing, Count
  <2>4. QED
    BY <2>2, <2>3
<1>2. QED
  BY <1>1, AccountedInit, AccountedNext, PTL DEF Spec

(***************************************************************************)
(* Finding the metadata                                                    *)
(***************************************************************************)
(* From the well-foundedness of strict inclusion among the subsets of an   *)
(* interval.                                                               *)
LEMMA LeastNatural ==
  ASSUME NEW T \in SUBSET Nat, T # {}
  PROVE  \E x \in T : \A y \in T : x <= y
<1>1. PICK m \in T : TRUE
  OBVIOUS
<1> DEFINE S == 0 .. m
           R == StrictSubsetOrdering(S)
           F == {0 .. k : k \in {i \in T : i <= m}}
<1>2. IsFiniteSet(S)
  BY FS_Interval
<1>3. IsWellFoundedOn(R, FiniteSubsetsOf(S))
  BY FS_StrictSubsetOrderingWellFounded
<1>4. F \subseteq FiniteSubsetsOf(S) /\ F # {}
  <2>1. \A k \in 0 .. m : 0 .. k \in FiniteSubsetsOf(S)
    BY SMTT(60), FS_Interval, <1>2 DEF FiniteSubsetsOf
  <2>2. QED
    BY <2>1
<1>5. PICK x \in F : \A y \in F : <<y, x>> \notin R
  <2> HIDE DEF R, F
  <2>1. QED
    BY <1>3, <1>4, WFMin
<1>6. PICK k \in T : k <= m /\ x = 0 .. k
  OBVIOUS
<1>7. ASSUME NEW y \in T, y < k PROVE FALSE
  <2>1. 0 .. y \in F
    BY <1>6, <1>7
  <2>2. 0 .. y \subseteq 0 .. k /\ 0 .. y # 0 .. k /\ 0 .. y \subseteq S /\ 0 .. k \subseteq S
    BY <1>6, <1>7
  <2>3. <<0 .. y, 0 .. k>> \in R
    BY <2>2 DEF StrictSubsetOrdering
  <2>4. QED
    BY <1>5, <1>6, <2>1, <2>3
<1>8. QED
  BY <1>6, <1>7

(* Some member is the first of its name.                                   *)
LEMMA NameHasFirst ==
  ASSUME NEW S, NEW members \in Seq(S), NEW k \in DOMAIN members
  PROVE  \E i \in 1 .. k : /\ i \in DOMAIN members
                          /\ members[i].name = members[k].name
                          /\ \A j \in 1 .. i - 1 : members[j].name # members[k].name
<1> DEFINE T == {i \in 1 .. k : members[i].name = members[k].name}
<1>1. k \in Nat \ {0} /\ DOMAIN members = 1 .. Len(members) /\ Len(members) \in Nat /\ k <= Len(members)
  OBVIOUS
<1>2. T \in SUBSET Nat /\ k \in T
  BY <1>1
<1>3. PICK i \in T : \A y \in T : i <= y
  <2> HIDE DEF T
  <2>1. QED
    BY <1>2, LeastNatural
<1>4. i \in 1 .. k /\ i \in DOMAIN members /\ members[i].name = members[k].name
  BY <1>1, <1>3
<1>5. \A j \in 1 .. i - 1 : members[j].name # members[k].name
  <2>1. SUFFICES ASSUME NEW j \in 1 .. i - 1, members[j].name = members[k].name PROVE FALSE
    OBVIOUS
  <2>2. j \in T /\ j < i
    BY <1>1, <1>4, <2>1
  <2>3. QED
    BY <1>1, <1>3, <1>4, <2>2
<1>6. QED
  BY <1>4, <1>5

(* What of the names of the metadata is left to try: the shallowest first, *)
(* and all that may have a document.                                       *)
Left(c, members, fragment) ==
  /\ IsASequence(c)
  /\ \A j \in DOMAIN c : c[j].info = fragment /\ \E k \in DOMAIN members : members[k].name = c[j]
  /\ \A i, j \in DOMAIN c : i < j => c[i].depth <= c[j].depth
  /\ \A k \in DOMAIN members :
       members[k].name.info = fragment =>
         (\E j \in DOMAIN c : c[j] = members[k].name) \/ DocNamed(members, members[k].name) = {NoDoc}

(* All of them, to begin with.                                             *)
LEMMA CandidatesAreLeft ==
  ASSUME NEW S, NEW members \in Seq(S), NEW fragment, NEW c \in Candidates(members, fragment)
  PROVE  Left(c, members, fragment)
<1> DEFINE wanted == {k \in DOMAIN members : members[k].name.info = fragment}
           size == Cardinality(wanted)
<1>1. size \in Nat
  <2>1. wanted \subseteq 1 .. Len(members) /\ Len(members) \in Nat
    OBVIOUS
  <2>2. IsFiniteSet(1 .. Len(members))
    BY <2>1, FS_Interval
  <2>3. IsFiniteSet(wanted)
    BY <2>1, <2>2, FS_Subset
  <2>4. QED
    BY <2>3, FS_CardinalityType
<1>2. PICK p \in ByDepth(members, wanted) : c = [j \in DOMAIN p |-> members[p[j]].name]
  BY DEF Candidates
<1> HIDE DEF size
<1>3. /\ p \in [1 .. size -> wanted]
      /\ \A k \in wanted : \E j \in 1 .. size : p[j] = k
      /\ \A j, k \in 1 .. size : j < k => members[p[j]].name.depth <= members[p[k]].name.depth
  BY <1>2 DEF ByDepth, Bijection, Injection, Surjection, size
<1>4. DOMAIN c = 1 .. size /\ \A j \in 1 .. size : c[j] = members[p[j]].name /\ p[j] \in wanted
  BY <1>2, <1>3
<1>5. c \in Seq({c[j] : j \in 1 .. size})
  <2>1. c = [j \in 1 .. size |-> members[p[j]].name]
    BY <1>2, <1>3
  <2>2. c \in [1 .. size -> {c[j] : j \in 1 .. size}]
    BY <2>1
  <2>3. QED
    BY SMTT(60), <1>1, <2>2
<1>6. \A k \in wanted : \E j \in DOMAIN c : c[j] = members[k].name
  BY <1>3, <1>4
<1>7. IsASequence(c)
  BY <1>5 DEF IsASequence
<1>8. \A i, j \in DOMAIN c : i < j => c[i].depth <= c[j].depth
  BY <1>3, <1>4
<1>9. \A j \in DOMAIN c : c[j].info = fragment /\ \E k \in DOMAIN members : members[k].name = c[j]
  BY <1>4
<1>10. QED
  BY <1>6, <1>7, <1>8, <1>9 DEF Left

(* A list that is not empty is its head and its tail, which is one         *)
(* shorter.                                                                *)
LEMMA HeadAndTail ==
  ASSUME NEW c, IsASequence(c), c # <<>>
  PROVE  /\ Len(c) \in Nat \ {0} /\ DOMAIN c = 1 .. Len(c)
         /\ Head(c) = c[1] /\ 1 \in DOMAIN c
         /\ IsASequence(Tail(c)) /\ DOMAIN Tail(c) = 1 .. Len(c) - 1
         /\ \A j \in 1 .. Len(c) - 1 : Tail(c)[j] = c[j + 1]
<1>1. PICK S : c \in Seq(S)
  BY DEF IsASequence
<1>2. Len(c) \in Nat /\ DOMAIN c = 1 .. Len(c) /\ Len(c) # 0
  BY <1>1, EmptySeq
<1>3. /\ Head(c) = c[1]
      /\ Tail(c) \in Seq(S) /\ Len(Tail(c)) = Len(c) - 1
      /\ \A j \in 1 .. Len(c) - 1 : Tail(c)[j] = c[j + 1]
  BY <1>1, HeadTailProperties
<1>4. QED
  BY <1>2, <1>3 DEF IsASequence

(* One without a document may go.                                          *)
LEMMA TailIsLeft ==
  ASSUME NEW members, NEW fragment, NEW c, Left(c, members, fragment), c # <<>>,
         DocNamed(members, Head(c)) = {NoDoc}
  PROVE  Left(Tail(c), members, fragment)
<1>1. /\ Len(c) \in Nat \ {0} /\ DOMAIN c = 1 .. Len(c) /\ Head(c) = c[1]
      /\ IsASequence(Tail(c)) /\ DOMAIN Tail(c) = 1 .. Len(c) - 1
      /\ \A j \in 1 .. Len(c) - 1 : Tail(c)[j] = c[j + 1] /\ j + 1 \in DOMAIN c
  BY HeadAndTail DEF Left
<1>2. \A k \in DOMAIN members :
        members[k].name.info = fragment =>
          (\E j \in DOMAIN Tail(c) : Tail(c)[j] = members[k].name) \/ DocNamed(members, members[k].name) = {NoDoc}
  <2>1. SUFFICES ASSUME NEW k \in DOMAIN members, members[k].name.info = fragment,
                        NEW j \in DOMAIN c, c[j] = members[k].name, j # 1
                 PROVE  \E i \in DOMAIN Tail(c) : Tail(c)[i] = members[k].name
    BY <1>1 DEF Left
  <2>2. j - 1 \in 1 .. Len(c) - 1 /\ j - 1 + 1 = j
    BY <1>1, <2>1
  <2>3. QED
    BY <1>1, <2>1, <2>2
<1>3. \A j \in DOMAIN Tail(c) : Tail(c)[j].info = fragment /\ \E k \in DOMAIN members : members[k].name = Tail(c)[j]
  BY <1>1 DEF Left
<1>4. \A i, j \in DOMAIN Tail(c) : i < j => Tail(c)[i].depth <= Tail(c)[j].depth
  <2>1. SUFFICES ASSUME NEW i \in 1 .. Len(c) - 1, NEW j \in 1 .. Len(c) - 1, i < j
                 PROVE  Tail(c)[i].depth <= Tail(c)[j].depth
    BY <1>1
  <2>2. i + 1 \in DOMAIN c /\ j + 1 \in DOMAIN c /\ i + 1 < j + 1
    BY <1>1, <2>1
  <2>3. QED
    BY <1>1, <2>2 DEF Left
<1>5. QED
  BY <1>1, <1>2, <1>3, <1>4 DEF Left

(* The first document found is one a look at the whole file finds.         *)
LEMMA HeadIsTheDoc ==
  ASSUME NEW f, NEW S, NEW content, content.members \in Seq(S),
         \A m \in Range(content.members) : m.name.depth \in Nat,
         NEW c, Left(c, content.members, Fragment(f)), c # <<>>,
         NEW doc \in DocNamed(content.members, Head(c)), doc # NoDoc
  PROVE  doc \in DocsOf(f, content)
<1>0. \A k \in DOMAIN content.members :
        \E i \in 1 .. k : /\ i \in DOMAIN content.members
                        /\ content.members[i].name = content.members[k].name
                        /\ \A j \in 1 .. i - 1 : content.members[j].name # content.members[k].name
  BY SMTT(60), NameHasFirst
<1> DEFINE members == content.members
           first(m) == \A k \in DOMAIN members :
                         members[k].name = m.name => \E j \in 1 .. k : members[j] = m
           docs == {m \in Range(members) : m.name.info = Fragment(f) /\ first(m) /\ m.doc # NoDoc}
<1>1. Head(c) = c[1] /\ 1 \in DOMAIN c /\ DOMAIN c = 1 .. Len(c) /\ Len(c) \in Nat \ {0}
  BY HeadAndTail DEF Left
<1>2. DOMAIN members = 1 .. Len(members) /\ Len(members) \in Nat
  OBVIOUS
<1>3. PICK k \in DOMAIN members :
        /\ members[k].name = Head(c) /\ doc = members[k].doc
        /\ \A j \in 1 .. k - 1 : members[j].name # Head(c)
  BY DEF DocNamed
<1>4. first(members[k])
  <2>1. SUFFICES ASSUME NEW i \in DOMAIN members, members[i].name = members[k].name
                 PROVE  \E j \in 1 .. i : members[j] = members[k]
    OBVIOUS
  <2>2. ~(i < k)
    BY <1>2, <1>3, <2>1
  <2>3. k \in 1 .. i
    BY <1>2, <2>2
  <2>4. QED
    BY <2>3
<1>5. members[k] \in docs
  BY SMTT(60), <1>1, <1>3, <1>4 DEF Left, Range
<1>6. ASSUME NEW e \in docs PROVE members[k].name.depth <= e.name.depth
  <2>1. PICK i \in DOMAIN members : e = members[i]
    BY DEF Range
  <2>2. CASE \E j \in DOMAIN c : c[j] = e.name
    <3>1. PICK j \in DOMAIN c : c[j] = e.name
      BY <2>2
    <3>2. c[1].depth = members[k].name.depth /\ members[k].name.depth \in Nat
      BY <1>1, <1>3 DEF Range
    <3>3. j = 1 \/ 1 < j
      BY <1>1
    <3>4. QED
      BY <1>1, <3>1, <3>2, <3>3 DEF Left
  <2>3. CASE DocNamed(members, members[i].name) = {NoDoc}
    <3>1. PICK h \in 1 .. i : /\ h \in DOMAIN members
                             /\ members[h].name = members[i].name
                             /\ \A j \in 1 .. h - 1 : members[j].name # members[i].name
      BY <1>0, <2>1
    <3>2. members[h].doc = NoDoc
      <4>1. members[h].doc \in DocNamed(members, members[i].name)
        BY <3>1 DEF DocNamed
      <4>2. QED
        BY <2>3, <4>1
    <3>3. PICK j \in 1 .. h : members[j] = e
      BY <2>1, <3>1
    <3>4. ~(j < h)
      BY <1>2, <2>1, <3>1, <3>3
    <3>5. j = h
      BY <1>2, <3>1, <3>4
    <3>6. QED
      BY <3>2, <3>3, <3>5
  <2>4. QED
    BY <2>1, <2>2, <2>3 DEF Left
<1>7. QED
  BY <1>3, <1>5, <1>6 DEF DocsOf

(* With nothing left there is none.                                        *)
LEMMA NoneLeft ==
  ASSUME NEW f, NEW S, NEW content, content.members \in Seq(S),
         Left(<<>>, content.members, Fragment(f))
  PROVE  DocsOf(f, content) = {}
<1> DEFINE members == content.members
<1>1. SUFFICES ASSUME NEW m \in Range(members), m.name.info = Fragment(f), m.doc # NoDoc,
                      \A k \in DOMAIN members : members[k].name = m.name => \E j \in 1 .. k : members[j] = m
               PROVE  FALSE
  BY DEF DocsOf
<1>2. PICK i \in DOMAIN members : m = members[i]
  BY DEF Range
<1>3. DocNamed(members, members[i].name) = {NoDoc}
  <2>1. DOMAIN <<>> = {}
    OBVIOUS
  <2>2. QED
    BY <1>1, <1>2, <2>1 DEF Left
<1>4. PICK h \in 1 .. i : /\ h \in DOMAIN members
                         /\ members[h].name = members[i].name
                         /\ \A j \in 1 .. h - 1 : members[j].name # members[i].name
  BY SMTT(60), NameHasFirst
<1>5. members[h].doc = NoDoc
  <2>1. members[h].doc \in DocNamed(members, members[i].name)
    BY <1>4 DEF DocNamed
  <2>2. QED
    BY <1>3, <2>1
<1>6. PICK j \in 1 .. h : members[j] = m
  BY <1>1, <1>2, <1>4
<1>7. ~(j < h)
  BY <1>2, <1>4, <1>6
<1>8. j = h
  BY <1>4, <1>7
<1>9. QED
  BY <1>1, <1>5, <1>6, <1>8

(***************************************************************************)
(* What a package says of its file                                         *)
(***************************************************************************)
Contents == UNION {Holds[f] : f \in File}

(* The disk holds what it may hold, and counts the changes.                *)
Disk ==
  /\ disk \in [File -> [content : Contents, stamp : Nat]]
  /\ \A f \in File : disk[f].content \in Holds[f]
  /\ replaced \in Nat
  /\ replaced = 0 => \A f \in File : disk[f].stamp = 0
  /\ paths \in Seq(File \cup DOMAIN Listing)

(* The steps up to the separation of the files, and those after it.        *)
Collecting == pc \in {"stat", "list", "find", "glob"}
Later    == pc = "open" \/ Reading \/ pc = "done"

(* The signatures are those among the first m files found.                 *)
SignedUpTo(m) ==
  /\ \A i \in 1 .. m : IsSignature(found[i]) => found[i][2] \in DOMAIN signatures
  /\ \A name \in DOMAIN signatures :
       \E i \in 1 .. m : IsSignature(found[i]) /\ signatures[name] = found[i] /\ found[i][2] = name

(* The signatures are those found and the distributions the rest of them.  *)
Parted ==
  /\ Collecting => signatures = <<>> /\ distributions = <<>> /\ out = <<>>
  /\ pc = "separate" => n <= Len(found) + 1 /\ out = <<>> /\ SignedUpTo(n - 1)
  /\ Later => SignedUpTo(Len(found))
  /\ out # <<>> => Later
  /\ \A k \in DOMAIN distributions :
       ~IsSignature(distributions[k]) /\ \E i \in DOMAIN found : distributions[k] = found[i]

(* The archive under way is of a known format, and if nobody touched the   *)
(* file it is one that opens.                                              *)
Holding ==
  /\ pc = "tar" =>
       /\ KnownFormat(Current)
       /\ disk[Current].stamp = 0 => Exists(Current) /\ disk[Current].content.kind # "zip"
  /\ pc \in {"names", "read"} =>
       /\ KnownFormat(Current)
       /\ \/ /\ held.archive = "zip" /\ held.at.content.kind = "zip"
             /\ held.at.stamp \in 0 .. disk[Current].stamp
             /\ disk[Current].stamp = 0 => held.at = disk[Current]
          \/ /\ held.archive = "tar" /\ Current[2].ext = ".tar.gz"
             /\ disk[Current].stamp = 0 => HasHeader(disk[Current].content)
             /\ pc = "read" /\ disk[Current].stamp = 0 => Entire(disk[Current].content)

(* While nobody touched the file the candidates are those not yet refused. *)
Searching ==
  pc = "read" /\ disk[Current].stamp = 0 =>
    Left(candidates, disk[Current].content.members, Fragment(Current))

(* The package under construction agrees with its file as far as it got.   *)
Describing ==
  pc \in {"hash", "sign", "size"} =>
    /\ pkg = [file |-> Current, doc |-> pkg.doc, read |-> pkg.read, digest |-> pkg.digest,
              hashed |-> pkg.hashed, signature |-> pkg.signature]
    /\ pkg.read \in 0 .. disk[Current].stamp
    /\ disk[Current].stamp = 0 => pkg.doc \in DocsOf(Current, disk[Current].content)
    /\ pc # "hash" =>
         /\ pkg.hashed \in pkg.read .. disk[Current].stamp
         /\ disk[Current].stamp = 0 => pkg.digest = disk[Current].content
    /\ pc = "size" => pkg.signature = SignatureOf(Current)

(* So do those made.                                                       *)
Exact(p) ==
  /\ p.file \in File
  /\ p.read <= p.hashed
  /\ disk[p.file].stamp = 0 =>
       p.digest = disk[p.file].content /\ p.doc \in DocsOf(p.file, disk[p.file].content)
  /\ p.signature = SignatureOf(p.file)

(* That holds of every package made.                                       *)
Made == \A k \in DOMAIN out : Exact(out[k])

(* On a quiet disk the files are those named and an error has a reason.    *)
Quiet ==
  replaced = 0 =>
    /\ \A k \in DOMAIN files : files[k] \in AllNamed /\ Exists(files[k])
    /\ \A k \in DOMAIN found : found[k] \in AllNamed /\ Exists(found[k])
    /\ pc = "glob" => n \in DOMAIN files
    /\ pc \in {"stat", "list"} =>
         \A k \in DOMAIN paths : k < n => NamedBy(paths[k]) \subseteq Range(files)
    /\ pc = "list" =>
         /\ n \in DOMAIN paths /\ paths[n] \in DOMAIN Listing
         /\ NamedBy(paths[n]) \subseteq Range(files) \cup Range(entries)
         /\ Range(entries) \subseteq Range(Listing[paths[n]])
    /\ pc = "failed" => AllNamed = {} \/ \E f \in AllNamed : AtFault(f)

(* A path that is open was opened by the call under way and shows what the *)
(* file held then.                                                         *)
Looking ==
  handle # NoReader =>
    /\ pc \in {"tar", "names", "read", "hash", "sign"}
    /\ pc # "sign" =>
         /\ handle.at.stamp \in 0 .. disk[Current].stamp
         /\ disk[Current].stamp = 0 => handle.at = disk[Current]
         /\ pc = "hash" => pkg.read <= handle.at.stamp

(* The inductive invariant of ExactWhereQuiet, next to Accounted and       *)
(* Looking.                                                                *)
Faithful == Disk /\ Parted /\ Holding /\ Searching /\ Describing /\ Made /\ Quiet

(* Before anything is read there is nothing to be wrong about.             *)
LEMMA FaithfulInit == Init => Faithful
<1> SUFFICES ASSUME Init PROVE Faithful
  OBVIOUS
<1>1. pc = "stat" /\ n = 1 /\ out = <<>> /\ files = <<>> /\ found = <<>> /\ signatures = <<>> /\ distributions = <<>>
  BY DEF Init
<1>2. Disk
  <2>1. disk \in [File -> [content : Contents, stamp : {0}]] /\ \A f \in File : disk[f].content \in Holds[f]
    BY DEF Init, Contents
  <2>2. \A f \in File : disk[f].stamp = 0
    BY <2>1
  <2>3. disk \in [File -> [content : Contents, stamp : Nat]]
    BY <2>1
  <2>4. paths \in Seq(File \cup DOMAIN Listing) /\ replaced = 0
    BY ArgumentsAssumption DEF Init
  <2>5. QED
    BY <2>1, <2>2, <2>3, <2>4 DEF Disk
<1>3. DOMAIN <<>> = {}
  OBVIOUS
<1>4. Parted /\ Holding /\ Searching /\ Describing
  BY <1>1, <1>3 DEF Parted, Collecting, Later, Reading, Holding, Searching, Describing
<1>5. Made
  BY <1>1, <1>3 DEF Made
<1>6. Quiet
  <2>1. \A k \in DOMAIN paths : k >= n
    BY <1>1, <1>2 DEF Disk
  <2>2. QED
    BY <1>1, <1>3, <2>1, <1>2 DEF Quiet, Disk
<1>7. QED
  BY <1>2, <1>4, <1>5, <1>6 DEF Faithful

(* A step of Parse does not write.                                         *)
LEMMA DiskStays ==
  ASSUME Disk, UNCHANGED <<disk, replaced, paths>>
  PROVE  Disk'
BY DEF Disk

(* A file is not touched or leaves its stamp behind.                       *)
LEMMA DiskNext ==
  ASSUME Disk, [Next]_vars
  PROVE  /\ Disk'
         /\ UNCHANGED paths
         /\ \A f \in File :
              /\ disk[f].stamp \in Nat /\ disk'[f].stamp \in Nat
              /\ disk[f].stamp <= disk'[f].stamp
              /\ disk'[f].stamp = 0 => disk'[f] = disk[f] /\ disk[f].stamp = 0
<1>1. CASE UNCHANGED <<disk, replaced, paths>>
  <2>1. \A f \in File : disk[f].stamp \in Nat /\ disk'[f] = disk[f]
    BY <1>1 DEF Disk
  <2>2. QED
    BY <1>1, <2>1, DiskStays
<1>2. ASSUME NEW g \in File, NEW content \in Holds[g], Replace(g, content)
      PROVE  /\ Disk'
             /\ UNCHANGED paths
             /\ \A f \in File :
                  /\ disk[f].stamp \in Nat /\ disk'[f].stamp \in Nat
                  /\ disk[f].stamp <= disk'[f].stamp
                  /\ disk'[f].stamp = 0 => disk'[f] = disk[f] /\ disk[f].stamp = 0
  <2>1. /\ disk \in [File -> [content : Contents, stamp : Nat]]
        /\ disk' = [disk EXCEPT ![g] = [content |-> content, stamp |-> disk[g].stamp + 1]]
        /\ replaced' = replaced + 1 /\ replaced \in Nat /\ UNCHANGED paths
    BY <1>2 DEF Disk, Replace, listing, inputs
  <2>2. disk[g].stamp \in Nat /\ content \in Contents
    BY <2>1 DEF Contents
  <2>3. disk' \in [File -> [content : Contents, stamp : Nat]]
    BY <2>1, <2>2
  <2>4. \A f \in File : disk[f].stamp \in Nat /\ (f # g => disk'[f] = disk[f])
    BY <2>1
  <2>5. disk'[g].content = content /\ disk'[g].stamp = disk[g].stamp + 1
    BY <2>1
  <2>6. replaced' # 0 /\ replaced' \in Nat
    BY <2>1
  <2>7. Disk'
    BY SMTT(60), <2>1, <2>3, <2>4, <2>5, <2>6 DEF Disk
  <2>8. QED
    BY <2>1, <2>2, <2>4, <2>5, <2>7
<1>3. Step => UNCHANGED <<disk, replaced, paths>>
  BY DEF Step, StatFile, StatDirectory, ReadEntry, EndDirectory, StatMissing, NoFiles, Find, FindFile,
         NoMatch, Group, Separate, Separated, OpenZip, NotZip, NotFound, OpenPath, OpenTar, OpenFails,
         NilReader, FileNames, NoFileNames, ReadFile, NextCandidate, ReadFails, Hash, Sign, Size, Vanished,
         Return, Fail, listing, inputs
<1>4. UNCHANGED vars => UNCHANGED <<disk, replaced, paths>>
  BY DEF vars, listing, inputs
<1>5. QED
  BY <1>1, <1>2, <1>3, <1>4 DEF Next

(* A package of an untouched file stays exact: a touched one promises      *)
(* less.                                                                   *)
LEMMA MadeStays ==
  ASSUME Faithful, [Next]_vars, UNCHANGED <<out, signatures>>
  PROVE  Made'
<1>1. \A f \in File : disk'[f].stamp = 0 => disk'[f] = disk[f] /\ disk[f].stamp = 0
  BY DiskNext DEF Faithful
<1>2. \A f : SignatureOf(f)' = SignatureOf(f)
  BY DEF SignatureOf
<1>3. SUFFICES ASSUME NEW k \in DOMAIN out PROVE Exact(out[k])'
  BY DEF Made
<1>4. out[k].file \in File /\ Exact(out[k])
  BY DEF Faithful, Made, Exact
<1>5. QED
  BY <1>1, <1>2, <1>4 DEF Exact

(* What is known of the files stays known.                                 *)
LEMMA QuietStays ==
  ASSUME Faithful, UNCHANGED <<disk, replaced, paths, files, found>>, pc' \notin {"stat", "list", "glob", "failed"}
  PROVE  Quiet'
<1>1. AllNamed' = AllNamed /\ \A f : Exists(f)' <=> Exists(f)
  BY DEF AllNamed, NamedBy, Exists
<1>2. QED
  BY <1>1 DEF Faithful, Quiet

(* The file a package is made of.                                          *)
LEMMA CurrentFacts ==
  ASSUME Accounted, Faithful, Reading \/ (pc = "open" /\ n <= Len(distributions))
  PROVE  /\ Current \in File /\ ~IsSignature(Current)
         /\ \E i \in DOMAIN found : Current = found[i]
         /\ replaced = 0 => Current \in AllNamed /\ Exists(Current) /\ disk[Current].stamp = 0
         /\ disk[Current].content \in Holds[Current] /\ disk[Current].stamp \in Nat
<1>1. n \in 1 .. Len(distributions) /\ distributions \in Seq(File)
  BY DEF Accounted, Lists, Packing
<1>2. n \in DOMAIN distributions /\ Current \in File
  BY <1>1 DEF Current
<1>3. ~IsSignature(Current) /\ \E i \in DOMAIN found : Current = found[i]
  BY <1>2 DEF Faithful, Parted, Current
<1>4. replaced = 0 => Current \in AllNamed /\ Exists(Current)
  BY <1>3 DEF Faithful, Quiet
<1>5. disk[Current].content \in Holds[Current] /\ disk[Current].stamp \in Nat
      /\ (replaced = 0 => disk[Current].stamp = 0)
  BY <1>2 DEF Faithful, Disk
<1>6. QED
  BY <1>2, <1>3, <1>4, <1>5

(* An error is faithful when a file is at fault.                           *)
LEMMA FailFaithful ==
  ASSUME Faithful, pc' = "failed", out' = <<>>, UNCHANGED <<disk, replaced, n, listing>>,
         replaced = 0 => AllNamed = {} \/ \E f \in AllNamed : AtFault(f)
  PROVE  Faithful'
<1>0. UNCHANGED <<paths, files, entries, found, signatures, distributions>>
  BY DEF listing, inputs, parted
<1>1. Disk'
  BY <1>0, DiskStays DEF Faithful
<1>2. Parted'
  BY <1>0 DEF Faithful, Parted, Collecting, Later, Reading
<1>3. Holding' /\ Searching' /\ Describing'
  BY DEF Holding, Searching, Describing
<1>4. Made'
  BY DEF Made
<1>5. Quiet'
  <2>1. /\ AllNamed' = AllNamed /\ \A f : Exists(f)' <=> Exists(f)
        /\ \A f : AtFault(f)' <=> AtFault(f)
    BY <1>0 DEF AllNamed, NamedBy, Exists, AtFault
  <2>2. QED
    BY <1>0, <2>1 DEF Faithful, Quiet
<1>6. QED
  BY <1>1, <1>2, <1>3, <1>4, <1>5 DEF Faithful

(* Files replaced while Parse looks elsewhere, or not.                     *)
LEMMA TouchFaithful ==
  ASSUME Accounted, Faithful, [Next]_vars, UNCHANGED <<pc, n, listing, held, candidates, pkg, out>>,
         replaced' # 0 \/ UNCHANGED <<disk, replaced>>
  PROVE  Faithful'
<1>0. UNCHANGED <<pc, n, files, entries, found, signatures, distributions, held, candidates, pkg, out>>
  BY DEF listing, inputs, parted
<1>1. /\ Disk' /\ UNCHANGED paths
      /\ \A f \in File :
           /\ disk[f].stamp \in Nat /\ disk'[f].stamp \in Nat
           /\ disk[f].stamp <= disk'[f].stamp
           /\ disk'[f].stamp = 0 => disk'[f] = disk[f] /\ disk[f].stamp = 0
  BY DiskNext DEF Faithful
<1>2. Parted'
  BY <1>0 DEF Faithful, Parted, Collecting, Later, Reading, SignedUpTo
<1>3. ASSUME Reading
      PROVE  /\ Current' = Current
             /\ disk[Current].stamp \in Nat /\ disk'[Current].stamp \in Nat
             /\ disk[Current].stamp <= disk'[Current].stamp
             /\ disk'[Current].stamp = 0 => disk'[Current] = disk[Current] /\ disk[Current].stamp = 0
  <2>1. Current \in File
    BY <1>3, CurrentFacts
  <2>2. Current' = Current
    BY <1>0 DEF Current
  <2>3. QED
    BY <1>1, <2>1, <2>2
<1> DEFINE c == Current
<1>4. Holding'
  <2>1. CASE pc = "tar"
    BY <1>0, <1>3, <2>1 DEF Faithful, Holding, Reading, Exists
  <2>2. CASE pc \in {"names", "read"}
    <3>1. Reading
      BY <2>2 DEF Reading
    <3>2. PICK d : d = Current
      OBVIOUS
    <3>3. /\ KnownFormat(d)
          /\ \/ /\ held.archive = "zip" /\ held.at.content.kind = "zip"
                /\ held.at.stamp \in 0 .. disk'[d].stamp
                /\ disk'[d].stamp = 0 => held.at = disk'[d]
             \/ /\ held.archive = "tar" /\ d[2].ext = ".tar.gz"
                /\ disk'[d].stamp = 0 => HasHeader(disk'[d].content)
                /\ pc = "read" /\ disk'[d].stamp = 0 => Entire(disk'[d].content)
      BY <1>3, <2>2, <3>1, <3>2 DEF Faithful, Holding
    <3>4. QED
      BY <1>0, <1>3, <2>2, <3>1, <3>2, <3>3 DEF Holding
  <2>3. CASE pc \notin {"tar", "names", "read"}
    BY <1>0, <2>3 DEF Holding
  <2>4. QED
    BY <2>1, <2>2, <2>3
<1>5. Searching'
  BY <1>0, <1>3 DEF Faithful, Searching, Reading
<1>6. Describing'
  <2>1. SUFFICES ASSUME pc \in {"hash", "sign", "size"} PROVE Describing'
    BY <1>0 DEF Describing
  <2>2. Reading
    BY <2>1 DEF Reading
  <2>3. PICK d : d = Current
    OBVIOUS
  <2>4. SignatureOf(d)' = SignatureOf(d)
    BY <1>0 DEF SignatureOf
  <2>5. /\ pkg = [file |-> d, doc |-> pkg.doc, read |-> pkg.read, digest |-> pkg.digest,
                  hashed |-> pkg.hashed, signature |-> pkg.signature]
        /\ pkg.read \in 0 .. disk'[d].stamp
        /\ disk'[d].stamp = 0 => pkg.doc \in DocsOf(d, disk'[d].content)
        /\ pc # "hash" =>
             /\ pkg.hashed \in pkg.read .. disk'[d].stamp
             /\ disk'[d].stamp = 0 => pkg.digest = disk'[d].content
        /\ pc = "size" => pkg.signature = SignatureOf(d)
    BY <1>3, <2>1, <2>2, <2>3 DEF Faithful, Describing
  <2>6. QED
    BY <1>0, <1>3, <2>1, <2>2, <2>3, <2>4, <2>5 DEF Describing
<1>7. Made'
  BY <1>0, MadeStays
<1>8. Quiet'
  <2>1. CASE replaced' # 0
    BY <2>1 DEF Quiet
  <2>2. CASE UNCHANGED <<disk, replaced>>
    <3>1. /\ AllNamed' = AllNamed /\ \A f : Exists(f)' <=> Exists(f)
          /\ \A f : (AtFault(f)' <=> AtFault(f)) /\ \A x : NamedBy(x)' = NamedBy(x)
      BY <1>1, <2>2 DEF AllNamed, NamedBy, Exists, AtFault
    <3>2. QED
      BY <1>0, <1>1, <2>2, <3>1 DEF Faithful, Quiet
  <2>3. QED
    BY <2>1, <2>2
<1>9. QED
  BY <1>1, <1>2, <1>4, <1>5, <1>6, <1>7, <1>8 DEF Faithful

(* The elements after an append.                                           *)
LEMMA RangeAppend ==
  ASSUME NEW S, NEW s \in Seq(S), NEW x
  PROVE  /\ Range(Append(s, x)) = Range(s) \cup {x}
         /\ \A k \in DOMAIN Append(s, x) : Append(s, x)[k] = x \/ (k \in DOMAIN s /\ Append(s, x)[k] = s[k])
<1>1. s \in Seq(S \cup {x})
  OBVIOUS
<1>2. /\ Append(s, x) \in Seq(S \cup {x}) /\ Len(Append(s, x)) = Len(s) + 1 /\ Len(s) \in Nat
      /\ \A k \in 1 .. Len(s) : Append(s, x)[k] = s[k]
      /\ Append(s, x)[Len(s) + 1] = x
  BY <1>1, AppendProperties
<1>3. DOMAIN Append(s, x) = 1 .. Len(s) + 1 /\ DOMAIN s = 1 .. Len(s)
  BY <1>2
<1>4. QED
  BY <1>2, <1>3 DEF Range

(* The elements are the head and those of the tail.                        *)
LEMMA RangeHeadTail ==
  ASSUME NEW S, NEW s \in Seq(S), s # <<>>
  PROVE  Range(s) = {Head(s)} \cup Range(Tail(s)) /\ Head(s) \in S /\ Tail(s) \in Seq(S)
<1>1. /\ Head(s) = s[1] /\ Head(s) \in S
      /\ Tail(s) \in Seq(S) /\ Len(Tail(s)) = Len(s) - 1
      /\ \A j \in 1 .. Len(s) - 1 : Tail(s)[j] = s[j + 1]
      /\ Len(s) \in Nat \ {0}
  BY HeadTailProperties, EmptySeq
<1>2. DOMAIN s = 1 .. Len(s) /\ DOMAIN Tail(s) = 1 .. Len(s) - 1
  BY <1>1
<1>3. ASSUME NEW k \in 1 .. Len(s), k # 1 PROVE s[k] \in Range(Tail(s))
  <2>1. k - 1 \in 1 .. Len(s) - 1 /\ k - 1 + 1 = k
    BY <1>1, <1>3
  <2>2. s[k] = Tail(s)[k - 1]
    BY <1>1, <2>1
  <2>3. QED
    BY <1>2, <2>1, <2>2 DEF Range
<1>4. \A k \in 1 .. Len(s) - 1 : Tail(s)[k] \in Range(s)
  BY <1>1, <1>2 DEF Range
<1>5. Range(s) \subseteq {Head(s)} \cup Range(Tail(s))
  BY <1>1, <1>2, <1>3 DEF Range
<1>6. Head(s) \in Range(s)
  BY <1>1, <1>2 DEF Range
<1>7. Range(Tail(s)) \subseteq Range(s)
  BY <1>2, <1>4 DEF Range
<1>8. QED
  BY <1>1, <1>5, <1>6, <1>7

(* While the files are listed nothing else is at stake.                    *)
LEMMA EarlyFaithful ==
  ASSUME Faithful, UNCHANGED <<disk, replaced, paths, signatures, distributions, out>>,
         Collecting, Collecting', Quiet'
  PROVE  Faithful'
<1>1. Disk'
  BY DiskStays DEF Faithful
<1>2. signatures' = <<>> /\ distributions' = <<>> /\ out' = <<>> /\ DOMAIN <<>> = {}
  BY DEF Faithful, Parted
<1>3. Parted'
  BY <1>2 DEF Parted, Collecting, Later, Reading
<1>4. Holding' /\ Searching' /\ Describing'
  BY DEF Holding, Searching, Describing, Collecting
<1>5. Made'
  BY <1>2 DEF Made
<1>6. QED
  BY <1>1, <1>3, <1>4, <1>5 DEF Faithful

(* Stat and ReadDir list the files named, and no other.                    *)
LEMMA StatFaithful ==
  ASSUME Accounted, Faithful, StatFile \/ StatDirectory \/ ReadEntry \/ EndDirectory
  PROVE  Faithful'
<1>1. /\ UNCHANGED <<disk, replaced, paths, found, signatures, distributions, out>>
      /\ pc \in {"stat", "list"} /\ pc' \in {"stat", "list"}
  BY DEF StatFile, StatDirectory, ReadEntry, EndDirectory, Stating, parted, listing, inputs
<1>2. AllNamed' = AllNamed /\ \A f : (Exists(f)' <=> Exists(f)) /\ (\A x : NamedBy(x)' = NamedBy(x))
  BY <1>1 DEF AllNamed, NamedBy, Exists
<1>3. files \in Seq(File) /\ entries \in Seq(File) /\ n \in Nat \ {0} /\ paths \in Seq(File \cup DOMAIN Listing)
  BY DEF Accounted, Lists, Faithful, Disk
<1>4. \A k \in DOMAIN paths : NamedBy(paths[k]) \subseteq AllNamed
  BY DEF AllNamed
<1>5. Quiet'
  <2>1. SUFFICES ASSUME replaced = 0
                 PROVE  /\ \A k \in DOMAIN files' : files'[k] \in AllNamed /\ Exists(files'[k])
                        /\ \A k \in DOMAIN paths : k < n' => NamedBy(paths[k]) \subseteq Range(files')
                        /\ pc' = "list" =>
                             /\ n' \in DOMAIN paths /\ paths[n'] \in DOMAIN Listing
                             /\ NamedBy(paths[n']) \subseteq Range(files') \cup Range(entries')
                             /\ Range(entries') \subseteq Range(Listing[paths[n']])
    BY <1>1, <1>2 DEF Faithful, Quiet
  <2>2. /\ \A k \in DOMAIN files : files[k] \in AllNamed /\ Exists(files[k])
        /\ \A k \in DOMAIN paths : k < n => NamedBy(paths[k]) \subseteq Range(files)
        /\ pc = "list" =>
             /\ n \in DOMAIN paths /\ paths[n] \in DOMAIN Listing
             /\ NamedBy(paths[n]) \subseteq Range(files) \cup Range(entries)
             /\ Range(entries) \subseteq Range(Listing[paths[n]])
    BY <1>1, <2>1 DEF Faithful, Quiet
  <2>3. CASE StatFile
    <3>1. /\ n \in DOMAIN paths /\ paths[n] \in File /\ Exists(paths[n]) /\ n' = n + 1
          /\ files' = Append(files, paths[n]) /\ pc' = "stat"
      BY <1>3, <2>3 DEF StatFile, Stating
    <3>2. NamedBy(paths[n]) = {paths[n]}
      BY <3>1, ArgumentsAssumption DEF NamedBy
    <3>3. /\ Range(files') = Range(files) \cup {paths[n]}
          /\ \A k \in DOMAIN files' : files'[k] = paths[n] \/ (k \in DOMAIN files /\ files'[k] = files[k])
      BY <1>3, <3>1, RangeAppend
    <3>4. \A k \in DOMAIN paths : k < n + 1 => k < n \/ k = n
      BY <1>3
    <3>5. \A k \in DOMAIN paths : k < n' => NamedBy(paths[k]) \subseteq Range(files')
      BY <2>2, <3>1, <3>2, <3>3, <3>4
    <3>6. QED
      BY <1>4, <2>2, <3>1, <3>2, <3>3, <3>5
  <2>4. CASE StatDirectory
    <3>1. /\ n \in DOMAIN paths /\ paths[n] \in DOMAIN Listing /\ n' = n
          /\ files' = files /\ entries' = Listing[paths[n]]
      BY <1>3, <2>4 DEF StatDirectory, Stating
    <3>2. NamedBy(paths[n]) \subseteq Range(entries')
      BY <3>1 DEF NamedBy
    <3>3. QED
      BY <2>2, <3>1, <3>2
  <2>5. CASE ReadEntry
    <3>1. /\ pc = "list" /\ entries # <<>> /\ entries' = Tail(entries) /\ n' = n
          /\ files' = IF Exists(Head(entries)) THEN Append(files, Head(entries)) ELSE files
      BY <2>5 DEF ReadEntry
    <3>2. Range(entries) = {Head(entries)} \cup Range(entries')
      BY <1>3, <3>1, RangeHeadTail
    <3>3. \A f \in NamedBy(paths[n]) : Exists(f)
      BY <2>2, <3>1 DEF NamedBy
    <3>4. CASE ~Exists(Head(entries))
      BY <2>2, <3>1, <3>2, <3>3, <3>4
    <3>5. CASE Exists(Head(entries))
      <4>1. /\ Range(files') = Range(files) \cup {Head(entries)}
            /\ \A k \in DOMAIN files' : files'[k] = Head(entries) \/ (k \in DOMAIN files /\ files'[k] = files[k])
        BY <1>3, <3>1, <3>5, RangeAppend
      <4>2. Head(entries) \in AllNamed
        BY <1>4, <2>2, <3>1, <3>2, <3>5 DEF NamedBy
      <4>3. QED
        BY <2>2, <3>1, <3>2, <3>5, <4>1, <4>2
    <3>6. QED
      BY <3>4, <3>5
  <2>6. CASE EndDirectory
    <3>1. pc = "list" /\ entries = <<>> /\ n' = n + 1 /\ files' = files /\ pc' = "stat"
      BY <2>6 DEF EndDirectory, listing, inputs
    <3>2. Range(<<>>) = {}
      BY DEF Range
    <3>3. \A k \in DOMAIN paths : k < n + 1 => k < n \/ k = n
      BY <1>3
    <3>4. QED
      BY <2>2, <3>1, <3>2, <3>3
  <2>7. QED
    BY <2>3, <2>4, <2>5, <2>6
<1>6. QED
  BY <1>1, <1>5, EarlyFaithful DEF Collecting

(* Find keeps the files there are.                                         *)
LEMMA FindFaithful ==
  ASSUME Accounted, Faithful, Find \/ FindFile
  PROVE  Faithful'
<1>1. /\ UNCHANGED <<disk, replaced, paths, files, signatures, distributions, out>>
      /\ Collecting /\ Collecting' /\ pc' \in {"find", "glob"}
  BY DEF Find, FindFile, Collecting, parted, listing, inputs
<1>2. AllNamed' = AllNamed /\ \A f : Exists(f)' <=> Exists(f)
  BY <1>1 DEF AllNamed, NamedBy, Exists
<1>3. files \in Seq(File) /\ found \in Seq(File) /\ n \in Nat \ {0}
  BY DEF Accounted, Lists
<1>4. \/ found' = found
      \/ found' = Append(found, files[n]) /\ n \in DOMAIN files
  BY <1>3 DEF Find, FindFile, listing
<1>5. \A k \in DOMAIN found' : (k \in DOMAIN found /\ found'[k] = found[k]) \/ (n \in DOMAIN files /\ found'[k] = files[n])
  BY <1>3, <1>4, RangeAppend
<1>6. pc' = "glob" => n' \in DOMAIN files'
  <2>1. pc' = "glob" => FindFile /\ n' = n /\ n <= Len(files)
    BY DEF Find, FindFile
  <2>2. QED
    BY <1>1, <1>3, <2>1
<1>7. Quiet'
  BY <1>1, <1>2, <1>5, <1>6 DEF Faithful, Quiet
<1>8. QED
  BY <1>1, <1>7, EarlyFaithful

(* Putting the wheel files first (groupWheelFilesFirst) brings in no file. *)
LEMMA RearrangedMembers ==
  ASSUME NEW S, NEW s \in Seq(S), NEW t \in GroupWheelFilesFirst(s)
  PROVE  DOMAIN t = DOMAIN s /\ \A k \in DOMAIN t : \E i \in DOMAIN s : t[k] = s[i]
<1>1. CASE t = s
  BY <1>1
<1>2. CASE t \in Rearranged(s)
  <2>1. PICK p \in Bijection(DOMAIN s, DOMAIN s) : t = [k \in DOMAIN s |-> s[p[k]]]
    BY <1>2 DEF Rearranged
  <2>2. p \in [DOMAIN s -> DOMAIN s]
    BY DEF Bijection, Injection
  <2>3. QED
    BY <2>1, <2>2
<1>3. QED
  BY <1>1, <1>2 DEF GroupWheelFilesFirst

(* Nor does it change what the files are.                                  *)
LEMMA GroupFaithful ==
  ASSUME Accounted, Faithful, Group
  PROVE  Faithful'
<1>1. /\ UNCHANGED <<disk, replaced, paths, files, signatures, distributions, out>>
      /\ pc = "find" /\ pc' = "separate" /\ n' = 1 /\ found' \in GroupWheelFilesFirst(found)
  BY DEF Group, parted, inputs
<1>2. found \in Seq(File) /\ found' \in Seq(File)
  BY GroupAccounted DEF Accounted, Lists
<1>3. \A k \in DOMAIN found' : \E i \in DOMAIN found : found'[k] = found[i]
  BY <1>1, <1>2, RearrangedMembers
<1>4. signatures = <<>> /\ distributions = <<>> /\ out = <<>> /\ DOMAIN <<>> = {}
  BY <1>1 DEF Faithful, Parted, Collecting
<1>5. Parted'
  <2>1. SignedUpTo(n - 1)'
    <3>1. n' - 1 = 0
      BY <1>1
    <3>2. QED
      BY <1>1, <1>4, <3>1 DEF SignedUpTo
  <2>2. n' <= Len(found') + 1
    BY <1>1, <1>2
  <2>3. QED
    BY <1>1, <1>4, <2>1, <2>2 DEF Parted, Collecting, Later, Reading
<1>6. Disk' /\ Made'
  BY <1>1, <1>4, DiskStays DEF Faithful, Made
<1>7. Holding' /\ Searching' /\ Describing'
  BY <1>1 DEF Holding, Searching, Describing
<1>8. Quiet'
  <2>1. AllNamed' = AllNamed /\ \A f : Exists(f)' <=> Exists(f)
    BY <1>1 DEF AllNamed, NamedBy, Exists
  <2>2. QED
    BY <1>1, <1>3, <2>1 DEF Faithful, Quiet
<1>9. QED
  BY <1>5, <1>6, <1>7, <1>8 DEF Faithful

(* Each turn of Separate files a signature under its name, or keeps a      *)
(* distribution.                                                           *)
LEMMA SeparateFaithful ==
  ASSUME Accounted, Faithful, Separate
  PROVE  Faithful'
<1>1. /\ UNCHANGED <<disk, replaced, paths, files, found, out>>
      /\ pc = "separate" /\ pc' = "separate" /\ n <= Len(found) /\ n' = n + 1
      /\ IF IsSignature(found[n])
           THEN /\ signatures' = [name \in DOMAIN signatures \cup {found[n][2]} |->
                                   IF name = found[n][2] THEN found[n] ELSE signatures[name]]
                /\ distributions' = distributions
           ELSE distributions' = Append(distributions, found[n]) /\ signatures' = signatures
  BY DEF Separate, inputs
<1>2. found \in Seq(File) /\ distributions \in Seq(File) /\ n \in Nat \ {0} /\ n \in DOMAIN found
  BY <1>1 DEF Accounted, Lists
<1>3. out = <<>> /\ SignedUpTo(n - 1)
  BY <1>1 DEF Faithful, Parted
<1>4. /\ \A i \in 1 .. n : IsSignature(found[i]) => found[i][2] \in DOMAIN signatures'
      /\ \A name \in DOMAIN signatures' :
           \E i \in 1 .. n : IsSignature(found[i]) /\ signatures'[name] = found[i] /\ found[i][2] = name
  <2>1. \A i \in 1 .. n : i \in 1 .. n - 1 \/ i = n
    BY <1>2
  <2>2. CASE IsSignature(found[n])
    <3>1. /\ DOMAIN signatures' = DOMAIN signatures \cup {found[n][2]}
          /\ signatures'[found[n][2]] = found[n]
          /\ \A name \in DOMAIN signatures : name # found[n][2] => signatures'[name] = signatures[name]
      BY <1>1, <2>2
    <3>2. \A i \in 1 .. n : IsSignature(found[i]) => found[i][2] \in DOMAIN signatures'
      BY <1>3, <2>1, <3>1 DEF SignedUpTo
    <3>3. \A name \in DOMAIN signatures' :
            \E i \in 1 .. n : IsSignature(found[i]) /\ signatures'[name] = found[i] /\ found[i][2] = name
      <4>1. SUFFICES ASSUME NEW name \in DOMAIN signatures'
                     PROVE  \E i \in 1 .. n : IsSignature(found[i]) /\ signatures'[name] = found[i] /\ found[i][2] = name
        OBVIOUS
      <4>2. CASE name = found[n][2]
        BY <1>2, <2>2, <3>1, <4>2
      <4>3. CASE name # found[n][2]
        <5>1. PICK i \in 1 .. n - 1 : IsSignature(found[i]) /\ signatures[name] = found[i] /\ found[i][2] = name
          BY <1>3, <3>1, <4>3 DEF SignedUpTo
        <5>2. i \in 1 .. n
          BY <1>2
        <5>3. QED
          BY <3>1, <4>3, <5>1, <5>2
      <4>4. QED
        BY <4>2, <4>3
    <3>4. QED
      BY <3>2, <3>3
  <2>3. CASE ~IsSignature(found[n])
    <3>1. signatures' = signatures
      BY <1>1, <2>3
    <3>2. \A i \in 1 .. n - 1 : i \in 1 .. n
      BY <1>2
    <3>3. /\ \A i \in 1 .. n : IsSignature(found[i]) => found[i][2] \in DOMAIN signatures
          /\ \A name \in DOMAIN signatures :
               \E i \in 1 .. n : IsSignature(found[i]) /\ signatures[name] = found[i] /\ found[i][2] = name
      BY <1>3, <2>1, <2>3, <3>2 DEF SignedUpTo
    <3>4. QED
      BY <3>1, <3>3
  <2>4. QED
    BY <2>2, <2>3
<1>5. \A k \in DOMAIN distributions' :
        ~IsSignature(distributions'[k]) /\ \E i \in DOMAIN found : distributions'[k] = found[i]
  <2>1. CASE IsSignature(found[n])
    BY <1>1, <2>1 DEF Faithful, Parted
  <2>2. CASE ~IsSignature(found[n])
    <3>1. \A k \in DOMAIN distributions' :
            distributions'[k] = found[n] \/ (k \in DOMAIN distributions /\ distributions'[k] = distributions[k])
      BY SMTT(60), <1>1, <1>2, <2>2, RangeAppend
    <3>2. QED
      BY <1>2, <2>2, <3>1 DEF Faithful, Parted
  <2>3. QED
    BY <2>1, <2>2
<1>6. Parted'
  <2>1. n' - 1 = n /\ n' <= Len(found') + 1
    BY <1>1, <1>2
  <2>2. SignedUpTo(n - 1)'
    BY <1>1, <1>4, <2>1 DEF SignedUpTo
  <2>3. QED
    BY <1>1, <1>3, <1>5, <2>1, <2>2 DEF Parted, Collecting, Later, Reading
<1>7. Disk' /\ Made'
  BY <1>1, <1>3, DiskStays DEF Faithful, Made
<1>8. Holding' /\ Searching' /\ Describing'
  BY <1>1 DEF Holding, Searching, Describing
<1>9. Quiet'
  BY <1>1, QuietStays
<1>10. QED
  BY <1>6, <1>7, <1>8, <1>9 DEF Faithful

(* At the end of the loop all signatures are filed.                        *)
LEMMA SeparatedFaithful ==
  ASSUME Accounted, Faithful, Separated
  PROVE  Faithful'
<1>1. /\ UNCHANGED <<disk, replaced, paths, files, found, signatures, distributions, out>>
      /\ pc = "separate" /\ pc' = "open" /\ n > Len(found)
  BY DEF Separated, listing, inputs, parted
<1>2. found \in Seq(File) /\ n \in Nat
  BY DEF Accounted, Lists
<1>3. n - 1 = Len(found) /\ out = <<>>
  BY <1>1, <1>2 DEF Faithful, Parted
<1>4. SignedUpTo(Len(found))
  BY <1>1, <1>3 DEF Faithful, Parted
<1>5. Parted'
  <2>1. SignedUpTo(Len(found))'
    BY <1>1, <1>4 DEF SignedUpTo
  <2>2. ~Collecting' /\ pc' # "separate" /\ out' = <<>>
    BY <1>1, <1>3 DEF Collecting
  <2>3. \A k \in DOMAIN distributions' :
          ~IsSignature(distributions'[k]) /\ \E i \in DOMAIN found' : distributions'[k] = found'[i]
    BY <1>1 DEF Faithful, Parted
  <2>4. QED
    BY <2>1, <2>2, <2>3 DEF Parted
<1>6. Disk' /\ Made'
  BY <1>1, <1>3, DiskStays DEF Faithful, Made
<1>7. Holding' /\ Searching' /\ Describing'
  BY <1>1 DEF Holding, Searching, Describing
<1>8. Quiet'
  BY <1>1, QuietStays
<1>9. QED
  BY <1>5, <1>6, <1>7, <1>8 DEF Faithful

(* The steps on a package change neither the files found nor the packages  *)
(* made before.                                                            *)
LEMMA MakingFaithful ==
  ASSUME Accounted, Faithful, Step, UNCHANGED <<disk, replaced, n, listing, out>>,
         Later, Later', pc' # "done" \/ pc = "open", Holding', Searching', Describing'
  PROVE  Faithful'
<1>1. UNCHANGED <<paths, files, entries, found, signatures, distributions>>
  BY DEF listing, inputs, parted
<1>2. Disk'
  BY <1>1, DiskStays DEF Faithful
<1>3. Parted'
  BY <1>1 DEF Faithful, Parted, Collecting, Later, Reading, SignedUpTo
<1>4. Made'
  BY <1>1, MadeStays DEF Next
<1>5. Quiet'
  <2>1. pc' \notin {"stat", "list", "glob", "failed"}
    BY DEF Later, Reading
  <2>2. QED
    BY <1>1, <2>1, QuietStays
<1>6. QED
  BY <1>2, <1>3, <1>4, <1>5 DEF Faithful

(* Only an archive of a known format is opened, and of an untouched file   *)
(* the one there is.                                                       *)
LEMMA OpenFaithful ==
  ASSUME Accounted, Faithful, Looking, OpenZip \/ NotZip \/ OpenTar
  PROVE  Faithful'
<1>1. /\ UNCHANGED <<disk, replaced, n, listing, out>> /\ Step
      /\ Reading \/ (pc = "open" /\ n <= Len(distributions))
      /\ Later /\ Later' /\ pc' \in {"tar", "names"}
  BY DEF OpenZip, NotZip, OpenTar, AtHand, Step, Later, Reading, Making
<1>2. PICK d : d = Current
  OBVIOUS
<1>3. d \in File /\ disk[d].stamp \in Nat
  BY <1>1, <1>2, CurrentFacts
<1>4. Current' = d
  BY <1>1, <1>2 DEF Current, listing, parted
<1>5. Holding'
  <2>1. CASE OpenZip
    <3>1. /\ KnownFormat(d) /\ disk[d].content.kind = "zip" /\ pc' = "names" /\ disk' = disk
          /\ held' = [archive |-> "zip", at |-> disk[d]]
      BY <1>2, <2>1 DEF OpenZip
    <3>2. held'.archive = "zip" /\ held'.at = disk[d]
      BY <3>1
    <3>3. disk[d].stamp \in 0 .. disk[d].stamp
      BY <1>3
    <3>4. QED
      BY <1>4, <3>1, <3>2, <3>3 DEF Holding
  <2>2. CASE NotZip
    BY <1>2, <1>4, <2>2 DEF NotZip, Holding, Exists
  <2>3. CASE OpenTar
    <3>1. /\ pc = "tar" /\ d[2].ext = ".tar.gz" /\ HasHeader(handle.at.content) /\ pc' = "names" /\ disk' = disk
          /\ held' = [archive |-> "tar", at |-> handle.at] /\ handle # NoReader
      BY <1>2, <2>3 DEF OpenTar, AtHand, IsTar, DistExtensions
    <3>2. KnownFormat(d)
      BY <1>2, <3>1 DEF Faithful, Holding
    <3>3. held'.archive = "tar"
      BY <3>1
    <3>4. disk[d].stamp = 0 => HasHeader(disk[d].content)
      BY <1>2, <3>1 DEF Looking
    <3>5. QED
      BY <1>4, <3>1, <3>2, <3>3, <3>4 DEF Holding
  <2>4. QED
    BY <2>1, <2>2, <2>3
<1>6. Searching' /\ Describing'
  BY <1>1 DEF Searching, Describing
<1>7. QED
  BY <1>1, <1>5, <1>6, MakingFaithful

(* What is read is what the file holds, if nobody touched it.              *)
LEMMA SourceFacts ==
  ASSUME Accounted, Faithful, Looking, pc \in {"names", "read"}, Open
  PROVE  /\ KnownFormat(Current)
         /\ Source.stamp \in 0 .. disk[Current].stamp
         /\ disk[Current].stamp = 0 =>
              /\ Source = disk[Current] /\ Readable
              /\ ~Listable => ~Opens(Current, disk[Current].content)
              /\ Listable /\ held.archive = "tar" => Entire(disk[Current].content)
<1>1. PICK d : d = Current
  OBVIOUS
<1>2. CASE /\ held.archive = "zip" /\ held.at.content.kind = "zip"
           /\ held.at.stamp \in 0 .. disk[d].stamp
           /\ disk[d].stamp = 0 => held.at = disk[d]
  BY <1>1, <1>2 DEF Faithful, Holding, Source, Readable, Listable
<1>3. CASE /\ held.archive = "tar" /\ d[2].ext = ".tar.gz"
           /\ disk[d].stamp = 0 => HasHeader(disk[d].content)
  <2>1. Source = handle.at /\ handle # NoReader /\ KnownFormat(d)
    BY <1>1, <1>3 DEF Faithful, Holding, Open, Source
  <2>2. Source.stamp \in 0 .. disk[d].stamp /\ (disk[d].stamp = 0 => Source = disk[d])
    BY <1>1, <2>1 DEF Looking
  <2>3. ASSUME disk[d].stamp = 0
        PROVE  /\ Readable
               /\ ~Listable => ~Opens(d, disk[d].content)
               /\ Listable => Entire(disk[d].content)
    <3>1. PICK kind : kind = disk[d].content.kind
      OBVIOUS
    <3>2. kind \in {"tar.gz", "torn tar.gz"}
      BY <1>3, <2>3, <3>1 DEF HasHeader
    <3>3. Readable /\ (Listable <=> Entire(disk[d].content))
      BY <1>3, <2>2, <2>3, <3>1, <3>2 DEF Readable, Gunzips, Listable
    <3>4. Opens(d, disk[d].content) => kind = "tar.gz"
      BY <3>1, <3>2 DEF Opens
    <3>5. kind = "tar.gz" => Entire(disk[d].content)
      BY <3>1 DEF Entire
    <3>6. QED
      BY <3>3, <3>4, <3>5
  <2>4. QED
    BY <1>1, <2>1, <2>2, <2>3
<1>4. QED
  BY <1>1, <1>2, <1>3 DEF Faithful, Holding

(* The members of an archive are a list of names with a depth.             *)
LEMMA MembersFacts ==
  ASSUME Accounted, Faithful, Reading
  PROVE  /\ disk[Current].content.members \in Seq(Range(disk[Current].content.members))
         /\ \A m \in Range(disk[Current].content.members) : m.name.depth \in Nat
  BY CurrentFacts, HoldsAssumption

(* FileNames gathers the candidates, and a candidate without a metadata    *)
(* file is none.                                                           *)
LEMMA NamesFaithful ==
  ASSUME Accounted, Faithful, Looking, FileNames \/ NextCandidate
  PROVE  Faithful'
<1>1. /\ UNCHANGED <<disk, replaced, n, listing, held, out>> /\ Step
      /\ pc \in {"names", "read"} /\ pc' = "read" /\ Later /\ Later' /\ Reading /\ Open
  BY DEF FileNames, NextCandidate, Step, Later, Reading
<1>2. PICK d : d = Current
  OBVIOUS
<1>3. Current' = d
  BY <1>1, <1>2 DEF Current, listing, parted
<1>4. Holding'
  <2>1. pc = "names" => Listable
    BY <1>1 DEF FileNames, NextCandidate
  <2>2. ASSUME held.archive = "tar", disk[d].stamp = 0 PROVE Entire(disk[d].content)
    <3>1. CASE pc = "read"
      BY <1>2, <2>2, <3>1 DEF Faithful, Holding
    <3>2. CASE pc = "names"
      BY <1>1, <1>2, <2>1, <2>2, <3>2, SourceFacts
    <3>3. QED
      BY <1>1, <3>1, <3>2
  <2>3. QED
    BY <1>1, <1>2, <1>3, <2>2 DEF Faithful, Holding
<1>5. ASSUME disk[d].stamp = 0
      PROVE  Left(candidates', disk[d].content.members, Fragment(d))
  <2>1. Source = disk[d] /\ disk[d].content.members \in Seq(Range(disk[d].content.members))
    BY <1>1, <1>2, <1>5, SourceFacts, MembersFacts
  <2>2. CASE FileNames
    <3>1. candidates' \in Candidates(disk[d].content.members, Fragment(d))
      BY <1>2, <2>1, <2>2 DEF FileNames
    <3>2. QED
      BY <2>1, <3>1, CandidatesAreLeft
  <2>3. CASE NextCandidate
    <3>1. /\ pc = "read" /\ candidates # <<>> /\ candidates' = Tail(candidates)
          /\ DocNamed(disk[d].content.members, Head(candidates)) = {NoDoc}
      BY <2>1, <2>3 DEF NextCandidate, Tried, Untried
    <3>2. Left(candidates, disk[d].content.members, Fragment(d))
      BY <1>2, <1>5, <3>1 DEF Faithful, Searching
    <3>3. QED
      BY <3>1, <3>2, TailIsLeft
  <2>4. QED
    BY <2>2, <2>3
<1>6. Searching'
  BY <1>1, <1>3, <1>5 DEF Searching
<1>7. Describing'
  BY <1>1 DEF Describing
<1>8. QED
  BY <1>1, <1>4, <1>6, <1>7, MakingFaithful

(* The metadata read is that of the first candidate that has one.          *)
LEMMA ReadFaithful ==
  ASSUME Accounted, Faithful, Looking, ReadFile
  PROVE  Faithful'
<1>1. /\ UNCHANGED <<disk, replaced, n, listing, out>> /\ Step
      /\ pc = "read" /\ pc' = "hash" /\ Later /\ Later' /\ Reading /\ Open /\ candidates # <<>>
  BY DEF ReadFile, Step, Later, Reading
<1>2. PICK d : d = Current
  OBVIOUS
<1>3. Current' = d
  BY <1>1, <1>2 DEF Current, listing, parted
<1>4. PICK doc \in Tried :
        /\ Acceptable(doc)
        /\ pkg' = [NoPackage EXCEPT !.file = d, !.doc = doc, !.read = Source.stamp]
  BY <1>2 DEF ReadFile
<1>5. Source.stamp \in 0 .. disk[d].stamp
  BY <1>1, <1>2, SourceFacts
<1>6. disk[d].stamp = 0 => doc \in DocsOf(d, disk[d].content)
  <2>1. SUFFICES ASSUME disk[d].stamp = 0 PROVE doc \in DocsOf(d, disk[d].content)
    OBVIOUS
  <2>2. Source = disk[d]
    BY <1>1, <1>2, <2>1, SourceFacts
  <2>3. doc \in DocNamed(disk[d].content.members, Head(candidates))
    BY <1>4, <2>2 DEF Tried
  <2>4. doc # NoDoc
    <3>1. doc.version \in Supported
      BY <1>4 DEF Acceptable
    <3>2. NoDoc.version = ""
      BY DEF NoDoc
    <3>3. QED
      BY <3>1, <3>2 DEF Supported
  <2>5. Left(candidates, disk[d].content.members, Fragment(d))
    BY <1>1, <1>2, <2>1 DEF Faithful, Searching
  <2>6. /\ disk[d].content.members \in Seq(Range(disk[d].content.members))
        /\ \A m \in Range(disk[d].content.members) : m.name.depth \in Nat
    BY <1>1, <1>2, MembersFacts
  <2>7. QED
    BY <1>1, <2>3, <2>4, <2>5, <2>6, HeadIsTheDoc
<1>7. /\ pkg' = [file |-> d, doc |-> pkg'.doc, read |-> pkg'.read, digest |-> pkg'.digest,
                 hashed |-> pkg'.hashed, signature |-> pkg'.signature]
      /\ pkg'.doc = doc /\ pkg'.read = Source.stamp
  BY <1>4 DEF NoPackage
<1>8. Describing'
  BY <1>1, <1>3, <1>5, <1>6, <1>7 DEF Describing
<1>9. Holding' /\ Searching'
  BY <1>1 DEF Holding, Searching
<1>10. QED
  BY <1>1, <1>8, <1>9, MakingFaithful

(* The digest and the signature are of the file under way.                 *)
LEMMA HashFaithful ==
  ASSUME Accounted, Faithful, Looking, Hash \/ Sign
  PROVE  Faithful'
<1>1. /\ UNCHANGED <<disk, replaced, n, listing, out>> /\ Step
      /\ pc \in {"hash", "sign"} /\ pc' \in {"sign", "size"} /\ Later /\ Later' /\ Reading
  BY DEF Hash, Sign, Step, Later, Reading
<1>2. PICK d : d = Current
  OBVIOUS
<1>3. Current' = d /\ SignatureOf(d)' = SignatureOf(d)
  BY <1>1, <1>2 DEF Current, SignatureOf, listing, parted
<1>4. disk[d].stamp \in Nat
  BY <1>1, <1>2, CurrentFacts
<1>5. /\ pkg = [file |-> d, doc |-> pkg.doc, read |-> pkg.read, digest |-> pkg.digest,
                hashed |-> pkg.hashed, signature |-> pkg.signature]
      /\ pkg.read \in 0 .. disk[d].stamp
      /\ disk[d].stamp = 0 => pkg.doc \in DocsOf(d, disk[d].content)
  BY <1>1, <1>2 DEF Faithful, Describing
<1>6. CASE Hash
  <2>4. /\ handle.at.stamp \in pkg.read .. disk[d].stamp
        /\ disk[d].stamp = 0 => handle.at.content = disk[d].content
    BY <1>2, <1>4, <1>5, <1>6 DEF Hash, Looking
  <2>1. pkg' = [pkg EXCEPT !.digest = handle.at.content, !.hashed = handle.at.stamp] /\ pc' = "sign"
    BY <1>6 DEF Hash
  <2>2. pkg' = [file |-> d, doc |-> pkg.doc, read |-> pkg.read, digest |-> handle.at.content,
                hashed |-> handle.at.stamp, signature |-> pkg.signature]
    <3>1. PICK content, stamp : content = handle.at.content /\ stamp = handle.at.stamp
      OBVIOUS
    <3>2. PICK doc, read, digest, hashed, signature :
            /\ pkg = [file |-> d, doc |-> doc, read |-> read, digest |-> digest, hashed |-> hashed,
                      signature |-> signature]
            /\ doc = pkg.doc /\ read = pkg.read /\ signature = pkg.signature
      BY <1>5
    <3>3. pkg' = [[file |-> d, doc |-> doc, read |-> read, digest |-> digest, hashed |-> hashed,
                   signature |-> signature] EXCEPT !.digest = content, !.hashed = stamp]
      BY <2>1, <3>1, <3>2
    <3>4. pkg' = [file |-> d, doc |-> doc, read |-> read, digest |-> content, hashed |-> stamp,
                  signature |-> signature]
      BY <3>3
    <3>5. QED
      BY <3>1, <3>2, <3>4
  <2>3. /\ pkg' = [file |-> d, doc |-> pkg'.doc, read |-> pkg'.read, digest |-> pkg'.digest,
                   hashed |-> pkg'.hashed, signature |-> pkg'.signature]
        /\ pkg'.doc = pkg.doc /\ pkg'.read = pkg.read /\ pkg'.digest = handle.at.content
        /\ pkg'.hashed = handle.at.stamp
    BY <2>2
  <2>5. Describing'
    BY <1>1, <1>3, <1>5, <2>1, <2>3, <2>4 DEF Describing
  <2>6. Holding' /\ Searching'
    BY <2>1 DEF Holding, Searching
  <2>7. QED
    BY <1>1, <2>5, <2>6, MakingFaithful
<1>7. CASE Sign
  <2>1. pkg' = [pkg EXCEPT !.signature = SignatureOf(d)] /\ pc' = "size" /\ pc = "sign"
    BY <1>2, <1>7 DEF Sign
  <2>2. pkg' = [file |-> d, doc |-> pkg.doc, read |-> pkg.read, digest |-> pkg.digest,
                hashed |-> pkg.hashed, signature |-> SignatureOf(d)]
    BY <1>5, <2>1
  <2>3. /\ pkg' = [file |-> d, doc |-> pkg'.doc, read |-> pkg'.read, digest |-> pkg'.digest,
                   hashed |-> pkg'.hashed, signature |-> pkg'.signature]
        /\ pkg'.doc = pkg.doc /\ pkg'.read = pkg.read /\ pkg'.digest = pkg.digest
        /\ pkg'.hashed = pkg.hashed /\ pkg'.signature = SignatureOf(d)
    BY <2>2
  <2>4. /\ pkg.hashed \in pkg.read .. disk[d].stamp
        /\ disk[d].stamp = 0 => pkg.digest = disk[d].content
    BY <1>2, <2>1 DEF Faithful, Describing
  <2>5. Describing'
    BY <1>1, <1>3, <1>5, <2>1, <2>3, <2>4 DEF Describing
  <2>6. Holding' /\ Searching'
    BY <2>1 DEF Holding, Searching
  <2>7. QED
    BY <1>1, <2>5, <2>6, MakingFaithful
<1>8. QED
  BY <1>6, <1>7

(* The package joins those made.                                           *)
LEMMA SizeFaithful ==
  ASSUME Accounted, Faithful, Size
  PROVE  Faithful'
<1>1. /\ UNCHANGED <<disk, replaced, paths, files, found, signatures, distributions>>
      /\ pc = "size" /\ pc' = "open" /\ out' = Append(out, pkg) /\ Reading
  BY DEF Size, Reading, listing, inputs, parted
<1>2. PICK d : d = Current
  OBVIOUS
<1>3. d \in File
  BY <1>1, <1>2, CurrentFacts
<1>4. /\ pkg = [file |-> d, doc |-> pkg.doc, read |-> pkg.read, digest |-> pkg.digest,
                hashed |-> pkg.hashed, signature |-> pkg.signature]
      /\ pkg.read \in 0 .. disk[d].stamp
      /\ disk[d].stamp = 0 => pkg.doc \in DocsOf(d, disk[d].content)
      /\ pkg.hashed \in pkg.read .. disk[d].stamp
      /\ disk[d].stamp = 0 => pkg.digest = disk[d].content
      /\ pkg.signature = SignatureOf(d)
  BY <1>1, <1>2 DEF Faithful, Describing
<1>5. pkg.file = d /\ pkg.read <= pkg.hashed
  BY <1>4
<1>6. Exact(pkg)
  BY <1>3, <1>4, <1>5 DEF Exact
<1>7. \A k \in DOMAIN out' : out'[k] = pkg \/ (k \in DOMAIN out /\ out'[k] = out[k])
  <2>1. PICK S : out \in Seq(S)
    BY DEF Accounted, Lists, IsASequence
  <2>2. QED
    BY <1>1, <2>1, RangeAppend
<1>8. \A k \in DOMAIN out' : Exact(out'[k])
  BY <1>6, <1>7 DEF Faithful, Made
<1>9. \A f : SignatureOf(f)' = SignatureOf(f)
  BY <1>1 DEF SignatureOf
<1>10. Made'
  <2>1. SUFFICES ASSUME NEW k \in DOMAIN out' PROVE Exact(out[k])'
    BY DEF Made
  <2>2. QED
    BY <1>1, <1>8, <1>9 DEF Exact
<1>11. Disk' /\ Parted' /\ Holding' /\ Searching' /\ Describing'
  BY <1>1, DiskStays DEF Faithful, Parted, Collecting, Later, Reading, SignedUpTo, Holding, Searching, Describing
<1>12. Quiet'
  BY <1>1, QuietStays
<1>13. QED
  BY <1>10, <1>11, <1>12 DEF Faithful

(* The end of Parse changes none of them.                                  *)
LEMMA OverFaithful ==
  ASSUME Accounted, Faithful, Return \/ NilReader
  PROVE  Faithful'
<1>1. /\ UNCHANGED <<disk, replaced, n, paths, files, entries, found, signatures, distributions>>
      /\ pc' \in {"done", "panicked"}
      /\ (pc' = "done" /\ pc = "open" /\ out' = out) \/ (pc' = "panicked" /\ out' = <<>>)
  BY DEF Return, NilReader, listing, inputs, parted
<1>2. Disk' /\ Holding' /\ Searching' /\ Describing'
  BY <1>1, DiskStays DEF Faithful, Holding, Searching, Describing
<1>3. Parted'
  BY <1>1 DEF Faithful, Parted, Collecting, Later, Reading, SignedUpTo
<1>4. Made'
  <2>1. CASE out' = <<>>
    BY <2>1 DEF Made
  <2>2. CASE out' = out
    <3>1. [Next]_vars
      BY DEF Next, Step
    <3>2. QED
      BY <1>1, <2>2, <3>1, MadeStays
  <2>3. QED
    BY <1>1, <2>1, <2>2
<1>5. Quiet'
  BY <1>1, QuietStays
<1>6. QED
  BY <1>2, <1>3, <1>4, <1>5 DEF Faithful

(* On a quiet disk stat and the glob fail only where a file named is       *)
(* missing, or none is named.                                              *)
LEMMA ListFails ==
  ASSUME Accounted, Faithful, StatMissing \/ NoFiles \/ NoMatch, replaced = 0
  PROVE  AllNamed = {} \/ \E f \in AllNamed : AtFault(f)
<1>1. paths \in Seq(File \cup DOMAIN Listing) /\ n \in Nat \ {0} /\ files \in Seq(File)
  BY DEF Faithful, Disk, Accounted, Lists
<1>2. CASE StatMissing
  <2>1. n \in DOMAIN paths /\ paths[n] \in File /\ ~Exists(paths[n])
    BY <1>1, <1>2 DEF StatMissing, Stating
  <2>2. paths[n] \in AllNamed
    BY <2>1, ArgumentsAssumption DEF AllNamed, NamedBy
  <2>3. QED
    BY <2>1, <2>2 DEF AtFault
<1>3. CASE NoFiles
  <2>1. pc = "stat" /\ files = <<>> /\ \A k \in DOMAIN paths : k < n
    BY <1>1, <1>3 DEF NoFiles
  <2>2. Range(files) = {}
    BY <2>1 DEF Range
  <2>3. \A k \in DOMAIN paths : NamedBy(paths[k]) = {}
    BY <2>1, <2>2 DEF Faithful, Quiet
  <2>4. QED
    BY <2>3 DEF AllNamed
<1>4. CASE NoMatch
  <2>1. pc = "glob" /\ ~Exists(files[n])
    BY <1>4 DEF NoMatch
  <2>2. n \in DOMAIN files /\ Exists(files[n])
    BY <2>1 DEF Faithful, Quiet
  <2>3. QED
    BY <2>1, <2>2
<1>5. QED
  BY <1>2, <1>3, <1>4


(* On a quiet disk an archive fails only when the file is at fault.        *)
LEMMA ArchiveFails ==
  ASSUME Accounted, Faithful, Looking, NotFound \/ OpenFails \/ NoFileNames \/ ReadFails, replaced = 0
  PROVE  \E f \in AllNamed : AtFault(f)
<1>1. PICK d : d = Current
  OBVIOUS
<1>2. Reading \/ (pc = "open" /\ n <= Len(distributions))
  BY DEF NotFound, OpenFails, AtHand, NoFileNames, ReadFails, Reading, Making
<1>3. d \in AllNamed /\ Exists(d) /\ ~IsSignature(d) /\ disk[d].stamp = 0
  BY <1>1, <1>2, CurrentFacts
<1>4. \/ ~Opens(d, disk[d].content)
      \/ DocsOf(d, disk[d].content) = {}
      \/ \E doc \in DocsOf(d, disk[d].content) : ~Acceptable(doc)
  <2>1. CASE NotFound
    BY <1>1, <1>3, <2>1 DEF NotFound, Opens
  <2>2. CASE OpenFails
    <3>1. disk[d].content.kind # "zip" /\ (d[2].ext # ".tar.gz" \/ ~HasHeader(disk[d].content))
      BY <1>1, <1>3, <2>2 DEF OpenFails, AtHand, IsTar, Looking, Faithful, Holding, DistExtensions
    <3>2. QED
      BY <3>1 DEF Opens, HasHeader
  <2>3. CASE NoFileNames
    BY <1>1, <1>3, <2>3, SourceFacts DEF NoFileNames
  <2>4. CASE ReadFails
    <3>1. /\ pc = "read" /\ Reading
          /\ candidates # <<>> => Open /\ (Readable => \A doc \in Tried : doc # NoDoc /\ ~Acceptable(doc))
      BY <2>4 DEF ReadFails, Reading
    <3>2. candidates # <<>> => Source = disk[d] /\ Readable
      BY <1>1, <1>3, <3>1, SourceFacts
    <3>3. /\ disk[d].content.members \in Seq(Range(disk[d].content.members))
          /\ \A m \in Range(disk[d].content.members) : m.name.depth \in Nat
      BY <1>1, <3>1, MembersFacts
    <3>4. Left(candidates, disk[d].content.members, Fragment(d))
      BY <1>1, <1>3, <3>1 DEF Faithful, Searching
    <3>5. CASE candidates = <<>>
      BY <3>3, <3>4, <3>5, NoneLeft
    <3>6. CASE candidates # <<>>
      <4>1. PICK k \in DOMAIN disk[d].content.members : disk[d].content.members[k].name = Head(candidates)
        BY <3>4, <3>6, HeadAndTail DEF Left
      <4> DEFINE members == disk[d].content.members
      <4>2. PICK i \in 1 .. k : /\ i \in DOMAIN members
                               /\ members[i].name = members[k].name
                               /\ \A j \in 1 .. i - 1 : members[j].name # members[k].name
        <5>1. members \in Seq(Range(members)) /\ k \in DOMAIN members
          BY <3>3, <4>1
        <5> HIDE DEF members
        <5>2. QED
          BY <5>1, NameHasFirst
      <4>3. PICK doc : doc = disk[d].content.members[i].doc
        OBVIOUS
      <4>4. doc \in DocNamed(disk[d].content.members, Head(candidates))
        BY <4>1, <4>2, <4>3 DEF DocNamed
      <4>5. doc # NoDoc /\ ~Acceptable(doc)
        BY <3>1, <3>2, <3>6, <4>4 DEF Tried
      <4>6. doc \in DocsOf(d, disk[d].content)
        BY <3>3, <3>4, <3>6, <4>4, <4>5, HeadIsTheDoc
      <4>7. QED
        BY <4>5, <4>6
    <3>7. QED
      BY <3>5, <3>6
  <2>5. QED
    BY <2>1, <2>2, <2>3, <2>4
<1>5. QED
  BY <1>3, <1>4 DEF AtFault

(* A signature given to a package is a file that was found.                *)
LEMMA FoundSignature ==
  ASSUME Accounted, Faithful, Later, NEW f, SignatureOf(f) # <<>>
  PROVE  \E i \in DOMAIN found : SignatureOf(f) = found[i]
<1>1. found \in Seq(File) /\ DOMAIN found = 1 .. Len(found)
  BY DEF Accounted, Lists
<1>2. SignedUpTo(Len(found))
  BY DEF Faithful, Parted
<1>3. QED
  BY <1>1, <1>2 DEF SignatureOf, SignedUpTo

(* A file found is gone only when somebody removed it.                     *)
LEMMA VanishedIsNoQuiet ==
  ASSUME Accounted, Faithful, Vanished
  PROVE  replaced # 0
<1>1. Reading /\ Later
  BY DEF Vanished, Opening, Reading, Later
<1>2. ~Exists(Current) \/ (SignatureOf(Current) # <<>> /\ ~Exists(SignatureOf(Current)))
  BY DEF Vanished, Opening, Wanted
<1>3. replaced = 0 => Exists(Current)
  BY <1>1, CurrentFacts
<1>4. replaced = 0 /\ SignatureOf(Current) # <<>> => Exists(SignatureOf(Current))
  BY <1>1, FoundSignature DEF Faithful, Quiet
<1>5. QED
  BY <1>2, <1>3, <1>4

(* A path is opened when its file is there, and closed by the call that    *)
(* opened it; whoever replaces the file meanwhile leaves a stamp.          *)
LEMMA LookingNext ==
  ASSUME Accounted, Faithful, Looking, [Next]_vars
  PROVE  Looking'
<1>1. CASE OpenPath
  <2>1. /\ Opening /\ handle' = [archive |-> "path", at |-> disk[Wanted]]
        /\ UNCHANGED <<disk, pc, n, listing, pkg>>
    BY <1>1 DEF OpenPath
  <2>2. pc \in {"tar", "names", "read", "hash", "sign"} /\ Reading
    BY <2>1 DEF Opening, Reading
  <2>3. PICK d : d = Current
    OBVIOUS
  <2>4. Current' = d
    BY <2>1, <2>3 DEF Current, listing, parted
  <2>5. disk[d].stamp \in Nat
    BY <2>2, <2>3, CurrentFacts
  <2>6. pc # "sign" => handle'.at = disk[d]
    BY <2>1, <2>3 DEF Wanted
  <2>7. pc = "hash" => pkg.read <= disk[d].stamp
    BY <2>3, <2>5 DEF Faithful, Describing
  <2>8. QED
    BY <2>1, <2>2, <2>4, <2>5, <2>6, <2>7 DEF Looking
<1>2. CASE UNCHANGED <<pc, n, listing, handle, pkg>>
  <2>1. SUFFICES ASSUME handle # NoReader PROVE Looking'
    BY <1>2 DEF Looking
  <2>2. pc \in {"tar", "names", "read", "hash", "sign"} /\ Reading
    BY <2>1 DEF Looking, Reading
  <2>3. PICK d : d = Current
    OBVIOUS
  <2>4. Current' = d /\ d \in File
    BY <1>2, <2>2, <2>3, CurrentFacts DEF Current, listing, parted
  <2>5. /\ disk[d].stamp \in Nat /\ disk'[d].stamp \in Nat /\ disk[d].stamp <= disk'[d].stamp
        /\ disk'[d].stamp = 0 => disk'[d] = disk[d] /\ disk[d].stamp = 0
    BY <2>4, DiskNext DEF Faithful
  <2>6. pc # "sign" =>
          /\ handle.at.stamp \in 0 .. disk[d].stamp
          /\ disk[d].stamp = 0 => handle.at = disk[d]
          /\ pc = "hash" => pkg.read <= handle.at.stamp
    BY <2>1, <2>3 DEF Looking
  <2>7. pc # "sign" =>
          /\ handle.at.stamp \in 0 .. disk'[d].stamp
          /\ disk'[d].stamp = 0 => handle.at = disk'[d]
    BY <2>5, <2>6
  <2>8. QED
    BY <1>2, <2>2, <2>4, <2>6, <2>7 DEF Looking
<1>3. CASE handle' = NoReader
  BY <1>3 DEF Looking
<1>4. CASE Step /\ pc \notin {"tar", "names", "read", "hash", "sign"}
  <2>1. handle = NoReader
    BY <1>4 DEF Looking
  <2>2. UNCHANGED handle \/ handle' = NoReader
    BY <1>4 DEF Step, StatFile, StatDirectory, ReadEntry, EndDirectory, StatMissing, NoFiles, Find, FindFile,
         NoMatch, Group, Separate, Separated, OpenZip, NotZip, NotFound, OpenPath, Opening, OpenTar, AtHand,
         OpenFails, NilReader, FileNames, NoFileNames, ReadFile, NextCandidate, ReadFails, Hash, Sign, Size,
         Vanished, Return, Fail, reading
  <2>3. QED
    BY <1>3, <2>1, <2>2
<1>5. CASE Step /\ pc \in {"tar", "names", "read", "hash", "sign"}
  <2>1. OpenPath \/ handle' = NoReader
    BY <1>5 DEF Step, StatFile, StatDirectory, ReadEntry, EndDirectory, StatMissing, NoFiles, Find, FindFile,
         NoMatch, Group, Separate, Separated, OpenZip, NotZip, NotFound, OpenTar, OpenFails, NilReader,
         FileNames, NoFileNames, ReadFile, NextCandidate, ReadFails, Hash, Sign, Size, Vanished, Return,
         Fail, Stating, Making
  <2>2. QED
    BY <1>1, <1>3, <2>1
<1>6. ASSUME NEW f \in File, NEW content \in Holds[f], Replace(f, content) PROVE Looking'
  BY <1>2, <1>6 DEF Replace, reading
<1>7. CASE UNCHANGED vars
  BY <1>2, <1>7 DEF vars, reading
<1>8. QED
  BY <1>4, <1>5, <1>6, <1>7 DEF Next

(* Every step of Parse and every change of the disk keeps the invariant.   *)
LEMMA FaithfulNext == Accounted /\ Faithful /\ Looking /\ [Next]_vars => Faithful'
<1> SUFFICES ASSUME Accounted, Faithful, Looking, [Next]_vars PROVE Faithful'
  OBVIOUS
<1>1. CASE Step
  <2>1. CASE StatMissing \/ NoFiles \/ NoMatch \/ NotFound \/ OpenFails \/ NoFileNames \/ ReadFails \/ Vanished
    <3>1. pc' = "failed" /\ out' = <<>> /\ UNCHANGED <<disk, replaced, n, listing>>
      BY <2>1 DEF StatMissing, NoFiles, NoMatch, NotFound, OpenFails, NoFileNames, ReadFails, Vanished, Fail
    <3>2. replaced = 0 => AllNamed = {} \/ \E f \in AllNamed : AtFault(f)
      BY <2>1, ListFails, ArchiveFails, VanishedIsNoQuiet
    <3>3. QED
      BY <3>1, <3>2, FailFaithful
  <2>2. CASE StatFile \/ StatDirectory \/ ReadEntry \/ EndDirectory \/ Find \/ FindFile \/ Group \/ Separate \/ Separated
    BY <2>2, StatFaithful, FindFaithful, GroupFaithful, SeparateFaithful, SeparatedFaithful
  <2>3. CASE OpenZip \/ NotZip \/ OpenTar \/ FileNames \/ NextCandidate \/ ReadFile
    BY <2>3, OpenFaithful, NamesFaithful, ReadFaithful
  <2>4. CASE Hash \/ Sign \/ Size \/ Return \/ NilReader
    BY <2>4, HashFaithful, SizeFaithful, OverFaithful
  <2>5. CASE OpenPath
    BY <2>5, TouchFaithful DEF OpenPath
  <2>6. QED
    BY <1>1, <2>1, <2>2, <2>3, <2>4, <2>5 DEF Step
<1>2. ASSUME NEW f \in File, NEW content \in Holds[f], Replace(f, content) PROVE Faithful'
  <2>1. replaced' # 0 /\ UNCHANGED <<pc, n, listing, held, candidates, pkg, out>>
    BY <1>2 DEF Replace, reading, Faithful, Disk
  <2>2. QED
    BY <2>1, TouchFaithful
<1>3. CASE UNCHANGED vars
  BY <1>3, TouchFaithful DEF vars, reading
<1>4. QED
  BY <1>1, <1>2, <1>3 DEF Next

(* The invariant is what ExactWhereQuiet asks.                             *)
LEMMA FaithfulIsExact == Accounted /\ Faithful => ExactWhereQuiet
<1> SUFFICES ASSUME Accounted, Faithful PROVE ExactWhereQuiet
  OBVIOUS
<1> DEFINE Signed(f)     == {s \in Range(found) : s[2] = [f[2] EXCEPT !.asc = TRUE]}
           Says(k, f)   == IF Signed(f) = {} THEN out[k].signature = <<>> ELSE out[k].signature \in Signed(f)
<1>0. SUFFICES ASSUME NEW k \in DOMAIN out, NEW f, f = out[k].file
               PROVE  Says(k, f)
  <2>1. \A k \in DOMAIN out : Says(k, out[k].file)
    <3> HIDE DEF Says
    <3>1. QED
      BY <1>0
  <2>2. \A k \in DOMAIN out :
          /\ out[k].read <= out[k].hashed
          /\ disk[out[k].file].stamp = 0 =>
               out[k].digest = disk[out[k].file].content /\ out[k].doc \in DocsOf(out[k].file, disk[out[k].file].content)
    BY DEF Faithful, Made, Exact
  <2>3. pc = "failed" /\ replaced = 0 => AllNamed = {} \/ \E g \in AllNamed : AtFault(g)
    BY DEF Faithful, Quiet
  <2>4. QED
    BY Zenon, <2>1, <2>2, <2>3 DEF ExactWhereQuiet
<1>1. PICK signed : signed = Signed(f)
  OBVIOUS
<1>2. f \in File /\ out[k].signature = SignatureOf(f)
  BY <1>0 DEF Faithful, Made, Exact
<1>3. out # <<>>
  BY <1>0
<1>4. SignedUpTo(Len(found)) /\ found \in Seq(File) /\ DOMAIN found = 1 .. Len(found)
  BY <1>3 DEF Faithful, Parted, Accounted, Lists
<1>5. PICK name : name = [f[2] EXCEPT !.asc = TRUE]
  OBVIOUS
<1>6. name.asc
  BY <1>2, <1>5, FileAssumption
<1>7. CASE name \in DOMAIN signatures
  <2>1. PICK i \in 1 .. Len(found) : signatures[name] = found[i] /\ found[i][2] = name
    BY <1>4, <1>7 DEF SignedUpTo
  <2>2. out[k].signature = found[i] /\ found[i] \in signed
    BY <1>1, <1>2, <1>4, <1>5, <1>7, <2>1 DEF SignatureOf, Range
  <2>3. QED
    BY <1>1, <2>2
<1>8. CASE name \notin DOMAIN signatures
  <2>1. ASSUME NEW i \in 1 .. Len(found), found[i][2] = name PROVE FALSE
    BY <1>4, <1>6, <1>8, <2>1 DEF SignedUpTo, IsSignature
  <2>2. signed = {}
    BY <1>1, <1>4, <1>5, <2>1 DEF Range
  <2>3. out[k].signature = <<>>
    BY <1>2, <1>5, <1>8 DEF SignatureOf
  <2>4. QED
    BY <1>1, <2>2, <2>3
<1>9. QED
  BY <1>7, <1>8

(* A package whose file nobody touched says what the file says, bears the  *)
(* digest of the same bytes and a signature of its own name; one whose     *)
(* file was replaced is never described by a newer text than the bytes     *)
(* hashed; and on a quiet disk an error has a file at fault.               *)
THEOREM PackagesAreExact == Spec => []ExactWhereQuiet
<1>1. Accounted /\ Faithful /\ Looking /\ [Next]_vars => (Accounted /\ Faithful /\ Looking)'
  BY AccountedNext, FaithfulNext, LookingNext
<1>2. Init => Looking
  BY DEF Init, Looking
<1>3. QED
  BY <1>1, <1>2, AccountedInit, FaithfulInit, FaithfulIsExact, PTL DEF Spec
=============================================================================
