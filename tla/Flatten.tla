------------------------------ MODULE Flatten ------------------------------
(***************************************************************************)
(* reqtxt.Flatten (reqtxt/flatten.go): the depth-first walk that replaces  *)
(* every "-r" and "-c" directive of a requirements file by the entries of  *)
(* the file it names.                                                      *)
(*                                                                         *)
(* Each activation of flattenWalk is a frame of `stack`; `call` is the     *)
(* activation about to begin.  The files are read through a callback of    *)
(* the caller's: `opener` says what that callback is and `disk` what it    *)
(* has answered so far.                                                    *)
(***************************************************************************)
EXTENDS Naturals, Sequences, FiniteSets

CONSTANTS
  Path,           \* what Flatten can hand to open
  File,           \* the files behind open
  Roots,          \* the roots a caller may start from
  Target,         \* the targets include directives are written with
  Verbatim,       \* those rooted or with a scheme: open gets them as written
  PlainKind,      \* the entries that are not includes: "requirement", ...
  Text,           \* what Parse can make of a file: sequences of entries
  FileOf(_),      \* the file a path names, not in File if it names none
  Resolve(_, _),  \* resolveInclude: referring path and target to a path
  Base(_),        \* what a relative target leaves alone of a path: its root,
                  \* its scheme and host, or the directory it is relative to
  NONE            \* no path, no target, no call

VARIABLES
  opener,   \* the open callback: "nil", "stable" or "changing"
  disk,     \* what open last answered for each file
  pc,       \* "start", "call", "walk", "unwind" or "done"
  call,     \* the flattenWalk activation about to begin, or NONE
  stack,    \* the activations under way, the root's first
  visited,  \* the map shared by all of them
  out,      \* what Flatten returns: the entries of the File
  err       \* and its error

vars == <<opener, disk, pc, call, stack, visited, out, err>>

(***************************************************************************)
(* Files, entries and frames                                               *)
(***************************************************************************)

IncludeEntry == [kind : {"include"}, target : Target, constraint : BOOLEAN]
PlainEntry   == [kind : PlainKind, target : {NONE}, constraint : {FALSE}]
Entry        == IncludeEntry \cup PlainEntry

ASSUME ConstantsAssumption ==
  /\ Roots \subseteq Path
  /\ Text \subseteq Seq(Entry)
  /\ NONE \notin Path
  /\ "include" \notin PlainKind
  /\ \A p \in Path, t \in Target : FileOf(p) \in File => Resolve(p, t) \in Path

Unread == [kind |-> "unread", entries |-> <<>>]
Answer == [kind : {"fail", "malformed"}, entries : {<<>>}]
            \cup [kind : {"text"}, entries : Text]

\* An entry of the result: its constraint flag and its Source.
Collected == [kind : PlainKind, constraint : BOOLEAN, path : Path, line : Nat \ {0}]

Call  == [path : Path, constraint : BOOLEAN]
Frame == [path : Path, constraint : BOOLEAN, entries : Text,
          next : Nat \ {0}, out : Seq(Collected)]

ErrorKind == {"none", "nil_open", "recursive", "open", "parse"}
NoError   == [kind |-> "none", path |-> NONE]

Top      == stack[Len(stack)]
Pop      == SubSeq(stack, 1, Len(stack) - 1)
AtEnd(f) == f.next > Len(f.entries)

(***************************************************************************)
(* The open callback                                                       *)
(***************************************************************************)

(* open is called anew at every include.  A "changing" one may answer      *)
(* otherwise the second time: the file was edited during the walk.         *)
OpenAnswers(p) ==
  IF FileOf(p) \notin File
    THEN {[kind |-> "fail", entries |-> <<>>]}
    ELSE IF opener = "stable" /\ disk[FileOf(p)] # Unread
           THEN {disk[FileOf(p)]}
           ELSE Answer

Remember(p, a) ==
  disk' = IF FileOf(p) \in File THEN [disk EXCEPT ![FileOf(p)] = a] ELSE disk

(***************************************************************************)
(* flattenWalk                                                             *)
(***************************************************************************)

Init ==
  /\ opener \in {"nil", "stable", "changing"}
  /\ disk = [f \in File |-> Unread]
  /\ pc = "start"
  /\ call \in [path : Roots, constraint : {FALSE}]
  /\ stack = <<>>
  /\ visited = {}
  /\ out = <<>>
  /\ err = NoError

Fail(kind, p) ==
  /\ err' = [kind |-> kind, path |-> p]
  /\ pc' = "unwind"
  /\ call' = NONE

(* Flatten without a callback fails before it touches anything.            *)
NilOpen ==
  /\ pc = "start"
  /\ opener = "nil"
  /\ Fail("nil_open", NONE)
  /\ UNCHANGED <<opener, disk, stack, visited, out>>

Begin ==
  /\ pc = "start"
  /\ opener # "nil"
  /\ pc' = "call"
  /\ UNCHANGED <<opener, disk, call, stack, visited, out, err>>

\* Mutant: a file already walked anywhere is taken for a cycle.
AfterLeavingNothing(p) == visited

\* Mutant: leaving a file forgets the ones around it.
AfterLeavingAll(p) == {}

(* The deferred delete(visited, p).                                        *)
AfterLeaving(p) == visited \ {p}

RecursiveInclude ==
  /\ pc = "call"
  /\ call.path \in visited
  /\ Fail("recursive", call.path)
  /\ UNCHANGED <<opener, disk, stack, visited, out>>

OpenFails ==
  /\ pc = "call"
  /\ call.path \notin visited
  /\ \E a \in OpenAnswers(call.path) :
       /\ a.kind = "fail"
       /\ Remember(call.path, a)
  /\ Fail("open", call.path)
  /\ UNCHANGED <<opener, stack, visited, out>>

ParseFails ==
  /\ pc = "call"
  /\ call.path \notin visited
  /\ \E a \in OpenAnswers(call.path) :
       /\ a.kind = "malformed"
       /\ Remember(call.path, a)
  /\ Fail("parse", call.path)
  /\ UNCHANGED <<opener, stack, visited, out>>

\* Mutant: the loop starts before the first entry.
FirstLineFromZero == 0

FirstLine == 1

Enter ==
  /\ pc = "call"
  /\ call.path \notin visited
  /\ \E a \in OpenAnswers(call.path) :
       /\ a.kind = "text"
       /\ Remember(call.path, a)
       /\ stack' = Append(stack, [path |-> call.path, constraint |-> call.constraint,
                                  entries |-> a.entries, next |-> FirstLine, out |-> <<>>])
  /\ visited' = visited \cup {call.path}
  /\ pc' = "walk"
  /\ call' = NONE
  /\ UNCHANGED <<opener, out, err>>

\* Mutant: a "-r" below a "-c" stays a constraint.
InheritedConstraint(f, e) == f.constraint \/ e.constraint

(* The flag of the included file: its own directive's, and nothing else's. *)
ChildConstraint(f, e) == e.constraint

Include ==
  /\ pc = "walk"
  /\ ~AtEnd(Top)
  /\ LET e == Top.entries[Top.next] IN
       /\ e.kind = "include"
       /\ call' = [path |-> Resolve(Top.path, e.target), constraint |-> ChildConstraint(Top, e)]
  /\ stack' = [stack EXCEPT ![Len(stack)].next = @ + 1]
  /\ pc' = "call"
  /\ UNCHANGED <<opener, disk, visited, out, err>>

(* A requirement or an unnamed requirement is copied, with the flag of the *)
(* file it stands in; an option is passed on as it is.                     *)
Stamped(f, e) ==
  [kind |-> e.kind, constraint |-> e.kind # "option" /\ (f.constraint \/ e.constraint),
   path |-> f.path, line |-> f.next]

Collect ==
  /\ pc = "walk"
  /\ ~AtEnd(Top)
  /\ LET e == Top.entries[Top.next] IN
       /\ e.kind # "include"
       /\ stack' = [stack EXCEPT ![Len(stack)] =
                      [Top EXCEPT !.next = Top.next + 1, !.out = Append(Top.out, Stamped(Top, e))]]
  /\ UNCHANGED <<opener, disk, pc, call, visited, out, err>>

\* Mutant: an included file's entries come before those that precede its directive.
SpliceBefore(above, below) == below \o above

Splice(above, below) == above \o below

Return ==
  /\ pc = "walk"
  /\ Len(stack) > 1
  /\ AtEnd(Top)
  /\ stack' = [Pop EXCEPT ![Len(stack) - 1].out = Splice(@, Top.out)]
  /\ visited' = AfterLeaving(Top.path)
  /\ UNCHANGED <<opener, disk, pc, call, out, err>>

ReturnFile ==
  /\ pc = "walk"
  /\ Len(stack) = 1
  /\ AtEnd(Top)
  /\ stack' = <<>>
  /\ visited' = AfterLeaving(Top.path)
  /\ out' = Top.out
  /\ pc' = "done"
  /\ UNCHANGED <<opener, disk, call, err>>

(* An error passes through every activation: each returns nil for its      *)
(* entries and runs its deferred delete.                                   *)
Unwind ==
  /\ pc = "unwind"
  /\ stack # <<>>
  /\ stack' = Pop
  /\ visited' = AfterLeaving(Top.path)
  /\ UNCHANGED <<opener, disk, pc, call, out, err>>

ReturnError ==
  /\ pc = "unwind"
  /\ stack = <<>>
  /\ pc' = "done"
  /\ UNCHANGED <<opener, disk, call, stack, visited, out, err>>

Next ==
  \/ NilOpen \/ Begin
  \/ RecursiveInclude \/ OpenFails \/ ParseFails \/ Enter
  \/ Include \/ Collect \/ Return \/ ReturnFile
  \/ Unwind \/ ReturnError

(* The walk runs on the caller's goroutine and open returns.               *)
Spec == Init /\ [][Next]_vars /\ WF_vars(Next)

(***************************************************************************)
(* Properties                                                              *)
(***************************************************************************)

(* Every variable keeps its type; an activation's cursor stays within one  *)
(* past its file's last entry (the range loop of flattenWalk).             *)
TypeOK ==
  /\ opener \in {"nil", "stable", "changing"}
  /\ disk \in [File -> Answer \cup {Unread}]
  /\ pc \in {"start", "call", "walk", "unwind", "done"}
  /\ call \in Call \cup {NONE}
  /\ stack \in Seq(Frame)
  /\ \A i \in 1 .. Len(stack) : stack[i].next <= Len(stack[i].entries) + 1
  /\ visited \subseteq Path
  /\ out \in Seq(Collected)
  /\ err \in [kind : ErrorKind, path : Path \cup {NONE}]

(* The map shared by every level of the recursion holds the paths of the   *)
(* activations under way, each of them once, on every way out of a level   *)
(* (flattenWalk's check, its assignment and its deferred delete).          *)
VisitedIsStack ==
  /\ visited = {stack[i].path : i \in 1 .. Len(stack)}
  /\ \A i, j \in 1 .. Len(stack) : stack[i].path = stack[j].path => i = j

(* The include directive that opened level i + 1: the entry of level i     *)
(* just before its cursor.                                                 *)
Directive(i) == stack[i].entries[stack[i].next - 1]

(* A file counts as constraints exactly when the directive that pulled it  *)
(* in says "-c": a "-r" below a "-c" resets the flag and the root has none *)
(* (the childConstraint comment of flattenWalk).                           *)
ImmediateConstraint ==
  /\ \A i \in 1 .. Len(stack) - 1 :
       /\ stack[i].next > 1
       /\ Directive(i).kind = "include"
       /\ stack[i + 1].path = Resolve(stack[i].path, Directive(i).target)
       /\ stack[i + 1].constraint = Directive(i).constraint
  /\ stack # <<>> => ~stack[1].constraint

(* What a level has collected so far reaches no caller when the walk       *)
(* fails: an error comes with no entries, and a File with no error.        *)
AllOrNothing ==
  /\ err.kind # "none" => out = <<>>
  /\ pc = "done" => stack = <<>> /\ visited = {}

(* What holds between the steps of the walk, and makes the properties      *)
(* above inductive: which variables a program point gives a meaning to,    *)
(* that the activation about to begin is the one the top level's last      *)
(* directive asks for, and that only files that were opened are walked.    *)
Bookkeeping ==
  /\ pc = "start" => stack = <<>>
  /\ pc = "walk" => stack # <<>>
  /\ pc \in {"start", "call"} => call \in Call
  /\ pc \in {"start", "call"} /\ stack = <<>> => ~call.constraint
  /\ pc = "call" /\ stack # <<>> =>
       /\ Top.next > 1
       /\ Directive(Len(stack)).kind = "include"
       /\ call.path = Resolve(Top.path, Directive(Len(stack)).target)
       /\ call.constraint = Directive(Len(stack)).constraint
  /\ pc \in {"start", "call", "walk"} => err = NoError
  /\ pc = "unwind" => err.kind # "none"
  /\ pc # "done" => out = <<>>
  /\ pc = "done" => stack = <<>>
  /\ \A i \in 1 .. Len(stack) : FileOf(stack[i].path) \in File

(* "Recursively includes itself" is said only of a file that the walk is   *)
(* inside of: a file reached by two branches is never rejected.            *)
CycleIsReal ==
  [][err'.kind = "recursive" /\ err.kind = "none"
       => \E i \in 1 .. Len(stack) : stack[i].path = call.path]_vars

(* Resolving a relative target keeps the base, and under one base it gives *)
(* a file one spelling: the clean one (resolveInclude).                    *)
Resolved == {Resolve(p, t) : p \in Path, t \in Target \ Verbatim}

OneSpelling ==
  /\ \A p \in Path, t \in Target \ Verbatim :
       FileOf(Resolve(p, t)) \in File => Base(Resolve(p, t)) = Base(p)
  /\ \A q, r \in Resolved :
       FileOf(q) = FileOf(r) /\ FileOf(q) \in File /\ Base(q) = Base(r) => q = r

\* Level i got its path as somebody wrote it: the caller or a directive.
AsWritten(i) == i = 1 \/ Directive(i - 1).target \in Verbatim

(* The walk comes to a file it is inside of, without noticing, only by way *)
(* of a path that open got as it was written: the root's, or that of a     *)
(* rooted or scheme-bearing target, at one of the two levels or between    *)
(* them.  Levels that relative targets lead to never repeat a file         *)
(* (visited is keyed by spelling, and resolveInclude cleans only those).   *)
AliasedAsWritten ==
  \A i, j \in 1 .. Len(stack) :
    i < j /\ FileOf(stack[i].path) = FileOf(stack[j].path)
      => \E k \in i .. j : AsWritten(k)
=============================================================================
