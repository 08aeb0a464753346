--------------------------- MODULE FlattenPromise ---------------------------
(***************************************************************************)
(* What Flatten promises, without a walk (the doc comment of Flatten in    *)
(* reqtxt/flatten.go): one answer, which is the entries met along every    *)
(* route of include directives, in the order of the routes, or the first   *)
(* trouble in that order.                                                  *)
(*                                                                         *)
(* A route is a sequence of line numbers: all but the last follow include  *)
(* directives from the root, and the last names an entry where they lead.  *)
(***************************************************************************)
EXTENDS Naturals, Sequences, FiniteSets

CONSTANTS
  File, FileOf(_), Resolve(_, _), NONE,   \* as in Flatten
  Routes                                  \* the routes looked at

VARIABLES opener, root, disk, answer

avars == <<opener, root, disk, answer>>

Pending == [kind |-> "pending", path |-> NONE, out |-> <<>>]

AnswerOf(p) ==
  IF FileOf(p) \in File THEN disk[FileOf(p)] ELSE [kind |-> "fail", entries |-> <<>>]

HasInclude(p, line) ==
  /\ AnswerOf(p).kind = "text"
  /\ line \in DOMAIN AnswerOf(p).entries
  /\ AnswerOf(p).entries[line].kind = "include"

Follow(p, line) ==
  IF p # NONE /\ HasInclude(p, line)
    THEN Resolve(p, AnswerOf(p).entries[line].target)
    ELSE NONE

\* Where a route of include directives ends, NONE if it is none.
Reached(r) ==
  LET reached[n \in 0 .. Len(r)] == IF n = 0 THEN root ELSE Follow(reached[n - 1], r[n])
  IN  reached[Len(r)]

ProperPrefixes(r) == {SubSeq(r, 1, n) : n \in 0 .. Len(r) - 1}

Trouble(r) ==
  LET p == Reached(r) IN
    IF p = NONE THEN "none"
    ELSE IF \E q \in ProperPrefixes(r) : Reached(q) = p THEN "recursive"
    ELSE IF AnswerOf(p).kind \in {"fail", "unread"} THEN "open"
    ELSE IF AnswerOf(p).kind = "malformed" THEN "parse"
    ELSE "none"

\* The order in which a reader following the directives in place meets them:
\* where the two part first, r ends or takes an earlier line.
Before(r, s) ==
  \E i \in 1 .. Len(s) :
    /\ i <= Len(r) + 1
    /\ \A j \in 1 .. i - 1 : r[j] = s[j]
    /\ i <= Len(r) => r[i] < s[i]

Front(r) == SubSeq(r, 1, Len(r) - 1)
Last(r)  == r[Len(r)]

\* The directive a non-empty route of includes ends with decides the flag.
FlagAt(r) ==
  /\ r # <<>>
  /\ AnswerOf(Reached(Front(r))).entries[Last(r)].constraint

IsLeaf(r) ==
  /\ r # <<>>
  /\ Reached(Front(r)) # NONE
  /\ LET a == AnswerOf(Reached(Front(r))) IN
       a.kind = "text" /\ Last(r) \in DOMAIN a.entries /\ a.entries[Last(r)].kind # "include"

EntryAt(r) ==
  LET p == Reached(Front(r))
      e == AnswerOf(p).entries[Last(r)]
  IN  [kind |-> e.kind, constraint |-> e.kind # "option" /\ FlagAt(Front(r)),
       path |-> p, line |-> Last(r)]

Leaves == {r \in Routes : IsLeaf(r)}

\* How many entries precede the one a leaf stands for.
Place(r) == Cardinality({s \in Leaves : Before(s, r)})

Expansion ==
  [i \in 1 .. Cardinality(Leaves) |-> EntryAt(CHOOSE r \in Leaves : Place(r) = i - 1)]

Promised ==
  LET troubles == {r \in Routes : Trouble(r) # "none"}
      first    == CHOOSE r \in troubles : \A s \in troubles \ {r} : Before(r, s)
  IN  CASE opener = "nil" -> [kind |-> "nil_open", path |-> NONE, out |-> <<>>]
        [] opener # "nil" /\ troubles = {} ->
             [kind |-> "none", path |-> NONE, out |-> Expansion]
        [] OTHER -> [kind |-> Trouble(first), path |-> Reached(first), out |-> <<>>]

(* The caller's files become known as they are read.                       *)
Read ==
  /\ answer = Pending
  /\ \E f \in File : disk' = [disk EXCEPT ![f] = disk'[f]]
  /\ UNCHANGED <<opener, root, answer>>

(* Of files that change under the walk nothing is promised but an answer.  *)
Deliver ==
  /\ answer = Pending
  /\ answer' # Pending
  /\ opener # "changing" => answer' = Promised
  /\ UNCHANGED <<opener, root, disk>>

PInit == answer = Pending

Promise == PInit /\ [][Read \/ Deliver]_avars /\ <>(answer # Pending)
=============================================================================
