----------------------------- MODULE MarkerText -----------------------------
(***************************************************************************)
(* Markers as they are written: the parser's grouping and String           *)
(* (internal/pep508/marker.go).  A text is a sequence of tokens; one       *)
(* comparison is a single token that carries its operands as they were     *)
(* spelled, a literal as what stands between its quotes.                   *)
(***************************************************************************)
EXTENDS Integers, SequencesExt

CONSTANTS
  NormalizeName(_),   \* extras.Normalize
  Backslashed,        \* the contents and values that hold a backslash
  BothQuoted,         \* those that hold a single and a double quote
  Unescape(_),        \* what escapes stand for, Malformed if they are wrong
  Malformed

Item(c)   == [token |-> "item", item |-> c]
Word(w)   == [token |-> w]
Variable(name) == [type |-> "var", text |-> name]
Quoted(value)  == [type |-> "literal", text |-> value]
Comparison(l, op, r) == [kind |-> "compare", lhs |-> l, op |-> op, rhs |-> r]

FoldEnvVarAlias(name) ==
  CASE name = "python_implementation"          -> "platform_python_implementation"
    [] name = "platform.python_implementation" -> "platform_python_implementation"
    [] name = "os.name"                        -> "os_name"
    [] name = "sys.platform"                   -> "sys_platform"
    [] name = "platform.version"               -> "platform_version"
    [] name = "platform.machine"               -> "platform_machine"
    [] OTHER                                   -> name

(* decodeQuotedStringContents: only a backslash is more than it looks.     *)
Decoded(contents) == IF contents \in Backslashed THEN Unescape(contents) ELSE contents

(* parseMarkerVar: the name or the value.                                  *)
Folded(o) ==
  IF o.type = "var" THEN Variable(FoldEnvVarAlias(o.text)) ELSE Quoted(Decoded(o.text))

(* A literal that is one token, whichever quotes it is put in, and whose   *)
(* escapes are right.                                                      *)
Readable(o) ==
  o.type = "literal" => o.text \notin BothQuoted /\ Decoded(o.text) # Malformed

IsExtra(o) == o = Variable("extra")

(* normalizeExtraLiteral: the literal across from extra.                   *)
Across(o, extra) == IF IsExtra(extra) /\ o.type = "literal" THEN Quoted(NormalizeName(o.text)) ELSE o

ParseMarkerItem(c) ==
  LET l == Folded(c.lhs)
      r == Folded(c.rhs)
  IN  Comparison(Across(l, r), c.op, Across(r, l))

(***************************************************************************)
(* The parser                                                              *)
(***************************************************************************)

Fail == [ok |-> FALSE]
Parsed(x, rest) == [ok |-> TRUE, expr |-> x, rest |-> rest]

Starts(ts, words) == ts # <<>> /\ Head(ts).token \in words

(* The run of atoms joined by "and" goes on until the next "or".           *)
AndRuns(atoms, ops) ==
  FoldLeftDomain(LAMBDA runs, k :
                   IF ops[k] = "or" THEN Append(runs, <<atoms[k + 1]>>)
                   ELSE [runs EXCEPT ![Len(runs)] = Append(@, atoms[k + 1])],
                 << <<atoms[1]>> >>, ops)

Join(kind, xs) == IF Len(xs) = 1 THEN xs[1] ELSE [kind |-> kind, operands |-> xs]

\* Mutant: the operators associate to the left, without precedence.
GroupLeftToRight(atoms, ops) ==
  FoldLeftDomain(LAMBDA x, k : Join(ops[k], <<x, atoms[k + 1]>>), atoms[1], ops)

GroupByPrecedence(atoms, ops) ==
  LET runs == AndRuns(atoms, ops)
  IN  Join("or", [r \in 1 .. Len(runs) |-> Join("and", runs[r])])

RECURSIVE ParseMarkerSequence(_, _, _), ParseMarkerAtom(_)

ParseMarkerAtom(ts) ==
  IF Starts(ts, {"item"}) THEN
    LET c == Head(ts).item
    IN  IF Readable(c.lhs) /\ Readable(c.rhs)
          THEN Parsed(ParseMarkerItem(c), Tail(ts)) ELSE Fail
  ELSE IF Starts(ts, {"("}) THEN
    LET inner == ParseMarkerSequence(<<>>, <<>>, Tail(ts))
    IN  IF inner.ok /\ Starts(inner.rest, {")"})
          THEN Parsed(inner.expr, Tail(inner.rest)) ELSE Fail
  ELSE Fail

ParseMarkerSequence(atoms, ops, ts) ==
  LET atom == ParseMarkerAtom(ts)
      all  == Append(atoms, atom.expr)
  IN  IF ~atom.ok THEN Fail
      ELSE IF Starts(atom.rest, {"and", "or"})
        THEN ParseMarkerSequence(all, Append(ops, Head(atom.rest).token), Tail(atom.rest))
        ELSE Parsed(GroupByPrecedence(all, ops), atom.rest)

(* ParseFullMarker: nothing may follow.                                    *)
ParseFullMarker(ts) ==
  LET m == ParseMarkerSequence(<<>>, <<>>, ts)
  IN  IF m.ok /\ m.rest = <<>> THEN m ELSE Fail

(***************************************************************************)
(* String                                                                  *)
(***************************************************************************)

\* Mutant: no parentheses.
NeverParenthesized(kind, x) == FALSE

(* Only an "or" inside an "and" needs them.                                *)
Parenthesized(kind, x) == kind = "and" /\ x.kind = "or"

(* quoteLiteral puts the value between quotes as it is: it writes no       *)
(* escapes, so the printed contents are the decoded ones.                  *)
RECURSIVE String(_)
String(x) ==
  IF x.kind = "compare" THEN <<Item(x)>>
  ELSE FoldLeftDomain(LAMBDA ts, k :
         LET o == x.operands[k] IN
           ts \o (IF k = 1 THEN <<>> ELSE <<Word(x.kind)>>)
              \o (IF Parenthesized(x.kind, o) THEN <<Word("(")>> \o String(o) \o <<Word(")")>>
                  ELSE String(o)),
         <<>>, x.operands)

(***************************************************************************)
(* Reference: what a text says                                             *)
(***************************************************************************)

Depth(ts, k) ==
  FoldLeft(LAMBDA d, t : d + (CASE t.token = "(" -> 1 [] t.token = ")" -> -1 [] OTHER -> 0),
           0, SubSeq(ts, 1, k))

(* Where the text falls apart at an operator outside all parentheses.      *)
Cuts(ts, word) == {k \in 2 .. Len(ts) - 1 : ts[k].token = word /\ Depth(ts, k) = 0}

(* It is read off its operators, given the comparisons that are true: an   *)
(* "or" outside all parentheses is decided last, then an "and", and        *)
(* parentheses around everything go.                                       *)
RECURSIVE Says(_, _)
Says(ts, true) ==
  LET Sides(k) == <<SubSeq(ts, 1, k - 1), SubSeq(ts, k + 1, Len(ts))>>
  IN  IF Len(ts) = 1 THEN ParseMarkerItem(ts[1].item) \in true
      ELSE IF Cuts(ts, "or") # {} THEN
        LET k == CHOOSE k \in Cuts(ts, "or") : TRUE
        IN  Says(Sides(k)[1], true) \/ Says(Sides(k)[2], true)
      ELSE IF Cuts(ts, "and") # {} THEN
        LET k == CHOOSE k \in Cuts(ts, "and") : TRUE
        IN  Says(Sides(k)[1], true) /\ Says(Sides(k)[2], true)
      ELSE Says(SubSeq(ts, 2, Len(ts) - 1), true)
=============================================================================
