-------------------------- MODULE MarkerRoundTrip --------------------------
(***************************************************************************)
(* A marker written, parsed, evaluated and asked for its variables; then   *)
(* the same with its String, in the same environment, as happens to a      *)
(* marker that is stored and read again (marker.go: "Parse(m.String())     *)
(* yields an equivalent marker").  That is so only while no literal needs  *)
(* an escape, since String writes none and Parse reads them.               *)
(***************************************************************************)
EXTENDS MarkerVariables

CONSTANTS
  Text,   \* markers as written, that parse; the empty sequence for no clause
  Backslashed, BothQuoted, Unescape(_), Malformed   \* as in MarkerText

T == INSTANCE MarkerText WITH NormalizeName <- Normalize

VARIABLES
  text,    \* what was written
  first    \* history: what the first evaluation answered, reported and listed

NoAnswer == [given |-> FALSE]

FromText(ts) == IF ts = <<>> THEN NoMarker ELSE T!ParseFullMarker(ts).expr

InitText ==
  /\ text \in Text
  /\ marker = FromText(text)
  /\ InitVariables
  /\ first = NoAnswer

Reread == T!ParseFullMarker(T!String(marker))

(* The marker is printed and parsed again.                                 *)
Store ==
  /\ Listed /\ ~first.given /\ marker # NoMarker
  /\ first' = [given |-> TRUE, result |-> result, und |-> und, out |-> out]
  /\ UNCHANGED <<target, id, overrides, extras, env, todo, stack, result, walk, out, text>>

Reparse ==
  /\ Store
  /\ Reread.ok
  /\ marker' = Reread.expr
  /\ pc' = "with" /\ und' = <<>> /\ listing' = FALSE

ReparseFails ==
  /\ Store
  /\ ~Reread.ok
  /\ pc' = "unreadable"
  /\ UNCHANGED <<marker, und, listing>>

NextText == Reparse \/ ReparseFails \/ (NextVariables /\ UNCHANGED <<text, first>>)

SpecText == InitText /\ [][NextText]_<<vars, listVars, text, first>>

(* The tree answers what the text says: "and" binds tighter than "or", and *)
(* aliases and spellings of extras are folded before they are compared     *)
(* (groupByPrecedence, ParseMarker).                                       *)
ReadAsWritten ==
  pc = "done" /\ ~first.given /\ text # <<>> =>
    LET items == {T!ParseMarkerItem(t.item) : t \in {t \in T!Range(text) : t.token = "item"}}
    IN  result <=> T!Says(text, {c \in items : EvalCompare(c, env, extras)})

(* No literal of the marker as written has a value that its quotes alone   *)
(* do not carry: a backslash, or both kinds of quote.                      *)
Unescaped ==
  \A k \in 1 .. Len(text) : text[k].token = "item" =>
    \A o \in {text[k].item.lhs, text[k].item.rhs} :
      o.type = "literal" => T!Decoded(o.text) \notin Backslashed \cup BothQuoted

(* A marker whose literals need no escape can be read back, answers the    *)
(* same, reports the same comparisons and lists the same variables in the  *)
(* same order (BoolExpr.String, formatBoolOperand, quoteLiteral).  One     *)
(* with a backslash may not: it is printed bare and read as an escape.     *)
ReparsedAnswersAlike ==
  first.given /\ Unescaped =>
    /\ pc # "unreadable"
    /\ pc = "done" => result = first.result /\ und = first.und
    /\ Listed => out = first.out
=============================================================================
