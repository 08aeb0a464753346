--------------------------- MODULE MarkerVariables ---------------------------
(***************************************************************************)
(* Variables (marker/undecidable.go): the names a marker consults,         *)
(* collected by a walk over the whole expression, evaluated or not.  A     *)
(* caller that had to invent a field asks for them once it has its answer. *)
(***************************************************************************)
EXTENDS Markers

VARIABLES
  listing,  \* Variables has been called
  walk,     \* collectVars: activations, each with its next operand
  out       \* the names collected, in the order they were met

listVars == <<listing, walk, out>>

InitVariables ==
  /\ Init
  /\ listing = FALSE /\ walk = <<>> /\ out = <<>>

Last == walk[Len(walk)]
Rest == SubSeq(walk, 1, Len(walk) - 1)

Names(list) == {list[k] : k \in 1 .. Len(list)}

CollectVarOperand(o, list) ==
  IF IsVar(o) /\ o.text \notin Names(list) THEN Append(list, o.text) ELSE list

\* Mutant: only left operands are collected.
CollectLeft(c, list) == CollectVarOperand(c.lhs, list)

CollectBoth(c, list) == CollectVarOperand(c.rhs, CollectVarOperand(c.lhs, list))

Variables ==
  /\ pc = "done" /\ ~listing
  /\ listing' = TRUE
  /\ walk' = IF marker = NoMarker THEN <<>> ELSE <<Call(marker)>>
  /\ out' = <<>>
  /\ UNCHANGED vars

CollectCompare ==
  /\ walk # <<>>
  /\ Last.expr.kind = "compare"
  /\ out' = CollectBoth(Last.expr, out)
  /\ walk' = Rest
  /\ UNCHANGED <<vars, listing>>

(* The range loop over operands: the next one, or none is left.            *)
CollectOperand ==
  /\ walk # <<>>
  /\ Last.expr.kind # "compare"
  /\ Last.next <= Len(Last.expr.operands)
  /\ walk' = Append([walk EXCEPT ![Len(walk)].next = @ + 1], Call(Last.expr.operands[Last.next]))
  /\ UNCHANGED <<vars, listing, out>>

CollectReturn ==
  /\ walk # <<>>
  /\ Last.expr.kind # "compare"
  /\ Last.next > Len(Last.expr.operands)
  /\ walk' = Rest
  /\ UNCHANGED <<vars, listing, out>>

Collect == CollectCompare \/ CollectOperand \/ CollectReturn

NextVariables == (Next /\ UNCHANGED listVars) \/ Variables \/ Collect

SpecVariables == InitVariables /\ [][NextVariables]_<<vars, listVars>>

Listed == listing /\ walk = <<>>

(* What Variables does not list can change without changing the answer: a  *)
(* caller may invent those (Variables).                                    *)
VariablesSuffice ==
  Listed /\ marker # NoMarker =>
    \A v \in Var \ Names(out), x \in Actual :
      result <=> Truth(marker, [env EXCEPT ![v] = x], extras)
=============================================================================
