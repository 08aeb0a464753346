----------------------------- MODULE FlattenFrom -----------------------------
(***************************************************************************)
(* Flatten with the root it was called with, which it forgets, and the     *)
(* promise it implements.                                                  *)
(***************************************************************************)
EXTENDS Flatten

CONSTANT Routes   \* the routes the promise looks at

VARIABLE root     \* history: the root Flatten was called with

RInit == Init /\ root = call.path
RNext == Next /\ UNCHANGED root
RSpec == RInit /\ [][RNext]_<<vars, root>> /\ WF_<<vars, root>>(RNext)

Answered ==
  IF pc = "done" THEN [kind |-> err.kind, path |-> err.path, out |-> out]
  ELSE [kind |-> "pending", path |-> NONE, out |-> <<>>]

P == INSTANCE FlattenPromise WITH answer <- Answered

(* Flatten keeps its promise: what it returns is the expansion along the   *)
(* routes of include directives, or the first trouble on them, and it      *)
(* always returns (Flatten's doc comment; the walk is flattenWalk).        *)
PromiseKept == P!Promise
=============================================================================
