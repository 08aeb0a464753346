------------------------------ MODULE Markers ------------------------------
(***************************************************************************)
(* Evaluation of a marker in a declared environment (marker/evaluate.go,   *)
(* marker/environment.go), as a caller plans an installation for a machine *)
(* it does not have: EnvironmentFromTarget, With for what it knows better, *)
(* and EvaluateUndecidable, whose reports say where the answer rests on a  *)
(* gap.  Texts are members of Value; what they mean as versions is given   *)
(* by constants.                                                           *)
(***************************************************************************)
EXTENDS Integers, Sequences

CONSTANTS
  Value,                  \* texts, "" among them
  Actual,                 \* texts a variable left open may turn out to have
  Target,                 \* declared targets: [os, arch]
  Identity,               \* interpreters: [name, implementation, full, version]
  Overrides,              \* the maps With is called with
  Extras,                 \* the lists of active extras
  Expr,                   \* marker expressions, closed under their operands
  Marker,                 \* the markers evaluated: Expr, or NoMarker
  Normalize(_),           \* extras.Normalize
  Upper(_),               \* strings.ToUpper
  Repaired(_),            \* repairPythonFullVersion
  MajorMinor(_),          \* python_version of a full version, or ""
  Within(_, _),           \* strings.Contains, the text searched for first
  IsVersion(_),           \* version.Parse succeeds
  IsSpecifier(_, _),      \* version.NewSpecifiers succeeds
  Check(_, _, _),         \* Specifiers.Check: operator, operand, version
  Truth(_, _, _)          \* reference: expression, environment, active extras

Var == {"os_name", "sys_platform", "platform_machine", "platform_python_implementation",
        "platform_release", "platform_system", "platform_version", "python_version",
        "python_full_version", "implementation_name", "implementation_version"}

VersionTypedVars ==
  {"python_version", "python_full_version", "implementation_version", "platform_release"}

CompareOp == {"==", "!=", "<", "<=", ">", ">=", "~=", "===", "in", "not in"}

Operand == [type : {"var"}, text : Var \cup {"extra"}] \cup [type : {"literal"}, text : Value]

NoMarker == [kind |-> "none"]

ASSUME ExprAssumption ==
  \A x \in Expr :
    \/ x.kind = "compare" /\ x.lhs \in Operand /\ x.op \in CompareOp /\ x.rhs \in Operand
    \/ x.kind \in {"and", "or"} /\ x.operands \in Seq(Expr) /\ x.operands # <<>>

ASSUME MarkerAssumption == Marker \subseteq Expr \cup {NoMarker}

ASSUME EnvironmentAssumption ==
  /\ "" \in Value /\ Actual \subseteq Value
  /\ \A t \in Target : t.os \in STRING /\ {t.arch, Upper(t.arch)} \subseteq Value
  /\ \A id \in Identity : {id.name, id.implementation, id.full, id.version} \subseteq Value
  /\ \A o \in Overrides : \A v \in DOMAIN o : o[v] \in Value
  /\ \A x \in Value : Repaired(x) \in Value /\ MajorMinor(x) \in Value
  /\ {"posix", "nt", "linux", "darwin", "win32", "Linux", "Darwin", "Windows",
      "AMD64", "ARM64", "x86"} \subseteq Value
  /\ \A op \in CompareOp, r, l \in Value :
       IsSpecifier(op, r) /\ IsVersion(l) => Check(op, r, l) \in BOOLEAN

VARIABLES
  target, id, overrides, extras, marker,   \* what the caller asks
  pc,       \* "target", "with", "down", "up", "done" or "error"
  env,      \* the Environment under construction
  todo,     \* With: the keys of the map not yet visited
  stack,    \* evalExpr: activations, each with its next operand
  result,   \* the bool of the activation that returned last
  und       \* the Undecidable values noted

asked == <<target, id, overrides, extras, marker>>
vars  == <<target, id, overrides, extras, marker, pc, env, todo, stack, result, und>>

Blank == [v \in Var |-> ""]

Init ==
  /\ target \in Target /\ id \in Identity /\ overrides \in Overrides
  /\ extras \in Extras /\ marker \in Marker
  /\ pc = "target"
  /\ env = Blank /\ todo = {}
  /\ stack = <<>> /\ result = FALSE /\ und = <<>>

(***************************************************************************)
(* Environments                                                            *)
(***************************************************************************)

WindowsMachine(arch) ==
  CASE arch = "amd64" -> "AMD64" [] arch = "arm64" -> "ARM64" [] arch = "x86" -> "x86"
    [] OTHER -> Upper(arch)

OSFields(t) ==
  CASE t.os = "linux"   -> [os_name |-> "posix", sys_platform |-> "linux",
                            platform_system |-> "Linux", platform_machine |-> t.arch]
    [] t.os = "macos"   -> [os_name |-> "posix", sys_platform |-> "darwin",
                            platform_system |-> "Darwin", platform_machine |-> t.arch]
    [] t.os = "windows" -> [os_name |-> "nt", sys_platform |-> "win32",
                            platform_system |-> "Windows",
                            platform_machine |-> WindowsMachine(t.arch)]

FromTarget(t, i) ==
  [v \in Var |->
     CASE v \in {"os_name", "sys_platform", "platform_system", "platform_machine"} -> OSFields(t)[v]
       [] v \in {"platform_release", "platform_version"} -> ""
       [] v = "platform_python_implementation" -> i.implementation
       [] v = "implementation_name"            -> i.name
       [] v = "implementation_version"         -> i.version
       [] v = "python_full_version"            -> Repaired(i.full)
       [] v = "python_version"                 -> MajorMinor(Repaired(i.full))]

Supported(t) == t.os \in {"linux", "macos", "windows"}

EnvironmentFromTarget ==
  /\ pc = "target"
  /\ Supported(target) /\ MajorMinor(Repaired(id.full)) # ""
  /\ env' = FromTarget(target, id)
  /\ todo' = DOMAIN overrides
  /\ pc' = "with"
  /\ UNCHANGED <<asked, stack, result, und>>

NoEnvironment ==
  /\ pc = "target"
  /\ ~Supported(target) \/ MajorMinor(Repaired(id.full)) = ""
  /\ pc' = "error"
  /\ UNCHANGED <<asked, env, todo, stack, result, und>>

(* With visits the map in any order.                                       *)
Override(v) ==
  /\ pc = "with"
  /\ v \in todo /\ v \in Var
  /\ env' = [env EXCEPT ![v] = overrides[v]]
  /\ todo' = todo \ {v}
  /\ UNCHANGED <<asked, pc, stack, result, und>>

\* Mutant: an unknown name is passed over.
Stays == "with"

OnUnknown == "error"

UnknownVariable(v) ==
  /\ pc = "with"
  /\ v \in todo /\ v \notin Var
  /\ pc' = OnUnknown
  /\ todo' = todo \ {v}
  /\ UNCHANGED <<asked, env, stack, result, und>>

(***************************************************************************)
(* Comparisons                                                             *)
(***************************************************************************)

IsVar(o)      == o.type = "var"
IsExtraVar(o) == IsVar(o) /\ o.text = "extra"
HasExtra(c)   == IsExtraVar(c.lhs) \/ IsExtraVar(c.rhs)

ResolveOperand(o, e) ==
  IF IsVar(o) THEN (IF o.text = "extra" THEN "" ELSE e[o.text]) ELSE o.text

(* extra on the left is looked for first, so of two extras the right one   *)
(* is the value.                                                           *)
EvalExtra(c, e, list) ==
  LET value   == ResolveOperand(IF IsExtraVar(c.lhs) THEN c.rhs ELSE c.lhs, e)
      present == \E x \in list : Normalize(x) = value
  IN  \/ c.op = "==" /\ present
      \/ c.op = "!=" /\ ~present

IsVersionTyped(o) == IsVar(o) /\ o.text \in VersionTypedVars

(* tryVersionCompare answers.                                              *)
AsVersions(c, e) ==
  /\ IsVersionTyped(c.lhs) \/ IsVersionTyped(c.rhs)
  /\ IsSpecifier(c.op, ResolveOperand(c.rhs, e))
  /\ IsVersion(ResolveOperand(c.lhs, e))

EvalStringOp(op, l, r) ==
  \/ op \in {"==", "<=", ">="} /\ l = r
  \/ op = "!=" /\ l # r
  \/ op = "in" /\ Within(l, r)
  \/ op = "not in" /\ ~Within(l, r)

EvalCompare(c, e, list) ==
  LET l == ResolveOperand(c.lhs, e)
      r == ResolveOperand(c.rhs, e)
  IN  IF HasExtra(c) THEN EvalExtra(c, e, list)
      ELSE IF AsVersions(c, e) THEN Check(c.op, r, l)
      ELSE EvalStringOp(c.op, l, r)

NoteEmptyEnvVar(c, o, e) ==
  IF IsVar(o) /\ ResolveOperand(o, e) = ""
    THEN <<[expr |-> c, reason |-> "empty", var |-> o.text]>> ELSE <<>>

NoteOperator(c, e) ==
  IF c.op \in {"~=", "==="} /\ ~AsVersions(c, e)
    THEN <<[expr |-> c, reason |-> "operator", var |-> ""]>> ELSE <<>>

\* Mutant: only the left operand is looked at.
LeftNotes(c, e) ==
  IF HasExtra(c) THEN <<>> ELSE NoteEmptyEnvVar(c, c.lhs, e) \o NoteOperator(c, e)

Notes(c, e) ==
  IF HasExtra(c) THEN <<>>
  ELSE NoteEmptyEnvVar(c, c.lhs, e) \o NoteEmptyEnvVar(c, c.rhs, e) \o NoteOperator(c, e)

(***************************************************************************)
(* evalExpr and evalBool, activation by activation                         *)
(***************************************************************************)

Top  == stack[Len(stack)]
Pop  == SubSeq(stack, 1, Len(stack) - 1)
Call(x) == [expr |-> x, next |-> 1]

Evaluate ==
  /\ pc = "with" /\ todo = {}
  /\ IF marker = NoMarker
       THEN pc' = "done" /\ result' = TRUE /\ stack' = stack
       ELSE pc' = "down" /\ result' = result /\ stack' = <<Call(marker)>>
  /\ UNCHANGED <<asked, env, todo, und>>

Compare ==
  /\ pc = "down"
  /\ Top.expr.kind = "compare"
  /\ result' = EvalCompare(Top.expr, env, extras)
  /\ und' = und \o Notes(Top.expr, env)
  /\ stack' = Pop
  /\ pc' = "up"
  /\ UNCHANGED <<asked, env, todo>>

(* The next operand is evaluated.                                          *)
Descend ==
  /\ pc = "down"
  /\ Top.expr.kind # "compare"
  /\ stack' = Append([stack EXCEPT ![Len(stack)].next = @ + 1], Call(Top.expr.operands[Top.next]))
  /\ UNCHANGED <<asked, pc, env, todo, result, und>>

\* Mutant: an "or" stops at the first operand that is false, as an "and".
DecidesAlike(kind, b) == ~b

Decides(kind, b) == (kind = "and" /\ ~b) \/ (kind = "or" /\ b)

Continue ==
  /\ pc = "up" /\ stack # <<>>
  /\ ~Decides(Top.expr.kind, result) /\ Top.next <= Len(Top.expr.operands)
  /\ pc' = "down"
  /\ UNCHANGED <<asked, env, todo, stack, result, und>>

(* Either the last operand decides, or none is left and the bool is that   *)
(* of every operand.                                                       *)
ReturnBool ==
  /\ pc = "up" /\ stack # <<>>
  /\ Decides(Top.expr.kind, result) \/ Top.next > Len(Top.expr.operands)
  /\ stack' = Pop
  /\ UNCHANGED <<asked, pc, env, todo, result, und>>

Answer ==
  /\ pc = "up" /\ stack = <<>>
  /\ pc' = "done"
  /\ UNCHANGED <<asked, env, todo, stack, result, und>>

Next ==
  \/ EnvironmentFromTarget \/ NoEnvironment
  \/ \E v \in todo : Override(v) \/ UnknownVariable(v)
  \/ Evaluate \/ Compare \/ Descend \/ Continue \/ ReturnBool \/ Answer

Spec == Init /\ [][Next]_vars

(***************************************************************************)
(* Properties                                                              *)
(***************************************************************************)

(* The environment a caller means: the target's, with the overrides.       *)
Given(t, i, o) == [v \in Var |-> IF v \in DOMAIN o THEN o[v] ELSE FromTarget(t, i)[v]]

(* The environments the target may really have: what is open is filled in. *)
Completions(e) ==
  {[v \in Var |-> IF e[v] = "" THEN g[v] ELSE e[v]] :
     g \in [{v \in Var : e[v] = ""} -> Actual]}

(* And those that differ from it in a field that was invented.             *)
Inventions(e) == {[e EXCEPT ![v] = x] : v \in Var, x \in Actual}

Environments ==
  UNION {{e} \cup Completions(e) \cup Inventions(e) :
           e \in {Given(t, i, o) : t \in {t \in Target : Supported(t)}, i \in Identity,
                                   o \in {o \in Overrides : DOMAIN o \subseteq Var}}}

(* What a marker says, without an order of evaluation: the reference       *)
(* meaning is any function with this defining equation.                    *)
ASSUME TruthAssumption ==
  \A x \in Expr, e \in Environments, list \in Extras :
    Truth(x, e, list) <=>
      \/ x.kind = "compare" /\ EvalCompare(x, e, list)
      \/ x.kind = "and" /\ \A k \in 1 .. Len(x.operands) : Truth(x.operands[k], e, list)
      \/ x.kind = "or"  /\ \E k \in 1 .. Len(x.operands) : Truth(x.operands[k], e, list)

Report == [expr : Expr, reason : {"empty", "operator"}, var : Var \cup {""}]

(* Every variable keeps its type, and an activation of evalBool never goes *)
(* past its operands (the index loops of evaluate.go).                     *)
TypeOK ==
  /\ target \in Target /\ id \in Identity /\ overrides \in Overrides
  /\ extras \in Extras /\ marker \in Expr \cup {NoMarker}
  /\ pc \in {"target", "with", "down", "up", "done", "error"}
  /\ env \in [Var -> Value]
  /\ todo \subseteq DOMAIN overrides
  /\ stack \in Seq([expr : Expr, next : Nat \ {0}])
  /\ \A k \in 1 .. Len(stack) :
       stack[k].expr.kind # "compare" => stack[k].next <= Len(stack[k].expr.operands) + 1
  /\ result \in BOOLEAN
  /\ und \in Seq(Report)

(* The short-circuiting walk answers what the marker says of the           *)
(* environment, whatever was undecidable on the way ("Evaluate must be     *)
(* unchanged by the collection path", EvaluateUndecidable).                *)
AnswerIsTruth ==
  pc = "done" /\ marker # NoMarker => (result <=> Truth(marker, env, extras))

(* An answer without reports stands whatever the variables left open turn  *)
(* out to be ("When the returned slice is empty the bool is                *)
(* authoritative", EvaluateUndecidable).                                   *)
Authoritative ==
  pc = "done" /\ und = <<>> /\ marker # NoMarker =>
    \A e \in Completions(env) : result <=> Truth(marker, e, extras)

(* The environment is the target's with all overrides and nothing else, in *)
(* whatever order the map was visited, and a name that is no variable is   *)
(* never evaluated against the base value (Environment.With).              *)
OverridesApplied ==
  pc \in {"down", "up", "done"} =>
    /\ DOMAIN overrides \subseteq Var
    /\ env = Given(target, id, overrides)
=============================================================================
