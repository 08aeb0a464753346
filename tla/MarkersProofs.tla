---------------------------- MODULE MarkersProofs ----------------------------
(***************************************************************************)
(* Proofs about Markers and MarkerVariables, for every closed set of       *)
(* expressions, every environment and every meaning of the texts.          *)
(***************************************************************************)
EXTENDS MarkerVariables, TLAPS, SequenceTheorems

Activation == [expr : Expr, next : Nat \ {0}]

(* Extras are compared with literals: the comparison consults no variable. *)
ExtrasAgainstLiterals ==
  \A x \in Expr : x.kind = "compare" /\ HasExtra(x) =>
    /\ IsVar(x.lhs) => IsExtraVar(x.lhs)
    /\ IsVar(x.rhs) => IsExtraVar(x.rhs)

(* The environments no report so far tells apart from the declared one:    *)
(* all its completions, as long as nothing was undecidable.                *)
Agreeing ==
  {env} \cup (IF und = <<>> /\ ExtrasAgainstLiterals THEN Completions(env) ELSE {})

Merging ==
  pc = "with" =>
    /\ Supported(target)
    /\ DOMAIN overrides \ todo \subseteq Var
    /\ env = [v \in Var |-> IF v \in DOMAIN overrides \ todo THEN overrides[v]
                            ELSE FromTarget(target, id)[v]]

Walked ==
  pc \in {"down", "up", "done"} => Supported(target) /\ OverridesApplied

IsBool(x) == x.kind \in {"and", "or"}

\* The operand an activation has called, or is to hear from.
Called(f) == f.expr.operands[f.next - 1]

(* The operands before that one have been evaluated and decide nothing.    *)
Undecided(f, n) ==
  \A j \in 1 .. Len(f.expr.operands), e \in Agreeing :
    j < n => (Truth(f.expr.operands[j], e, extras) <=> f.expr.kind = "and")

Chain ==
  /\ pc \in {"target", "with", "done", "error"} => stack = <<>>
  /\ pc \in {"target", "with"} => und = <<>>
  /\ pc \in {"down", "up"} => marker \in Expr
  /\ stack # <<>> => stack[1].expr = marker
  /\ \A k \in 1 .. Len(stack) :
       k < Len(stack) \/ pc = "up" =>
         /\ IsBool(stack[k].expr)
         /\ stack[k].next - 1 \in 1 .. Len(stack[k].expr.operands)
         /\ Undecided(stack[k], stack[k].next - 1)
  /\ \A k \in 1 .. Len(stack) : k < Len(stack) => stack[k + 1].expr = Called(stack[k])
  /\ pc = "down" =>
       /\ stack # <<>>
       /\ IsBool(Top.expr) =>
            /\ Top.next \in 1 .. Len(Top.expr.operands)
            /\ Undecided(Top, Top.next)

\* What result is the bool of.
Returned == IF stack = <<>> THEN marker ELSE Called(Top)

Answered ==
  /\ pc = "up" => \A e \in Agreeing : result <=> Truth(Returned, e, extras)
  /\ pc = "done" /\ marker # NoMarker =>
       \A e \in Agreeing : result <=> Truth(marker, e, extras)

IInv == TypeOK /\ Merging /\ Walked /\ Chain /\ Answered

-----------------------------------------------------------------------------
(* Expressions and environments.                                           *)

LEMMA PopFacts ==
  ASSUME NEW S, NEW s \in Seq(S), s # <<>>
  PROVE  /\ Len(s) \in Nat \ {0}
         /\ SubSeq(s, 1, Len(s) - 1) \in Seq(S)
         /\ Len(SubSeq(s, 1, Len(s) - 1)) = Len(s) - 1
         /\ \A i \in 1 .. Len(s) - 1 : SubSeq(s, 1, Len(s) - 1)[i] = s[i]
<1>1. Len(s) \in Nat \ {0}
  BY EmptySeq, LenProperties
<1>2. \A i \in 1 .. Len(s) - 1 : s[i] \in S
  BY <1>1, ElementOfSeq
<1> DEFINE n == Len(s) - 1
<1>3. n \in Nat /\ 1 \in Int /\ n \in Int /\ \A i \in 1 .. n : s[i] \in S
  BY <1>1, <1>2
<1> HIDE DEF n
<1>4. /\ SubSeq(s, 1, n) \in Seq(S)
      /\ Len(SubSeq(s, 1, n)) = IF 1 <= n THEN n - 1 + 1 ELSE 0
      /\ \A i \in 1 .. n - 1 + 1 : SubSeq(s, 1, n)[i] = s[1 + i - 1]
  BY <1>3, SubSeqProperties
<1>5. Len(SubSeq(s, 1, n)) = n /\ \A i \in 1 .. n : SubSeq(s, 1, n)[i] = s[i]
  BY <1>3, <1>4
<1>6. QED
  BY <1>1, <1>4, <1>5 DEF n

LEMMA Kinds ==
  ASSUME NEW x \in Expr
  PROVE  /\ IsBool(x) <=> x.kind # "compare"
         /\ IsBool(x) => /\ Len(x.operands) \in Nat \ {0}
                         /\ \A j \in 1 .. Len(x.operands) : x.operands[j] \in Expr
         /\ ~IsBool(x) => x.lhs \in Operand /\ x.op \in CompareOp /\ x.rhs \in Operand
<1>1. CASE x.kind = "compare" /\ x.lhs \in Operand /\ x.op \in CompareOp /\ x.rhs \in Operand
  BY <1>1 DEF IsBool
<1>2. CASE x.kind \in {"and", "or"} /\ x.operands \in Seq(Expr) /\ x.operands # <<>>
  <2>1. Len(x.operands) \in Nat \ {0} /\ \A j \in 1 .. Len(x.operands) : x.operands[j] \in Expr
    BY <1>2, EmptySeq, ElementOfSeq
  <2>2. QED
    BY <1>2, <2>1 DEF IsBool
<1>3. QED
  BY <1>1, <1>2, ExprAssumption

(* The declared environment and its completions are environments.          *)
LEMMA AgreeingFacts ==
  ASSUME TypeOK, Walked, pc \in {"down", "up", "done"}
  PROVE  Agreeing \subseteq Environments
<1>1. env = Given(target, id, overrides) /\ Supported(target) /\ DOMAIN overrides \subseteq Var
  BY DEF Walked, OverridesApplied
<1>2. target \in Target /\ id \in Identity /\ overrides \in Overrides
  BY DEF TypeOK
<1>3. {env} \cup Completions(env) \subseteq Environments
  BY <1>1, <1>2 DEF Environments
<1>4. QED
  BY <1>3 DEF Agreeing

LEMMA FromTargetType ==
  ASSUME NEW t \in Target, NEW i \in Identity, Supported(t)
  PROVE  FromTarget(t, i) \in [Var -> Value]
<1>1. t.arch \in Value /\ WindowsMachine(t.arch) \in Value
  BY EnvironmentAssumption DEF WindowsMachine
<1>2. \A v \in {"os_name", "sys_platform", "platform_system", "platform_machine"} :
        OSFields(t)[v] \in Value
  <2>1. CASE t.os = "linux"
    <3>1. OSFields(t) = [os_name |-> "posix", sys_platform |-> "linux",
                         platform_system |-> "Linux", platform_machine |-> t.arch]
      BY <2>1 DEF OSFields
    <3>2. /\ OSFields(t)["os_name"] = "posix" /\ OSFields(t)["sys_platform"] = "linux"
          /\ OSFields(t)["platform_system"] = "Linux"
          /\ OSFields(t)["platform_machine"] = t.arch
      BY <3>1
    <3>3. QED
      BY <1>1, <3>2, EnvironmentAssumption
  <2>2. CASE t.os = "macos"
    <3>1. OSFields(t) = [os_name |-> "posix", sys_platform |-> "darwin",
                         platform_system |-> "Darwin", platform_machine |-> t.arch]
      BY <2>2 DEF OSFields
    <3>2. /\ OSFields(t)["os_name"] = "posix" /\ OSFields(t)["sys_platform"] = "darwin"
          /\ OSFields(t)["platform_system"] = "Darwin"
          /\ OSFields(t)["platform_machine"] = t.arch
      BY <3>1
    <3>3. QED
      BY <1>1, <3>2, EnvironmentAssumption
  <2>3. CASE t.os = "windows"
    <3>1. OSFields(t) = [os_name |-> "nt", sys_platform |-> "win32",
                         platform_system |-> "Windows", platform_machine |-> WindowsMachine(t.arch)]
      BY <2>3 DEF OSFields
    <3>2. /\ OSFields(t)["os_name"] = "nt" /\ OSFields(t)["sys_platform"] = "win32"
          /\ OSFields(t)["platform_system"] = "Windows"
          /\ OSFields(t)["platform_machine"] = WindowsMachine(t.arch)
      BY <3>1
    <3>3. QED
      BY <1>1, <3>2, EnvironmentAssumption
  <2>4. QED
    BY <2>1, <2>2, <2>3 DEF Supported
<1>3. /\ {i.name, i.implementation, i.full, i.version} \subseteq Value /\ "" \in Value
      /\ Repaired(i.full) \in Value /\ MajorMinor(Repaired(i.full)) \in Value
  BY EnvironmentAssumption
<1>4. QED
  BY <1>2, <1>3 DEF FromTarget, Var

-----------------------------------------------------------------------------
(* Comparisons.                                                            *)

LEMMA OneNote ==
  ASSUME NEW S, NEW r \in S
  PROVE  <<r>> \in Seq(S) /\ <<r>> # <<>>
<1>1. Append(<<>>, r) \in Seq(S) /\ Append(<<>>, r) # <<>>
  BY EmptySeq, AppendProperties
<1>2. Append(<<>>, r) = <<r>>
  OBVIOUS
<1>3. QED
  BY <1>1, <1>2

LEMMA NotesType ==
  ASSUME NEW c \in Expr, c.kind = "compare", NEW e
  PROVE  /\ Notes(c, e) \in Seq(Report)
         /\ Notes(c, e) = <<>> /\ ~HasExtra(c) =>
              NoteEmptyEnvVar(c, c.lhs, e) = <<>> /\ NoteEmptyEnvVar(c, c.rhs, e) = <<>>
<1>1. CASE HasExtra(c)
  BY <1>1, EmptySeq DEF Notes
<1>2. CASE ~HasExtra(c)
  <2>1. c.lhs \in Operand /\ c.rhs \in Operand
    BY Kinds DEF IsBool
  <2>2. ASSUME NEW o \in {c.lhs, c.rhs} PROVE NoteEmptyEnvVar(c, o, e) \in Seq(Report)
    <3>1. CASE IsVar(o) /\ ResolveOperand(o, e) = ""
      <4>1. o.text \in Var
        BY <1>2, <2>1, <3>1 DEF Operand, IsVar, HasExtra, IsExtraVar
      <4>2. [expr |-> c, reason |-> "empty", var |-> o.text] \in Report
        BY <4>1 DEF Report
      <4>3. QED
        BY <3>1, <4>2, OneNote DEF NoteEmptyEnvVar
    <3>2. CASE ~(IsVar(o) /\ ResolveOperand(o, e) = "")
      BY <3>2, EmptySeq DEF NoteEmptyEnvVar
    <3>3. QED
      BY <3>1, <3>2
  <2>3. NoteOperator(c, e) \in Seq(Report)
    <3>1. [expr |-> c, reason |-> "operator", var |-> ""] \in Report
      BY DEF Report
    <3>2. QED
      BY <3>1, OneNote, EmptySeq DEF NoteOperator
  <2> DEFINE l == NoteEmptyEnvVar(c, c.lhs, e)
             r == NoteEmptyEnvVar(c, c.rhs, e)
             p == NoteOperator(c, e)
  <2>4. l \in Seq(Report) /\ r \in Seq(Report) /\ p \in Seq(Report)
    BY <2>2, <2>3
  <2>5. Notes(c, e) = l \o r \o p
    BY <1>2 DEF Notes
  <2> HIDE DEF l, r, p
  <2>6. l \o r \in Seq(Report) /\ l \o r \o p \in Seq(Report)
    BY <2>4, ConcatProperties
  <2>7. l \o r \o p = <<>> => l = <<>> /\ r = <<>>
    <3>1. /\ Len(l \o r \o p) = Len(l) + Len(r) + Len(p)
          /\ Len(l) \in Nat /\ Len(r) \in Nat /\ Len(p) \in Nat
      BY <2>4, <2>6, ConcatProperties, LenProperties
    <3>2. QED
      BY <2>4, <3>1, EmptySeq
  <2>8. QED
    BY <2>5, <2>6, <2>7 DEF l, r, p
<1>3. QED
  BY <1>1, <1>2

(* A comparison noted for nothing has one answer.                          *)
LEMMA CompareAgrees ==
  ASSUME TypeOK, ExtrasAgainstLiterals, NEW c \in Expr, c.kind = "compare",
         Notes(c, env) = <<>>, NEW e \in Completions(env)
  PROVE  EvalCompare(c, e, extras) <=> EvalCompare(c, env, extras)
<1>1. c.lhs \in Operand /\ c.rhs \in Operand
  BY Kinds DEF IsBool
<1>2. \A v \in Var : env[v] # "" => e[v] = env[v]
  BY DEF Completions
<1>3. ASSUME NEW o \in {c.lhs, c.rhs} PROVE ResolveOperand(o, e) = ResolveOperand(o, env)
  <2>1. CASE ~IsVar(o) \/ o.text = "extra"
    BY <2>1 DEF ResolveOperand
  <2>2. CASE IsVar(o) /\ o.text # "extra"
    <3>1. ~HasExtra(c)
      BY <2>2 DEF ExtrasAgainstLiterals, IsExtraVar
    <3>2. NoteEmptyEnvVar(c, o, env) = <<>>
      BY <3>1, NotesType
    <3>3. ResolveOperand(o, env) # ""
      BY <2>2, <3>2 DEF NoteEmptyEnvVar
    <3>4. o.text \in Var
      BY <1>1, <2>2 DEF Operand, IsVar
    <3>5. QED
      BY <1>2, <2>2, <3>3, <3>4 DEF ResolveOperand
  <2>3. QED
    BY <2>1, <2>2
<1>4. AsVersions(c, e) <=> AsVersions(c, env)
  BY <1>3 DEF AsVersions
<1>5. EvalExtra(c, e, extras) <=> EvalExtra(c, env, extras)
  BY <1>3 DEF EvalExtra
<1>6. ResolveOperand(c.lhs, e) = ResolveOperand(c.lhs, env)
      /\ ResolveOperand(c.rhs, e) = ResolveOperand(c.rhs, env)
  BY <1>3
<1>7. QED
  BY <1>4, <1>5, <1>6 DEF EvalCompare

LEMMA CompareType ==
  ASSUME TypeOK, NEW c \in Expr, c.kind = "compare"
  PROVE  EvalCompare(c, env, extras) \in BOOLEAN
<1>1. c.lhs \in Operand /\ c.op \in CompareOp /\ c.rhs \in Operand
  BY Kinds DEF IsBool
<1>2. ResolveOperand(c.lhs, env) \in Value /\ ResolveOperand(c.rhs, env) \in Value
  BY <1>1, EnvironmentAssumption DEF TypeOK, ResolveOperand, Operand, IsVar
<1>3. AsVersions(c, env) => Check(c.op, ResolveOperand(c.rhs, env), ResolveOperand(c.lhs, env)) \in BOOLEAN
  BY <1>1, <1>2, EnvironmentAssumption DEF AsVersions
<1>4. EvalExtra(c, env, extras) \in BOOLEAN
  BY DEF EvalExtra
<1>5. EvalStringOp(c.op, ResolveOperand(c.lhs, env), ResolveOperand(c.rhs, env)) \in BOOLEAN
  BY DEF EvalStringOp
<1>6. QED
  BY <1>3, <1>4, <1>5 DEF EvalCompare

-----------------------------------------------------------------------------
(* Steps before the walk.                                                  *)

LEMMA InitIInv == Init => IInv
<1> SUFFICES ASSUME Init PROVE IInv
  OBVIOUS
<1>1. env \in [Var -> Value]
  BY EnvironmentAssumption DEF Init, Blank
<1>2. TypeOK
  <2>1. /\ stack \in Seq([expr : Expr, next : Nat \ {0}]) /\ und \in Seq(Report)
        /\ Len(stack) = 0
    BY EmptySeq DEF Init
  <2>2. marker \in Expr \cup {NoMarker}
    BY MarkerAssumption DEF Init
  <2>3. \A k \in 1 .. Len(stack) :
          stack[k].expr.kind # "compare" => stack[k].next <= Len(stack[k].expr.operands) + 1
    BY <2>1
  <2>4. /\ target \in Target /\ id \in Identity /\ overrides \in Overrides /\ extras \in Extras
        /\ pc \in {"target", "with", "down", "up", "done", "error"}
        /\ todo \subseteq DOMAIN overrides /\ result \in BOOLEAN
    BY DEF Init
  <2>5. QED
    BY <1>1, <2>1, <2>2, <2>3, <2>4, Zenon DEF TypeOK
<1>3. Merging /\ Walked /\ Answered
  BY DEF Init, Merging, Walked, Answered
<1>4. Chain
  BY EmptySeq DEF Init, Chain
<1>5. QED
  BY <1>2, <1>3, <1>4 DEF IInv

LEMMA EnvironmentIInv == IInv /\ (EnvironmentFromTarget \/ NoEnvironment) => IInv'
<1> SUFFICES ASSUME IInv, EnvironmentFromTarget \/ NoEnvironment PROVE IInv'
  OBVIOUS
<1>1. /\ pc = "target" /\ UNCHANGED <<asked, stack, result, und>>
      /\ pc' \in {"with", "error"} /\ stack = <<>> /\ und = <<>>
  BY DEF IInv, Chain, EnvironmentFromTarget, NoEnvironment
<1>2. TypeOK'
  <2>1. CASE EnvironmentFromTarget
    <3>1. env' \in [Var -> Value]
      BY <2>1, FromTargetType DEF IInv, TypeOK, EnvironmentFromTarget
    <3>2. QED
      BY <1>1, <2>1, <3>1 DEF IInv, TypeOK, EnvironmentFromTarget, asked
  <2>2. CASE NoEnvironment
    BY <1>1, <2>2 DEF IInv, TypeOK, NoEnvironment, asked
  <2>3. QED
    BY <2>1, <2>2
<1>3. Merging'
  <2>1. CASE EnvironmentFromTarget
    <3>1. /\ env' = FromTarget(target, id) /\ todo' = DOMAIN overrides /\ Supported(target)
          /\ UNCHANGED <<target, id, overrides>>
      BY <2>1 DEF EnvironmentFromTarget, asked
    <3>2. FromTarget(target, id) = [v \in Var |-> FromTarget(target, id)[v]]
      BY <3>1, FromTargetType DEF IInv, TypeOK
    <3>3. DOMAIN overrides \ todo' = {}
      BY <3>1
    <3>4. QED
      BY <3>1, <3>2, <3>3 DEF Merging
  <2>2. CASE NoEnvironment
    BY <2>2 DEF NoEnvironment, Merging
  <2>3. QED
    BY <2>1, <2>2
<1>4. Walked' /\ Answered'
  BY <1>1 DEF Walked, Answered
<1>5. Chain'
  BY <1>1, EmptySeq DEF Chain
<1>6. QED
  BY <1>2, <1>3, <1>4, <1>5 DEF IInv

LEMMA WithIInv ==
  ASSUME NEW v \in todo
  PROVE  IInv /\ (Override(v) \/ UnknownVariable(v)) => IInv'
<1> SUFFICES ASSUME IInv, Override(v) \/ UnknownVariable(v) PROVE IInv'
  OBVIOUS
<1>1. /\ pc = "with" /\ UNCHANGED <<asked, stack, result, und>>
      /\ pc' \in {"with", "error"} /\ stack = <<>> /\ und = <<>>
  BY DEF IInv, Chain, Override, UnknownVariable, OnUnknown
<1>2. todo' = todo \ {v} /\ todo \subseteq DOMAIN overrides /\ v \in DOMAIN overrides
  BY DEF IInv, TypeOK, Override, UnknownVariable
<1>3. TypeOK' /\ Merging'
  <2>1. CASE Override(v)
    <3>1. /\ v \in Var /\ env' = [env EXCEPT ![v] = overrides[v]] /\ pc' = pc
          /\ UNCHANGED <<target, id, overrides, extras, marker>>
      BY <2>1 DEF Override, asked
    <3>2. overrides[v] \in Value /\ env \in [Var -> Value]
      BY <1>2, EnvironmentAssumption DEF IInv, TypeOK
    <3>3. env' \in [Var -> Value]
      BY <3>1, <3>2
    <3>4. TypeOK'
      BY <1>1, <1>2, <3>1, <3>3 DEF IInv, TypeOK
    <3>5. DOMAIN overrides \ todo' = (DOMAIN overrides \ todo) \cup {v}
      BY <1>2
    <3>6. /\ DOMAIN overrides \ todo \subseteq Var /\ Supported(target)
          /\ env = [w \in Var |-> IF w \in DOMAIN overrides \ todo THEN overrides[w]
                                  ELSE FromTarget(target, id)[w]]
      BY <1>1 DEF IInv, Merging
    <3>7. env' = [w \in Var |-> IF w \in DOMAIN overrides \ todo' THEN overrides[w]
                                ELSE FromTarget(target, id)[w]]
      BY <3>1, <3>5, <3>6
    <3>8. QED
      BY <3>1, <3>4, <3>5, <3>6, <3>7 DEF Merging
  <2>2. CASE UnknownVariable(v)
    BY <1>1, <1>2, <2>2 DEF IInv, TypeOK, Merging, UnknownVariable, OnUnknown, asked
  <2>3. QED
    BY <2>1, <2>2
<1>4. Walked' /\ Answered'
  BY <1>1 DEF Walked, Answered
<1>5. Chain'
  BY <1>1, EmptySeq DEF Chain
<1>6. QED
  BY <1>3, <1>4, <1>5 DEF IInv

LEMMA EvaluateIInv == IInv /\ Evaluate => IInv'
<1> SUFFICES ASSUME IInv, Evaluate PROVE IInv'
  OBVIOUS
<1>1. /\ pc = "with" /\ todo = {} /\ stack = <<>> /\ und = <<>>
      /\ UNCHANGED <<target, id, overrides, extras, marker, env, todo, und>>
  BY DEF IInv, Chain, Evaluate, asked
<1>2. OverridesApplied' /\ Supported(target)'
  BY <1>1 DEF IInv, Merging, OverridesApplied, Given
<1>3. CASE marker = NoMarker
  <2>1. pc' = "done" /\ result' = TRUE /\ stack' = <<>>
    BY <1>1, <1>3 DEF Evaluate
  <2>2. TypeOK'
    BY <1>1, <2>1 DEF IInv, TypeOK
  <2>3. Merging' /\ Walked' /\ Answered'
    BY <1>1, <1>2, <1>3, <2>1 DEF Merging, Walked, Answered
  <2>4. Chain'
    BY <2>1, EmptySeq DEF Chain
  <2>5. QED
    BY <2>2, <2>3, <2>4 DEF IInv
<1>4. CASE marker # NoMarker
  <2> DEFINE f == Call(marker)
  <2>1. pc' = "down" /\ result' = result /\ stack' = <<f>>
    BY <1>1, <1>4 DEF Evaluate
  <2>2. marker \in Expr /\ f.expr = marker /\ f.next = 1 /\ f \in Activation
    BY <1>4 DEF IInv, TypeOK, Call, Activation
  <2> HIDE DEF f
  <2>3. stack' \in Seq(Activation) /\ Len(stack') = 1 /\ stack'[1] = f /\ stack' # <<>>
    BY <2>1, <2>2, OneNote
  <2>4. IsBool(marker) => 1 \in 1 .. Len(marker.operands) /\ Len(marker.operands) \in Nat
    BY <2>2, Kinds
  <2>5. TypeOK'
    <3>1. \A k \in 1 .. Len(stack') :
            stack'[k].expr.kind # "compare" => stack'[k].next <= Len(stack'[k].expr.operands) + 1
      BY <2>2, <2>3, <2>4, Kinds
    <3>2. QED
      BY <1>1, <2>1, <2>3, <3>1 DEF IInv, TypeOK, Activation
  <2>6. Merging' /\ Walked' /\ Answered'
    BY <1>1, <1>2, <2>1 DEF Merging, Walked, Answered
  <2>7. Chain'
    <3>1. Top'.expr = marker' /\ Top'.next = 1 /\ stack'[1].expr = marker'
      BY <1>1, <2>2, <2>3 DEF Top
    <3>2. Undecided(Top, Top.next)'
      BY <3>1 DEF Undecided
    <3>3. IsBool(Top.expr)' => Top'.next \in 1 .. Len(Top'.expr.operands)
      BY <1>1, <2>4, <3>1 DEF IsBool
    <3>4. QED
      BY <1>1, <2>1, <2>2, <2>3, <3>1, <3>2, <3>3 DEF Chain
  <2>8. QED
    BY <2>5, <2>6, <2>7 DEF IInv
<1>5. QED
  BY <1>3, <1>4

-----------------------------------------------------------------------------
(* Steps of the walk.                                                      *)

LEMMA StackFacts ==
  ASSUME IInv, stack # <<>>
  PROVE  /\ Len(stack) \in Nat \ {0} /\ stack \in Seq(Activation)
         /\ \A k \in 1 .. Len(stack) : stack[k] \in Activation
         /\ Top \in Activation /\ Top.expr \in Expr /\ Top.next \in Nat \ {0}
         /\ Top = stack[Len(stack)]
         /\ pc \in {"down", "up"}
<1>1. stack \in Seq(Activation)
  BY DEF IInv, TypeOK, Activation
<1>2. Len(stack) \in Nat \ {0} /\ \A k \in 1 .. Len(stack) : stack[k] \in Activation
  BY <1>1, EmptySeq, ElementOfSeq
<1>3. Top = stack[Len(stack)] /\ Top \in Activation
  BY <1>2 DEF Top
<1>4. Top.expr \in Expr /\ Top.next \in Nat \ {0}
  BY <1>3 DEF Activation
<1>5. pc \in {"down", "up"}
  BY DEF IInv, TypeOK, Chain
<1>6. QED
  BY <1>1, <1>2, <1>3, <1>4, <1>5

(* What an activation returns is what the one below it waits for.          *)
LEMMA PopChain ==
  ASSUME IInv, stack # <<>>, stack' = Pop, pc' = "up",
         UNCHANGED <<marker, extras>>, Agreeing' \subseteq Agreeing
  PROVE  /\ stack' \in Seq(Activation)
         /\ \A k \in 1 .. Len(stack') :
              stack'[k].expr.kind # "compare" => stack'[k].next <= Len(stack'[k].expr.operands) + 1
         /\ Chain'
         /\ Returned' = Top.expr
<1>1. /\ stack' \in Seq(Activation) /\ Len(stack') = Len(stack) - 1 /\ Len(stack) \in Nat \ {0}
      /\ \A k \in 1 .. Len(stack) - 1 : stack'[k] = stack[k]
  BY StackFacts, PopFacts DEF Pop
<1>2. \A k \in 1 .. Len(stack') : k \in 1 .. Len(stack) /\ k < Len(stack) /\ stack'[k] = stack[k]
  BY <1>1
<1>3. stack' # <<>> => Len(stack') \in Nat \ {0}
  BY <1>1, EmptySeq
<1>4. stack' = <<>> => Len(stack) = 1
  <2>1. stack' = <<>> => Len(stack') = 0
    OBVIOUS
  <2>2. QED
    BY <1>1, <2>1
<1>5. marker \in Expr /\ stack[1].expr = marker
  BY StackFacts DEF IInv, Chain
<1>6. \A k \in 1 .. Len(stack') :
        /\ IsBool(stack'[k].expr)
        /\ stack'[k].next - 1 \in 1 .. Len(stack'[k].expr.operands)
        /\ Undecided(stack[k], stack[k].next - 1)
  BY <1>2 DEF IInv, Chain
<1>7. \A k \in 1 .. Len(stack') : Undecided(stack[k], stack[k].next - 1)'
  <2> SUFFICES ASSUME NEW k \in 1 .. Len(stack'),
                      NEW j \in 1 .. Len(stack'[k].expr.operands), NEW e \in Agreeing',
                      j < stack'[k].next - 1
               PROVE  Truth(stack'[k].expr.operands[j], e, extras') <=> stack'[k].expr.kind = "and"
    BY DEF Undecided
  <2>1. QED
    BY <1>2, <1>6 DEF Undecided
<1>8. \A k \in 1 .. Len(stack) : k < Len(stack) => stack[k + 1].expr = Called(stack[k])
  BY DEF IInv, Chain
<1>9. \A k \in 1 .. Len(stack') : k < Len(stack') => stack'[k + 1].expr = Called(stack[k])'
  <2> SUFFICES ASSUME NEW k \in 1 .. Len(stack'), k < Len(stack')
               PROVE  stack'[k + 1].expr = Called(stack[k])'
    OBVIOUS
  <2>1. k + 1 \in 1 .. Len(stack')
    BY <1>1
  <2>2. stack'[k + 1] = stack[k + 1] /\ stack'[k] = stack[k]
    BY <1>2, <2>1
  <2>3. QED
    BY <1>2, <1>8, <2>2 DEF Called
<1>10. Chain'
  <2>1. stack' # <<>> => stack'[1].expr = marker'
    BY <1>2, <1>3, <1>5
  <2>2. QED
    BY <1>5, <1>6, <1>7, <1>9, <2>1 DEF Chain
<1>11. Returned' = Top.expr
  <2>1. CASE stack' = <<>>
    BY <1>4, <1>5, <2>1 DEF Returned, Top
  <2>2. CASE stack' # <<>>
    <3> DEFINE n == Len(stack) - 1
    <3>1. n \in 1 .. Len(stack') /\ n + 1 = Len(stack) /\ Len(stack') = n
      BY <1>1, <1>3, <2>2
    <3>2. stack'[n] = stack[n] /\ stack[n + 1].expr = Called(stack[n])
      BY <1>2, <1>8, <3>1
    <3>3. Called(Top)' = Called(stack[n])
      BY <3>1, <3>2 DEF Called, Top
    <3>4. QED
      BY <2>2, <3>1, <3>2, <3>3 DEF Returned, Top
  <2>3. QED
    BY <2>1, <2>2
<1>12. \A k \in 1 .. Len(stack') :
         stack'[k].expr.kind # "compare" => stack'[k].next <= Len(stack'[k].expr.operands) + 1
  BY <1>2 DEF IInv, TypeOK
<1>13. QED
  BY <1>1, <1>10, <1>11, <1>12

LEMMA AgreeingShrinks ==
  ASSUME env' = env, und' = <<>> => und = <<>>
  PROVE  Agreeing' \subseteq Agreeing
<1>1. Completions(env)' = Completions(env)
  BY DEF Completions
<1>2. ExtrasAgainstLiterals' <=> ExtrasAgainstLiterals
  BY DEF ExtrasAgainstLiterals
<1>3. QED
  BY <1>1, <1>2, Zenon DEF Agreeing

LEMMA CompareIInv == IInv /\ Compare => IInv'
<1> SUFFICES ASSUME IInv, Compare PROVE IInv'
  OBVIOUS
<1> DEFINE x == Top.expr
<1>1. /\ pc = "down" /\ stack # <<>> /\ x.kind = "compare"
      /\ result' = EvalCompare(x, env, extras) /\ und' = und \o Notes(x, env)
      /\ stack' = Pop /\ pc' = "up"
      /\ UNCHANGED <<target, id, overrides, extras, marker, env, todo>>
  BY DEF IInv, Chain, Compare, asked
<1>2. x \in Expr
  BY <1>1, StackFacts
<1>3. und \in Seq(Report) /\ Notes(x, env) \in Seq(Report)
  BY <1>1, <1>2, NotesType DEF IInv, TypeOK
<1>4. /\ und' \in Seq(Report)
      /\ und' = <<>> => und = <<>> /\ Notes(x, env) = <<>>
  <2>1. /\ und' \in Seq(Report) /\ Len(und') = Len(und) + Len(Notes(x, env))
        /\ Len(und) \in Nat /\ Len(Notes(x, env)) \in Nat
    BY <1>1, <1>3, ConcatProperties, LenProperties
  <2>2. QED
    BY <1>3, <2>1, EmptySeq
<1>5. Agreeing' \subseteq Agreeing
  BY <1>1, <1>4, AgreeingShrinks
<1>6. /\ stack' \in Seq(Activation) /\ Chain' /\ Returned' = x
      /\ \A k \in 1 .. Len(stack') :
           stack'[k].expr.kind # "compare" => stack'[k].next <= Len(stack'[k].expr.operands) + 1
  BY <1>1, <1>5, PopChain
<1>7. result' \in BOOLEAN
  BY <1>1, <1>2, CompareType DEF IInv
<1>8. TypeOK'
  BY <1>1, <1>4, <1>6, <1>7 DEF IInv, TypeOK, Activation
<1>9. Walked' /\ Merging'
  BY <1>1 DEF IInv, Walked, Merging, OverridesApplied
<1>10. ASSUME NEW e \in Agreeing' PROVE result' <=> Truth(x, e, extras)
  <2>1. e \in Environments /\ extras \in Extras
    BY <1>1, <1>5, AgreeingFacts DEF IInv, TypeOK
  <2>2. Truth(x, e, extras) <=> EvalCompare(x, e, extras)
    BY <1>1, <1>2, <2>1, TruthAssumption
  <2>3. EvalCompare(x, e, extras) <=> EvalCompare(x, env, extras)
    <3>1. CASE e = env
      BY <3>1
    <3>2. CASE e # env
      <4>1. /\ und' = <<>> /\ ExtrasAgainstLiterals /\ e \in Completions(env)
        BY <1>1, <3>2 DEF Agreeing, ExtrasAgainstLiterals, Completions
      <4>2. QED
        BY <1>1, <1>2, <1>4, <4>1, CompareAgrees DEF IInv
    <3>3. QED
      BY <3>1, <3>2
  <2>4. QED
    BY <1>1, <2>2, <2>3
<1>11. Answered'
  BY <1>1, <1>6, <1>10 DEF Answered
<1>12. QED
  BY <1>6, <1>8, <1>9, <1>11 DEF IInv

LEMMA Advance ==
  ASSUME NEW f \in Activation
  PROVE  LET g == [f EXCEPT !.next = @ + 1]
         IN  /\ g \in Activation /\ g.expr = f.expr
             /\ g.next = f.next + 1 /\ g.next - 1 = f.next
BY DEF Activation

LEMMA DescendIInv == IInv /\ Descend => IInv'
<1> SUFFICES ASSUME IInv, Descend PROVE IInv'
  OBVIOUS
<1> DEFINE n == Len(stack)
           g == [Top EXCEPT !.next = @ + 1]
           h == Call(Top.expr.operands[Top.next])
<1>1. /\ pc = "down" /\ stack # <<>> /\ Top.expr.kind # "compare"
      /\ stack' = Append([stack EXCEPT ![n] = g], h)
      /\ UNCHANGED <<target, id, overrides, extras, marker, pc, env, todo, result, und>>
  BY DEF IInv, Chain, Descend, Top, asked
<1>2. /\ n \in Nat \ {0} /\ stack \in Seq(Activation) /\ Top = stack[n]
      /\ Top \in Activation /\ Top.expr \in Expr /\ Top.next \in Nat \ {0}
  BY <1>1, StackFacts
<1>3. /\ IsBool(Top.expr) /\ Top.next \in 1 .. Len(Top.expr.operands)
      /\ Undecided(Top, Top.next)
  BY <1>1, <1>2, Kinds DEF IInv, Chain
<1>4. g \in Activation /\ g.expr = Top.expr /\ g.next = Top.next + 1 /\ g.next - 1 = Top.next
  BY <1>2, Advance
<1>5. h \in Activation /\ h.expr = Called(g) /\ h.next = 1
  <2>1. Top.expr.operands[Top.next] \in Expr
    BY <1>2, <1>3, Kinds
  <2>2. h \in Activation /\ h.expr = Top.expr.operands[Top.next] /\ h.next = 1
    BY <2>1 DEF Call, Activation
  <2>3. QED
    BY <1>4, <2>2 DEF Called
<1> HIDE DEF g, h
<1>6. /\ [stack EXCEPT ![n] = g] \in Seq(Activation) /\ Len([stack EXCEPT ![n] = g]) = n
      /\ \A k \in 1 .. n : [stack EXCEPT ![n] = g][k] = IF k = n THEN g ELSE stack[k]
  BY <1>2, <1>4, ExceptSeq
<1>7. /\ stack' \in Seq(Activation) /\ Len(stack') = n + 1 /\ stack' # <<>>
      /\ \A k \in 1 .. n : stack'[k] = IF k = n THEN g ELSE stack[k]
      /\ stack'[n + 1] = h
  <2> DEFINE s == [stack EXCEPT ![n] = g]
  <2>1. /\ s \in Seq(Activation) /\ Len(s) = n /\ n \in Nat /\ stack' = Append(s, h)
        /\ \A k \in 1 .. n : s[k] = IF k = n THEN g ELSE stack[k]
    BY <1>1, <1>2, <1>6
  <2> HIDE DEF s, n
  <2>2. /\ Append(s, h) \in Seq(Activation) /\ Len(Append(s, h)) = n + 1
        /\ Append(s, h) # <<>> /\ Append(s, h)[n + 1] = h
        /\ \A k \in 1 .. n : Append(s, h)[k] = s[k]
    BY <1>5, <2>1, AppendProperties
  <2>3. QED
    BY <2>1, <2>2
<1>8. Agreeing' \subseteq Agreeing
  BY <1>1, AgreeingShrinks
<1>9. \A k \in 1 .. n + 1 : k = n + 1 \/ k = n \/ (k \in 1 .. n /\ k < n)
  BY <1>2
<1>10. \A k \in 1 .. n : stack'[k].expr = stack[k].expr
  BY <1>2, <1>4, <1>7
<1>11. TypeOK'
  <2>1. ASSUME NEW k \in 1 .. Len(stack'), stack'[k].expr.kind # "compare"
        PROVE  stack'[k].next <= Len(stack'[k].expr.operands) + 1
    <3>1. CASE k = n + 1
      BY <1>5, <1>7, <2>1, <3>1, Kinds, StackFacts DEF Activation
    <3>2. CASE k = n
      BY <1>2, <1>3, <1>4, <1>7, <3>2, Kinds
    <3>3. CASE k \in 1 .. n /\ k < n
      <4>1. stack'[k] = stack[k]
        BY <1>7, <3>3
      <4>2. stack[k].expr.kind # "compare" => stack[k].next <= Len(stack[k].expr.operands) + 1
        BY <3>3 DEF IInv, TypeOK
      <4>3. QED
        BY <2>1, <4>1, <4>2
    <3>4. QED
      BY <1>7, <1>9, <3>1, <3>2, <3>3
  <2>2. QED
    BY <1>1, <1>7, <2>1 DEF IInv, TypeOK, Activation
<1>12. Merging' /\ Walked' /\ Answered'
  BY <1>1 DEF IInv, Merging, Walked, OverridesApplied, Answered
<1>13. Chain'
  <2>1. stack'[1].expr = marker'
    <3>1. 1 \in 1 .. n /\ stack[1].expr = marker
      BY <1>1, <1>2 DEF IInv, Chain
    <3>2. QED
      BY <1>1, <1>10, <3>1
  <2>2. ASSUME NEW k \in 1 .. Len(stack'), k < Len(stack')
        PROVE  /\ IsBool(stack'[k].expr)
               /\ stack'[k].next - 1 \in 1 .. Len(stack'[k].expr.operands)
               /\ Undecided(stack[k], stack[k].next - 1)'
               /\ stack'[k + 1].expr = Called(stack[k])'
    <3>1. CASE k = n
      <4>1. stack'[k] = g /\ stack'[k + 1] = h
        BY <1>2, <1>7, <3>1
      <4>2. Undecided(stack[k], stack[k].next - 1)'
        BY <1>1, <1>3, <1>4, <1>8, <4>1 DEF Undecided
      <4>3. Called(stack[k])' = Called(g)
        BY <4>1 DEF Called
      <4>4. QED
        BY <1>3, <1>4, <1>5, <4>1, <4>2, <4>3
    <3>2. CASE k \in 1 .. n /\ k < n
      <4>1. k + 1 \in 1 .. n /\ stack'[k] = stack[k] /\ stack'[k + 1].expr = stack[k + 1].expr
        BY <1>2, <1>7, <1>10, <3>2
      <4>2. /\ IsBool(stack[k].expr)
            /\ stack[k].next - 1 \in 1 .. Len(stack[k].expr.operands)
            /\ Undecided(stack[k], stack[k].next - 1)
            /\ stack[k + 1].expr = Called(stack[k])
        BY <3>2 DEF IInv, Chain
      <4>3. Undecided(stack[k], stack[k].next - 1)'
        BY <1>1, <1>8, <4>1, <4>2 DEF Undecided
      <4>4. Called(stack[k])' = Called(stack[k])
        BY <4>1 DEF Called
      <4>5. QED
        BY <4>1, <4>2, <4>3, <4>4
    <3>3. QED
      BY <1>2, <1>7, <1>9, <2>2, <3>1, <3>2
  <2>3. Top' = h
    BY <1>7 DEF Top
  <2>4. IsBool(Top.expr)' => Top'.next \in 1 .. Len(Top'.expr.operands)
    <3>1. h.expr \in Expr
      BY <1>5 DEF Activation
    <3>2. IsBool(h.expr) => Len(h.expr.operands) \in Nat \ {0}
      BY <3>1, Kinds
    <3>3. QED
      BY <1>5, <2>3, <3>2 DEF IsBool
  <2>5. Undecided(Top, Top.next)'
    BY <1>5, <2>3 DEF Undecided
  <2>6. QED
    BY <1>1, <1>7, <2>1, <2>2, <2>4, <2>5 DEF IInv, Chain
<1>14. QED
  BY <1>11, <1>12, <1>13 DEF IInv

(* While an activation hears from an operand.                              *)
LEMMA HeardFacts ==
  ASSUME IInv, pc = "up", stack # <<>>
  PROVE  /\ Top.expr \in Expr /\ IsBool(Top.expr) /\ Top.next \in Nat \ {0}
         /\ Top.next - 1 \in 1 .. Len(Top.expr.operands)
         /\ Undecided(Top, Top.next - 1)
         /\ \A e \in Agreeing : result <=> Truth(Called(Top), e, extras)
<1>1. Len(stack) \in 1 .. Len(stack) /\ Top = stack[Len(stack)]
      /\ Top.expr \in Expr /\ Top.next \in Nat \ {0}
  BY StackFacts
<1>2. /\ IsBool(Top.expr) /\ Top.next - 1 \in 1 .. Len(Top.expr.operands)
      /\ Undecided(Top, Top.next - 1)
  BY <1>1 DEF IInv, Chain
<1>3. QED
  BY <1>1, <1>2 DEF IInv, Answered, Returned

LEMMA ContinueIInv == IInv /\ Continue => IInv'
<1> SUFFICES ASSUME IInv, Continue PROVE IInv'
  OBVIOUS
<1>1. /\ pc = "up" /\ stack # <<>> /\ pc' = "down"
      /\ ~Decides(Top.expr.kind, result) /\ Top.next <= Len(Top.expr.operands)
      /\ UNCHANGED <<target, id, overrides, extras, marker, env, todo, stack, result, und>>
  BY DEF Continue, asked
<1>2. /\ Top.expr \in Expr /\ IsBool(Top.expr) /\ Top.next \in Nat \ {0}
      /\ Top.next - 1 \in 1 .. Len(Top.expr.operands)
      /\ Undecided(Top, Top.next - 1)
      /\ \A e \in Agreeing : result <=> Truth(Called(Top), e, extras)
  BY <1>1, HeardFacts
<1>3. Top.next \in 1 .. Len(Top.expr.operands) /\ Len(Top.expr.operands) \in Nat
  BY <1>1, <1>2, Kinds
<1>4. Agreeing' \subseteq Agreeing
  BY <1>1, AgreeingShrinks
<1>5. Top' = Top
  BY <1>1 DEF Top
<1>6. ASSUME NEW j \in 1 .. Len(Top.expr.operands), NEW e \in Agreeing, j < Top.next
      PROVE  Truth(Top.expr.operands[j], e, extras) <=> Top.expr.kind = "and"
  <2>1. CASE j < Top.next - 1
    BY <1>2, <2>1 DEF Undecided
  <2>2. CASE ~(j < Top.next - 1)
    <3>1. j = Top.next - 1
      BY <1>2, <1>6, <2>2
    <3>2. result <=> Truth(Top.expr.operands[j], e, extras)
      BY <1>2, <3>1 DEF Called
    <3>3. QED
      BY <1>1, <1>2, <3>2 DEF Decides, IsBool
  <2>3. QED
    BY <2>1, <2>2
<1>7. Undecided(Top, Top.next)'
  BY <1>1, <1>4, <1>5, <1>6 DEF Undecided
<1>8. TypeOK' /\ Merging' /\ Walked' /\ Answered'
  BY <1>1 DEF IInv, TypeOK, Merging, Walked, OverridesApplied, Answered
<1>9. \A k \in 1 .. Len(stack) : Undecided(stack[k], stack[k].next - 1) =>
        Undecided(stack[k], stack[k].next - 1)'
  BY <1>1, <1>4 DEF Undecided
<1>10. Chain'
  <2>1. marker' \in Expr /\ stack'[1].expr = marker' /\ stack' # <<>>
    BY <1>1 DEF IInv, Chain
  <2>2. \A k \in 1 .. Len(stack') :
         /\ IsBool(stack'[k].expr)
         /\ stack'[k].next - 1 \in 1 .. Len(stack'[k].expr.operands)
         /\ Undecided(stack[k], stack[k].next - 1)'
    BY <1>1, <1>9 DEF IInv, Chain
  <2>3. \A k \in 1 .. Len(stack') : k < Len(stack') => stack'[k + 1].expr = Called(stack[k])'
    BY <1>1 DEF IInv, Chain, Called
  <2>4. Top'.next \in 1 .. Len(Top'.expr.operands)
    BY <1>3, <1>5
  <2>5. QED
    BY <1>1, <1>7, <2>1, <2>2, <2>3, <2>4 DEF Chain
<1>11. QED
  BY <1>8, <1>10 DEF IInv

LEMMA ReturnBoolIInv == IInv /\ ReturnBool => IInv'
<1> SUFFICES ASSUME IInv, ReturnBool PROVE IInv'
  OBVIOUS
<1> DEFINE x == Top.expr
           n == Len(Top.expr.operands)
<1>1. /\ pc = "up" /\ stack # <<>> /\ stack' = Pop /\ pc' = "up"
      /\ Decides(x.kind, result) \/ Top.next > n
      /\ UNCHANGED <<target, id, overrides, extras, marker, env, todo, result, und>>
  BY DEF ReturnBool, asked
<1>2. /\ x \in Expr /\ IsBool(x) /\ Top.next \in Nat \ {0}
      /\ Top.next - 1 \in 1 .. n
      /\ Undecided(Top, Top.next - 1)
      /\ \A e \in Agreeing : result <=> Truth(Called(Top), e, extras)
  BY <1>1, HeardFacts
<1>3. Agreeing' \subseteq Agreeing
  BY <1>1, AgreeingShrinks
<1>4. /\ stack' \in Seq(Activation) /\ Chain' /\ Returned' = x
      /\ \A k \in 1 .. Len(stack') :
           stack'[k].expr.kind # "compare" => stack'[k].next <= Len(stack'[k].expr.operands) + 1
  BY <1>1, <1>3, PopChain
<1>5. TypeOK'
  BY <1>1, <1>4 DEF IInv, TypeOK, Activation
<1>6. Walked' /\ Merging'
  BY <1>1 DEF IInv, Walked, Merging, OverridesApplied
<1>7. ASSUME NEW e \in Agreeing PROVE result <=> Truth(x, e, extras)
  <2> DEFINE says(j) == Truth(x.operands[j], e, extras)
             last == Top.next - 1
  <2>1. e \in Environments /\ extras \in Extras
    BY <1>1, AgreeingFacts DEF IInv, TypeOK
  <2>2. Truth(x, e, extras) <=>
          (\/ x.kind = "and" /\ \A j \in 1 .. n : says(j)
           \/ x.kind = "or"  /\ \E j \in 1 .. n : says(j))
    BY <1>2, <2>1, TruthAssumption DEF IsBool
  <2>3. last \in 1 .. n /\ n \in Nat /\ (result <=> says(last))
    BY <1>2, Kinds DEF Called
  <2>4. \A j \in 1 .. n : j < last => (says(j) <=> x.kind = "and")
    BY <1>2 DEF Undecided
  <2>5. CASE Decides(x.kind, result)
    <3> HIDE DEF says, last
    <3>1. QED
      BY <2>2, <2>3, <2>5 DEF Decides
  <2>6. CASE ~Decides(x.kind, result)
    <3>1. last = n
      BY <1>1, <1>2, <2>3, <2>6
    <3> HIDE DEF says, last
    <3>2. \A j \in 1 .. n : j = last \/ j < last
      BY <2>3, <3>1
    <3>3. QED
      BY <1>2, <2>2, <2>3, <2>4, <3>2 DEF IsBool
  <2>7. QED
    BY <2>5, <2>6
<1>8. Answered'
  BY <1>1, <1>3, <1>4, <1>7 DEF Answered
<1>9. QED
  BY <1>4, <1>5, <1>6, <1>8 DEF IInv

LEMMA AnswerIInv == IInv /\ Answer => IInv'
<1> SUFFICES ASSUME IInv, Answer PROVE IInv'
  OBVIOUS
<1>1. /\ pc = "up" /\ stack = <<>> /\ pc' = "done"
      /\ UNCHANGED <<target, id, overrides, extras, marker, env, todo, stack, result, und>>
  BY DEF Answer, asked
<1>2. TypeOK' /\ Merging' /\ Walked'
  BY <1>1 DEF IInv, TypeOK, Merging, Walked, OverridesApplied
<1>3. Agreeing' \subseteq Agreeing
  BY <1>1, AgreeingShrinks
<1>4. Answered'
  BY <1>1, <1>3 DEF IInv, Answered, Returned
<1>5. Chain'
  BY <1>1, EmptySeq DEF Chain
<1>6. QED
  BY <1>2, <1>4, <1>5 DEF IInv

-----------------------------------------------------------------------------
(* What an evaluation shows.                                               *)

LEMMA StutterIInv == IInv /\ UNCHANGED vars => IInv'
<1> SUFFICES ASSUME IInv, UNCHANGED vars PROVE IInv'
  OBVIOUS
<1>1. UNCHANGED <<target, id, overrides, extras, marker, pc, env, todo, stack, result, und>>
  BY DEF vars
<1>2. TypeOK' /\ Merging' /\ Walked'
  BY <1>1 DEF IInv, TypeOK, Merging, Walked, OverridesApplied
<1>3. Agreeing' \subseteq Agreeing
  BY <1>1, AgreeingShrinks
<1>4. Top' = Top /\ Returned' = Returned
  BY <1>1 DEF Top, Returned, Called
<1>5. Answered'
  BY <1>1, <1>3, <1>4 DEF IInv, Answered
<1>6. \A k \in 1 .. Len(stack) : Undecided(stack[k], stack[k].next - 1) =>
        Undecided(stack[k], stack[k].next - 1)'
  BY <1>1, <1>3 DEF Undecided
<1>7. Undecided(Top, Top.next) => Undecided(Top, Top.next)'
  BY <1>1, <1>3, <1>4 DEF Undecided
<1>8. Chain'
  <2>1. \A k \in 1 .. Len(stack') : k < Len(stack') => stack'[k + 1].expr = Called(stack[k])'
    BY <1>1 DEF IInv, Chain, Called
  <2>2. \A k \in 1 .. Len(stack') :
         k < Len(stack') \/ pc' = "up" =>
           /\ IsBool(stack'[k].expr)
           /\ stack'[k].next - 1 \in 1 .. Len(stack'[k].expr.operands)
           /\ Undecided(stack[k], stack[k].next - 1)'
    BY <1>1, <1>6 DEF IInv, Chain
  <2>3. pc' = "down" =>
         /\ stack' # <<>>
         /\ IsBool(Top'.expr) => /\ Top'.next \in 1 .. Len(Top'.expr.operands)
                                 /\ Undecided(Top, Top.next)'
    BY <1>1, <1>4, <1>7 DEF IInv, Chain
  <2>4. /\ pc' \in {"target", "with", "done", "error"} => stack' = <<>>
        /\ pc' \in {"target", "with"} => und' = <<>>
        /\ pc' \in {"down", "up"} => marker' \in Expr
        /\ stack' # <<>> => stack'[1].expr = marker'
    BY <1>1 DEF IInv, Chain
  <2>5. QED
    BY <2>1, <2>2, <2>3, <2>4 DEF Chain
<1>9. QED
  BY <1>2, <1>5, <1>8 DEF IInv

LEMMA NextIInv == IInv /\ [Next]_vars => IInv'
BY EnvironmentIInv, WithIInv, EvaluateIInv, CompareIInv, DescendIInv, ContinueIInv,
   ReturnBoolIInv, AnswerIInv, StutterIInv DEF Next

LEMMA Invariance == Spec => []IInv
BY InitIInv, NextIInv, PTL DEF Spec

(* Every variable keeps its type, and no activation of evalBool indexes    *)
(* past its operands, however deep the expression (evaluate.go).           *)
THEOREM TypeCorrect == Spec => []TypeOK
BY Invariance, PTL DEF IInv

(* Whatever the map and the order it is visited in, a marker is evaluated  *)
(* against the target's environment with all the overrides, and a map with *)
(* an unknown name is never evaluated (Environment.With).                  *)
THEOREM OverridesAreApplied == Spec => []OverridesApplied
<1>1. IInv => OverridesApplied
  BY DEF IInv, Walked, OverridesApplied
<1>2. QED
  BY Invariance, <1>1, PTL

(* The short-circuiting walk answers what the marker says of the           *)
(* environment (evalExpr, evalBool).                                       *)
THEOREM AnswersAreTrue == Spec => []AnswerIsTruth
<1>1. IInv => AnswerIsTruth
  BY DEF IInv, Answered, Agreeing, AnswerIsTruth
<1>2. QED
  BY Invariance, <1>1, PTL

(* An answer without reports stands whatever the open variables turn out   *)
(* to be, as long as no marker compares extra with a variable              *)
(* (EvaluateUndecidable).                                                  *)
THEOREM AnswersStand ==
  ASSUME ExtrasAgainstLiterals
  PROVE  Spec => []Authoritative
<1>1. IInv => Authoritative
  BY DEF IInv, Answered, Agreeing, Authoritative
<1>2. QED
  BY Invariance, <1>1, PTL
-----------------------------------------------------------------------------
(* The variables listed.                                                   *)

(* Environments that agree on the listed variables agree on what x says.   *)
Settled(x, list) ==
  \A e, f \in Environments, active \in Extras :
    (\A v \in Var : v \in Names(list) => e[v] = f[v]) =>
      (Truth(x, e, active) <=> Truth(x, f, active))

\* The operands before the n-th have been looked at.
Visited(f, n, list) ==
  \A j \in 1 .. Len(f.expr.operands) : j < n => Settled(f.expr.operands[j], list)

Name == Var \cup {"extra"}

Waiting(f, g, list) ==
  /\ IsBool(f.expr) /\ f.next - 1 \in 1 .. Len(f.expr.operands)
  /\ g.expr = Called(f)
  /\ Visited(f, f.next - 1, list)

Walking ==
  /\ walk \in Seq(Activation) /\ out \in Seq(Name)
  /\ listing => pc = "done"
  /\ ~listing => walk = <<>>
  /\ walk # <<>> =>
       /\ marker \in Expr /\ walk[1].expr = marker
       /\ IsBool(Last.expr) => Visited(Last, Last.next, out)
  /\ \A k \in 1 .. Len(walk) : k < Len(walk) => Waiting(walk[k], walk[k + 1], out)
  /\ Listed /\ marker # NoMarker => Settled(marker, out)

LEMMA SettledByMore ==
  ASSUME NEW x, NEW l, NEW m, Names(l) \subseteq Names(m)
  PROVE  Settled(x, l) => Settled(x, m)
BY DEF Settled

LEMMA OperandNames ==
  ASSUME NEW o \in Operand, NEW list \in Seq(Name)
  PROVE  /\ CollectVarOperand(o, list) \in Seq(Name)
         /\ Names(list) \subseteq Names(CollectVarOperand(o, list))
         /\ IsVar(o) => o.text \in Names(CollectVarOperand(o, list))
<1>1. CASE IsVar(o) /\ o.text \notin Names(list)
  <2>1. o.text \in Name
    BY <1>1 DEF Operand, IsVar, Name
  <2>2. /\ Append(list, o.text) \in Seq(Name) /\ Len(Append(list, o.text)) = Len(list) + 1
        /\ \A i \in 1 .. Len(list) : Append(list, o.text)[i] = list[i]
        /\ Append(list, o.text)[Len(list) + 1] = o.text
        /\ Len(list) \in Nat
    BY <2>1, AppendProperties, LenProperties
  <2>3. CollectVarOperand(o, list) = Append(list, o.text)
    BY <1>1 DEF CollectVarOperand
  <2>4. Len(list) + 1 \in 1 .. Len(list) + 1 /\ 1 .. Len(list) \subseteq 1 .. Len(list) + 1
    BY <2>2
  <2>5. QED
    BY <2>2, <2>3, <2>4 DEF Names
<1>2. CASE ~(IsVar(o) /\ o.text \notin Names(list))
  BY <1>2 DEF CollectVarOperand
<1>3. QED
  BY <1>1, <1>2

LEMMA CompareNames ==
  ASSUME NEW c \in Expr, c.kind = "compare", NEW list \in Seq(Name)
  PROVE  /\ CollectBoth(c, list) \in Seq(Name)
         /\ Names(list) \subseteq Names(CollectBoth(c, list))
         /\ \A o \in {c.lhs, c.rhs} : IsVar(o) => o.text \in Names(CollectBoth(c, list))
<1>1. c.lhs \in Operand /\ c.rhs \in Operand
  BY Kinds DEF IsBool
<1> DEFINE left == CollectVarOperand(c.lhs, list)
<1>2. /\ left \in Seq(Name) /\ Names(list) \subseteq Names(left)
      /\ IsVar(c.lhs) => c.lhs.text \in Names(left)
  BY <1>1, OperandNames
<1> HIDE DEF left
<1>3. /\ CollectVarOperand(c.rhs, left) \in Seq(Name)
      /\ Names(left) \subseteq Names(CollectVarOperand(c.rhs, left))
      /\ IsVar(c.rhs) => c.rhs.text \in Names(CollectVarOperand(c.rhs, left))
  BY <1>1, <1>2, OperandNames
<1>4. CollectBoth(c, list) = CollectVarOperand(c.rhs, left)
  BY DEF CollectBoth, left
<1>5. QED
  BY <1>2, <1>3, <1>4

(* A comparison looks at its operands and at nothing else.                 *)
LEMMA CompareSettled ==
  ASSUME NEW c \in Expr, c.kind = "compare", NEW list,
         \A o \in {c.lhs, c.rhs} : IsVar(o) => o.text \in Names(list)
  PROVE  Settled(c, list)
<1> SUFFICES ASSUME NEW e \in Environments, NEW f \in Environments, NEW active \in Extras,
                    \A v \in Var : v \in Names(list) => e[v] = f[v]
             PROVE  Truth(c, e, active) <=> Truth(c, f, active)
  BY DEF Settled
<1>1. c.lhs \in Operand /\ c.rhs \in Operand
  BY Kinds DEF IsBool
<1>2. ASSUME NEW o \in {c.lhs, c.rhs} PROVE ResolveOperand(o, e) = ResolveOperand(o, f)
  <2>1. CASE ~IsVar(o) \/ o.text = "extra"
    BY <2>1 DEF ResolveOperand
  <2>2. CASE IsVar(o) /\ o.text # "extra"
    <3>1. o.text \in Var /\ o.text \in Names(list)
      BY <1>1, <2>2 DEF Operand, IsVar
    <3>2. QED
      BY <2>2, <3>1 DEF ResolveOperand
  <2>3. QED
    BY <2>1, <2>2
<1>3. AsVersions(c, e) <=> AsVersions(c, f)
  BY <1>2 DEF AsVersions
<1>4. EvalExtra(c, e, active) <=> EvalExtra(c, f, active)
  BY <1>2 DEF EvalExtra
<1>5. ResolveOperand(c.lhs, e) = ResolveOperand(c.lhs, f)
      /\ ResolveOperand(c.rhs, e) = ResolveOperand(c.rhs, f)
  BY <1>2
<1>6. EvalCompare(c, e, active) <=> EvalCompare(c, f, active)
  BY <1>3, <1>4, <1>5 DEF EvalCompare
<1>7. QED
  BY <1>6, TruthAssumption

(* What settles the operands settles the whole.                            *)
LEMMA BoolSettled ==
  ASSUME NEW x \in Expr, IsBool(x), NEW list,
         \A j \in 1 .. Len(x.operands) : Settled(x.operands[j], list)
  PROVE  Settled(x, list)
<1> SUFFICES ASSUME NEW e \in Environments, NEW f \in Environments, NEW active \in Extras,
                    \A v \in Var : v \in Names(list) => e[v] = f[v]
             PROVE  Truth(x, e, active) <=> Truth(x, f, active)
  BY DEF Settled
<1>1. \A j \in 1 .. Len(x.operands) :
        Truth(x.operands[j], e, active) <=> Truth(x.operands[j], f, active)
  BY DEF Settled
<1>2. ASSUME NEW g \in {e, f}
      PROVE  Truth(x, g, active) <=>
               \/ x.kind = "and" /\ \A j \in 1 .. Len(x.operands) : Truth(x.operands[j], g, active)
               \/ x.kind = "or"  /\ \E j \in 1 .. Len(x.operands) : Truth(x.operands[j], g, active)
  BY TruthAssumption DEF IsBool
<1>3. QED
  BY <1>1, <1>2

LEMMA LastFacts ==
  ASSUME Walking, walk # <<>>
  PROVE  /\ Len(walk) \in Nat \ {0} /\ \A k \in 1 .. Len(walk) : walk[k] \in Activation
         /\ Last = walk[Len(walk)] /\ Last.expr \in Expr /\ Last.next \in Nat \ {0}
         /\ listing
<1>1. Len(walk) \in Nat \ {0} /\ \A k \in 1 .. Len(walk) : walk[k] \in Activation
  BY EmptySeq, ElementOfSeq DEF Walking
<1>2. QED
  BY <1>1 DEF Last, Activation, Walking

(* The activation below has one more operand behind it.                    *)
LEMMA WalkReturns ==
  ASSUME Walking, walk # <<>>, walk' = Rest, UNCHANGED <<marker, pc, listing>>,
         out' \in Seq(Name), Names(out) \subseteq Names(out'), Settled(Last.expr, out')
  PROVE  Walking'
<1> DEFINE n == Len(walk)
<1>1. /\ walk' \in Seq(Activation) /\ Len(walk') = n - 1 /\ n \in Nat \ {0}
      /\ \A k \in 1 .. n - 1 : walk'[k] = walk[k]
  BY PopFacts, LastFacts DEF Rest, Walking
<1>2. listing /\ Last = walk[n] /\ marker \in Expr /\ walk[1].expr = marker
  BY LastFacts DEF Walking
<1>3. \A k \in 1 .. n : k < n => Waiting(walk[k], walk[k + 1], out)
  BY DEF Walking
<1>4. \A x : Settled(x, out) => Settled(x, out')
  BY SettledByMore
<1> HIDE DEF n
<1>5. ASSUME NEW k \in 1 .. n, k < n PROVE Waiting(walk[k], walk[k + 1], out')
  BY <1>3, <1>4, <1>5 DEF Waiting, Visited
<1>6. ASSUME NEW k \in 1 .. n - 1, k < n - 1
      PROVE  Waiting(walk'[k], walk'[k + 1], out')
  <2>1. k \in 1 .. n /\ k < n /\ k + 1 \in 1 .. n - 1
    BY <1>1, <1>6
  <2>2. QED
    BY <1>1, <1>5, <2>1
<1>7. CASE n = 1
  <2>1. walk' = <<>>
    BY <1>1, <1>7, EmptySeq
  <2>2. Settled(marker', out')
    BY <1>2, <1>7
  <2>3. QED
    BY <1>1, <1>2, <1>7, <2>1, <2>2 DEF Walking
<1>8. CASE n # 1
  <2>1. n - 1 \in 1 .. n - 1 /\ n - 1 \in 1 .. n /\ n - 1 < n /\ (n - 1) + 1 = n
    BY <1>1, <1>8
  <2> DEFINE g == walk[n - 1]
  <2>2. walk' # <<>> /\ Last' = g /\ walk'[1] = walk[1]
    <3>1. Len(walk') # 0 /\ 1 \in 1 .. n - 1
      BY <1>1, <2>1
    <3>2. QED
      BY <1>1, <2>1, <3>1, EmptySeq DEF Last
  <2>3. Waiting(g, Last, out') /\ g \in Activation
    <3>1. Waiting(walk[n - 1], walk[(n - 1) + 1], out')
      BY <1>5, <2>1
    <3>2. QED
      BY <1>2, <2>1, <3>1, LastFacts DEF n
  <2> HIDE DEF g
  <2>4. Visited(g, g.next, out')
    <3>1. ASSUME NEW j \in 1 .. Len(g.expr.operands), j < g.next
          PROVE  Settled(g.expr.operands[j], out')
      <4>1. CASE j < g.next - 1
        BY <2>3, <4>1 DEF Waiting, Visited
      <4>2. CASE ~(j < g.next - 1)
        <5>1. j = g.next - 1
          BY <2>3, <3>1, <4>2 DEF Activation
        <5>2. QED
          BY <2>3, <5>1 DEF Waiting, Called
      <4>3. QED
        BY <4>1, <4>2
    <3>2. QED
      BY <3>1 DEF Visited
  <2>5. ~Listed'
    BY <2>2 DEF Listed
  <2>6. \A k \in 1 .. Len(walk') : k < Len(walk') => Waiting(walk'[k], walk'[k + 1], out')
    BY <1>1, <1>6
  <2>7. \A k \in 1 .. Len(walk') : k < Len(walk') => Waiting(walk[k], walk[k + 1], out)'
    BY <2>6 DEF Waiting, Called, Visited, Settled
  <2>8. Visited(Last, Last.next, out)'
    BY <2>2, <2>4 DEF Visited, Settled
  <2>9. marker' \in Expr /\ walk'[1].expr = marker'
    BY <1>2, <2>2
  <2>10. (listing => pc = "done")' /\ (~listing => walk = <<>>)'
    BY <1>2 DEF Walking
  <2>11. QED
    BY <1>1, <2>2, <2>5, <2>7, <2>8, <2>9, <2>10 DEF Walking
<1>9. QED
  BY <1>7, <1>8

LEMMA VariablesWalking == IInv /\ Walking /\ Variables => Walking'
<1> SUFFICES ASSUME IInv, Walking, Variables PROVE Walking'
  OBVIOUS
<1>1. /\ pc' = "done" /\ listing' /\ marker' = marker /\ out' = <<>> /\ out' \in Seq(Name)
      /\ walk' = IF marker = NoMarker THEN <<>> ELSE <<Call(marker)>>
  BY EmptySeq DEF Variables, vars
<1>2. CASE marker = NoMarker
  <2>1. walk' = <<>> /\ Len(walk') = 0 /\ walk' \in Seq(Activation)
    BY <1>1, <1>2, EmptySeq
  <2>2. QED
    BY <1>1, <1>2, <2>1 DEF Walking
<1>3. CASE marker # NoMarker
  <2> DEFINE f == Call(marker)
  <2>1. marker \in Expr /\ f.expr = marker /\ f.next = 1 /\ f \in Activation
    BY <1>3 DEF IInv, TypeOK, Call, Activation
  <2>2. walk' = <<f>>
    BY <1>1, <1>3
  <2> HIDE DEF f
  <2>3. walk' \in Seq(Activation) /\ Len(walk') = 1 /\ walk'[1] = f /\ walk' # <<>>
    BY <2>1, <2>2, OneNote
  <2>4. Last' = f
    BY <2>3 DEF Last
  <2>5. Visited(Last, Last.next, out)'
    BY <2>1, <2>4 DEF Visited
  <2>6. QED
    BY <1>1, <2>1, <2>3, <2>5 DEF Walking, Listed
<1>4. QED
  BY <1>2, <1>3

LEMMA CollectCompareWalking == Walking /\ CollectCompare => Walking'
<1> SUFFICES ASSUME Walking, CollectCompare PROVE Walking'
  OBVIOUS
<1>1. /\ walk # <<>> /\ Last.expr.kind = "compare" /\ walk' = Rest
      /\ out' = CollectBoth(Last.expr, out) /\ UNCHANGED <<marker, pc, listing>>
  BY DEF CollectCompare, vars
<1>2. Last.expr \in Expr /\ out \in Seq(Name)
  BY <1>1, LastFacts DEF Walking
<1>3. /\ out' \in Seq(Name) /\ Names(out) \subseteq Names(out')
      /\ \A o \in {Last.expr.lhs, Last.expr.rhs} : IsVar(o) => o.text \in Names(out')
  BY <1>1, <1>2, CompareNames
<1>4. Settled(Last.expr, out')
  BY <1>1, <1>2, <1>3, CompareSettled
<1>5. QED
  BY <1>1, <1>3, <1>4, WalkReturns

LEMMA CollectReturnWalking == Walking /\ CollectReturn => Walking'
<1> SUFFICES ASSUME Walking, CollectReturn PROVE Walking'
  OBVIOUS
<1>1. /\ walk # <<>> /\ Last.expr.kind # "compare" /\ walk' = Rest
      /\ Last.next > Len(Last.expr.operands) /\ UNCHANGED <<marker, pc, listing, out>>
  BY DEF CollectReturn, vars
<1>2. Last.expr \in Expr /\ Last.next \in Nat /\ IsBool(Last.expr)
      /\ Len(Last.expr.operands) \in Nat
  BY <1>1, LastFacts, Kinds
<1>3. Visited(Last, Last.next, out)
  BY <1>1, <1>2 DEF Walking
<1>4. \A j \in 1 .. Len(Last.expr.operands) : Settled(Last.expr.operands[j], out)
  BY <1>1, <1>2, <1>3 DEF Visited
<1>5. Settled(Last.expr, out)
  BY <1>2, <1>4, BoolSettled
<1>6. out' \in Seq(Name) /\ Names(out) \subseteq Names(out') /\ Settled(Last.expr, out')
  BY <1>1, <1>5 DEF Walking
<1>7. QED
  BY <1>1, <1>6, WalkReturns

LEMMA CollectOperandWalking == Walking /\ CollectOperand => Walking'
<1> SUFFICES ASSUME Walking, CollectOperand PROVE Walking'
  OBVIOUS
<1> DEFINE n == Len(walk)
           g == [Last EXCEPT !.next = @ + 1]
           h == Call(Last.expr.operands[Last.next])
<1>1. /\ walk # <<>> /\ Last.expr.kind # "compare" /\ Last.next <= Len(Last.expr.operands)
      /\ walk' = Append([walk EXCEPT ![n] = g], h)
      /\ UNCHANGED <<marker, pc, listing, out>>
  BY DEF CollectOperand, vars, Last
<1>2. /\ n \in Nat \ {0} /\ walk \in Seq(Activation) /\ Last = walk[n] /\ Last \in Activation
      /\ Last.expr \in Expr /\ Last.next \in Nat \ {0} /\ listing
  BY <1>1, LastFacts DEF Walking
<1>3. /\ IsBool(Last.expr) /\ Last.next \in 1 .. Len(Last.expr.operands)
      /\ Visited(Last, Last.next, out)
  BY <1>1, <1>2, Kinds DEF Walking
<1>4. g \in Activation /\ g.expr = Last.expr /\ g.next = Last.next + 1 /\ g.next - 1 = Last.next
  BY <1>2, Advance
<1>5. h \in Activation /\ h.expr = Called(g) /\ h.next = 1
  <2>1. Last.expr.operands[Last.next] \in Expr
    BY <1>2, <1>3, Kinds
  <2>2. h \in Activation /\ h.expr = Last.expr.operands[Last.next] /\ h.next = 1
    BY <2>1 DEF Call, Activation
  <2>3. QED
    BY <1>4, <2>2 DEF Called
<1> HIDE DEF g, h
<1>6. /\ [walk EXCEPT ![n] = g] \in Seq(Activation) /\ Len([walk EXCEPT ![n] = g]) = n
      /\ \A k \in 1 .. n : [walk EXCEPT ![n] = g][k] = IF k = n THEN g ELSE walk[k]
  BY <1>2, <1>4, ExceptSeq
<1>7. /\ walk' \in Seq(Activation) /\ Len(walk') = n + 1 /\ walk' # <<>>
      /\ \A k \in 1 .. n : walk'[k] = IF k = n THEN g ELSE walk[k]
      /\ walk'[n + 1] = h
  <2> DEFINE s == [walk EXCEPT ![n] = g]
  <2>1. /\ s \in Seq(Activation) /\ Len(s) = n /\ n \in Nat /\ walk' = Append(s, h)
        /\ \A k \in 1 .. n : s[k] = IF k = n THEN g ELSE walk[k]
    BY <1>1, <1>2, <1>6
  <2> HIDE DEF s, n
  <2>2. /\ Append(s, h) \in Seq(Activation) /\ Len(Append(s, h)) = n + 1
        /\ Append(s, h) # <<>> /\ Append(s, h)[n + 1] = h
        /\ \A k \in 1 .. n : Append(s, h)[k] = s[k]
    BY <1>5, <2>1, AppendProperties
  <2>3. QED
    BY <2>1, <2>2
<1>8. \A k \in 1 .. n : walk'[k].expr = walk[k].expr
  BY <1>2, <1>4, <1>7
<1>9. ASSUME NEW k \in 1 .. Len(walk'), k < Len(walk')
      PROVE  Waiting(walk'[k], walk'[k + 1], out)
  <2>1. CASE k = n
    <3>1. walk'[k] = g /\ walk'[k + 1] = h
      BY <1>2, <1>7, <2>1
    <3>2. Visited(g, g.next - 1, out)
      BY <1>3, <1>4 DEF Visited
    <3>3. QED
      BY <1>3, <1>4, <1>5, <3>1, <3>2 DEF Waiting
  <2>2. CASE k # n
    <3>1. k \in 1 .. n /\ k < n /\ k + 1 \in 1 .. n
      BY <1>2, <1>7, <1>9, <2>2
    <3>2. walk'[k] = walk[k] /\ walk'[k + 1].expr = walk[k + 1].expr
      BY <1>7, <1>8, <2>2, <3>1
    <3>3. Waiting(walk[k], walk[k + 1], out)
      BY <3>1 DEF Walking
    <3>4. QED
      BY <3>2, <3>3 DEF Waiting
  <2>3. QED
    BY <2>1, <2>2
<1>10. \A k \in 1 .. Len(walk') : k < Len(walk') => Waiting(walk[k], walk[k + 1], out)'
  BY <1>1, <1>9 DEF Waiting, Called, Visited, Settled
<1>11. Last' = h /\ ~Listed'
  BY <1>7 DEF Last, Listed
<1>12. Visited(Last, Last.next, out)'
  BY <1>5, <1>11 DEF Visited
<1>13. marker' \in Expr /\ walk'[1].expr = marker'
  <2>1. 1 \in 1 .. n /\ marker \in Expr /\ walk[1].expr = marker
    BY <1>1, <1>2 DEF Walking
  <2>2. QED
    BY <1>1, <1>8, <2>1
<1>14. pc' = "done" /\ listing' /\ out' \in Seq(Name)
  BY <1>1, <1>2 DEF Walking
<1>15. QED
  BY <1>7, <1>10, <1>11, <1>12, <1>13, <1>14 DEF Walking

(* Nothing is evaluated while the variables are collected.                 *)
LEMMA NextWalking == Walking /\ (Next \/ UNCHANGED vars) /\ UNCHANGED listVars => Walking'
<1> SUFFICES ASSUME Walking, Next \/ UNCHANGED vars, UNCHANGED listVars PROVE Walking'
  OBVIOUS
<1>1. UNCHANGED <<listing, walk, out>>
  BY DEF listVars
<1>2. CASE listing
  <2>1. pc = "done"
    BY <1>2 DEF Walking
  <2>2. ~Next
    BY <2>1 DEF Next, EnvironmentFromTarget, NoEnvironment, Override, UnknownVariable, Evaluate,
                Compare, Descend, Continue, ReturnBool, Answer
  <2>3. marker' = marker /\ pc' = pc
    BY <2>2 DEF vars
  <2>4. Last' = Last /\ (Listed' <=> Listed)
    BY <1>1 DEF Last, Listed
  <2>5. Visited(Last, Last.next, out) => Visited(Last, Last.next, out)'
    BY <1>1, <2>4 DEF Visited, Settled
  <2>6. \A k \in 1 .. Len(walk) : Waiting(walk[k], walk[k + 1], out) =>
          Waiting(walk[k], walk[k + 1], out)'
    BY <1>1 DEF Waiting, Called, Visited, Settled
  <2>7. Settled(marker, out) => Settled(marker, out)'
    BY <1>1, <2>3 DEF Settled
  <2>8. QED
    BY <1>1, <2>3, <2>4, <2>5, <2>6, <2>7 DEF Walking
<1>3. CASE ~listing
  <2>1. walk' = <<>> /\ walk' \in Seq(Activation) /\ Len(walk') = 0 /\ ~listing' /\ ~Listed'
        /\ out' \in Seq(Name)
    BY <1>1, <1>3, EmptySeq DEF Walking, Listed
  <2>2. QED
    BY <2>1 DEF Walking
<1>4. QED
  BY <1>2, <1>3

LEMMA ListingInvariance == SpecVariables => [](IInv /\ Walking)
<1>1. InitVariables => IInv /\ Walking
  <2> SUFFICES ASSUME InitVariables PROVE IInv /\ Walking
    OBVIOUS
  <2>1. IInv
    BY InitIInv DEF InitVariables
  <2>2. walk = <<>> /\ walk \in Seq(Activation) /\ Len(walk) = 0 /\ ~listing /\ out \in Seq(Name)
    BY EmptySeq DEF InitVariables
  <2>3. QED
    BY <2>1, <2>2 DEF Walking, Listed
<1>2. IInv /\ Walking /\ [NextVariables]_<<vars, listVars>> => (IInv /\ Walking)'
  <2> SUFFICES ASSUME IInv, Walking, [NextVariables]_<<vars, listVars>>
               PROVE  IInv' /\ Walking'
    OBVIOUS
  <2>1. CASE (Next \/ UNCHANGED vars) /\ UNCHANGED listVars
    BY <2>1, NextIInv, NextWalking
  <2>2. CASE Variables
    BY <2>2, NextIInv, VariablesWalking DEF Variables
  <2>3. CASE Collect
    <3>1. UNCHANGED vars
      BY <2>3 DEF Collect, CollectCompare, CollectOperand, CollectReturn
    <3>2. QED
      BY <2>3, <3>1, NextIInv, CollectCompareWalking, CollectOperandWalking,
         CollectReturnWalking DEF Collect
  <2>4. QED
    BY <2>1, <2>2, <2>3 DEF NextVariables
<1>3. QED
  BY <1>1, <1>2, PTL DEF SpecVariables

(* The answer does not depend on a variable that Variables does not list,  *)
(* however deep the comparison that names it and on whichever side         *)
(* (Variables, collectVars).                                               *)
THEOREM VariablesAreEnough == SpecVariables => []VariablesSuffice
<1>1. IInv /\ Walking => VariablesSuffice
  <2> SUFFICES ASSUME IInv, Walking, Listed, marker # NoMarker,
                      NEW v \in Var \ Names(out), NEW x \in Actual
               PROVE  result <=> Truth(marker, [env EXCEPT ![v] = x], extras)
    BY DEF VariablesSuffice
  <2> DEFINE f == [env EXCEPT ![v] = x]
  <2>1. pc = "done" /\ Settled(marker, out) /\ extras \in Extras /\ env \in [Var -> Value]
    BY DEF Walking, Listed, IInv, TypeOK
  <2>2. env \in Environments /\ f \in Environments
    <3>1. /\ env = Given(target, id, overrides) /\ Supported(target)
          /\ DOMAIN overrides \subseteq Var
          /\ target \in Target /\ id \in Identity /\ overrides \in Overrides
      BY <2>1 DEF IInv, TypeOK, Walked, OverridesApplied
    <3>2. f \in Inventions(env)
      BY DEF Inventions
    <3>3. {env} \cup Completions(env) \cup Inventions(env) \subseteq Environments
      BY <3>1 DEF Environments
    <3>4. QED
      BY <3>2, <3>3
  <2>3. \A w \in Var : w \in Names(out) => env[w] = f[w]
    BY <2>1
  <2>4. Truth(marker, env, extras) <=> Truth(marker, f, extras)
    BY <2>1, <2>2, <2>3 DEF Settled
  <2>5. result <=> Truth(marker, env, extras)
    BY <2>1 DEF IInv, Answered, Agreeing
  <2>6. QED
    BY <2>4, <2>5
<1>2. QED
  BY ListingInvariance, <1>1, PTL
=============================================================================
