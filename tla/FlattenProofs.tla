---------------------------- MODULE FlattenProofs ----------------------------
(***************************************************************************)
(* Proofs about Flatten, for every file system, every set of paths and     *)
(* every open callback.                                                    *)
(***************************************************************************)
EXTENDS FlattenFrom, TLAPS, FiniteSetTheorems, SequenceTheorems

IInv == TypeOK /\ Bookkeeping /\ VisitedIsStack /\ ImmediateConstraint /\ AllOrNothing

(* The activations left when the innermost one returns.                    *)
LEMMA PopFacts ==
  ASSUME NEW S, NEW s \in Seq(S), s # <<>>
  PROVE  /\ Len(s) \in Nat \ {0}
         /\ SubSeq(s, 1, Len(s) - 1) \in Seq(S)
         /\ Len(SubSeq(s, 1, Len(s) - 1)) = Len(s) - 1
         /\ \A i \in 1 .. Len(s) - 1 : SubSeq(s, 1, Len(s) - 1)[i] = s[i]
<1>1. Len(s) \in Nat \ {0}
  BY EmptySeq, LenProperties
<1>2. \A i \in 1 .. Len(s) - 1 : s[i] \in S
  BY <1>1, ElementOfSeq
<1> DEFINE n == Len(s) - 1
<1>3. n \in Nat /\ 1 \in Int /\ n \in Int
  BY <1>1
<1>4. \A i \in 1 .. n : s[i] \in S
  BY <1>2
<1> HIDE DEF n
<1>5. /\ SubSeq(s, 1, n) \in Seq(S)
      /\ Len(SubSeq(s, 1, n)) = IF 1 <= n THEN n - 1 + 1 ELSE 0
      /\ \A i \in 1 .. n - 1 + 1 : SubSeq(s, 1, n)[i] = s[1 + i - 1]
  BY <1>3, <1>4, SubSeqProperties
<1>6. Len(SubSeq(s, 1, n)) = n /\ \A i \in 1 .. n : SubSeq(s, 1, n)[i] = s[i]
  BY <1>3, <1>5
<1>7. QED
  BY <1>1, <1>5, <1>6 DEF n

(* What open answers for a file is recorded and nothing else is.           *)
LEMMA RememberType ==
  ASSUME TypeOK, NEW p, NEW a \in OpenAnswers(p), Remember(p, a)
  PROVE  /\ a \in Answer
         /\ disk' \in [File -> Answer \cup {Unread}]
         /\ a.kind = "text" => FileOf(p) \in File /\ a.entries \in Text
         /\ a # Unread
<1>1. \/ a \in Answer
      \/ a = disk[FileOf(p)] /\ FileOf(p) \in File /\ a # Unread
      \/ a = [kind |-> "fail", entries |-> <<>>]
  BY DEF OpenAnswers
<1>2. a \in Answer
  BY <1>1 DEF TypeOK, Answer
<1>3. a # Unread
  BY <1>2 DEF Answer, Unread
<1>4. disk' \in [File -> Answer \cup {Unread}]
  BY <1>2 DEF TypeOK, Remember
<1>5. a.kind = "text" => FileOf(p) \in File
  BY DEF OpenAnswers
<1>6. a.kind = "text" => a.entries \in Text
  BY <1>2 DEF Answer
<1>7. QED
  BY <1>2, <1>3, <1>4, <1>5, <1>6

LEMMA InitIInv == Init => IInv
<1> SUFFICES ASSUME Init PROVE IInv
  OBVIOUS
<1>1. stack \in Seq(Frame) /\ out \in Seq(Collected) /\ Len(stack) = 0
  BY EmptySeq DEF Init
<1>2. call \in Call
  BY ConstantsAssumption DEF Init, Call
<1>3. TypeOK
  BY <1>1, <1>2 DEF Init, TypeOK, NoError, ErrorKind
<1>4. Bookkeeping
  <2>1. ~call.constraint
    BY DEF Init
  <2>2. \A i \in 1 .. Len(stack) : FileOf(stack[i].path) \in File
    BY <1>1
  <2>3. QED
    BY <1>2, <2>1, <2>2 DEF Init, Bookkeeping
<1>5. VisitedIsStack /\ ImmediateConstraint /\ AllOrNothing
  BY <1>1 DEF Init, VisitedIsStack, ImmediateConstraint, AllOrNothing, NoError
<1>6. QED
  BY <1>3, <1>4, <1>5 DEF IInv

-----------------------------------------------------------------------------
(* Steps that leave the stack alone.                                       *)

LEMMA LevelsUntouched ==
  ASSUME IInv, UNCHANGED <<stack, visited>>
  PROVE  VisitedIsStack' /\ ImmediateConstraint'
  BY DEF IInv, VisitedIsStack, ImmediateConstraint, Directive

LEMMA NilOpenIInv == IInv /\ NilOpen => IInv'
<1> SUFFICES ASSUME IInv, NilOpen PROVE IInv'
  OBVIOUS
<1>1. UNCHANGED <<stack, visited>>
  BY DEF NilOpen, Fail
<1>2. VisitedIsStack' /\ ImmediateConstraint'
  BY <1>1, LevelsUntouched
<1>3. TypeOK'
  BY DEF IInv, NilOpen, Fail, TypeOK, ErrorKind, Call
<1>4. Bookkeeping'
  BY DEF IInv, NilOpen, Fail, TypeOK, Bookkeeping, NoError
<1>5. AllOrNothing'
  BY DEF IInv, NilOpen, Fail, TypeOK, Bookkeeping, AllOrNothing, VisitedIsStack, NoError
<1>6. QED
  BY <1>2, <1>3, <1>4, <1>5 DEF IInv

LEMMA BeginIInv == IInv /\ Begin => IInv'
<1> SUFFICES ASSUME IInv, Begin PROVE IInv'
  OBVIOUS
<1>1. UNCHANGED <<stack, visited>>
  BY DEF Begin
<1>2. VisitedIsStack' /\ ImmediateConstraint'
  BY <1>1, LevelsUntouched
<1>3. TypeOK'
  BY DEF IInv, Begin, TypeOK, ErrorKind, Call
<1>4. Bookkeeping'
  BY DEF IInv, Begin, TypeOK, Bookkeeping, NoError
<1>5. AllOrNothing'
  BY DEF IInv, Begin, TypeOK, Bookkeeping, AllOrNothing, VisitedIsStack, NoError
<1>6. QED
  BY <1>2, <1>3, <1>4, <1>5 DEF IInv

LEMMA RecursiveIncludeIInv == IInv /\ RecursiveInclude => IInv'
<1> SUFFICES ASSUME IInv, RecursiveInclude PROVE IInv'
  OBVIOUS
<1>1. UNCHANGED <<stack, visited>>
  BY DEF RecursiveInclude, Fail
<1>2. VisitedIsStack' /\ ImmediateConstraint'
  BY <1>1, LevelsUntouched
<1>3. TypeOK'
  BY DEF IInv, RecursiveInclude, Fail, TypeOK, ErrorKind, Call
<1>4. Bookkeeping'
  BY DEF IInv, RecursiveInclude, Fail, TypeOK, Bookkeeping, NoError
<1>5. AllOrNothing'
  BY DEF IInv, RecursiveInclude, Fail, TypeOK, Bookkeeping, AllOrNothing, VisitedIsStack, NoError
<1>6. QED
  BY <1>2, <1>3, <1>4, <1>5 DEF IInv

(* open or Parse failing records an answer and an error.                   *)
LEMMA FailIInv ==
  ASSUME IInv, pc = "call", disk' \in [File -> Answer \cup {Unread}],
         NEW k \in {"open", "parse"}, Fail(k, call.path),
         UNCHANGED <<opener, stack, visited, out>>
  PROVE  IInv'
<1>1. UNCHANGED <<stack, visited>>
  BY DEF Fail
<1>2. VisitedIsStack' /\ ImmediateConstraint'
  BY <1>1, LevelsUntouched
<1>3. TypeOK'
  <2>1. call.path \in Path
    BY DEF IInv, Bookkeeping, Call
  <2>2. QED
    BY <2>1 DEF IInv, Fail, TypeOK, ErrorKind
<1>4. Bookkeeping'
  BY DEF IInv, Fail, TypeOK, Bookkeeping, NoError
<1>5. AllOrNothing'
  BY DEF IInv, Fail, TypeOK, Bookkeeping, AllOrNothing, VisitedIsStack, NoError
<1>6. QED
  BY <1>2, <1>3, <1>4, <1>5 DEF IInv

LEMMA OpenFailsIInv == IInv /\ OpenFails => IInv'
  BY RememberType, FailIInv DEF IInv, OpenFails

LEMMA ParseFailsIInv == IInv /\ ParseFails => IInv'
  BY RememberType, FailIInv DEF IInv, ParseFails

LEMMA ReturnErrorIInv == IInv /\ ReturnError => IInv'
<1> SUFFICES ASSUME IInv, ReturnError PROVE IInv'
  OBVIOUS
<1>1. UNCHANGED <<stack, visited>>
  BY DEF ReturnError
<1>2. VisitedIsStack' /\ ImmediateConstraint'
  BY <1>1, LevelsUntouched
<1>3. TypeOK'
  BY DEF IInv, ReturnError, TypeOK, ErrorKind, Call
<1>4. Bookkeeping'
  BY DEF IInv, ReturnError, TypeOK, Bookkeeping, NoError
<1>5. AllOrNothing'
  BY DEF IInv, ReturnError, TypeOK, Bookkeeping, AllOrNothing, VisitedIsStack, NoError
<1>6. QED
  BY <1>2, <1>3, <1>4, <1>5 DEF IInv

-----------------------------------------------------------------------------
(* Steps that push, pop or advance a level.                                *)

LEMMA EnterIInv == IInv /\ Enter => IInv'
<1> SUFFICES ASSUME IInv, Enter PROVE IInv'
  OBVIOUS
<1>1. PICK a \in OpenAnswers(call.path) :
        /\ a.kind = "text"
        /\ Remember(call.path, a)
        /\ stack' = Append(stack, [path |-> call.path, constraint |-> call.constraint,
                                   entries |-> a.entries, next |-> FirstLine, out |-> <<>>])
  BY DEF Enter
<1> DEFINE f == [path |-> call.path, constraint |-> call.constraint,
                 entries |-> a.entries, next |-> FirstLine, out |-> <<>>]
<1>2. /\ call \in Call /\ call.path \notin visited /\ pc = "call"
      /\ stack \in Seq(Frame) /\ Len(stack) \in Nat
  BY LenProperties DEF IInv, TypeOK, Bookkeeping, Enter
<1>3. /\ disk' \in [File -> Answer \cup {Unread}]
      /\ FileOf(call.path) \in File
      /\ a.entries \in Text
  BY <1>1, RememberType DEF IInv
<1>4. f \in Frame /\ f.next <= Len(f.entries) + 1
  <2>1. Len(a.entries) \in Nat
    BY <1>3, ConstantsAssumption, LenProperties
  <2>2. <<>> \in Seq(Collected)
    BY EmptySeq
  <2>3. QED
    BY <1>2, <1>3, <2>1, <2>2 DEF Call, Frame, FirstLine
<1>5. f.path = call.path /\ f.constraint = call.constraint
  OBVIOUS
<1> HIDE DEF f
<1>6. /\ stack' \in Seq(Frame)
      /\ stack' # <<>>
      /\ Len(stack') = Len(stack) + 1
      /\ \A i \in 1 .. Len(stack) : stack'[i] = stack[i]
      /\ stack'[Len(stack) + 1] = f
  BY <1>1, <1>2, <1>4, AppendProperties DEF f
<1>7. /\ visited' = visited \cup {call.path} /\ pc' = "walk" /\ call' = NONE
      /\ UNCHANGED <<opener, out, err>>
  BY DEF Enter
<1>8. TypeOK'
  <2>1. ASSUME NEW i \in 1 .. Len(stack')
        PROVE  stack'[i].next <= Len(stack'[i].entries) + 1
    <3>1. CASE i \in 1 .. Len(stack)
      BY <1>6, <3>1 DEF IInv, TypeOK
    <3>2. CASE i = Len(stack) + 1
      BY <1>4, <1>6, <3>2
    <3>3. QED
      BY <1>2, <1>6, <3>1, <3>2
  <2>2. QED
    BY <1>2, <1>3, <1>6, <1>7, <2>1 DEF IInv, TypeOK, Call
<1>9. Bookkeeping'
  <2>1. \A i \in 1 .. Len(stack') : FileOf(stack'[i].path) \in File
    BY <1>2, <1>3, <1>5, <1>6 DEF IInv, Bookkeeping
  <2>2. err' = NoError /\ out' = <<>>
    BY <1>2, <1>7 DEF IInv, Bookkeeping
  <2>3. QED
    BY <1>6, <1>7, <2>1, <2>2 DEF Bookkeeping
<1>10. VisitedIsStack'
  <2>1. visited' = {stack'[i].path : i \in 1 .. Len(stack')}
    BY <1>2, <1>5, <1>6, <1>7 DEF IInv, VisitedIsStack
  <2>2. ASSUME NEW i \in 1 .. Len(stack'), NEW j \in 1 .. Len(stack'),
               stack'[i].path = stack'[j].path
        PROVE  i = j
    BY <1>2, <1>5, <1>6, <2>2 DEF IInv, VisitedIsStack
  <2>3. QED
    BY <2>1, <2>2 DEF VisitedIsStack
<1>11. ImmediateConstraint'
  <2>1. ~stack'[1].constraint
    BY <1>2, <1>5, <1>6 DEF IInv, ImmediateConstraint, Bookkeeping
  <2>2. ASSUME NEW i \in 1 .. Len(stack') - 1
        PROVE  /\ stack'[i].next > 1
               /\ Directive(i)'.kind = "include"
               /\ stack'[i + 1].path = Resolve(stack'[i].path, Directive(i)'.target)
               /\ stack'[i + 1].constraint = Directive(i)'.constraint
    <3>1. i \in 1 .. Len(stack) /\ stack'[i] = stack[i]
      BY <1>2, <1>6
    <3>2. CASE i = Len(stack)
      <4>1. stack # <<>>
        BY <3>1, <3>2, EmptySeq
      <4>2. stack'[i + 1] = f
        BY <1>6, <3>2
      <4>3. QED
        BY <1>2, <1>5, <3>1, <3>2, <4>1, <4>2 DEF IInv, Bookkeeping, Top, Directive
    <3>3. CASE i # Len(stack)
      <4>1. i \in 1 .. Len(stack) - 1 /\ i + 1 \in 1 .. Len(stack)
        BY <1>2, <3>1, <3>3
      <4>2. QED
        BY <1>6, <3>1, <4>1 DEF IInv, ImmediateConstraint, Directive
    <3>4. QED
      BY <3>2, <3>3
  <2>3. QED
    BY <2>1, <2>2 DEF ImmediateConstraint, Directive
<1>12. AllOrNothing'
  BY <1>2, <1>7 DEF IInv, Bookkeeping, AllOrNothing, NoError
<1>13. QED
  BY <1>8, <1>9, <1>10, <1>11, <1>12 DEF IInv

(* The level whose loop runs, and the entry its cursor is at.              *)
LEMMA TopFacts ==
  ASSUME IInv, pc = "walk"
  PROVE  /\ stack \in Seq(Frame) /\ Len(stack) \in Nat \ {0}
         /\ Top \in Frame
         /\ ~AtEnd(Top) => Top.next \in 1 .. Len(Top.entries) /\ Top.entries[Top.next] \in Entry
<1>1. stack \in Seq(Frame) /\ Len(stack) \in Nat \ {0}
  BY EmptySeq DEF IInv, TypeOK, Bookkeeping
<1>2. Top \in Frame
  BY <1>1, ElementOfSeq DEF Top
<1>3. ASSUME ~AtEnd(Top)
      PROVE  Top.next \in 1 .. Len(Top.entries) /\ Top.entries[Top.next] \in Entry
  <2>1. Top.entries \in Seq(Entry) /\ Top.next \in Nat \ {0}
    BY <1>2, ConstantsAssumption DEF Frame
  <2>2. Len(Top.entries) \in Nat
    BY <2>1, LenProperties
  <2>3. Top.next \in 1 .. Len(Top.entries)
    BY SMTT(60), <1>3, <2>1, <2>2 DEF AtEnd
  <2>4. QED
    BY <2>1, <2>3, ElementOfSeq
<1>4. QED
  BY <1>1, <1>2, <1>3

(* Replacing the innermost level by one with the same file and flag keeps  *)
(* what relates the levels: only its cursor and its entries so far change. *)
LEMMA AdvanceFacts ==
  ASSUME IInv, stack # <<>>, NEW g \in Frame,
         g.path = Top.path, g.constraint = Top.constraint, g.next <= Len(g.entries) + 1,
         stack' = [stack EXCEPT ![Len(stack)] = g], UNCHANGED visited
  PROVE  /\ stack' \in Seq(Frame) /\ Len(stack') = Len(stack) /\ stack' # <<>>
         /\ Len(stack) \in Nat \ {0} /\ stack'[Len(stack)] = g
         /\ \A i \in 1 .. Len(stack') : stack'[i].next <= Len(stack'[i].entries) + 1
         /\ \A i \in 1 .. Len(stack') : FileOf(stack'[i].path) \in File
         /\ VisitedIsStack' /\ ImmediateConstraint'
<1>1. stack \in Seq(Frame) /\ Len(stack) \in Nat \ {0}
  BY EmptySeq DEF IInv, TypeOK
<1>2. /\ stack' \in Seq(Frame)
      /\ Len(stack') = Len(stack)
      /\ \A j \in 1 .. Len(stack) : stack'[j] = IF j = Len(stack) THEN g ELSE stack[j]
  BY SMTT(60), <1>1, ExceptSeq
<1>3. \A j \in 1 .. Len(stack) : /\ stack'[j].path = stack[j].path
                                 /\ stack'[j].constraint = stack[j].constraint
  BY ZenonT(60), <1>2 DEF Top
<1>4. ASSUME NEW j \in 1 .. Len(stack) - 1
      PROVE  stack'[j] = stack[j] /\ j \in 1 .. Len(stack) /\ j + 1 \in 1 .. Len(stack)
  <2>1. j \in 1 .. Len(stack) /\ j # Len(stack) /\ j + 1 \in 1 .. Len(stack)
    BY SMTT(60), <1>1
  <2>2. QED
    BY <1>2, <2>1
<1>5. stack' # <<>>
  BY <1>1, <1>2
<1>6. \A i \in 1 .. Len(stack') : stack'[i].next <= Len(stack'[i].entries) + 1
  BY ZenonT(60), <1>2 DEF IInv, TypeOK
<1>7. \A i \in 1 .. Len(stack') : FileOf(stack'[i].path) \in File
  BY <1>2, <1>3 DEF IInv, Bookkeeping
<1>8. VisitedIsStack'
  <2>1. 1 .. Len(stack') = 1 .. Len(stack)
    BY <1>2
  <2>2. {stack'[i].path : i \in 1 .. Len(stack')} = {stack[i].path : i \in 1 .. Len(stack)}
    BY <1>3, <2>1, Zenon
  <2>3. visited' = {stack'[i].path : i \in 1 .. Len(stack')}
    BY <2>2 DEF IInv, VisitedIsStack
  <2>4. ASSUME NEW i \in 1 .. Len(stack'), NEW j \in 1 .. Len(stack'),
               stack'[i].path = stack'[j].path
        PROVE  i = j
    <3>1. i \in 1 .. Len(stack) /\ j \in 1 .. Len(stack)
      BY <2>1
    <3>2. stack[i].path = stack[j].path
      BY <1>3, <2>4, <3>1
    <3>3. QED
      BY <3>1, <3>2 DEF IInv, VisitedIsStack
  <2>5. QED
    BY <2>3, <2>4 DEF VisitedIsStack
<1>9. ImmediateConstraint'
  <2>1. ~stack'[1].constraint
    BY <1>1, <1>3 DEF IInv, ImmediateConstraint
  <2>2. ASSUME NEW i \in 1 .. Len(stack') - 1
        PROVE  /\ stack'[i].next > 1
               /\ Directive(i)'.kind = "include"
               /\ stack'[i + 1].path = Resolve(stack'[i].path, Directive(i)'.target)
               /\ stack'[i + 1].constraint = Directive(i)'.constraint
    <3>1. i \in 1 .. Len(stack) - 1
      BY <1>2
    <3>2. QED
      BY <1>3, <1>4, <3>1 DEF IInv, ImmediateConstraint, Directive
  <2>3. QED
    BY <2>1, <2>2 DEF ImmediateConstraint, Directive
<1>10. stack'[Len(stack)] = g
  BY <1>1, <1>2
<1>11. QED
  BY <1>1, <1>2, <1>5, <1>6, <1>7, <1>8, <1>9, <1>10

LEMMA CursorMoves ==
  ASSUME NEW f \in Frame
  PROVE  LET g == [f EXCEPT !.next = @ + 1] IN
           g \in Frame /\ g.next = f.next + 1 /\ g.entries = f.entries
  BY DEF Frame

LEMMA IncludeIInv == IInv /\ Include => IInv'
<1> SUFFICES ASSUME IInv, Include PROVE IInv'
  OBVIOUS
<1> DEFINE e == Top.entries[Top.next]
           g == [Top EXCEPT !.next = @ + 1]
<1>1. /\ pc = "walk" /\ ~AtEnd(Top) /\ e.kind = "include"
      /\ call' = [path |-> Resolve(Top.path, e.target), constraint |-> ChildConstraint(Top, e)]
      /\ stack' = [stack EXCEPT ![Len(stack)].next = @ + 1]
      /\ pc' = "call" /\ UNCHANGED <<opener, disk, visited, out, err>>
  BY DEF Include
<1>2. /\ stack \in Seq(Frame) /\ Len(stack) \in Nat \ {0} /\ Top \in Frame
      /\ Top.next \in 1 .. Len(Top.entries) /\ e \in Entry
  BY <1>1, TopFacts
<1>3. e.target \in Target /\ e.constraint \in BOOLEAN
  BY <1>1, <1>2, ConstantsAssumption DEF Entry, IncludeEntry, PlainEntry
<1>4. call' \in Call
  <2>1. FileOf(Top.path) \in File /\ Top.path \in Path
    BY <1>2 DEF IInv, Bookkeeping, Top, Frame
  <2>2. QED
    BY <1>1, <1>3, <2>1, ConstantsAssumption DEF Call, ChildConstraint
<1>5. /\ g \in Frame /\ g.path = Top.path /\ g.constraint = Top.constraint
      /\ g.entries = Top.entries /\ g.next = Top.next + 1 /\ g.next <= Len(g.entries) + 1
  <2>1. Top.next \in Nat /\ Len(Top.entries) \in Nat
    BY <1>2, ConstantsAssumption, LenProperties DEF Frame
  <2>2. g \in Frame /\ g.next = Top.next + 1 /\ g.entries = Top.entries
    BY <1>2, <2>1, CursorMoves
  <2>3. QED
    BY <1>2, <2>1, <2>2 DEF Frame
<1>6. stack' = [stack EXCEPT ![Len(stack)] = g]
  BY <1>1 DEF Top
<1>7. stack # <<>>
  BY <1>1 DEF IInv, Bookkeeping
<1>8. e \in Entry /\ e = Top.entries[Top.next]
  BY <1>2
<1> HIDE DEF g, e
<1>9. /\ stack' \in Seq(Frame) /\ Len(stack') = Len(stack) /\ stack' # <<>>
      /\ stack'[Len(stack)] = g
      /\ \A i \in 1 .. Len(stack') : stack'[i].next <= Len(stack'[i].entries) + 1
      /\ \A i \in 1 .. Len(stack') : FileOf(stack'[i].path) \in File
      /\ VisitedIsStack' /\ ImmediateConstraint'
  BY <1>1, <1>5, <1>6, <1>7, AdvanceFacts
<1>10. TypeOK'
  BY <1>1, <1>4, <1>9 DEF IInv, TypeOK
<1>11. Bookkeeping'
  <2>1. Top' = g /\ Directive(Len(stack))' = e
    <3>1. Top' = g
      BY <1>9 DEF Top
    <3>2. stack'[Len(stack)].entries = Top.entries /\ stack'[Len(stack)].next - 1 = Top.next
      BY <1>2, <1>5, <1>9
    <3>3. QED
      BY <1>8, <3>1, <3>2, <1>9 DEF Directive
  <2>2. Top'.next > 1
    BY <1>2, <1>5, <2>1
  <2>3. err' = NoError /\ out' = <<>>
    BY <1>1 DEF IInv, Bookkeeping
  <2>4. /\ call'.path = Resolve(Top'.path, Directive(Len(stack))'.target)
        /\ call'.constraint = Directive(Len(stack))'.constraint
        /\ Directive(Len(stack))'.kind = "include"
    BY <1>1, <1>5, <1>9, <2>1 DEF ChildConstraint, Directive
  <2>5. QED
    BY <1>1, <1>4, <1>9, <2>2, <2>3, <2>4 DEF Bookkeeping, Directive
<1>12. AllOrNothing'
  BY <1>1 DEF IInv, Bookkeeping, AllOrNothing, NoError
<1>13. QED
  BY <1>9, <1>10, <1>11, <1>12 DEF IInv

LEMMA CollectIInv == IInv /\ Collect => IInv'
<1> SUFFICES ASSUME IInv, Collect PROVE IInv'
  OBVIOUS
<1> DEFINE e == Top.entries[Top.next]
           o == Append(Top.out, Stamped(Top, e))
           g == [Top EXCEPT !.next = Top.next + 1, !.out = o]
<1>1. /\ pc = "walk" /\ ~AtEnd(Top) /\ e.kind # "include"
      /\ stack' = [stack EXCEPT ![Len(stack)] = g]
      /\ UNCHANGED <<opener, disk, pc, call, visited, out, err>>
  BY DEF Collect
<1>2. /\ stack \in Seq(Frame) /\ Len(stack) \in Nat \ {0} /\ Top \in Frame
      /\ Top.next \in 1 .. Len(Top.entries) /\ e \in Entry
  BY <1>1, TopFacts
<1>3. Top.out \in Seq(Collected) /\ Top.path \in Path /\ Top.next \in Nat \ {0}
      /\ Top.entries \in Text /\ Top.constraint \in BOOLEAN
  BY <1>2 DEF Frame
<1>4. Stamped(Top, e) \in Collected
  <2>1. e.kind \in PlainKind
    BY <1>1, <1>2 DEF Entry, IncludeEntry, PlainEntry
  <2>2. QED
    BY <1>3, <2>1 DEF Stamped, Collected
<1>5. o \in Seq(Collected)
  BY <1>3, <1>4, AppendProperties
<1>6. Len(Top.entries) \in Nat
  BY <1>3, ConstantsAssumption, LenProperties
<1>7. stack # <<>>
  BY <1>1 DEF IInv, Bookkeeping
<1>8. Top.next + 1 \in Nat \ {0} /\ Top.next + 1 <= Len(Top.entries) + 1
  BY <1>2, <1>3, <1>6
<1> HIDE DEF o, e
<1>9. /\ g \in Frame /\ g.path = Top.path /\ g.constraint = Top.constraint
      /\ g.next = Top.next + 1 /\ g.entries = Top.entries
  <2> DEFINE m == Top.next + 1
             f == Top
  <2>1. m \in Nat \ {0} /\ f \in Frame
    BY <1>2, <1>8
  <2> HIDE DEF m, f
  <2>2. /\ [f EXCEPT !.next = m, !.out = o] \in Frame
        /\ [f EXCEPT !.next = m, !.out = o].path = f.path
        /\ [f EXCEPT !.next = m, !.out = o].constraint = f.constraint
        /\ [f EXCEPT !.next = m, !.out = o].next = m
        /\ [f EXCEPT !.next = m, !.out = o].entries = f.entries
    BY <1>5, <2>1 DEF Frame
  <2>3. QED
    BY <2>2, Zenon DEF m, f
<1>10. g.next <= Len(g.entries) + 1
  BY <1>8, <1>9
<1> HIDE DEF g
<1>11. /\ stack' \in Seq(Frame) /\ stack' # <<>>
       /\ \A i \in 1 .. Len(stack') : stack'[i].next <= Len(stack'[i].entries) + 1
       /\ \A i \in 1 .. Len(stack') : FileOf(stack'[i].path) \in File
       /\ VisitedIsStack' /\ ImmediateConstraint'
  BY <1>1, <1>7, <1>9, <1>10, AdvanceFacts
<1>12. TypeOK'
  BY <1>1, <1>11 DEF IInv, TypeOK
<1>13. Bookkeeping'
  BY <1>1, <1>11 DEF IInv, Bookkeeping
<1>14. AllOrNothing'
  BY <1>1 DEF IInv, Bookkeeping, AllOrNothing, NoError
<1>15. QED
  BY <1>11, <1>12, <1>13, <1>14 DEF IInv

(* Leaving the innermost level keeps what relates the others.              *)
LEMMA LeaveFacts ==
  ASSUME IInv, stack # <<>>, stack' \in Seq(Frame), Len(stack') = Len(stack) - 1,
         \A i \in 1 .. Len(stack) - 1 :
           /\ stack'[i].path = stack[i].path /\ stack'[i].constraint = stack[i].constraint
           /\ stack'[i].entries = stack[i].entries /\ stack'[i].next = stack[i].next,
         visited' = AfterLeaving(Top.path)
  PROVE  /\ visited' \subseteq Path
         /\ \A i \in 1 .. Len(stack') : stack'[i].next <= Len(stack'[i].entries) + 1
         /\ \A i \in 1 .. Len(stack') : FileOf(stack'[i].path) \in File
         /\ VisitedIsStack' /\ ImmediateConstraint'
<1>1. stack \in Seq(Frame) /\ Len(stack) \in Nat \ {0}
  BY EmptySeq DEF IInv, TypeOK
<1>2. \A i \in 1 .. Len(stack') : i \in 1 .. Len(stack) /\ i # Len(stack)
  BY <1>1
<1>3. visited' \subseteq Path
  BY DEF IInv, TypeOK, AfterLeaving
<1>4. \A i \in 1 .. Len(stack') : stack'[i].next <= Len(stack'[i].entries) + 1
  BY <1>2 DEF IInv, TypeOK
<1>5. \A i \in 1 .. Len(stack') : FileOf(stack'[i].path) \in File
  BY <1>2 DEF IInv, Bookkeeping
<1>6. VisitedIsStack'
  <2>1. \A i, j \in 1 .. Len(stack') : stack'[i].path = stack'[j].path => i = j
    BY <1>2 DEF IInv, VisitedIsStack
  <2>2. ASSUME NEW p
        PROVE  p \in visited' <=> \E i \in 1 .. Len(stack') : p = stack'[i].path
    <3>1. p \in visited' <=> p # stack[Len(stack)].path
                              /\ \E i \in 1 .. Len(stack) : p = stack[i].path
      BY DEF IInv, VisitedIsStack, AfterLeaving, Top
    <3>2. ASSUME NEW i \in 1 .. Len(stack), stack[i].path # stack[Len(stack)].path
          PROVE  i \in 1 .. Len(stack') /\ stack'[i].path = stack[i].path
      <4>1. i # Len(stack)
        BY <3>2
      <4>2. QED
        BY <1>1, <4>1
    <3>3. ASSUME NEW i \in 1 .. Len(stack')
          PROVE  stack'[i].path # stack[Len(stack)].path
      BY <1>1, <1>2, <3>3 DEF IInv, VisitedIsStack
    <3>4. QED
      BY <1>2, <3>1, <3>2, <3>3
  <2>3. QED
    BY <2>1, <2>2 DEF VisitedIsStack
<1>7. ImmediateConstraint'
  <2>1. stack' # <<>> => ~stack'[1].constraint
    <3>1. ASSUME stack' # <<>> PROVE 1 \in 1 .. Len(stack')
      BY <3>1, EmptySeq
    <3>2. QED
      BY <1>1, <3>1 DEF IInv, ImmediateConstraint
  <2>2. ASSUME NEW i \in 1 .. Len(stack') - 1
        PROVE  /\ stack'[i].next > 1
               /\ Directive(i)'.kind = "include"
               /\ stack'[i + 1].path = Resolve(stack'[i].path, Directive(i)'.target)
               /\ stack'[i + 1].constraint = Directive(i)'.constraint
    <3>1. i \in 1 .. Len(stack) - 1 /\ i + 1 \in 1 .. Len(stack) - 1
      BY <1>1
    <3>2. QED
      BY SMTT(60), <3>1 DEF IInv, ImmediateConstraint, Directive
  <2>3. QED
    BY <2>1, <2>2 DEF ImmediateConstraint, Directive
<1>8. QED
  BY <1>3, <1>4, <1>5, <1>6, <1>7

LEMMA ReturnIInv == IInv /\ Return => IInv'
<1> SUFFICES ASSUME IInv, Return PROVE IInv'
  OBVIOUS
<1> DEFINE n == Len(stack) - 1
           g == [Pop[n] EXCEPT !.out = Splice(@, Top.out)]
<1>1. /\ pc = "walk" /\ Len(stack) > 1
      /\ stack' = [Pop EXCEPT ![Len(stack) - 1].out = Splice(@, Top.out)]
      /\ visited' = AfterLeaving(Top.path)
      /\ UNCHANGED <<opener, disk, pc, call, out, err>>
  BY DEF Return
<1>2. stack # <<>> /\ Len(stack) \in Nat \ {0} /\ Top \in Frame /\ stack \in Seq(Frame)
  BY <1>1, TopFacts DEF IInv, Bookkeeping
<1>3. /\ Pop \in Seq(Frame) /\ Len(Pop) = n
      /\ \A i \in 1 .. n : Pop[i] = stack[i]
  BY <1>2, PopFacts DEF Pop
<1>4. n \in 1 .. Len(Pop) /\ Pop[n] \in Frame
  BY <1>1, <1>2, <1>3, ElementOfSeq
<1>5. /\ g \in Frame /\ g.path = Pop[n].path /\ g.constraint = Pop[n].constraint
      /\ g.entries = Pop[n].entries /\ g.next = Pop[n].next
  <2>1. Pop[n].out \in Seq(Collected) /\ Top.out \in Seq(Collected)
    BY <1>2, <1>4 DEF Frame
  <2>2. Splice(Pop[n].out, Top.out) \in Seq(Collected)
    BY <2>1, ConcatProperties DEF Splice
  <2>3. QED
    BY <1>4, <2>2 DEF Frame
<1>6. stack' = [Pop EXCEPT ![n] = g]
  BY <1>1
<1> HIDE DEF g
<1>7. /\ stack' \in Seq(Frame) /\ Len(stack') = n
      /\ \A j \in 1 .. n : stack'[j] = IF j = n THEN g ELSE Pop[j]
  BY <1>3, <1>4, <1>5, <1>6, ExceptSeq
<1>8. /\ visited' \subseteq Path
      /\ \A i \in 1 .. Len(stack') : stack'[i].next <= Len(stack'[i].entries) + 1
      /\ \A i \in 1 .. Len(stack') : FileOf(stack'[i].path) \in File
      /\ VisitedIsStack' /\ ImmediateConstraint'
  <2>1. \A i \in 1 .. n :
          /\ stack'[i].path = stack[i].path /\ stack'[i].constraint = stack[i].constraint
          /\ stack'[i].entries = stack[i].entries /\ stack'[i].next = stack[i].next
    BY <1>3, <1>4, <1>5, <1>7
  <2>2. QED
    BY <1>1, <1>2, <1>7, <2>1, LeaveFacts
<1>9. TypeOK'
  BY <1>1, <1>7, <1>8 DEF IInv, TypeOK
<1>10. Bookkeeping'
  <2>1. stack' # <<>>
    BY <1>3, <1>4, <1>7, EmptySeq
  <2>2. QED
    BY <1>1, <1>8, <2>1 DEF IInv, Bookkeeping
<1>11. AllOrNothing'
  BY <1>1 DEF IInv, Bookkeeping, AllOrNothing, NoError
<1>12. QED
  BY <1>8, <1>9, <1>10, <1>11 DEF IInv

LEMMA ReturnFileIInv == IInv /\ ReturnFile => IInv'
<1> SUFFICES ASSUME IInv, ReturnFile PROVE IInv'
  OBVIOUS
<1>1. /\ pc = "walk" /\ Len(stack) = 1 /\ stack' = <<>>
      /\ visited' = AfterLeaving(Top.path) /\ out' = Top.out /\ pc' = "done"
      /\ UNCHANGED <<opener, disk, call, err>>
  BY DEF ReturnFile
<1>2. stack # <<>> /\ Top \in Frame
  BY <1>1, TopFacts DEF IInv, Bookkeeping
<1>3. Len(stack') = 0 /\ stack' \in Seq(Frame)
  BY <1>1, EmptySeq
<1>4. visited' \subseteq Path /\ VisitedIsStack' /\ ImmediateConstraint'
  <2>1. /\ Len(stack') = Len(stack) - 1
        /\ \A i \in 1 .. Len(stack) - 1 :
             /\ stack'[i].path = stack[i].path /\ stack'[i].constraint = stack[i].constraint
             /\ stack'[i].entries = stack[i].entries /\ stack'[i].next = stack[i].next
    BY <1>1, <1>3
  <2>2. QED
    BY <1>1, <1>2, <1>3, <2>1, LeaveFacts
<1>5. TypeOK'
  <2>1. out' \in Seq(Collected)
    BY <1>1, <1>2 DEF Frame
  <2>2. QED
    BY <1>1, <1>3, <1>4, <2>1 DEF IInv, TypeOK
<1>6. Bookkeeping'
  BY <1>1, <1>3 DEF IInv, Bookkeeping
<1>7. AllOrNothing'
  BY <1>1, <1>3, <1>4 DEF IInv, Bookkeeping, AllOrNothing, NoError, VisitedIsStack
<1>8. QED
  BY <1>4, <1>5, <1>6, <1>7 DEF IInv

LEMMA UnwindIInv == IInv /\ Unwind => IInv'
<1> SUFFICES ASSUME IInv, Unwind PROVE IInv'
  OBVIOUS
<1>1. /\ pc = "unwind" /\ stack # <<>> /\ stack' = Pop
      /\ visited' = AfterLeaving(Top.path)
      /\ UNCHANGED <<opener, disk, pc, call, out, err>>
  BY DEF Unwind
<1>2. /\ stack' \in Seq(Frame) /\ Len(stack') = Len(stack) - 1
      /\ \A i \in 1 .. Len(stack) - 1 : stack'[i] = stack[i]
  BY <1>1, PopFacts DEF IInv, TypeOK, Pop
<1>3. /\ visited' \subseteq Path
      /\ \A i \in 1 .. Len(stack') : stack'[i].next <= Len(stack'[i].entries) + 1
      /\ \A i \in 1 .. Len(stack') : FileOf(stack'[i].path) \in File
      /\ VisitedIsStack' /\ ImmediateConstraint'
  BY <1>1, <1>2, LeaveFacts
<1>4. TypeOK'
  BY <1>1, <1>2, <1>3 DEF IInv, TypeOK
<1>5. Bookkeeping' /\ AllOrNothing'
  BY <1>1, <1>3 DEF IInv, Bookkeeping, AllOrNothing
<1>6. QED
  BY <1>3, <1>4, <1>5 DEF IInv

-----------------------------------------------------------------------------

LEMMA NextIInv == IInv /\ [Next]_vars => IInv'
<1>1. ASSUME IInv, UNCHANGED vars PROVE IInv'
  <2>1. VisitedIsStack' /\ ImmediateConstraint'
    BY <1>1, LevelsUntouched DEF vars
  <2>2. TypeOK'
    BY <1>1 DEF vars, IInv, TypeOK
  <2>3. Bookkeeping'
    BY <1>1 DEF vars, IInv, Bookkeeping, Top, Directive
  <2>4. AllOrNothing'
    BY <1>1 DEF vars, IInv, AllOrNothing
  <2>5. QED
    BY <2>1, <2>2, <2>3, <2>4 DEF IInv
<1>2. QED
  BY <1>1, NilOpenIInv, BeginIInv, RecursiveIncludeIInv, OpenFailsIInv, ParseFailsIInv,
     EnterIInv, IncludeIInv, CollectIInv, ReturnIInv, ReturnFileIInv, UnwindIInv,
     ReturnErrorIInv
  DEF Next

LEMMA Invariance == Spec => []IInv
  BY InitIInv, NextIInv, PTL DEF Spec

(* Type correctness (the range loops of flattenWalk stay inside a file).   *)
THEOREM TypeCorrect == Spec => []TypeOK
  BY Invariance, PTL DEF IInv

(* The shared map is the recursion stack, whatever the files are and       *)
(* however the callback answers, on every path out of flattenWalk.         *)
THEOREM VisitedIsTheStack == Spec => []VisitedIsStack
  BY Invariance, PTL DEF IInv

(* Constraint-ness comes from the immediate directive alone.               *)
THEOREM ConstraintIsImmediate == Spec => []ImmediateConstraint
  BY Invariance, PTL DEF IInv

(* A failed walk returns no entries and leaves the shared map empty.       *)
THEOREM NothingFromAFailedWalk == Spec => []AllOrNothing
  BY Invariance, PTL DEF IInv

(* A file is reported to include itself only from inside itself.           *)
THEOREM CyclesAreReal == Spec => CycleIsReal
<1>1. ASSUME IInv, [Next]_vars, err'.kind = "recursive", err.kind = "none"
      PROVE  \E i \in 1 .. Len(stack) : stack[i].path = call.path
  <2>1. RecursiveInclude
    BY <1>1 DEF Next, vars, NilOpen, Begin, OpenFails, ParseFails, Enter, Include, Collect,
                Return, ReturnFile, Unwind, ReturnError, Fail
  <2>2. QED
    BY <1>1, <2>1 DEF RecursiveInclude, IInv, VisitedIsStack
<1>2. IInv /\ [Next]_vars =>
        [err'.kind = "recursive" /\ err.kind = "none"
           => \E i \in 1 .. Len(stack) : stack[i].path = call.path]_vars
  BY <1>1
<1>3. QED
  BY <1>2, Invariance, PTL DEF Spec, CycleIsReal

(***************************************************************************)
(* Numbers and recursion                                                   *)
(***************************************************************************)
(* From the well-foundedness of strict inclusion among the subsets of an   *)
(* interval.                                                               *)
LEMMA LeastNatural ==
  ASSUME NEW T \in SUBSET Nat, T # {}
  PROVE  \E x \in T : \A y \in T : x <= y
<1>1. PICK m \in T : TRUE
  OBVIOUS
<1> DEFINE S == 0 .. m
           R == StrictSubsetOrdering(S)
           F == {0 .. k : k \in {i \in T : i <= m}}
<1>2. IsFiniteSet(S)
  BY FS_Interval
<1>3. IsWellFoundedOn(R, FiniteSubsetsOf(S))
  BY FS_StrictSubsetOrderingWellFounded
<1>4. F \subseteq FiniteSubsetsOf(S) /\ F # {}
  <2>1. \A k \in 0 .. m : 0 .. k \in FiniteSubsetsOf(S)
    BY SMTT(60), FS_Interval, <1>2 DEF FiniteSubsetsOf
  <2>2. QED
    BY <2>1
<1>5. PICK x \in F : \A y \in F : <<y, x>> \notin R
  <2> HIDE DEF R, F
  <2>1. QED
    BY <1>3, <1>4, WFMin
<1>6. PICK k \in T : k <= m /\ x = 0 .. k
  OBVIOUS
<1>7. ASSUME NEW y \in T, y < k PROVE FALSE
  <2>1. 0 .. y \in F
    BY <1>6, <1>7
  <2>2. 0 .. y \subseteq 0 .. k /\ 0 .. y # 0 .. k /\ 0 .. y \subseteq S /\ 0 .. k \subseteq S
    BY <1>6, <1>7
  <2>3. <<0 .. y, 0 .. k>> \in R
    BY <2>2 DEF StrictSubsetOrdering
  <2>4. QED
    BY <1>5, <1>6, <2>1, <2>3
<1>8. QED
  BY <1>6, <1>7

(* Induction, for a set of numbers in place of a predicate.                *)
LEMMA Induction ==
  ASSUME NEW T \in SUBSET Nat, 0 \in T, \A n \in T : n + 1 \in T
  PROVE  T = Nat
<1>1. CASE Nat \ T = {}
  BY <1>1
<1>2. CASE Nat \ T # {}
  <2>1. PICK x \in Nat \ T : \A y \in Nat \ T : x <= y
    BY <1>2, LeastNatural
  <2>2. x # 0 /\ x - 1 \in Nat /\ x - 1 \notin Nat \ T
    BY <2>1
  <2>3. x - 1 + 1 = x
    BY <2>1
  <2>4. QED
    BY <2>1, <2>2, <2>3
<1>3. QED
  BY <1>1, <1>2

Solves(g, n, S, base, step) ==
  g \in [0 .. n -> S] /\ g[0] = base /\ \A i \in 1 .. n : g[i] = step[<<i, g[i - 1]>>]

(* A recursion over an interval has a solution.                            *)
LEMMA Recursion ==
  ASSUME NEW n \in Nat, NEW S, NEW base \in S, NEW step \in [(1 .. n) \X S -> S]
  PROVE  \E g : Solves(g, n, S, base, step)
<1> USE DEF Solves
<1> DEFINE T == {m \in Nat : m <= n => \E g : Solves(g, m, S, base, step)}
<1>1. 0 \in T
  <2>1. Solves([i \in 0 .. 0 |-> base], 0, S, base, step)
    OBVIOUS
  <2>2. QED
    BY <2>1
<1>2. ASSUME NEW m \in T PROVE m + 1 \in T
  <2> SUFFICES ASSUME m + 1 <= n PROVE \E g : Solves(g, m + 1, S, base, step)
    OBVIOUS
  <2>1. PICK g : Solves(g, m, S, base, step)
    OBVIOUS
  <2> DEFINE h == [i \in 0 .. m + 1 |-> IF i = m + 1 THEN step[<<m + 1, g[m]>>] ELSE g[i]]
  <2>2. \A i \in 0 .. m : h[i] = g[i] /\ g[i] \in S
    BY <2>1
  <2>3. h[m + 1] = step[<<m + 1, g[m]>>] /\ step[<<m + 1, g[m]>>] \in S
    <3>1. g[m] \in S /\ m + 1 \in 1 .. n /\ m \in 0 .. m
      BY <2>1
    <3>2. <<m + 1, g[m]>> \in (1 .. n) \X S
      BY <3>1
    <3>3. QED
      BY <3>2
  <2>4. h \in [0 .. m + 1 -> S]
    <3>1. \A i \in 0 .. m + 1 : i # m + 1 => i \in 0 .. m
      OBVIOUS
    <3>2. \A i \in 0 .. m + 1 : h[i] \in S
      BY <2>2, <2>3, <3>1
    <3>3. QED
      BY <3>2
  <2> HIDE DEF h
  <2>5. ASSUME NEW i \in 1 .. m + 1 PROVE h[i] = step[<<i, h[i - 1]>>]
    <3>1. CASE i = m + 1
      <4>1. i - 1 = m /\ h[m] = g[m]
        BY <2>2, <3>1
      <4>2. QED
        BY <2>3, <3>1, <4>1
    <3>2. CASE i # m + 1
      <4>1. i \in 1 .. m /\ i - 1 \in 0 .. m /\ i \in 0 .. m
        BY <3>2
      <4>2. QED
        BY <2>1, <2>2, <4>1
    <3>3. QED
      BY <3>1, <3>2
  <2>6. h[0] = base
    BY <2>1, <2>2
  <2>7. QED
    BY <2>4, <2>5, <2>6
<1>3. T = Nat
  <2> HIDE DEF T
  <2>1. T \in SUBSET Nat
    BY DEF T
  <2>2. QED
    BY <1>1, <1>2, <2>1, Induction
<1>4. n \in T
  BY <1>3
<1>5. QED
  BY <1>4

Agree(g, h, n) == g[0] = h[0] /\ \A i \in 1 .. n : g[i - 1] = h[i - 1] => g[i] = h[i]

(* And only one.                                                           *)
LEMMA OneSolution ==
  ASSUME NEW n \in Nat, NEW g, NEW h, Agree(g, h, n)
  PROVE  \A i \in 0 .. n : g[i] = h[i]
<1> USE DEF Agree
<1> DEFINE T == {i \in Nat : i <= n => g[i] = h[i]}
<1>1. 0 \in T
  OBVIOUS
<1>2. ASSUME NEW i \in T PROVE i + 1 \in T
  <2>1. CASE i + 1 <= n
    <3>1. i + 1 \in 1 .. n /\ i + 1 - 1 = i /\ i <= n
      BY <2>1
    <3>2. QED
      BY <3>1
  <2>2. CASE ~(i + 1 <= n)
    BY <2>2
  <2>3. QED
    BY <2>1, <2>2
<1>3. T = Nat
  <2> HIDE DEF T
  <2>1. T \in SUBSET Nat
    BY DEF T
  <2>2. QED
    BY <1>1, <1>2, <2>1, Induction
<1>4. \A i \in Nat : i \in T
  BY <1>3
<1>5. QED
  BY <1>4

(***************************************************************************)
(* Routes                                                                  *)
(***************************************************************************)
Line     == Nat \ {0}
AllRoute == Seq(Line)

(* In a state that types, from a root that is one.                         *)
Readable == TypeOK /\ root \in Roots

(* One step along a route leads to a path, or nowhere.                     *)
LEMMA FollowType ==
  Readable => \A p \in Path \cup {NONE}, l \in Line : P!Follow(p, l) \in Path \cup {NONE}
<1> SUFFICES ASSUME Readable, NEW p \in Path \cup {NONE}, NEW l \in Line,
                    p # NONE, P!HasInclude(p, l)
             PROVE  Resolve(p, P!AnswerOf(p).entries[l].target) \in Path
  BY DEF P!Follow
<1>1. FileOf(p) \in File /\ P!AnswerOf(p) = disk[FileOf(p)]
  BY DEF P!HasInclude, P!AnswerOf
<1>2. disk[FileOf(p)].kind = "text" /\ disk[FileOf(p)] \in Answer \cup {Unread}
  BY <1>1 DEF P!HasInclude, Readable, TypeOK
<1>3. disk[FileOf(p)].entries \in Text
  BY <1>2 DEF Answer, Unread
<1>4. disk[FileOf(p)].entries[l] \in Entry
  BY <1>1, <1>3, ConstantsAssumption, ElementOfSeq DEF P!HasInclude
<1>5. disk[FileOf(p)].entries[l].kind = "include"
  BY <1>1 DEF P!HasInclude
<1>6. disk[FileOf(p)].entries[l].target \in Target
  BY <1>4, <1>5, ConstantsAssumption DEF Entry, IncludeEntry, PlainEntry
<1>7. QED
  BY <1>1, <1>6, ConstantsAssumption

(* The paths along a route.                                                *)
LEMMA Along ==
  Readable =>
    \A r \in AllRoute :
      \E g \in [0 .. Len(r) -> Path \cup {NONE}] :
        /\ g[0] = root
        /\ \A i \in 1 .. Len(r) : g[i] = P!Follow(g[i - 1], r[i])
        /\ P!Reached(r) = g[Len(r)]
<1> SUFFICES ASSUME Readable, NEW r \in AllRoute
             PROVE  \E g \in [0 .. Len(r) -> Path \cup {NONE}] :
                      /\ g[0] = root
                      /\ \A i \in 1 .. Len(r) : g[i] = P!Follow(g[i - 1], r[i])
                      /\ P!Reached(r) = g[Len(r)]
  OBVIOUS
<1> DEFINE S == Path \cup {NONE}
           m == Len(r)
           step == [x \in (1 .. m) \X S |-> P!Follow(x[2], r[x[1]])]
           IsReached(g) == g = [n \in 0 .. m |-> IF n = 0 THEN root ELSE P!Follow(g[n - 1], r[n])]
<1>1. m \in Nat /\ \A i \in 1 .. m : r[i] \in Line
  BY ElementOfSeq, LenProperties DEF AllRoute
<1>2. root \in S
  BY ConstantsAssumption DEF Readable
<1>3. step \in [(1 .. m) \X S -> S]
  BY <1>1, FollowType
<1>4. \A i \in 1 .. m, p \in S : step[<<i, p>>] = P!Follow(p, r[i])
  OBVIOUS
<1> HIDE DEF step, m
<1>5. PICK g \in [0 .. m -> S] : g[0] = root /\ \A i \in 1 .. m : g[i] = step[<<i, g[i - 1]>>]
  <2> HIDE DEF S
  <2>1. \E g : Solves(g, m, S, root, step)
    BY <1>1, <1>2, <1>3, Recursion
  <2>2. QED
    BY <2>1 DEF Solves
<1>6. \A i \in 1 .. m : g[i] = P!Follow(g[i - 1], r[i])
  <2>1. \A i \in 1 .. m : g[i - 1] \in S
    BY <1>1
  <2>2. QED
    BY <1>4, <1>5, <2>1
<1>7. IsReached(g)
  BY <1>1, <1>5, <1>6
<1> DEFINE f == CHOOSE h : IsReached(h)
<1>8. IsReached(f)
  BY <1>7
<1>9. P!Reached(r) = f[m]
  BY DEF P!Reached, m
<1>10. f[0] = root /\ \A i \in 1 .. m : f[i] = P!Follow(f[i - 1], r[i])
  <2> HIDE DEF f
  <2>1. QED
    BY <1>1, <1>8
<1>11. \A i \in 0 .. m : f[i] = g[i]
  <2> HIDE DEF f
  <2>1. Agree(f, g, m)
    BY <1>5, <1>6, <1>10 DEF Agree
  <2> HIDE DEF IsReached
  <2>2. QED
    BY <1>1, <2>1, OneSolution
<1>12. QED
  BY SMTT(60), <1>1, <1>5, <1>6, <1>9, <1>11 DEF m

(* The empty route leads to the root.                                      *)
LEMMA ReachedStart == Readable => <<>> \in AllRoute /\ P!Reached(<<>>) = root
<1> SUFFICES ASSUME Readable PROVE <<>> \in AllRoute /\ P!Reached(<<>>) = root
  OBVIOUS
<1>1. <<>> \in AllRoute /\ Len(<<>>) = 0
  BY DEF AllRoute
<1>2. QED
  BY <1>1, Along

(* A longer route goes one directive further.                              *)
LEMMA ReachedNext ==
  Readable =>
    \A r \in AllRoute, l \in Line :
      /\ Append(r, l) \in AllRoute
      /\ P!Reached(r) \in Path \cup {NONE}
      /\ P!Reached(Append(r, l)) = P!Follow(P!Reached(r), l)
<1> SUFFICES ASSUME Readable, NEW r \in AllRoute, NEW l \in Line
             PROVE  /\ Append(r, l) \in AllRoute
                    /\ P!Reached(r) \in Path \cup {NONE}
                    /\ P!Reached(Append(r, l)) = P!Follow(P!Reached(r), l)
  OBVIOUS
<1> DEFINE m == Len(r)
           s == Append(r, l)
<1>1. m \in Nat /\ s \in AllRoute /\ Len(s) = m + 1 /\ s[m + 1] = l /\ \A i \in 1 .. m : s[i] = r[i]
  BY DEF AllRoute
<1>2. PICK g \in [0 .. m -> Path \cup {NONE}] :
        g[0] = root /\ (\A i \in 1 .. m : g[i] = P!Follow(g[i - 1], r[i])) /\ P!Reached(r) = g[m]
  BY Along
<1>3. PICK h \in [0 .. m + 1 -> Path \cup {NONE}] :
        h[0] = root /\ (\A i \in 1 .. m + 1 : h[i] = P!Follow(h[i - 1], s[i])) /\ P!Reached(s) = h[m + 1]
  <2> HIDE DEF s, m
  <2>1. QED
    BY <1>1, Along
<1> HIDE DEF s, m
<1>4. \A i \in 0 .. m : g[i] = h[i]
  <2>1. \A i \in 1 .. m : g[i - 1] = h[i - 1] => g[i] = h[i]
    BY <1>1, <1>2, <1>3
  <2>2. Agree(g, h, m)
    BY <1>2, <1>3, <2>1 DEF Agree
  <2>3. QED
    BY <1>1, <2>2, OneSolution
<1>5. P!Reached(s) = P!Follow(g[m], l)
  <2>1. m + 1 \in 1 .. m + 1 /\ m + 1 - 1 = m /\ m \in 0 .. m
    BY <1>1
  <2>2. QED
    BY <1>1, <1>3, <1>4, <2>1
<1>6. g[m] \in Path \cup {NONE}
  BY <1>1, <1>2
<1>7. QED
  BY <1>1, <1>2, <1>5, <1>6 DEF s

(* r begins with q.                                                        *)
Extends(r, q) == Len(q) <= Len(r) /\ \A j \in 1 .. Len(q) : r[j] = q[j]

(* A route and its last line.                                              *)
LEMMA FrontFacts ==
  ASSUME NEW r \in AllRoute, r # <<>>
  PROVE  /\ P!Front(r) \in AllRoute
         /\ P!Last(r) \in Line
         /\ r = Append(P!Front(r), P!Last(r))
         /\ Len(r) \in Line /\ Len(P!Front(r)) = Len(r) - 1
         /\ Extends(r, P!Front(r))
<1>1. Len(r) \in Line /\ r[Len(r)] \in Line
  <2>1. Len(r) \in Line
    BY EmptySeq, LenProperties DEF AllRoute, Line
  <2>2. QED
    BY <2>1, ElementOfSeq DEF AllRoute, Line
<1>2. /\ P!Front(r) \in AllRoute /\ Len(P!Front(r)) = Len(r) - 1
      /\ \A j \in 1 .. Len(r) - 1 : P!Front(r)[j] = r[j]
  BY PopFacts DEF AllRoute, P!Front
<1>3. r = Append(P!Front(r), P!Last(r))
  <2> DEFINE f == P!Front(r)
             s == Append(f, r[Len(r)])
  <2>1. /\ s \in AllRoute /\ Len(s) = Len(f) + 1 /\ s[Len(f) + 1] = r[Len(r)]
        /\ \A j \in 1 .. Len(f) : s[j] = f[j]
    BY <1>1, <1>2, AppendProperties DEF AllRoute
  <2> HIDE DEF s
  <2>2. \A j \in 1 .. Len(r) : s[j] = r[j]
    <3>1. \A j \in 1 .. Len(r) : j = Len(r) \/ j \in 1 .. Len(r) - 1
      BY <1>1 DEF Line
    <3>2. QED
      BY <1>1, <1>2, <2>1, <3>1 DEF Line
  <2>3. Len(s) = Len(r)
    BY <1>1, <1>2, <2>1 DEF Line
  <2>4. s = r
    BY <2>1, <2>2, <2>3, SeqEqual DEF AllRoute
  <2>5. QED
    BY <2>4 DEF s, P!Last
<1>4. QED
  BY <1>1, <1>2, <1>3 DEF P!Last, Extends, Line

(* What properly begins with q begins, without its last line, with q.      *)
LEMMA Extending ==
  ASSUME NEW r \in AllRoute, NEW q \in AllRoute, Extends(r, q)
  PROVE  \/ r = q
         \/ r # <<>> /\ Extends(P!Front(r), q)
<1>1. Len(r) \in Nat /\ Len(q) \in Nat
  BY LenProperties DEF AllRoute
<1>2. CASE Len(r) = Len(q)
  BY <1>2, SeqEqual DEF AllRoute, Extends
<1>3. CASE Len(r) > Len(q)
  <2>1. r # <<>>
    BY <1>1, <1>3
  <2>2. \A j \in 1 .. Len(r) - 1 : P!Front(r)[j] = r[j]
    BY <2>1, PopFacts DEF AllRoute, P!Front
  <2>3. Len(P!Front(r)) = Len(r) - 1
    BY <2>1, FrontFacts
  <2>4. QED
    BY <1>1, <1>3, <2>1, <2>2, <2>3 DEF Extends
<1>4. QED
  BY <1>1, <1>2, <1>3 DEF Extends

(* Where a route ends, no longer one leads on.                             *)
LEMMA DeadEnd ==
  Readable =>
    \A q \in AllRoute, r \in AllRoute :
      P!Reached(q) = NONE /\ Extends(r, q) => P!Reached(r) = NONE
<1> SUFFICES ASSUME Readable, NEW q \in AllRoute, P!Reached(q) = NONE
             PROVE  \A r \in AllRoute : Extends(r, q) => P!Reached(r) = NONE
  OBVIOUS
<1> DEFINE T == {n \in Nat : \A r \in AllRoute : Len(r) = n /\ Extends(r, q) => P!Reached(r) = NONE}
<1>1. 0 \in T
  <2> SUFFICES ASSUME NEW r \in AllRoute, Len(r) = 0, Extends(r, q) PROVE P!Reached(r) = NONE
    OBVIOUS
  <2>1. r = q
    BY Extending, FrontFacts, EmptySeq DEF AllRoute
  <2>2. QED
    BY <2>1
<1>2. ASSUME NEW n \in T PROVE n + 1 \in T
  <2> SUFFICES ASSUME NEW r \in AllRoute, Len(r) = n + 1, Extends(r, q), r # q
               PROVE  P!Reached(r) = NONE
    OBVIOUS
  <2>1. r # <<>> /\ Extends(P!Front(r), q)
    BY Extending
  <2>2. P!Reached(P!Front(r)) = NONE
    BY <2>1, FrontFacts
  <2>3. P!Reached(r) = P!Follow(NONE, P!Last(r))
    BY <2>1, <2>2, FrontFacts, ReachedNext
  <2>4. QED
    BY <2>3 DEF P!Follow
<1>3. T = Nat
  <2> HIDE DEF T
  <2>1. T \in SUBSET Nat
    BY DEF T
  <2>2. QED
    BY <1>1, <1>2, <2>1, Induction
<1>4. \A r \in AllRoute : Len(r) \in T
  BY <1>3, LenProperties DEF AllRoute
<1>5. QED
  BY <1>4

(***************************************************************************)
(* The order of routes                                                     *)
(***************************************************************************)
(* Before is a strict total order.                                         *)
LEMMA BeforeFacts ==
  ASSUME NEW r \in AllRoute, NEW s \in AllRoute
  PROVE  /\ P!Before(r, s) => ~P!Before(s, r) /\ r # s
         /\ P!Before(r, s) \/ P!Before(s, r) \/ r = s
<1>1. /\ Len(r) \in Nat /\ Len(s) \in Nat
      /\ \A i \in 1 .. Len(r) : r[i] \in Nat
      /\ \A i \in 1 .. Len(s) : s[i] \in Nat
  BY ElementOfSeq, LenProperties DEF AllRoute, Line
<1>2. P!Before(r, s) => ~P!Before(s, r)
  <2> SUFFICES ASSUME NEW i \in 1 .. Len(s), NEW j \in 1 .. Len(r),
                      i <= Len(r) + 1, \A k \in 1 .. i - 1 : r[k] = s[k], i <= Len(r) => r[i] < s[i],
                      j <= Len(s) + 1, \A k \in 1 .. j - 1 : s[k] = r[k], j <= Len(s) => s[j] < r[j]
               PROVE  FALSE
    BY DEF P!Before
  <2>1. CASE i < j
    BY <1>1, <2>1
  <2>2. CASE j < i
    BY <1>1, <2>2
  <2>3. CASE i = j
    BY <1>1, <2>3
  <2>4. QED
    BY <1>1, <2>1, <2>2, <2>3
<1>3. P!Before(r, s) \/ P!Before(s, r) \/ r = s
  <2> DEFINE D == {i \in Nat : i >= 1 /\ (i <= Len(r) \/ i <= Len(s))
                                /\ ~(i <= Len(r) /\ i <= Len(s) /\ r[i] = s[i])}
  <2>1. CASE D = {}
    <3>1. \A i \in 1 .. Len(r) : i <= Len(s) /\ r[i] = s[i]
      BY SMTT(60), <1>1, <2>1
    <3>2. \A i \in 1 .. Len(s) : i <= Len(r)
      BY <1>1, <2>1
    <3>3. Len(r) = Len(s)
      <4>1. Len(r) > 0 => Len(r) \in 1 .. Len(r)
        BY <1>1
      <4>2. Len(s) > 0 => Len(s) \in 1 .. Len(s)
        BY <1>1
      <4>3. QED
        BY <1>1, <3>1, <3>2, <4>1, <4>2
    <3>4. QED
      BY <3>1, <3>3, SeqEqual DEF AllRoute
  <2>2. CASE D # {}
    <3>1. PICK i \in D : \A j \in D : i <= j
      BY <2>2, LeastNatural
    <3>2. \A j \in 1 .. i - 1 : j \notin D
      BY <3>1
    <3>3. i <= Len(r) + 1 /\ i <= Len(s) + 1
      <4>1. i = 1 \/ (i - 1 \in 1 .. i - 1 /\ i - 1 \notin D)
        BY <3>1, <3>2
      <4>2. QED
        BY <1>1, <3>1, <4>1
    <3>4. \A j \in 1 .. i - 1 : r[j] = s[j]
      BY <1>1, <3>1, <3>2, <3>3
    <3>5. CASE i <= Len(r) /\ i <= Len(s)
      <4>1. r[i] < s[i] \/ s[i] < r[i]
        BY <1>1, <3>1, <3>5
      <4>2. QED
        BY <1>1, <3>1, <3>3, <3>4, <3>5, <4>1 DEF P!Before
    <3>6. CASE ~(i <= Len(r))
      <4>1. i \in 1 .. Len(s)
        BY <1>1, <3>1, <3>6
      <4>2. P!Before(r, s)
        BY <1>1, <3>3, <3>4, <3>6, <4>1 DEF P!Before
      <4>3. QED
        BY <4>2
    <3>7. CASE ~(i <= Len(s))
      <4>1. i \in 1 .. Len(r)
        BY <1>1, <3>1, <3>7
      <4>2. P!Before(s, r)
        BY <1>1, <3>3, <3>4, <3>7, <4>1 DEF P!Before
      <4>3. QED
        BY <4>2
    <3>8. QED
      BY <3>5, <3>6, <3>7
  <2>3. QED
    BY <2>1, <2>2
<1>4. QED
  BY <1>2, <1>3

(* What comes before an entry of a file: what comes before the file, the   *)
(* file, and what goes through earlier entries.                            *)
LEMMA BeforeAppend ==
  ASSUME NEW r \in AllRoute, NEW s \in AllRoute, NEW n \in Line
  PROVE  P!Before(r, Append(s, n)) <=>
           \/ P!Before(r, s)
           \/ Extends(r, s) /\ (Len(r) = Len(s) \/ r[Len(s) + 1] < n)
<1> DEFINE t == Append(s, n)
<1>1. /\ Len(r) \in Nat /\ Len(s) \in Nat
      /\ \A i \in 1 .. Len(r) : r[i] \in Nat
  BY ElementOfSeq, LenProperties DEF AllRoute, Line
<1>2. /\ t \in AllRoute /\ Len(t) = Len(s) + 1 /\ t[Len(s) + 1] = n
      /\ \A j \in 1 .. Len(s) : t[j] = s[j]
  BY AppendProperties DEF AllRoute
<1> HIDE DEF t
<1>3. ASSUME P!Before(r, t), ~P!Before(r, s)
      PROVE  Extends(r, s) /\ (Len(r) = Len(s) \/ r[Len(s) + 1] < n)
  <2>1. PICK i \in 1 .. Len(t) :
          i <= Len(r) + 1 /\ (\A j \in 1 .. i - 1 : r[j] = t[j]) /\ (i <= Len(r) => r[i] < t[i])
    BY <1>3 DEF P!Before
  <2>2. CASE i <= Len(s)
    <3>1. i \in 1 .. Len(s) /\ (\A j \in 1 .. i - 1 : r[j] = s[j]) /\ t[i] = s[i]
      BY <1>1, <1>2, <2>1, <2>2
    <3>2. QED
      BY <1>3, <2>1, <3>1 DEF P!Before
  <2>3. CASE i = Len(s) + 1
    BY <1>1, <1>2, <2>1, <2>3 DEF Extends
  <2>4. QED
    BY <1>1, <1>2, <2>2, <2>3
<1>4. ASSUME P!Before(r, s) PROVE P!Before(r, t)
  <2>1. PICK i \in 1 .. Len(s) :
          i <= Len(r) + 1 /\ (\A j \in 1 .. i - 1 : r[j] = s[j]) /\ (i <= Len(r) => r[i] < s[i])
    BY <1>4 DEF P!Before
  <2>2. i \in 1 .. Len(t) /\ (\A j \in 1 .. i - 1 : r[j] = t[j]) /\ t[i] = s[i]
    BY <1>1, <1>2, <2>1
  <2>3. QED
    BY <2>1, <2>2 DEF P!Before
<1>5. ASSUME Extends(r, s), Len(r) = Len(s) \/ r[Len(s) + 1] < n PROVE P!Before(r, t)
  <2>1. Len(s) + 1 \in 1 .. Len(t) /\ Len(s) + 1 <= Len(r) + 1
    BY <1>1, <1>2, <1>5 DEF Extends
  <2>2. \A j \in 1 .. (Len(s) + 1) - 1 : r[j] = t[j]
    BY <1>1, <1>2, <1>5 DEF Extends
  <2>3. Len(s) + 1 <= Len(r) => r[Len(s) + 1] < t[Len(s) + 1]
    BY <1>1, <1>2, <1>5
  <2>4. QED
    BY <2>1, <2>2, <2>3 DEF P!Before
<1>6. QED
  BY <1>3, <1>4, <1>5 DEF t

(* A file comes before what is in it.                                      *)
LEMMA BeforeFront ==
  ASSUME NEW r \in AllRoute, r # <<>>
  PROVE  P!Before(P!Front(r), r)
<1>1. P!Before(P!Front(r), Append(P!Front(r), P!Last(r)))
  BY FrontFacts, BeforeAppend DEF Extends
<1>2. QED
  BY <1>1, FrontFacts

(* And transitive.                                                         *)
LEMMA BeforeTransitive ==
  ASSUME NEW r \in AllRoute, NEW s \in AllRoute, NEW t \in AllRoute,
         P!Before(r, s), P!Before(s, t)
  PROVE  P!Before(r, t)
<1>1. /\ Len(r) \in Nat /\ Len(s) \in Nat /\ Len(t) \in Nat
      /\ \A i \in 1 .. Len(r) : r[i] \in Nat
      /\ \A i \in 1 .. Len(s) : s[i] \in Nat
      /\ \A i \in 1 .. Len(t) : t[i] \in Nat
  BY ElementOfSeq, LenProperties DEF AllRoute, Line
<1>2. PICK i \in 1 .. Len(s) :
        i <= Len(r) + 1 /\ (\A k \in 1 .. i - 1 : r[k] = s[k]) /\ (i <= Len(r) => r[i] < s[i])
  BY DEF P!Before
<1>3. PICK j \in 1 .. Len(t) :
        j <= Len(s) + 1 /\ (\A k \in 1 .. j - 1 : s[k] = t[k]) /\ (j <= Len(s) => s[j] < t[j])
  BY DEF P!Before
<1>4. CASE i < j
  <2>1. i \in 1 .. Len(t) /\ (\A k \in 1 .. i - 1 : r[k] = t[k]) /\ s[i] = t[i]
    BY <1>1, <1>2, <1>3, <1>4
  <2>2. QED
    BY <1>2, <2>1 DEF P!Before
<1>5. CASE j < i
  <2>1. j <= Len(r) + 1 /\ (\A k \in 1 .. j - 1 : r[k] = t[k])
    BY <1>1, <1>2, <1>3, <1>5
  <2>2. j <= Len(r) => r[j] < t[j]
    BY <1>1, <1>2, <1>3, <1>5
  <2>3. QED
    BY <1>3, <2>1, <2>2 DEF P!Before
<1>6. CASE i = j
  <2>1. j <= Len(r) + 1 /\ (\A k \in 1 .. j - 1 : r[k] = t[k])
    BY <1>1, <1>2, <1>3, <1>6
  <2>2. j <= Len(r) => r[j] < t[j]
    BY <1>1, <1>2, <1>3, <1>6
  <2>3. QED
    BY <1>3, <2>1, <2>2 DEF P!Before
<1>7. QED
  BY <1>1, <1>4, <1>5, <1>6

(***************************************************************************)
(* The place of the walk among the routes                                  *)
(***************************************************************************)
(* The lines of the directives that led to the m-th activation, or to the  *)
(* one about to begin.                                                     *)
RouteTo(m) == [i \in 1 .. m - 1 |-> stack[i].next - 1]

(* Which activation the walk is in, or about to begin.                     *)
Deep == IF pc = "call" THEN Len(stack) + 1 ELSE Len(stack)

PathAt(m) == IF m <= Len(stack) THEN stack[m].path ELSE call.path

(* The route of the file about to be opened, or of the entry about to be   *)
(* looked at.                                                              *)
Here == IF pc = "call" THEN RouteTo(Deep) ELSE Append(RouteTo(Deep), Top.next)

(* The walk goes on, over files that do not change.                        *)
Going == opener = "stable" /\ pc \in {"call", "walk"}

(* The outermost activation is that of the root.                           *)
Rooted ==
  /\ root \in Roots
  /\ pc \in {"start", "call"} /\ stack = <<>> => call.path = root
  /\ stack # <<>> => stack[1].path = root
  /\ opener = "nil" => pc \in {"start", "unwind", "done"}

(* What an activation iterates over is what the file holds.                *)
Open ==
  \A i \in 1 .. Len(stack) :
    disk[FileOf(stack[i].path)] = [kind |-> "text", entries |-> stack[i].entries]

Walking == IInv /\ Rooted /\ Going /\ Open

(* Each activation stands at the include directive that the next one, or   *)
(* the pending call, came from.                                            *)
LEMMA DirectiveAt ==
  Walking =>
    \A m \in 1 .. Deep - 1 :
      /\ m \in 1 .. Len(stack)
      /\ stack[m].next - 1 \in DOMAIN stack[m].entries
      /\ stack[m].next - 1 \in Line
      /\ stack[m].entries[stack[m].next - 1].kind = "include"
      /\ PathAt(m + 1) = Resolve(stack[m].path, stack[m].entries[stack[m].next - 1].target)
      /\ m < Len(stack) => stack[m + 1].constraint = stack[m].entries[stack[m].next - 1].constraint
<1> SUFFICES ASSUME Walking, NEW m \in 1 .. Deep - 1
             PROVE  /\ m \in 1 .. Len(stack)
                    /\ stack[m].next - 1 \in DOMAIN stack[m].entries
                    /\ stack[m].next - 1 \in Line
                    /\ stack[m].entries[stack[m].next - 1].kind = "include"
                    /\ PathAt(m + 1) = Resolve(stack[m].path, stack[m].entries[stack[m].next - 1].target)
                    /\ m < Len(stack) => stack[m + 1].constraint = stack[m].entries[stack[m].next - 1].constraint
  OBVIOUS
<1>1. Len(stack) \in Nat /\ m \in 1 .. Len(stack)
  <2>1. Len(stack) \in Nat
    BY LenProperties DEF Walking, IInv, TypeOK
  <2>2. QED
    BY <2>1 DEF Deep
<1>2. stack[m] \in Frame /\ stack[m].next <= Len(stack[m].entries) + 1
  BY <1>1, ElementOfSeq DEF Walking, IInv, TypeOK
<1>3. /\ stack[m].next > 1
      /\ Directive(m).kind = "include"
      /\ PathAt(m + 1) = Resolve(stack[m].path, Directive(m).target)
      /\ m < Len(stack) => stack[m + 1].constraint = Directive(m).constraint
  <2>1. CASE m < Len(stack)
    <3>1. m \in 1 .. Len(stack) - 1 /\ m + 1 <= Len(stack)
      BY <1>1, <2>1
    <3>2. QED
      BY <3>1 DEF Walking, IInv, ImmediateConstraint, PathAt
  <2>2. CASE m = Len(stack)
    <3>1. pc = "call" /\ stack # <<>> /\ ~(m + 1 <= Len(stack)) /\ ~(m < Len(stack))
      BY <1>1, <2>2 DEF Deep
    <3>2. QED
      BY <2>2, <3>1 DEF Walking, IInv, Bookkeeping, Top, PathAt
  <2>3. QED
    BY <1>1, <2>1, <2>2
<1>4. stack[m].entries \in Seq(Entry)
  BY <1>2, ConstantsAssumption DEF Frame
<1>5. stack[m].next - 1 \in Line /\ stack[m].next - 1 \in DOMAIN stack[m].entries
  <2>1. stack[m].next \in Nat /\ Len(stack[m].entries) \in Nat
    BY <1>2, <1>4, LenProperties DEF Frame
  <2>2. stack[m].next - 1 \in Line /\ stack[m].next - 1 \in 1 .. Len(stack[m].entries)
    BY SMTT(60), <1>2, <1>3, <2>1 DEF Line
  <2>3. QED
    BY <1>4, <2>2, LenProperties
<1>6. QED
  BY <1>1, <1>3, <1>5 DEF Directive

(* The lines of those directives are a route.                              *)
LEMMA RouteToFacts ==
  Walking =>
    \A m \in 1 .. Deep :
      /\ RouteTo(m) \in AllRoute
      /\ Len(RouteTo(m)) = m - 1
      /\ m < Deep => RouteTo(m + 1) = Append(RouteTo(m), stack[m].next - 1)
<1> SUFFICES ASSUME Walking, NEW m \in 1 .. Deep
             PROVE  /\ RouteTo(m) \in AllRoute
                    /\ Len(RouteTo(m)) = m - 1
                    /\ m < Deep => RouteTo(m + 1) = Append(RouteTo(m), stack[m].next - 1)
  OBVIOUS
<1>1. Len(stack) \in Nat /\ Deep \in Nat /\ m - 1 \in Nat
  BY LenProperties DEF Walking, IInv, TypeOK, Deep
<1>2. RouteTo(m) \in AllRoute /\ Len(RouteTo(m)) = m - 1
  <2>1. \A i \in 1 .. m - 1 : stack[i].next - 1 \in Line
    BY <1>1, DirectiveAt
  <2>2. RouteTo(m) \in [1 .. m - 1 -> Line]
    BY <2>1 DEF RouteTo
  <2>3. QED
    BY <1>1, <2>2 DEF AllRoute
<1>3. ASSUME m < Deep PROVE RouteTo(m + 1) = Append(RouteTo(m), stack[m].next - 1)
  <2>1. \A i \in 1 .. m : stack[i].next - 1 \in Line
    BY <1>1, <1>3, DirectiveAt
  <2>2. /\ Append(RouteTo(m), stack[m].next - 1) \in Seq(Line)
        /\ Len(Append(RouteTo(m), stack[m].next - 1)) = m
        /\ Append(RouteTo(m), stack[m].next - 1)[m] = stack[m].next - 1
        /\ \A i \in 1 .. m - 1 : Append(RouteTo(m), stack[m].next - 1)[i] = RouteTo(m)[i]
    BY <1>1, <1>2, <2>1, AppendProperties DEF AllRoute
  <2>3. RouteTo(m + 1) \in Seq(Line) /\ Len(RouteTo(m + 1)) = m
    <3>1. RouteTo(m + 1) \in [1 .. m -> Line]
      BY <1>1, <2>1 DEF RouteTo
    <3>2. QED
      BY <1>1, <3>1
  <2>4. \A i \in 1 .. m : RouteTo(m + 1)[i] = Append(RouteTo(m), stack[m].next - 1)[i]
    BY <1>1, <2>2 DEF RouteTo
  <2> DEFINE a == Append(RouteTo(m), stack[m].next - 1)
             b == RouteTo(m + 1)
  <2> HIDE DEF a, b
  <2>5. a = b
    BY <2>2, <2>3, <2>4, SeqEqual DEF a, b
  <2>6. QED
    BY <2>5 DEF a, b
<1>4. QED
  BY <1>2, <1>3

(* While the walk goes on, routes lead to paths.                           *)
LEMMA WalkIsReadable == Walking => Readable
BY DEF Walking, IInv, Rooted, Readable

(* The activations are those of the files along the route.                 *)
LEMMA RouteReaches ==
  Walking => \A m \in 1 .. Deep : P!Reached(RouteTo(m)) = PathAt(m)
<1> SUFFICES ASSUME Walking PROVE \A m \in 1 .. Deep : P!Reached(RouteTo(m)) = PathAt(m)
  OBVIOUS
<1>1. Len(stack) \in Nat /\ Deep \in Nat
  BY LenProperties DEF Walking, IInv, TypeOK, Deep
<1> DEFINE T == {i \in Nat : i + 1 \in 1 .. Deep => P!Reached(RouteTo(i + 1)) = PathAt(i + 1)}
<1>2. 0 \in T
  <2> SUFFICES ASSUME 1 \in 1 .. Deep PROVE P!Reached(RouteTo(1)) = PathAt(1)
    OBVIOUS
  <2>1. RouteTo(1) = <<>>
    <3>1. RouteTo(1) \in AllRoute /\ Len(RouteTo(1)) = 0
      BY RouteToFacts
    <3>2. QED
      BY <3>1, EmptySeq DEF AllRoute
  <2>2. P!Reached(RouteTo(1)) = root
    BY <2>1, ReachedStart, WalkIsReadable
  <2>3. PathAt(1) = root
    BY <1>1, EmptySeq DEF Walking, Rooted, IInv, TypeOK, Deep, PathAt, Going
  <2>4. QED
    BY <2>2, <2>3
<1>3. ASSUME NEW i \in T PROVE i + 1 \in T
  <2> DEFINE m == i + 1
             k == stack[m].next - 1
  <2> SUFFICES ASSUME m + 1 \in 1 .. Deep PROVE P!Reached(RouteTo(m + 1)) = PathAt(m + 1)
    OBVIOUS
  <2>1. m \in 1 .. Deep /\ m < Deep /\ m \in 1 .. Deep - 1
    BY <1>1
  <2>2. P!Reached(RouteTo(m)) = PathAt(m)
    BY <2>1
  <2>3. RouteTo(m) \in AllRoute /\ RouteTo(m + 1) = Append(RouteTo(m), k)
    BY <2>1, RouteToFacts
  <2>4. /\ m \in 1 .. Len(stack)
        /\ k \in DOMAIN stack[m].entries
        /\ k \in Line
        /\ stack[m].entries[k].kind = "include"
        /\ PathAt(m + 1) = Resolve(stack[m].path, stack[m].entries[k].target)
    BY <2>1, DirectiveAt
  <2> HIDE DEF k
  <2>5. P!Reached(RouteTo(m + 1)) = P!Follow(PathAt(m), k)
    BY <2>2, <2>3, <2>4, ReachedNext, WalkIsReadable
  <2>6. PathAt(m) = stack[m].path /\ FileOf(stack[m].path) \in File /\ stack[m].path # NONE
    <3>0. stack[m] \in Frame
      BY <2>4, ElementOfSeq DEF Walking, IInv, TypeOK
    <3>1. stack[m].path \in Path
      BY <3>0 DEF Frame
    <3>2. QED
      BY <2>4, <3>1, ConstantsAssumption DEF PathAt, Walking, IInv, Bookkeeping
  <2>7. P!AnswerOf(stack[m].path) = [kind |-> "text", entries |-> stack[m].entries]
    BY <2>4, <2>6 DEF P!AnswerOf, Walking, Open
  <2>8. QED
    BY <2>4, <2>5, <2>6, <2>7 DEF P!Follow, P!HasInclude
<1>4. T = Nat
  <2> HIDE DEF T
  <2>1. T \in SUBSET Nat
    BY DEF T
  <2>2. QED
    BY <1>2, <1>3, <2>1, Induction
<1>5. \A m \in 1 .. Deep : m - 1 \in Nat /\ m - 1 + 1 = m
  BY <1>1
<1>6. QED
  BY <1>4, <1>5

(***************************************************************************)
(* What the routes say where the walk stands                               *)
(***************************************************************************)
(* Here is a route, whichever way the walk stands.                         *)
LEMMA HereFacts ==
  Walking =>
    /\ Deep \in Nat /\ Len(stack) \in Nat
    /\ Deep \in 1 .. Deep
    /\ Here \in AllRoute
    /\ pc = "call" => /\ Deep = Len(stack) + 1
                      /\ PathAt(Deep) = call.path
                      /\ call.path \in Path
                      /\ Here = RouteTo(Deep)
    /\ pc = "walk" => /\ Deep = Len(stack)
                      /\ stack[Deep] = Top
                      /\ Top \in Frame
                      /\ Top.next \in Line
                      /\ Top.entries \in Seq(Entry)
                      /\ PathAt(Deep) = Top.path
                      /\ Here = Append(RouteTo(Deep), Top.next)
<1> SUFFICES ASSUME Walking
             PROVE  /\ Deep \in Nat /\ Len(stack) \in Nat
                    /\ Deep \in 1 .. Deep
                    /\ Here \in AllRoute
                    /\ pc = "call" => /\ Deep = Len(stack) + 1
                                      /\ PathAt(Deep) = call.path
                                      /\ call.path \in Path
                                      /\ Here = RouteTo(Deep)
                    /\ pc = "walk" => /\ Deep = Len(stack)
                                      /\ stack[Deep] = Top
                                      /\ Top \in Frame
                                      /\ Top.next \in Line
                                      /\ Top.entries \in Seq(Entry)
                                      /\ PathAt(Deep) = Top.path
                                      /\ Here = Append(RouteTo(Deep), Top.next)
  OBVIOUS
<1>1. Len(stack) \in Nat /\ (pc = "walk" => stack # <<>>) /\ stack \in Seq(Frame)
  BY LenProperties DEF Walking, IInv, TypeOK, Bookkeeping
<1>2. pc = "walk" => Len(stack) \in 1 .. Len(stack)
  BY <1>1, EmptySeq
<1>3. Deep \in Nat /\ Deep \in 1 .. Deep
  BY <1>1, <1>2 DEF Walking, Going, Deep
<1>4. RouteTo(Deep) \in AllRoute
  BY <1>3, RouteToFacts
<1>5. CASE pc = "call"
  <2>1. call \in Call
    BY <1>5 DEF Walking, IInv, Bookkeeping
  <2>2. call.path \in Path
    BY <2>1 DEF Call
  <2>3. PathAt(Deep) = call.path
    BY <1>1, <1>5 DEF Deep, PathAt
  <2>4. QED
    BY <1>1, <1>3, <1>4, <1>5, <2>2, <2>3 DEF Deep, Here
<1>6. CASE pc = "walk"
  <2>1. Top \in Frame
    BY <1>1, <1>2, <1>6, ElementOfSeq DEF Top
  <2>2. Top.next \in Line /\ Top.entries \in Seq(Entry)
    BY <2>1, ConstantsAssumption DEF Frame, Line
  <2>3. Here \in AllRoute
    BY <1>4, <1>6, <2>2, AppendProperties DEF Here, AllRoute
  <2>4. QED
    BY <1>1, <1>3, <1>6, <2>1, <2>2, <2>3 DEF Deep, Top, PathAt, Here
<1>7. QED
  BY <1>5, <1>6 DEF Walking, Going

(* The routes around a file on the stack are those of the files below it.  *)
LEMMA PrefixesOfRouteTo ==
  Walking =>
    \A m \in 1 .. Deep : P!ProperPrefixes(RouteTo(m)) = {RouteTo(k) : k \in 1 .. m - 1}
<1> SUFFICES ASSUME Walking, NEW m \in 1 .. Deep
             PROVE  P!ProperPrefixes(RouteTo(m)) = {RouteTo(k) : k \in 1 .. m - 1}
  OBVIOUS
<1>1. Deep \in Nat /\ m \in Nat /\ m >= 1
  BY HereFacts
<1>2. \A k \in 1 .. Deep : RouteTo(k) \in AllRoute /\ Len(RouteTo(k)) = k - 1
  BY RouteToFacts
<1>3. ASSUME NEW n \in 0 .. m - 2 PROVE SubSeq(RouteTo(m), 1, n) = RouteTo(n + 1)
  <2>1. n \in Nat /\ n \in Int /\ 1 \in Int /\ n + 1 \in 1 .. Deep
    BY <1>1
  <2>2. \A i \in 1 .. n : RouteTo(m)[i] \in Line
    <3>1. \A i \in 1 .. n : i \in 1 .. Len(RouteTo(m))
      BY <1>1, <1>2
    <3>2. QED
      BY <1>2, <3>1, ElementOfSeq DEF AllRoute
  <2> DEFINE s == RouteTo(m)
             t == SubSeq(s, 1, n)
             u == RouteTo(n + 1)
  <2>3. /\ t \in Seq(Line)
        /\ Len(t) = IF 1 <= n THEN n - 1 + 1 ELSE 0
        /\ \A i \in 1 .. n - 1 + 1 : t[i] = s[1 + i - 1]
    <3> HIDE DEF s
    <3>1. \A i \in 1 .. n : s[i] \in Line
      BY <2>2 DEF s
    <3>2. QED
      BY <2>1, <3>1, SubSeqProperties
  <2>4. u \in Seq(Line) /\ Len(u) = n
    BY <1>2, <2>1 DEF AllRoute
  <2>5. \A i \in 1 .. n : s[i] = u[i]
    BY <1>1 DEF RouteTo
  <2> HIDE DEF s, t, u
  <2>6. Len(t) = n /\ \A i \in 1 .. n : t[i] = u[i]
    BY <2>1, <2>3, <2>5
  <2>7. t = u
    BY <2>3, <2>4, <2>6, SeqEqual
  <2>8. QED
    BY <2>7 DEF s, t, u
<1>4. Len(RouteTo(m)) - 1 = m - 2
  BY <1>1, <1>2
<1>5. \A n \in 0 .. m - 2 : n + 1 \in 1 .. m - 1
  BY <1>1
<1>6. \A k \in 1 .. m - 1 : k - 1 \in 0 .. m - 2 /\ k - 1 + 1 = k
  BY <1>1
<1>7. P!ProperPrefixes(RouteTo(m)) = {SubSeq(RouteTo(m), 1, n) : n \in 0 .. m - 2}
  BY <1>4 DEF P!ProperPrefixes
<1>8. QED
  BY SMTT(60), <1>3, <1>5, <1>6, <1>7

(* visited is the paths of the routes that lead to the one to be walked.   *)
LEMMA VisitedIsReached ==
  Walking =>
    \A m \in 1 .. Deep :
      {P!Reached(q) : q \in P!ProperPrefixes(RouteTo(m))} = {stack[k].path : k \in 1 .. m - 1}
<1> SUFFICES ASSUME Walking, NEW m \in 1 .. Deep
             PROVE  {P!Reached(q) : q \in P!ProperPrefixes(RouteTo(m))} = {stack[k].path : k \in 1 .. m - 1}
  OBVIOUS
<1>1. P!ProperPrefixes(RouteTo(m)) = {RouteTo(k) : k \in 1 .. m - 1}
  BY PrefixesOfRouteTo
<1>2. \A k \in 1 .. m - 1 : k \in 1 .. Deep /\ k <= Len(stack)
  BY HereFacts DEF Deep
<1>3. \A k \in 1 .. m - 1 : P!Reached(RouteTo(k)) = stack[k].path
  BY <1>2, RouteReaches DEF PathAt
<1>4. QED
  BY <1>1, <1>3

Clear == \A r \in AllRoute : P!Before(r, Here) => P!Trouble(r) = "none"

(* The first trouble is the promised one.                                  *)
LEMMA FirstTrouble ==
  Routes \subseteq AllRoute /\ opener # "nil" =>
    \A h \in Routes :
      /\ P!Trouble(h) # "none"
      /\ \A r \in AllRoute : P!Before(r, h) => P!Trouble(r) = "none"
      => P!Promised = [kind |-> P!Trouble(h), path |-> P!Reached(h), out |-> <<>>]
<1> SUFFICES ASSUME Routes \subseteq AllRoute, opener # "nil", NEW h \in Routes,
                    P!Trouble(h) # "none",
                    \A r \in AllRoute : P!Before(r, h) => P!Trouble(r) = "none"
             PROVE  P!Promised = [kind |-> P!Trouble(h), path |-> P!Reached(h), out |-> <<>>]
  OBVIOUS
<1> DEFINE troubles == {r \in Routes : P!Trouble(r) # "none"}
           first == CHOOSE r \in troubles : \A s \in troubles \ {r} : P!Before(r, s)
<1>1. h \in troubles
  OBVIOUS
<1>2. \A s \in troubles \ {h} : P!Before(h, s)
  <2>1. SUFFICES ASSUME NEW s \in troubles \ {h} PROVE P!Before(h, s)
    OBVIOUS
  <2>2. s \in AllRoute /\ h \in AllRoute /\ ~P!Before(s, h)
    OBVIOUS
  <2>3. QED
    BY <2>2, BeforeFacts
<1>3. first \in troubles /\ \A s \in troubles \ {first} : P!Before(first, s)
  <2> HIDE DEF troubles
  <2>1. QED
    BY <1>1, <1>2
<1>4. first = h
  <2> HIDE DEF first
  <2>1. first \in AllRoute /\ (first # h => P!Before(first, h))
    BY <1>1, <1>3
  <2>2. QED
    BY <1>3, <2>1
<1>5. P!Promised = [kind |-> P!Trouble(first), path |-> P!Reached(first), out |-> <<>>]
  <2> HIDE DEF first
  <2>1. troubles # {}
    BY <1>1
  <2>2. QED
    BY <2>1 DEF P!Promised, first
<1>6. QED
  BY <1>4, <1>5

(* A route free of trouble leads to a file that was read and parsed.       *)
LEMMA SettledWhereClear ==
  \A r : P!Trouble(r) = "none" =>
           P!Reached(r) = NONE \/ P!AnswerOf(P!Reached(r)).kind \notin {"fail", "malformed", "unread"}
BY DEF P!Trouble

(* A route comes after those it goes through.                              *)
LEMMA PrefixBefore ==
  ASSUME NEW r \in AllRoute, NEW q \in P!ProperPrefixes(r)
  PROVE  q \in AllRoute /\ P!Before(q, r)
<1>1. Len(r) \in Nat /\ \A i \in 1 .. Len(r) : r[i] \in Line
  BY ElementOfSeq, LenProperties DEF AllRoute
<1>2. PICK n \in 0 .. Len(r) - 1 : q = SubSeq(r, 1, n)
  BY DEF P!ProperPrefixes
<1>3. n \in Nat /\ n \in Int /\ 1 \in Int /\ n < Len(r) /\ \A i \in 1 .. n : r[i] \in Line
  BY <1>1
<1>4. /\ q \in Seq(Line)
      /\ Len(q) = IF 1 <= n THEN n - 1 + 1 ELSE 0
      /\ \A i \in 1 .. n - 1 + 1 : q[i] = r[1 + i - 1]
  BY <1>2, <1>3, SubSeqProperties
<1>5. Len(q) = n /\ \A i \in 1 .. n : q[i] = r[i]
  BY <1>3, <1>4
<1>6. n + 1 \in 1 .. Len(r) /\ n + 1 <= Len(q) + 1 /\ ~(n + 1 <= Len(q)) /\ (n + 1) - 1 = n
  BY <1>1, <1>3, <1>5
<1>7. QED
  BY <1>4, <1>5, <1>6 DEF AllRoute, P!Before

(* The open callback is asked for the activation about to begin.           *)
Asked(a) == pc = "call" /\ a \in OpenAnswers(call.path) /\ Remember(call.path, a)

Asking == Walking /\ Clear /\ Readable' /\ UNCHANGED root /\ \E a : Asked(a)

\* What is known of p is known for good.
Settled(p) == p # NONE => P!AnswerOf(p).kind # "unread"

(* open answers the same for a path it has answered for.                   *)
LEMMA SettledStays ==
  Asking => \A p : p # NONE /\ Settled(p) => P!AnswerOf(p)' = P!AnswerOf(p)
<1> SUFFICES ASSUME Asking, NEW p, p # NONE, Settled(p) PROVE P!AnswerOf(p)' = P!AnswerOf(p)
  OBVIOUS
<1>1. PICK a : Asked(a)
  BY DEF Asking
<1>2. CASE FileOf(p) \notin File
  BY <1>2 DEF P!AnswerOf
<1>3. CASE FileOf(p) \in File
  <2>1. disk[FileOf(p)].kind # "unread"
    BY <1>3 DEF Settled, P!AnswerOf
  <2>2. disk[FileOf(p)] # Unread
    BY <2>1 DEF Unread
  <2>3. disk \in [File -> Answer \cup {Unread}]
    BY DEF Asking, Walking, IInv, TypeOK
  <2>4. opener = "stable"
    BY DEF Asking, Walking, Going
  <2>5. disk'[FileOf(p)] = disk[FileOf(p)]
    <3>1. CASE FileOf(call.path) \in File /\ FileOf(call.path) = FileOf(p)
      BY <1>1, <2>2, <2>3, <2>4, <3>1 DEF Asked, OpenAnswers, Remember
    <3>2. CASE ~(FileOf(call.path) \in File /\ FileOf(call.path) = FileOf(p))
      BY <1>1, <1>3, <2>3, <3>2 DEF Asked, Remember
    <3>3. QED
      BY <3>1, <3>2
  <2>6. QED
    BY <1>3, <2>5 DEF P!AnswerOf
<1>4. QED
  BY <1>2, <1>3

(* All routes passed are settled.                                          *)
LEMMA ClearSettled ==
  Clear => \A r \in AllRoute : P!Before(r, Here) => Settled(P!Reached(r))
BY SettledWhereClear DEF Clear, Settled

(* A route passed, or arrived at, leads through routes passed.             *)
LEMMA FrontPassed ==
  Walking => \A r \in AllRoute :
    r # <<>> /\ (P!Before(r, Here) \/ r = Here) => P!Front(r) \in AllRoute /\ P!Before(P!Front(r), Here)
<1> SUFFICES ASSUME Walking, NEW r \in AllRoute, r # <<>>, P!Before(r, Here) \/ r = Here
             PROVE  P!Front(r) \in AllRoute /\ P!Before(P!Front(r), Here)
  OBVIOUS
<1>1. P!Front(r) \in AllRoute /\ P!Before(P!Front(r), r) /\ Here \in AllRoute
  BY FrontFacts, BeforeFront, HereFacts
<1>2. QED
  BY <1>1, BeforeTransitive

(* Reading a file changes nothing about where those routes lead,           *)
LEMMA ReachedStays ==
  Asking => \A r \in AllRoute : P!Before(r, Here) \/ r = Here => P!Reached(r)' = P!Reached(r)
<1> SUFFICES ASSUME Asking
             PROVE  \A r \in AllRoute : P!Before(r, Here) \/ r = Here => P!Reached(r)' = P!Reached(r)
  OBVIOUS
<1>0. Walking /\ Clear /\ Readable /\ Readable' /\ root' = root
  BY WalkIsReadable DEF Asking
<1>1. P!Reached(<<>>) = root /\ P!Reached(<<>>)' = root'
  <2>1. P!Reached(<<>>) = root
    BY <1>0, ReachedStart
  <2>2. Readable' => (<<>> \in AllRoute /\ P!Reached(<<>>) = root)'
    BY ReachedStart, PTL
  <2>3. QED
    BY <1>0, <2>1, <2>2
<1>2. Readable' =>
        (\A r \in AllRoute, l \in Line :
           /\ Append(r, l) \in AllRoute
           /\ P!Reached(r) \in Path \cup {NONE}
           /\ P!Reached(Append(r, l)) = P!Follow(P!Reached(r), l))'
  BY ReachedNext, PTL
<1> DEFINE T == {n \in Nat : \A r \in AllRoute :
                   Len(r) = n /\ (P!Before(r, Here) \/ r = Here) => P!Reached(r)' = P!Reached(r)}
<1>3. 0 \in T
  <2> SUFFICES ASSUME NEW r \in AllRoute, Len(r) = 0 PROVE P!Reached(r)' = P!Reached(r)
    OBVIOUS
  <2>1. r = <<>>
    BY EmptySeq DEF AllRoute
  <2>2. QED
    BY <1>0, <1>1, <2>1
<1>4. ASSUME NEW n \in T PROVE n + 1 \in T
  <2> SUFFICES ASSUME NEW r \in AllRoute, Len(r) = n + 1, P!Before(r, Here) \/ r = Here
               PROVE  P!Reached(r)' = P!Reached(r)
    OBVIOUS
  <2>1. r # <<>>
    OBVIOUS
  <2> DEFINE f == P!Front(r)
             l == P!Last(r)
  <2>2. f \in AllRoute /\ l \in Line /\ Len(f) = n /\ r = Append(f, l)
    BY <2>1, FrontFacts
  <2>3. P!Before(f, Here)
    BY <1>0, <2>1, FrontPassed
  <2> HIDE DEF f, l
  <2>4. P!Reached(f)' = P!Reached(f)
    BY <2>2, <2>3
  <2>5. P!Reached(f) # NONE => P!AnswerOf(P!Reached(f))' = P!AnswerOf(P!Reached(f))
    <3>1. \A p : p = P!Reached(f) /\ p # NONE => P!AnswerOf(p)' = P!AnswerOf(p)
      BY <1>0, <2>2, <2>3, ClearSettled, SettledStays
    <3>2. QED
      BY <2>4, <3>1 DEF P!AnswerOf
  <2>6. P!Follow(P!Reached(f), l)' = P!Follow(P!Reached(f), l)
    BY <2>4, <2>5 DEF P!Follow, P!HasInclude
  <2>7. P!Reached(r) = P!Follow(P!Reached(f), l)
    BY <1>0, <2>2, ReachedNext
  <2>8. P!Reached(r)' = P!Follow(P!Reached(f), l)'
    BY <1>0, <1>2, <2>2
  <2>9. QED
    BY <2>6, <2>7, <2>8
<1>5. T = Nat
  <2> HIDE DEF T
  <2>1. T \in SUBSET Nat
    BY DEF T
  <2>2. QED
    BY <1>3, <1>4, <2>1, Induction
<1>6. \A r \in AllRoute : Len(r) \in T
  BY <1>5, LenProperties DEF AllRoute
<1>7. QED
  BY <1>6

(* nor about the answers they met.                                         *)
LEMMA AnswerStays ==
  Asking => \A r \in AllRoute :
    P!Before(r, Here) /\ P!Reached(r) # NONE
      => P!AnswerOf(P!Reached(r))' = P!AnswerOf(P!Reached(r))
<1> SUFFICES ASSUME Asking, NEW r \in AllRoute, P!Before(r, Here), P!Reached(r) # NONE
             PROVE  P!AnswerOf(P!Reached(r))' = P!AnswerOf(P!Reached(r))
  OBVIOUS
<1>1. P!Reached(r)' = P!Reached(r)
  BY ReachedStays
<1>2. \A p : p = P!Reached(r) => P!AnswerOf(p)' = P!AnswerOf(p)
  BY ClearSettled, SettledStays DEF Asking
<1>3. QED
  BY <1>1, <1>2 DEF P!AnswerOf

(* What was found on the routes passed stays found.                        *)
LEMMA PassedStays ==
  Asking => \A r \in AllRoute :
    P!Before(r, Here) =>
      /\ P!Trouble(r)' = "none"
      /\ P!IsLeaf(r)' <=> P!IsLeaf(r)
      /\ P!IsLeaf(r) => P!EntryAt(r)' = P!EntryAt(r)
<1> SUFFICES ASSUME Asking, NEW r \in AllRoute, P!Before(r, Here)
             PROVE  /\ P!Trouble(r)' = "none"
                    /\ P!IsLeaf(r)' <=> P!IsLeaf(r)
                    /\ P!IsLeaf(r) => P!EntryAt(r)' = P!EntryAt(r)
  OBVIOUS
<1>0. Walking /\ Clear /\ Readable
  BY WalkIsReadable DEF Asking
<1>1. P!Reached(r)' = P!Reached(r) /\ P!Trouble(r) = "none"
  BY <1>0, ReachedStays DEF Clear
<1>2. \A q \in P!ProperPrefixes(r) : P!Reached(q)' = P!Reached(q)
  <2>1. \A q \in P!ProperPrefixes(r) : q \in AllRoute /\ P!Before(q, Here)
    BY <1>0, PrefixBefore, HereFacts, BeforeTransitive
  <2>2. QED
    BY <2>1, ReachedStays
<1>3. P!Trouble(r)' = "none"
  <2>1. P!Reached(r) # NONE => P!AnswerOf(P!Reached(r))' = P!AnswerOf(P!Reached(r))
    BY AnswerStays
  <2>2. QED
    BY <1>1, <1>2, <2>1 DEF P!Trouble
<1>4. CASE r = <<>>
  BY <1>3, <1>4 DEF P!IsLeaf
<1>5. CASE r # <<>>
  <2> DEFINE f == P!Front(r)
  <2>1. f \in AllRoute /\ P!Before(f, Here)
    BY <1>0, <1>5, FrontPassed
  <2> HIDE DEF f
  <2>2. P!Reached(f)' = P!Reached(f) /\ (P!Reached(f) # NONE => P!AnswerOf(P!Reached(f))' = P!AnswerOf(P!Reached(f)))
    BY <2>1, ReachedStays, AnswerStays
  <2>3. P!IsLeaf(r)' <=> P!IsLeaf(r)
    BY <2>2 DEF P!IsLeaf, f
  <2>4. ASSUME P!IsLeaf(r) PROVE P!EntryAt(r)' = P!EntryAt(r)
    <3>1. P!Reached(f) # NONE
      BY <2>4 DEF P!IsLeaf, f
    <3>2. P!FlagAt(f)' = P!FlagAt(f)
      <4>1. CASE f = <<>>
        BY <4>1 DEF P!FlagAt
      <4>2. CASE f # <<>>
        <5> DEFINE g == P!Front(f)
        <5>1. g \in AllRoute /\ P!Before(g, Here) /\ f = Append(g, P!Last(f)) /\ P!Last(f) \in Line
          BY <1>0, <2>1, <4>2, FrontPassed, FrontFacts
        <5> HIDE DEF g
        <5>2. P!Reached(g) # NONE
          <6>1. P!Reached(f) = P!Follow(P!Reached(g), P!Last(f))
            BY <1>0, <5>1, ReachedNext
          <6>2. QED
            BY <3>1, <6>1 DEF P!Follow
        <5>3. P!AnswerOf(P!Reached(g))' = P!AnswerOf(P!Reached(g))
          BY <5>1, <5>2, AnswerStays
        <5>4. QED
          BY <5>3 DEF P!FlagAt, g
      <4>3. QED
        BY <4>1, <4>2
    <3>3. QED
      BY <2>2, <3>1, <3>2 DEF P!EntryAt, f
  <2>5. QED
    BY <1>3, <2>3, <2>4
<1>6. QED
  BY <1>4, <1>5

(* And what the callback answers decides of the route that led to it.      *)
LEMMA AnswerDecides ==
  Asking =>
    \A a, h : Asked(a) /\ h = Here =>
      /\ P!Reached(h) = call.path
      /\ P!Reached(h)' = call.path
      /\ call.path \notin visited =>
           P!Trouble(h)' = CASE a.kind = "fail"      -> "open"
                             [] a.kind = "malformed" -> "parse"
                             [] a.kind = "text"      -> "none"
<1> SUFFICES ASSUME Asking, NEW a, NEW h, Asked(a), h = Here
             PROVE  /\ P!Reached(h) = call.path
                    /\ P!Reached(h)' = call.path
                    /\ call.path \notin visited =>
                         P!Trouble(h)' = CASE a.kind = "fail"      -> "open"
                                           [] a.kind = "malformed" -> "parse"
                                           [] a.kind = "text"      -> "none"
  OBVIOUS
<1>1. Walking /\ pc = "call" /\ Deep = Len(stack) + 1 /\ h = RouteTo(Deep) /\ h \in AllRoute /\ Deep \in 1 .. Deep
      /\ call.path \in Path /\ Len(stack) \in Nat /\ PathAt(Deep) = call.path
  BY HereFacts DEF Asking, Asked
<1>2. P!Reached(h) = call.path
  BY <1>1, RouteReaches
<1>3. P!Reached(h)' = call.path
  BY <1>1, <1>2, ReachedStays
<1>4. {P!Reached(q) : q \in P!ProperPrefixes(h)} = visited
  <2>1. {P!Reached(q) : q \in P!ProperPrefixes(h)} = {stack[k].path : k \in 1 .. Deep - 1}
    BY <1>1, VisitedIsReached
  <2>2. Deep - 1 = Len(stack)
    BY <1>1
  <2>3. QED
    BY <2>1, <2>2 DEF Asking, Walking, IInv, VisitedIsStack
<1>5. \A q \in P!ProperPrefixes(h) : P!Reached(q)' = P!Reached(q)
  <2>1. \A q \in P!ProperPrefixes(h) : q \in AllRoute /\ P!Before(q, Here)
    BY <1>1, PrefixBefore
  <2>2. QED
    BY <2>1, ReachedStays
<1>6. call.path # NONE
  BY <1>1, ConstantsAssumption
<1>7. a.kind \in {"fail", "malformed", "text"} /\ \A p : p = call.path => P!AnswerOf(p)' = a
  <2>1. CASE FileOf(call.path) \notin File
    <3>1. a = [kind |-> "fail", entries |-> <<>>]
      BY <2>1 DEF Asked, OpenAnswers
    <3>2. QED
      BY <2>1, <3>1 DEF P!AnswerOf
  <2>2. CASE FileOf(call.path) \in File
    <3>1. disk \in [File -> Answer \cup {Unread}]
      BY <1>1 DEF Walking, IInv, TypeOK
    <3>2. a \in Answer
      BY <2>2, <3>1 DEF Asked, OpenAnswers
    <3>3. disk'[FileOf(call.path)] = a
      BY <2>2, <3>1 DEF Asked, Remember
    <3>4. \A p : p = call.path => P!AnswerOf(p)' = a
      BY <2>2, <3>3 DEF P!AnswerOf
    <3>5. QED
      BY <3>2, <3>4 DEF Answer
  <2>3. QED
    BY <2>1, <2>2
<1>8. P!AnswerOf(P!Reached(h))' = a
  <2>1. \A p : p = P!Reached(h)' => P!AnswerOf(p)' = a
    BY <1>3, <1>7
  <2>2. QED
    BY <2>1 DEF P!AnswerOf
<1>9. ASSUME call.path \notin visited
      PROVE  P!Trouble(h)' = CASE a.kind = "fail"      -> "open"
                               [] a.kind = "malformed" -> "parse"
                               [] a.kind = "text"      -> "none"
  <2>1. P!Reached(h)' # NONE
    BY <1>3, <1>6
  <2>2. ~\E q \in P!ProperPrefixes(h) : P!Reached(q)' = P!Reached(h)'
    BY <1>3, <1>4, <1>5, <1>9
  <2>3. QED
    BY <1>7, <1>8, <2>1, <2>2 DEF P!Trouble
<1>10. QED
  BY <1>2, <1>3, <1>9

(***************************************************************************)
(* How the steps of the walk move the stack                                *)
(***************************************************************************)
(* Enter pushes an activation at its first line.                           *)
LEMMA EnterShape ==
  IInv /\ Enter =>
    /\ pc = "call" /\ pc' = "walk" /\ call \in Call /\ call.path \notin visited
    /\ stack \in Seq(Frame) /\ Len(stack) \in Nat
    /\ Len(stack') = Len(stack) + 1
    /\ \A i \in 1 .. Len(stack) : stack'[i] = stack[i]
    /\ \E a : /\ Asked(a) /\ a.kind = "text"
              /\ FileOf(call.path) \in File => disk'[FileOf(call.path)] = a /\ a \in Answer
              /\ stack'[Len(stack) + 1] =
                   [path |-> call.path, constraint |-> call.constraint,
                    entries |-> a.entries, next |-> 1, out |-> <<>>]
<1> SUFFICES ASSUME IInv, Enter
             PROVE  /\ pc = "call" /\ pc' = "walk" /\ call \in Call /\ call.path \notin visited
                    /\ stack \in Seq(Frame) /\ Len(stack) \in Nat
                    /\ Len(stack') = Len(stack) + 1
                    /\ \A i \in 1 .. Len(stack) : stack'[i] = stack[i]
                    /\ \E a : /\ Asked(a) /\ a.kind = "text"
                              /\ FileOf(call.path) \in File => disk'[FileOf(call.path)] = a /\ a \in Answer
                              /\ stack'[Len(stack) + 1] =
                                   [path |-> call.path, constraint |-> call.constraint,
                                    entries |-> a.entries, next |-> 1, out |-> <<>>]
  OBVIOUS
<1>1. PICK a \in OpenAnswers(call.path) :
        /\ a.kind = "text"
        /\ Remember(call.path, a)
        /\ stack' = Append(stack, [path |-> call.path, constraint |-> call.constraint,
                                   entries |-> a.entries, next |-> FirstLine, out |-> <<>>])
  BY DEF Enter
<1> DEFINE f == [path |-> call.path, constraint |-> call.constraint,
                 entries |-> a.entries, next |-> FirstLine, out |-> <<>>]
<1>2. /\ call \in Call /\ call.path \notin visited /\ pc = "call" /\ pc' = "walk"
      /\ stack \in Seq(Frame) /\ Len(stack) \in Nat
  BY LenProperties DEF IInv, TypeOK, Bookkeeping, Enter
<1>3. /\ a \in Answer /\ FileOf(call.path) \in File /\ a.entries \in Text
  BY <1>1, RememberType DEF IInv
<1>4. f \in Frame
  BY <1>2, <1>3, EmptySeq DEF Call, Frame, FirstLine
<1> HIDE DEF f
<1>5. /\ Len(stack') = Len(stack) + 1
      /\ \A i \in 1 .. Len(stack) : stack'[i] = stack[i]
      /\ stack'[Len(stack) + 1] = f
  BY <1>1, <1>2, <1>4, AppendProperties DEF f
<1>6. disk'[FileOf(call.path)] = a
  BY <1>1, <1>3 DEF IInv, TypeOK, Remember
<1>7. Asked(a)
  BY <1>1, <1>2 DEF Asked
<1>8. QED
  BY <1>1, <1>2, <1>3, <1>5, <1>6, <1>7 DEF f, FirstLine

(* An activation moves on by a line.                                       *)
LEMMA FrameMoves ==
  ASSUME NEW f \in Frame, NEW o \in Seq(Collected)
  PROVE  /\ LET g == [f EXCEPT !.next = f.next + 1] IN
              /\ g \in Frame /\ g.next = f.next + 1 /\ g.path = f.path /\ g.constraint = f.constraint
              /\ g.entries = f.entries /\ g.out = f.out
         /\ LET g == [f EXCEPT !.next = f.next + 1, !.out = o] IN
              /\ g \in Frame /\ g.next = f.next + 1 /\ g.path = f.path /\ g.constraint = f.constraint
              /\ g.entries = f.entries /\ g.out = o
<1>1. f.next + 1 \in Nat \ {0}
  BY DEF Frame
<1>2. QED
  BY <1>1 DEF Frame

(* Include moves the innermost activation on and leaves the rest.          *)
LEMMA IncludeShape ==
  IInv /\ Include =>
    /\ pc = "walk" /\ pc' = "call" /\ ~AtEnd(Top)
    /\ stack \in Seq(Frame) /\ Len(stack) \in Nat \ {0} /\ Top \in Frame
    /\ Len(stack') = Len(stack)
    /\ \A i \in 1 .. Len(stack) :
         /\ stack'[i].path = stack[i].path /\ stack'[i].constraint = stack[i].constraint
         /\ stack'[i].entries = stack[i].entries /\ stack'[i].out = stack[i].out
         /\ stack'[i].next = IF i = Len(stack) THEN Top.next + 1 ELSE stack[i].next
    /\ UNCHANGED disk
<1> SUFFICES ASSUME IInv, Include
             PROVE  /\ pc = "walk" /\ pc' = "call" /\ ~AtEnd(Top)
                    /\ stack \in Seq(Frame) /\ Len(stack) \in Nat \ {0} /\ Top \in Frame
                    /\ Len(stack') = Len(stack)
                    /\ \A i \in 1 .. Len(stack) :
                         /\ stack'[i].path = stack[i].path /\ stack'[i].constraint = stack[i].constraint
                         /\ stack'[i].entries = stack[i].entries /\ stack'[i].out = stack[i].out
                         /\ stack'[i].next = IF i = Len(stack) THEN Top.next + 1 ELSE stack[i].next
                    /\ UNCHANGED disk
  OBVIOUS
<1>1. pc = "walk" /\ pc' = "call" /\ ~AtEnd(Top) /\ UNCHANGED disk
  BY DEF Include
<1>2. stack \in Seq(Frame) /\ Len(stack) \in Nat \ {0} /\ Top \in Frame
  BY <1>1, TopFacts
<1> DEFINE g == [Top EXCEPT !.next = Top.next + 1]
<1>3. /\ g \in Frame /\ g.next = Top.next + 1 /\ g.path = Top.path /\ g.constraint = Top.constraint
      /\ g.entries = Top.entries /\ g.out = Top.out
  <2>1. Top.out \in Seq(Collected)
    BY <1>2 DEF Frame
  <2>2. QED
    BY <1>2, <2>1, FrameMoves
<1>4. stack' = [stack EXCEPT ![Len(stack)] = g]
  <2>1. stack' = [stack EXCEPT ![Len(stack)].next = @ + 1]
    BY DEF Include
  <2>2. QED
    BY <1>2, <2>1 DEF Top
<1> HIDE DEF g
<1>5. /\ Len(stack') = Len(stack)
      /\ \A j \in 1 .. Len(stack) : stack'[j] = IF j = Len(stack) THEN g ELSE stack[j]
  BY SMTT(60), <1>2, <1>3, <1>4, ExceptSeq
<1>6. QED
  BY <1>1, <1>2, <1>3, <1>5 DEF Top

(* Collect does the same and adds an entry to what it gathered.            *)
LEMMA CollectShape ==
  IInv /\ Collect =>
    /\ pc = "walk" /\ pc' = "walk" /\ ~AtEnd(Top)
    /\ Top.entries[Top.next] \in PlainEntry
    /\ stack \in Seq(Frame) /\ Len(stack) \in Nat \ {0} /\ Top \in Frame
    /\ Len(stack') = Len(stack)
    /\ \A i \in 1 .. Len(stack) :
         /\ stack'[i].path = stack[i].path /\ stack'[i].constraint = stack[i].constraint
         /\ stack'[i].entries = stack[i].entries
         /\ stack'[i].next = IF i = Len(stack) THEN Top.next + 1 ELSE stack[i].next
         /\ stack'[i].out = IF i = Len(stack) THEN Append(Top.out, Stamped(Top, Top.entries[Top.next]))
                            ELSE stack[i].out
    /\ UNCHANGED disk
<1> SUFFICES ASSUME IInv, Collect
             PROVE  /\ pc = "walk" /\ pc' = "walk" /\ ~AtEnd(Top)
                    /\ Top.entries[Top.next] \in PlainEntry
                    /\ stack \in Seq(Frame) /\ Len(stack) \in Nat \ {0} /\ Top \in Frame
                    /\ Len(stack') = Len(stack)
                    /\ \A i \in 1 .. Len(stack) :
                         /\ stack'[i].path = stack[i].path /\ stack'[i].constraint = stack[i].constraint
                         /\ stack'[i].entries = stack[i].entries
                         /\ stack'[i].next = IF i = Len(stack) THEN Top.next + 1 ELSE stack[i].next
                         /\ stack'[i].out = IF i = Len(stack) THEN Append(Top.out, Stamped(Top, Top.entries[Top.next]))
                                            ELSE stack[i].out
                    /\ UNCHANGED disk
  OBVIOUS
<1> DEFINE e == Top.entries[Top.next]
           g == [Top EXCEPT !.next = Top.next + 1, !.out = Append(Top.out, Stamped(Top, e))]
<1>1. /\ pc = "walk" /\ pc' = "walk" /\ ~AtEnd(Top) /\ e.kind # "include"
      /\ stack' = [stack EXCEPT ![Len(stack)] = g] /\ UNCHANGED disk
  BY DEF Collect
<1>2. stack \in Seq(Frame) /\ Len(stack) \in Nat \ {0} /\ Top \in Frame /\ e \in Entry
  BY <1>1, TopFacts
<1>3. e \in PlainEntry
  BY <1>1, <1>2 DEF Entry, IncludeEntry
<1>4. Stamped(Top, e) \in Collected
  BY <1>2, <1>3 DEF Stamped, Collected, PlainEntry, Frame
<1> HIDE DEF e
<1>5. /\ g \in Frame /\ g.next = Top.next + 1 /\ g.path = Top.path /\ g.constraint = Top.constraint
      /\ g.entries = Top.entries /\ g.out = Append(Top.out, Stamped(Top, e))
  <2>1. Append(Top.out, Stamped(Top, e)) \in Seq(Collected)
    BY <1>2, <1>4, AppendProperties DEF Frame
  <2>2. QED
    BY ZenonT(60), <1>2, <2>1, FrameMoves
<1> HIDE DEF g
<1>6. /\ Len(stack') = Len(stack)
      /\ \A j \in 1 .. Len(stack) : stack'[j] = IF j = Len(stack) THEN g ELSE stack[j]
  BY <1>1, <1>2, <1>5, ExceptSeq
<1>7. \A i \in 1 .. Len(stack) :
        /\ stack'[i].path = stack[i].path /\ stack'[i].constraint = stack[i].constraint
        /\ stack'[i].entries = stack[i].entries
        /\ stack'[i].next = IF i = Len(stack) THEN Top.next + 1 ELSE stack[i].next
        /\ stack'[i].out = IF i = Len(stack) THEN Append(Top.out, Stamped(Top, e)) ELSE stack[i].out
  BY <1>5, <1>6 DEF Top
<1>8. QED
  BY <1>1, <1>2, <1>3, <1>6, <1>7 DEF e

(* Return pops it and splices what it gathered into the next.              *)
LEMMA ReturnShape ==
  IInv /\ Return =>
    /\ pc = "walk" /\ pc' = "walk" /\ AtEnd(Top)
    /\ stack \in Seq(Frame) /\ Len(stack) \in Nat /\ Len(stack) > 1 /\ Top \in Frame
    /\ Len(stack') = Len(stack) - 1
    /\ \A i \in 1 .. Len(stack) - 1 :
         /\ stack'[i].path = stack[i].path /\ stack'[i].constraint = stack[i].constraint
         /\ stack'[i].entries = stack[i].entries /\ stack'[i].next = stack[i].next
         /\ stack'[i].out = IF i = Len(stack) - 1 THEN stack[i].out \o Top.out ELSE stack[i].out
    /\ UNCHANGED disk
<1> SUFFICES ASSUME IInv, Return
             PROVE  /\ pc = "walk" /\ pc' = "walk" /\ AtEnd(Top)
                    /\ stack \in Seq(Frame) /\ Len(stack) \in Nat /\ Len(stack) > 1 /\ Top \in Frame
                    /\ Len(stack') = Len(stack) - 1
                    /\ \A i \in 1 .. Len(stack) - 1 :
                         /\ stack'[i].path = stack[i].path /\ stack'[i].constraint = stack[i].constraint
                         /\ stack'[i].entries = stack[i].entries /\ stack'[i].next = stack[i].next
                         /\ stack'[i].out = IF i = Len(stack) - 1 THEN stack[i].out \o Top.out ELSE stack[i].out
                    /\ UNCHANGED disk
  OBVIOUS
<1> DEFINE n == Len(stack) - 1
           g == [Pop[n] EXCEPT !.out = Splice(@, Top.out)]
<1>1. /\ pc = "walk" /\ pc' = "walk" /\ Len(stack) > 1 /\ AtEnd(Top)
      /\ stack' = [Pop EXCEPT ![Len(stack) - 1].out = Splice(@, Top.out)]
      /\ UNCHANGED disk
  BY DEF Return
<1>2. stack # <<>> /\ Len(stack) \in Nat \ {0} /\ Top \in Frame /\ stack \in Seq(Frame)
  BY <1>1, TopFacts DEF IInv, Bookkeeping
<1>3. /\ Pop \in Seq(Frame) /\ Len(Pop) = n
      /\ \A i \in 1 .. n : Pop[i] = stack[i]
  BY <1>2, PopFacts DEF Pop
<1>4. n \in 1 .. Len(Pop) /\ Pop[n] \in Frame
  BY <1>1, <1>2, <1>3, ElementOfSeq
<1>5. /\ g \in Frame /\ g.path = Pop[n].path /\ g.constraint = Pop[n].constraint
      /\ g.entries = Pop[n].entries /\ g.next = Pop[n].next /\ g.out = Pop[n].out \o Top.out
  <2>1. Pop[n].out \in Seq(Collected) /\ Top.out \in Seq(Collected)
    BY <1>2, <1>4 DEF Frame
  <2>2. Splice(Pop[n].out, Top.out) \in Seq(Collected)
    BY <2>1, ConcatProperties DEF Splice
  <2>3. QED
    BY <1>4, <2>2 DEF Frame, Splice
<1>6. stack' = [Pop EXCEPT ![n] = g]
  BY <1>1
<1> HIDE DEF g
<1>7. /\ stack' \in Seq(Frame) /\ Len(stack') = n
      /\ \A j \in 1 .. n : stack'[j] = IF j = n THEN g ELSE Pop[j]
  BY <1>3, <1>4, <1>5, <1>6, ExceptSeq
<1>8. \A i \in 1 .. n :
         /\ stack'[i].path = stack[i].path /\ stack'[i].constraint = stack[i].constraint
         /\ stack'[i].entries = stack[i].entries /\ stack'[i].next = stack[i].next
         /\ stack'[i].out = IF i = n THEN stack[i].out \o Top.out ELSE stack[i].out
  BY <1>3, <1>4, <1>5, <1>7
<1>9. QED
  BY <1>1, <1>2, <1>7, <1>8

(* Unwind pops it and drops what it gathered.                              *)
LEMMA UnwindShape ==
  IInv /\ Unwind =>
    /\ pc = "unwind" /\ pc' = "unwind"
    /\ stack \in Seq(Frame) /\ Len(stack) \in Nat \ {0}
    /\ Len(stack') = Len(stack) - 1
    /\ \A i \in 1 .. Len(stack) - 1 : stack'[i] = stack[i]
<1> SUFFICES ASSUME IInv, Unwind
             PROVE  /\ pc = "unwind" /\ pc' = "unwind"
                    /\ stack \in Seq(Frame) /\ Len(stack) \in Nat \ {0}
                    /\ Len(stack') = Len(stack) - 1
                    /\ \A i \in 1 .. Len(stack) - 1 : stack'[i] = stack[i]
  OBVIOUS
<1>1. pc = "unwind" /\ pc' = "unwind" /\ stack # <<>> /\ stack' = Pop /\ stack \in Seq(Frame)
  BY DEF Unwind, IInv, TypeOK
<1>2. QED
  BY <1>1, PopFacts DEF Pop

(***************************************************************************)
(* The routes a step passes                                                *)
(***************************************************************************)
(* The routes through an entry.                                            *)
LEMMA ExtendsAppend ==
  ASSUME NEW r \in AllRoute, NEW s \in AllRoute, NEW n \in Line
  PROVE  Extends(r, Append(s, n)) <=> Extends(r, s) /\ Len(s) < Len(r) /\ r[Len(s) + 1] = n
<1> DEFINE t == Append(s, n)
<1>1. /\ Len(r) \in Nat /\ Len(s) \in Nat
      /\ t \in AllRoute /\ Len(t) = Len(s) + 1 /\ t[Len(s) + 1] = n
      /\ \A j \in 1 .. Len(s) : t[j] = s[j]
  BY AppendProperties, LenProperties DEF AllRoute
<1> HIDE DEF t
<1>2. Extends(r, t) <=> Extends(r, s) /\ Len(s) < Len(r) /\ r[Len(s) + 1] = n
  BY <1>1 DEF Extends
<1>3. QED
  BY <1>2 DEF t

(* From one entry to the next: the routes through the first are passed.    *)
LEMMA NextSibling ==
  ASSUME NEW r \in AllRoute, NEW s \in AllRoute, NEW n \in Line
  PROVE  P!Before(r, Append(s, n + 1)) <=> P!Before(r, Append(s, n)) \/ Extends(r, Append(s, n))
<1>1. n \in Nat /\ n + 1 \in Line /\ Len(s) \in Nat /\ Len(r) \in Nat
  BY LenProperties DEF Line, AllRoute
<1>2. P!Before(r, Append(s, n + 1)) <=>
        P!Before(r, s) \/ (Extends(r, s) /\ (Len(r) = Len(s) \/ r[Len(s) + 1] < n + 1))
  BY <1>1, BeforeAppend
<1>3. P!Before(r, Append(s, n)) <=>
        P!Before(r, s) \/ (Extends(r, s) /\ (Len(r) = Len(s) \/ r[Len(s) + 1] < n))
  BY BeforeAppend
<1>4. Extends(r, Append(s, n)) <=> Extends(r, s) /\ Len(s) < Len(r) /\ r[Len(s) + 1] = n
  BY ExtendsAppend
<1>5. Extends(r, s) /\ Len(r) # Len(s) => Len(s) < Len(r) /\ r[Len(s) + 1] \in Nat
  <2>1. SUFFICES ASSUME Extends(r, s), Len(r) # Len(s) PROVE Len(s) < Len(r) /\ r[Len(s) + 1] \in Nat
    OBVIOUS
  <2>2. Len(s) < Len(r) /\ Len(s) + 1 \in 1 .. Len(r)
    BY <1>1, <2>1 DEF Extends
  <2>3. QED
    BY <2>2, ElementOfSeq DEF AllRoute, Line
<1>6. QED
  BY <1>1, <1>2, <1>3, <1>4, <1>5

(* From a file to its first entry: the file is passed.                     *)
LEMMA FirstChild ==
  ASSUME NEW r \in AllRoute, NEW s \in AllRoute
  PROVE  P!Before(r, Append(s, 1)) <=> P!Before(r, s) \/ r = s
<1>1. 1 \in Line /\ Len(s) \in Nat /\ Len(r) \in Nat
  BY LenProperties DEF Line, AllRoute
<1>2. P!Before(r, Append(s, 1)) <=>
        P!Before(r, s) \/ (Extends(r, s) /\ (Len(r) = Len(s) \/ r[Len(s) + 1] < 1))
  BY <1>1, BeforeAppend
<1>3. Extends(r, s) /\ Len(r) # Len(s) => r[Len(s) + 1] \in Line
  <2>1. SUFFICES ASSUME Extends(r, s), Len(r) # Len(s) PROVE r[Len(s) + 1] \in Line
    OBVIOUS
  <2>2. Len(s) + 1 \in 1 .. Len(r)
    BY <1>1, <2>1 DEF Extends
  <2>3. QED
    BY <2>2, ElementOfSeq DEF AllRoute
<1>4. Extends(r, s) /\ Len(r) = Len(s) <=> r = s
  BY <1>1, SeqEqual DEF Extends, AllRoute
<1>5. QED
  BY <1>2, <1>3, <1>4 DEF Line

(* Past an entry that leads nowhere there is nothing but the entry.        *)
LEMMA DeadExtensions ==
  Readable =>
    \A s \in AllRoute : P!Reached(s) = NONE =>
      \A r \in AllRoute : Extends(r, s) =>
        P!Trouble(r) = "none" /\ (P!IsLeaf(r) => r = s)
<1> SUFFICES ASSUME Readable, NEW s \in AllRoute, P!Reached(s) = NONE,
                    NEW r \in AllRoute, Extends(r, s)
             PROVE  P!Trouble(r) = "none" /\ (P!IsLeaf(r) => r = s)
  OBVIOUS
<1>1. P!Trouble(r) = "none"
  BY DeadEnd DEF P!Trouble
<1>2. ASSUME r # s PROVE ~P!IsLeaf(r)
  <2>1. r # <<>> /\ Extends(P!Front(r), s)
    BY <1>2, Extending
  <2>2. P!Reached(P!Front(r)) = NONE
    BY <2>1, DeadEnd, FrontFacts
  <2>3. QED
    BY <2>2 DEF P!IsLeaf
<1>3. QED
  BY <1>1, <1>2

(* An entry that is no include leads nowhere.                              *)
LEMMA LeafEnds ==
  Readable => \A r \in AllRoute : P!IsLeaf(r) => P!Reached(r) = NONE
<1> SUFFICES ASSUME Readable, NEW r \in AllRoute, P!IsLeaf(r) PROVE P!Reached(r) = NONE
  OBVIOUS
<1>1. r # <<>>
  BY DEF P!IsLeaf
<1>2. P!Reached(r) = P!Follow(P!Reached(P!Front(r)), P!Last(r))
  BY <1>1, FrontFacts, ReachedNext
<1>3. QED
  BY <1>2 DEF P!IsLeaf, P!Follow, P!HasInclude

(* What the innermost activation knows of its file.                        *)
LEMMA TopAnswer ==
  Walking /\ pc = "walk" =>
    /\ RouteTo(Deep) \in AllRoute
    /\ P!Reached(RouteTo(Deep)) = Top.path
    /\ Top.path # NONE
    /\ P!AnswerOf(Top.path) = [kind |-> "text", entries |-> Top.entries]
    /\ P!FlagAt(RouteTo(Deep)) = Top.constraint
<1> SUFFICES ASSUME Walking, pc = "walk"
             PROVE  /\ RouteTo(Deep) \in AllRoute
                    /\ P!Reached(RouteTo(Deep)) = Top.path
                    /\ Top.path # NONE
                    /\ P!AnswerOf(Top.path) = [kind |-> "text", entries |-> Top.entries]
                    /\ P!FlagAt(RouteTo(Deep)) = Top.constraint
  OBVIOUS
<1>1. /\ Deep \in 1 .. Deep /\ Deep = Len(stack) /\ Deep \in Nat /\ Top = stack[Deep]
      /\ Top \in Frame /\ PathAt(Deep) = Top.path
  BY HereFacts
<1>2. \A m \in 1 .. Deep : /\ stack[m] \in Frame /\ FileOf(stack[m].path) \in File
                           /\ stack[m].path # NONE /\ stack[m].constraint \in BOOLEAN
                           /\ P!AnswerOf(stack[m].path) = [kind |-> "text", entries |-> stack[m].entries]
  <2>1. SUFFICES ASSUME NEW m \in 1 .. Deep
                 PROVE  /\ stack[m] \in Frame /\ FileOf(stack[m].path) \in File
                        /\ stack[m].path # NONE /\ stack[m].constraint \in BOOLEAN
                        /\ P!AnswerOf(stack[m].path) = [kind |-> "text", entries |-> stack[m].entries]
    OBVIOUS
  <2>2. stack[m] \in Frame
    BY <1>1, ElementOfSeq DEF Walking, IInv, TypeOK
  <2>3. stack[m].path # NONE /\ stack[m].constraint \in BOOLEAN
    BY <2>2, ConstantsAssumption DEF Frame
  <2>4. FileOf(stack[m].path) \in File
    BY <1>1 DEF Walking, IInv, Bookkeeping
  <2>5. P!AnswerOf(stack[m].path) = [kind |-> "text", entries |-> stack[m].entries]
    BY <1>1, <2>4 DEF P!AnswerOf, Walking, Open
  <2>6. QED
    BY <2>2, <2>3, <2>4, <2>5
<1>3. RouteTo(Deep) \in AllRoute /\ Len(RouteTo(Deep)) = Deep - 1
  BY <1>1, RouteToFacts
<1>4. P!Reached(RouteTo(Deep)) = Top.path
  BY <1>1, RouteReaches
<1>5. P!FlagAt(RouteTo(Deep)) = Top.constraint
  <2>1. CASE Deep = 1
    <3>1. RouteTo(Deep) = <<>>
      BY <1>3, <2>1, EmptySeq DEF AllRoute
    <3>2. ~Top.constraint
      <4>1. stack # <<>>
        BY DEF Walking, IInv, Bookkeeping
      <4>2. ~stack[1].constraint
        BY <4>1 DEF Walking, IInv, ImmediateConstraint
      <4>3. QED
        BY <1>1, <2>1, <4>2
    <3>3. Top.constraint \in BOOLEAN
      BY <1>1, <1>2
    <3>4. QED
      BY <3>1, <3>2, <3>3 DEF P!FlagAt
  <2>2. CASE Deep # 1
    <3> DEFINE k == Deep - 1
    <3>1. k \in 1 .. Deep /\ k \in 1 .. Deep - 1 /\ k + 1 = Deep /\ k < Deep /\ k <= Len(stack) /\ k < Len(stack)
      BY <1>1, <2>2
    <3>2. /\ RouteTo(k) \in AllRoute
          /\ RouteTo(k + 1) = Append(RouteTo(k), stack[k].next - 1)
      BY <3>1, RouteToFacts
    <3>3. /\ stack[k].next - 1 \in Line
          /\ stack[k + 1].constraint = stack[k].entries[stack[k].next - 1].constraint
      BY <3>1, DirectiveAt
    <3>4. P!Reached(RouteTo(k)) = stack[k].path
      BY <3>1, RouteReaches DEF PathAt
    <3> HIDE DEF k
    <3> DEFINE s == RouteTo(k)
               n == stack[k].next - 1
               t == Append(s, n)
    <3>5. t # <<>> /\ P!Front(t) = s /\ P!Last(t) = n
      <4>1. s \in AllRoute /\ n \in Line
        BY <3>2, <3>3
      <4> HIDE DEF s, n
      <4>2. t \in AllRoute /\ Len(t) = Len(s) + 1 /\ t[Len(s) + 1] = n /\ Len(s) \in Nat
            /\ \A j \in 1 .. Len(s) : t[j] = s[j]
        BY <4>1, AppendProperties, LenProperties DEF AllRoute
      <4> HIDE DEF t
      <4>3. t # <<>>
        BY <4>2, EmptySeq DEF AllRoute
      <4>4. /\ P!Front(t) \in AllRoute /\ Len(P!Front(t)) = Len(t) - 1
            /\ \A j \in 1 .. Len(t) - 1 : P!Front(t)[j] = t[j]
        BY <4>2, <4>3, PopFacts DEF P!Front, AllRoute
      <4>5. P!Front(t) = s
        <5>1. Len(P!Front(t)) = Len(s) /\ \A j \in 1 .. Len(s) : P!Front(t)[j] = s[j]
          BY <4>2, <4>4
        <5>2. QED
          BY <4>1, <4>4, <5>1, SeqEqual DEF AllRoute
      <4>6. QED
        BY <4>2, <4>3, <4>5 DEF P!Last
    <3>6. P!FlagAt(t) = stack[k].entries[n].constraint
      <4>1. P!AnswerOf(P!Reached(s)).entries = stack[k].entries
        <5>1. P!AnswerOf(stack[k].path) = [kind |-> "text", entries |-> stack[k].entries]
          BY <1>2, <3>1
        <5>2. P!AnswerOf(P!Reached(s)) = P!AnswerOf(stack[k].path)
          BY <3>4
        <5>3. QED
          BY <5>1, <5>2
      <4>2. stack[k].entries[n].constraint \in BOOLEAN
        BY <1>2, <3>1, <3>3, <1>1
      <4> HIDE DEF s, n, t
      <4>3. QED
        BY <3>5, <4>1, <4>2 DEF P!FlagAt
    <3>7. QED
      BY <1>1, <3>1, <3>2, <3>3, <3>6
  <2>3. QED
    BY <2>1, <2>2
<1>6. QED
  BY <1>1, <1>2, <1>3, <1>4, <1>5

(* Front and Last undo Append.                                             *)
LEMMA FrontOfAppend ==
  ASSUME NEW s \in AllRoute, NEW n \in Line
  PROVE  Append(s, n) # <<>> /\ P!Front(Append(s, n)) = s /\ P!Last(Append(s, n)) = n
<1> DEFINE t == Append(s, n)
<1>1. t \in AllRoute /\ Len(t) = Len(s) + 1 /\ t[Len(s) + 1] = n /\ Len(s) \in Nat
      /\ \A j \in 1 .. Len(s) : t[j] = s[j]
  BY AppendProperties, LenProperties DEF AllRoute
<1> HIDE DEF t
<1>2. t # <<>>
  BY <1>1, EmptySeq DEF AllRoute
<1>3. /\ P!Front(t) \in AllRoute /\ Len(P!Front(t)) = Len(t) - 1
      /\ \A j \in 1 .. Len(t) - 1 : P!Front(t)[j] = t[j]
  BY <1>1, <1>2, PopFacts DEF P!Front, AllRoute
<1>4. P!Front(t) = s
  <2>1. Len(P!Front(t)) = Len(s) /\ \A j \in 1 .. Len(s) : P!Front(t)[j] = s[j]
    BY <1>1, <1>3
  <2>2. QED
    BY <1>3, <2>1, SeqEqual DEF AllRoute
<1>5. QED
  BY <1>1, <1>2, <1>4 DEF P!Last, t

(* The entry a level is at, when it is no include: a leaf.                 *)
LEMMA EntryIsLeaf ==
  Walking /\ pc = "walk" /\ ~AtEnd(Top) /\ Top.entries[Top.next] \in PlainEntry =>
    \A h : h = Here =>
      /\ h \in AllRoute
      /\ P!IsLeaf(h)
      /\ P!Reached(h) = NONE
      /\ P!EntryAt(h) = Stamped(Top, Top.entries[Top.next])
<1> SUFFICES ASSUME Walking, pc = "walk", ~AtEnd(Top), Top.entries[Top.next] \in PlainEntry,
                    NEW h, h = Here
             PROVE  /\ h \in AllRoute
                    /\ P!IsLeaf(h)
                    /\ P!Reached(h) = NONE
                    /\ P!EntryAt(h) = Stamped(Top, Top.entries[Top.next])
  OBVIOUS
<1> DEFINE s == RouteTo(Deep)
           n == Top.next
<1>1. h \in AllRoute /\ h = Append(s, n) /\ n \in Line /\ Top.entries \in Seq(Entry)
  BY HereFacts
<1>2. /\ s \in AllRoute
      /\ P!Reached(s) = Top.path
      /\ Top.path # NONE
      /\ P!AnswerOf(Top.path) = [kind |-> "text", entries |-> Top.entries]
      /\ P!FlagAt(s) = Top.constraint
  BY TopAnswer
<1> HIDE DEF s, n
<1>3. h # <<>> /\ P!Front(h) = s /\ P!Last(h) = n
  BY <1>1, <1>2, FrontOfAppend
<1>4. n \in DOMAIN Top.entries
  <2>1. n \in 1 .. Len(Top.entries)
    BY TopFacts DEF Walking, n
  <2>2. QED
    BY <1>1, <2>1, LenProperties
<1>5. Top.entries[n].kind # "include" /\ Top.entries[n].constraint = FALSE
  BY ConstantsAssumption DEF PlainEntry, n
<1>6. P!IsLeaf(h)
  BY <1>2, <1>3, <1>4, <1>5 DEF P!IsLeaf
<1>7. P!Reached(h) = NONE
  BY <1>1, <1>6, LeafEnds, WalkIsReadable
<1>8. P!EntryAt(h) = Stamped(Top, Top.entries[n])
  BY <1>2, <1>3, <1>5 DEF P!EntryAt, Stamped, n
<1>9. QED
  BY <1>1, <1>6, <1>7, <1>8 DEF n

(* When a level's loop is over, so are the routes through its file.        *)
LEMMA RestIsDead ==
  Walking /\ pc = "walk" /\ AtEnd(Top) =>
    \A r \in AllRoute :
      Extends(r, RouteTo(Deep)) /\ ~P!Before(r, Here) => P!Trouble(r) = "none" /\ ~P!IsLeaf(r)
<1> SUFFICES ASSUME Walking, pc = "walk", AtEnd(Top), NEW r \in AllRoute,
                    Extends(r, RouteTo(Deep)), ~P!Before(r, Here)
             PROVE  P!Trouble(r) = "none" /\ ~P!IsLeaf(r)
  OBVIOUS
<1> DEFINE s == RouteTo(Deep)
           n == Top.next
           k == r[Len(s) + 1]
<1>1. Here = Append(s, n) /\ n \in Line /\ Top.entries \in Seq(Entry)
  BY HereFacts
<1>2. /\ s \in AllRoute
      /\ P!Reached(s) = Top.path
      /\ P!AnswerOf(Top.path) = [kind |-> "text", entries |-> Top.entries]
  BY TopAnswer
<1> HIDE DEF s, n
<1>3. Len(s) \in Nat /\ Len(r) \in Nat /\ n \in Nat /\ Len(Top.entries) \in Nat
  BY <1>1, <1>2, LenProperties DEF AllRoute, Line
<1>4. Len(r) # Len(s) /\ ~(k < n)
  BY <1>1, <1>2, BeforeAppend DEF s
<1>5. Len(s) < Len(r) /\ k \in Line
  <2>1. Len(s) < Len(r) /\ Len(s) + 1 \in 1 .. Len(r)
    BY <1>3, <1>4 DEF Extends, s
  <2>2. QED
    BY <2>1, ElementOfSeq DEF AllRoute
<1> HIDE DEF k
<1>6. k > Len(Top.entries)
  BY <1>1, <1>3, <1>4, <1>5 DEF AtEnd, n, Line
<1>7. k \notin DOMAIN Top.entries
  BY <1>1, <1>3, <1>5, <1>6, LenProperties DEF Line
<1>8. Append(s, k) \in AllRoute /\ P!Reached(Append(s, k)) = NONE
  <2>1. Append(s, k) \in AllRoute /\ P!Reached(Append(s, k)) = P!Follow(Top.path, k)
    BY <1>2, <1>5, ReachedNext, WalkIsReadable
  <2>2. QED
    BY <1>2, <1>7, <2>1 DEF P!Follow, P!HasInclude
<1>9. Extends(r, Append(s, k))
  BY <1>2, <1>5, ExtendsAppend DEF s, k
<1>10. P!Trouble(r) = "none" /\ (P!IsLeaf(r) => r = Append(s, k))
  BY <1>8, <1>9, DeadExtensions, WalkIsReadable
<1>11. ~P!IsLeaf(Append(s, k))
  <2>1. P!Front(Append(s, k)) = s /\ P!Last(Append(s, k)) = k
    BY <1>2, <1>5, FrontOfAppend
  <2>2. QED
    BY <1>2, <1>7, <2>1 DEF P!IsLeaf
<1>12. QED
  BY <1>10, <1>11

(* What the promise says changes only with the root and the files.         *)
LEMMA PromiseStays ==
  UNCHANGED <<root, disk>> =>
    \A r : /\ P!Trouble(r)' = P!Trouble(r)
           /\ P!IsLeaf(r)' <=> P!IsLeaf(r)
           /\ P!EntryAt(r)' = P!EntryAt(r)
           /\ P!Reached(r)' = P!Reached(r)
<1> SUFFICES ASSUME UNCHANGED <<root, disk>>, NEW r
             PROVE  /\ P!Trouble(r)' = P!Trouble(r)
                    /\ P!IsLeaf(r)' <=> P!IsLeaf(r)
                    /\ P!EntryAt(r)' = P!EntryAt(r)
                    /\ P!Reached(r)' = P!Reached(r)
  OBVIOUS
<1>1. \A p : P!AnswerOf(p)' = P!AnswerOf(p)
  BY DEF P!AnswerOf
<1>2. \A p, l : P!Follow(p, l)' = P!Follow(p, l)
  BY DEF P!Follow, P!HasInclude, P!AnswerOf
<1>3. \A q : P!Reached(q)' = P!Reached(q)
  BY DEF P!Reached, P!Follow, P!HasInclude, P!AnswerOf
<1>4. \A q : P!AnswerOf(P!Reached(q))' = P!AnswerOf(P!Reached(q))
  BY <1>3 DEF P!AnswerOf
<1>5. P!Trouble(r)' = P!Trouble(r)
  BY <1>3, <1>4 DEF P!Trouble
<1>6. P!IsLeaf(r)' <=> P!IsLeaf(r)
  BY <1>3, <1>4 DEF P!IsLeaf
<1>7. P!FlagAt(P!Front(r))' <=> P!FlagAt(P!Front(r))
  BY <1>4 DEF P!FlagAt
<1>8. P!EntryAt(r)' = P!EntryAt(r)
  BY <1>3, <1>4, <1>7 DEF P!EntryAt
<1>9. QED
  BY <1>3, <1>5, <1>6, <1>8

(* Rooted is inductive.                                                    *)
LEMMA RootedNext == IInv /\ Rooted /\ RNext => Rooted'
<1> SUFFICES ASSUME IInv, Rooted, RNext PROVE Rooted'
  OBVIOUS
<1>1. root' = root /\ root' \in Roots
  BY DEF RNext, Rooted
<1>2. opener' = opener
  BY DEF RNext, Next, NilOpen, Begin, RecursiveInclude, OpenFails, ParseFails, Enter, Include,
         Collect, Return, ReturnFile, Unwind, ReturnError
<1>3. opener' = "nil" => pc' \in {"start", "unwind", "done"}
  BY <1>2 DEF RNext, Rooted, Next, NilOpen, Begin, RecursiveInclude, OpenFails, ParseFails, Enter, Include,
         Collect, Return, ReturnFile, Unwind, ReturnError, Fail
<1>4. CASE NilOpen \/ RecursiveInclude \/ OpenFails \/ ParseFails \/ ReturnError
  <2>1. pc' \notin {"start", "call"} /\ stack' = stack
    BY <1>4 DEF NilOpen, RecursiveInclude, OpenFails, ParseFails, ReturnError, Fail
  <2>2. QED
    BY <1>1, <1>3, <2>1 DEF Rooted
<1>5. CASE Begin
  <2>1. call' = call /\ stack' = stack /\ pc = "start"
    BY <1>5 DEF Begin
  <2>2. QED
    BY <1>1, <1>3, <2>1 DEF Rooted
<1>6. CASE Enter
  <2>1. PICK a : stack'[Len(stack) + 1] = [path |-> call.path, constraint |-> call.constraint,
                                            entries |-> a.entries, next |-> 1, out |-> <<>>]
    BY <1>6, EnterShape
  <2>2. /\ pc = "call" /\ pc' = "walk" /\ Len(stack) \in Nat /\ stack \in Seq(Frame)
        /\ \A i \in 1 .. Len(stack) : stack'[i] = stack[i]
    BY <1>6, EnterShape
  <2>3. CASE stack = <<>>
    <3>1. stack'[1].path = call.path
      BY <2>1, <2>3
    <3>2. QED
      BY <1>1, <1>3, <2>2, <2>3, <3>1 DEF Rooted
  <2>4. CASE stack # <<>>
    <3>1. 1 \in 1 .. Len(stack)
      BY <2>2, <2>4, EmptySeq
    <3>2. QED
      BY <1>1, <1>3, <2>2, <2>4, <3>1 DEF Rooted
  <2>5. QED
    BY <2>3, <2>4
<1>7. CASE Include \/ Collect
  <2>1. /\ Len(stack) \in Nat \ {0} /\ Len(stack') = Len(stack)
        /\ \A i \in 1 .. Len(stack) : stack'[i].path = stack[i].path
    BY <1>7, IncludeShape, CollectShape
  <2>2. stack # <<>> /\ stack' # <<>> /\ stack'[1].path = stack[1].path
    BY <2>1, EmptySeq
  <2>3. QED
    BY <1>1, <1>3, <2>2 DEF Rooted
<1>8. CASE Return
  <2>1. /\ Len(stack) \in Nat /\ Len(stack) > 1
        /\ \A i \in 1 .. Len(stack) - 1 : stack'[i].path = stack[i].path
        /\ pc' = "walk"
    BY <1>8, ReturnShape
  <2>2. stack # <<>> /\ stack'[1].path = stack[1].path
    BY <2>1
  <2>3. QED
    BY <1>1, <1>3, <2>1, <2>2 DEF Rooted
<1>9. CASE ReturnFile
  BY <1>1, <1>3, <1>9 DEF ReturnFile, Rooted
<1>10. CASE Unwind
  <2>1. /\ Len(stack) \in Nat \ {0}
        /\ Len(stack') = Len(stack) - 1
        /\ \A i \in 1 .. Len(stack) - 1 : stack'[i] = stack[i]
        /\ pc' = "unwind"
    BY <1>10, UnwindShape
  <2>2. stack' # <<>> => stack # <<>> /\ stack'[1] = stack[1]
    <3>1. SUFFICES ASSUME stack' # <<>> PROVE stack # <<>> /\ stack'[1] = stack[1]
      OBVIOUS
    <3>2. Len(stack') # 0
      <4>1. IInv'
        BY <1>10, UnwindIInv
      <4>2. QED
        BY <3>1, <4>1, EmptySeq DEF IInv, TypeOK
    <3>3. QED
      BY <2>1, <3>2
  <2>3. QED
    BY <1>1, <1>3, <2>1, <2>2 DEF Rooted
<1>11. QED
  BY <1>4, <1>5, <1>6, <1>7, <1>8, <1>9, <1>10 DEF RNext, Next

(* The steps after which the walk goes on.                                 *)
LEMMA OnlyThese ==
  IInv /\ Rooted /\ RNext /\ Going' =>
    \/ Begin /\ stack = <<>>
    \/ Going /\ (Enter \/ Include \/ Collect \/ Return)
<1> SUFFICES ASSUME IInv, Rooted, RNext, Going'
             PROVE  \/ Begin /\ stack = <<>>
                    \/ Going /\ (Enter \/ Include \/ Collect \/ Return)
  OBVIOUS
<1>1. opener = "stable" /\ pc' \in {"call", "walk"}
  BY DEF Going, RNext, Next, NilOpen, Begin, RecursiveInclude, OpenFails, ParseFails, Enter, Include,
         Collect, Return, ReturnFile, Unwind, ReturnError
<1>2. Begin \/ Enter \/ Include \/ Collect \/ Return
  BY <1>1 DEF RNext, Next, NilOpen, RecursiveInclude, OpenFails, ParseFails,
              ReturnFile, Unwind, ReturnError, Fail
<1>3. CASE Begin
  BY <1>3 DEF Begin, IInv, Bookkeeping
<1>4. CASE Enter \/ Include \/ Collect \/ Return
  BY <1>1, <1>4 DEF Going, Enter, Include, Collect, Return
<1>5. QED
  BY <1>2, <1>3, <1>4

(* So is Open, as long as the walk goes on.                                *)
LEMMA WalkingNext ==
  IInv /\ Rooted /\ (Going => Open) /\ RNext /\ Going' => Walking'
<1> SUFFICES ASSUME IInv, Rooted, Going => Open, RNext, Going' PROVE Walking'
  OBVIOUS
<1>1. IInv' /\ Rooted'
  BY NextIInv, RootedNext DEF RNext
<1>2. CASE Begin /\ stack = <<>>
  <2>1. stack' = <<>>
    BY <1>2 DEF Begin
  <2>2. Open'
    BY <2>1 DEF Open
  <2>3. QED
    BY <1>1, <2>2 DEF Walking
<1>3. CASE Going /\ Enter
  <2>1. PICK a : /\ Asked(a) /\ a.kind = "text"
                 /\ FileOf(call.path) \in File => disk'[FileOf(call.path)] = a /\ a \in Answer
                 /\ stack'[Len(stack) + 1] =
                      [path |-> call.path, constraint |-> call.constraint,
                       entries |-> a.entries, next |-> 1, out |-> <<>>]
    BY <1>3, EnterShape
  <2>2. /\ Len(stack') = Len(stack) + 1 /\ Len(stack) \in Nat
        /\ \A i \in 1 .. Len(stack) : stack'[i] = stack[i]
    BY <1>3, EnterShape
  <2>3. disk \in [File -> Answer \cup {Unread}] /\ opener = "stable" /\ Open
    BY <1>3 DEF IInv, TypeOK, Going
  <2>4. FileOf(call.path) \in File
    BY <2>1 DEF Asked, OpenAnswers
  <2>5. ASSUME NEW i \in 1 .. Len(stack')
        PROVE  disk'[FileOf(stack'[i].path)] = [kind |-> "text", entries |-> stack'[i].entries]
    <3>1. CASE i = Len(stack) + 1
      <4>1. a = [kind |-> "text", entries |-> a.entries]
        BY <2>1, <2>4 DEF Answer
      <4>2. QED
        BY <2>1, <2>4, <3>1, <4>1
    <3>2. CASE i \in 1 .. Len(stack)
      <4>1. disk[FileOf(stack[i].path)] = [kind |-> "text", entries |-> stack[i].entries]
        BY <2>3, <3>2 DEF Open
      <4>2. disk[FileOf(stack[i].path)] # Unread /\ FileOf(stack[i].path) \in File
        BY <3>2, <4>1 DEF Unread, IInv, Bookkeeping
      <4>3. disk'[FileOf(stack[i].path)] = disk[FileOf(stack[i].path)]
        <5>1. CASE FileOf(stack[i].path) = FileOf(call.path)
          BY <2>1, <2>3, <2>4, <4>2, <5>1 DEF Asked, OpenAnswers
        <5>2. CASE FileOf(stack[i].path) # FileOf(call.path)
          BY <2>1, <2>3, <4>2, <5>2 DEF Asked, Remember
        <5>3. QED
          BY <5>1, <5>2
      <4>4. QED
        BY <2>2, <3>2, <4>1, <4>3
    <3>3. QED
      BY <2>2, <3>1, <3>2
  <2>6. QED
    BY <1>1, <2>5 DEF Walking, Open
<1>4. CASE Going /\ (Include \/ Collect \/ Return)
  <2>1. /\ disk' = disk
        /\ Len(stack') \in Nat /\ Len(stack) \in Nat /\ Len(stack') <= Len(stack)
        /\ \A i \in 1 .. Len(stack') : stack'[i].path = stack[i].path /\ stack'[i].entries = stack[i].entries
    BY <1>4, IncludeShape, CollectShape, ReturnShape
  <2>2. Open'
    BY <1>4, <2>1 DEF Open
  <2>3. QED
    BY <1>1, <2>2 DEF Walking
<1>5. QED
  BY <1>2, <1>3, <1>4, OnlyThese

(***************************************************************************)
(* Where the steps lead                                                    *)
(***************************************************************************)
(* Enter goes on to the first entry,                                       *)
LEMMA EnterMoves ==
  Walking /\ Enter /\ Walking' => Here' = Append(Here, 1)
<1> SUFFICES ASSUME Walking, Enter, Walking' PROVE Here' = Append(Here, 1)
  OBVIOUS
<1>1. PICK a : stack'[Len(stack) + 1] = [path |-> call.path, constraint |-> call.constraint,
                                            entries |-> a.entries, next |-> 1, out |-> <<>>]
  BY EnterShape DEF Walking
<1>2. /\ pc = "call" /\ pc' = "walk" /\ Len(stack') = Len(stack) + 1 /\ Len(stack) \in Nat
      /\ \A i \in 1 .. Len(stack) : stack'[i] = stack[i]
  BY EnterShape DEF Walking
<1>3. Deep' = Len(stack) + 1 /\ Deep = Len(stack) + 1 /\ Top'.next = 1
  BY <1>1, <1>2 DEF Deep, Top
<1>4. [i \in 1 .. Len(stack) + 1 - 1 |-> stack'[i].next - 1] = [i \in 1 .. Len(stack) + 1 - 1 |-> stack[i].next - 1]
  BY <1>2
<1>5. QED
  BY <1>2, <1>3, <1>4 DEF Here, RouteTo

(* A route is the lines of its activations and nothing else.               *)
LEMMA SameRoute ==
  ASSUME NEW m \in Nat, \A i \in 1 .. m - 1 : stack'[i].next = stack[i].next
  PROVE  RouteTo(m)' = RouteTo(m)
BY DEF RouteTo

(* Include to the file its directive names, which is the same route,       *)
LEMMA IncludeMoves ==
  Walking /\ Include /\ Walking' => Here' = Here
<1> SUFFICES ASSUME Walking, Include, Walking' PROVE Here' = Here
  OBVIOUS
<1> DEFINE L == Len(stack)
<1>1. /\ pc = "walk" /\ pc' = "call" /\ L \in Nat \ {0} /\ Len(stack') = L
      /\ \A i \in 1 .. L : stack'[i].next = IF i = L THEN Top.next + 1 ELSE stack[i].next
      /\ Top.next \in Nat
  <2>1. IInv
    BY DEF Walking
  <2>2. /\ pc = "walk" /\ pc' = "call" /\ L \in Nat \ {0} /\ Len(stack') = L
        /\ \A i \in 1 .. L : stack'[i].next = IF i = L THEN Top.next + 1 ELSE stack[i].next
        /\ Top \in Frame
    BY <2>1, IncludeShape
  <2>3. QED
    BY <2>2 DEF Frame
<1>2. Deep = L /\ Deep' = L + 1
  BY <1>1 DEF Deep
<1>3. Here = Append(RouteTo(L), Top.next)
  BY <1>1, <1>2 DEF Here
<1>4. Walking' => (\A m \in 1 .. Deep :
                      /\ RouteTo(m) \in AllRoute
                      /\ Len(RouteTo(m)) = m - 1
                      /\ m < Deep => RouteTo(m + 1) = Append(RouteTo(m), stack[m].next - 1))'
  BY RouteToFacts, PTL
<1>5. \A m \in Nat : m = L => RouteTo(m)' = RouteTo(m) /\ RouteTo(m + 1)' = Append(RouteTo(m), Top.next)
  <2>1. SUFFICES ASSUME NEW m \in Nat, m = L
                 PROVE  RouteTo(m)' = RouteTo(m) /\ RouteTo(m + 1)' = Append(RouteTo(m), Top.next)
    OBVIOUS
  <2>2. RouteTo(m)' = RouteTo(m)
    BY <1>1, <2>1, SameRoute
  <2>3. m \in 1 .. Deep' /\ m < Deep' /\ stack'[m].next - 1 = Top.next
    BY <1>1, <1>2, <2>1
  <2>4. RouteTo(m + 1)' = Append(RouteTo(m)', stack'[m].next - 1)
    BY <1>4, <2>3
  <2>5. QED
    BY <2>2, <2>3, <2>4
<1>6. \A m \in Nat : m = Deep' => Here' = RouteTo(m)'
  BY <1>1 DEF Here, RouteTo
<1>7. QED
  BY <1>1, <1>2, <1>3, <1>5, <1>6

(* Collect to the next entry,                                              *)
LEMMA CollectMoves ==
  Walking /\ Collect /\ Walking' => Here' = Append(RouteTo(Deep), Top.next + 1)
<1> SUFFICES ASSUME Walking, Collect, Walking' PROVE Here' = Append(RouteTo(Deep), Top.next + 1)
  OBVIOUS
<1> DEFINE L == Len(stack)
<1>1. /\ pc = "walk" /\ pc' = "walk" /\ L \in Nat \ {0} /\ Len(stack') = L
      /\ \A i \in 1 .. L : stack'[i].next = IF i = L THEN Top.next + 1 ELSE stack[i].next
  BY CollectShape DEF Walking
<1>2. Deep = L /\ Deep' = L
  BY <1>1 DEF Deep
<1>3. Top'.next = Top.next + 1
  BY <1>1 DEF Top
<1>4. \A m \in Nat : m = L => RouteTo(m)' = RouteTo(m)
  BY <1>1, SameRoute
<1>5. \A m \in Nat : m = Deep' => Here' = Append(RouteTo(m)', Top'.next)
  BY <1>1 DEF Here, RouteTo
<1>6. QED
  BY <1>1, <1>2, <1>3, <1>4, <1>5

(* and Return to the next entry of the including file.                     *)
LEMMA ReturnMoves ==
  Walking /\ Return /\ Walking' =>
    \E q \in AllRoute, m \in Line : RouteTo(Deep) = Append(q, m) /\ Here' = Append(q, m + 1)
<1> SUFFICES ASSUME Walking, Return, Walking'
             PROVE  \E q \in AllRoute, m \in Line : RouteTo(Deep) = Append(q, m) /\ Here' = Append(q, m + 1)
  OBVIOUS
<1> DEFINE L == Len(stack)
           k == L - 1
           q == RouteTo(k)
           m == stack[k].next - 1
<1>1. /\ pc = "walk" /\ pc' = "walk" /\ L \in Nat /\ L > 1 /\ Len(stack') = L - 1
      /\ \A i \in 1 .. L - 1 : stack'[i].next = stack[i].next
  BY ReturnShape DEF Walking
<1>2. Deep = L /\ Deep' = k
  BY <1>1 DEF Deep
<1>3. k \in 1 .. Deep /\ k \in 1 .. Deep - 1 /\ k < Deep /\ k + 1 = Deep /\ k \in Nat
  BY <1>1, <1>2
<1>4. q \in AllRoute /\ RouteTo(k + 1) = Append(q, m)
  BY <1>3, RouteToFacts
<1>5. m \in Line
  BY <1>3, DirectiveAt
<1>6. Top'.next = m + 1
  <2>1. Top'.next = stack[k].next
    BY <1>1, <1>3 DEF Top
  <2>2. stack[k] \in Frame
    BY <1>1, <1>3, ElementOfSeq DEF Walking, IInv, TypeOK
  <2>3. stack[k].next \in Nat
    BY <2>2 DEF Frame
  <2>4. QED
    BY <2>1, <2>3
<1>7. \A j \in Nat : j = k => RouteTo(j)' = RouteTo(j)
  BY <1>1, SameRoute
<1>8. \A j \in Nat : j = Deep' => Here' = Append(RouteTo(j)', Top'.next)
  BY <1>1 DEF Here, RouteTo
<1>9. Here' = Append(q, m + 1)
  BY <1>2, <1>3, <1>6, <1>7, <1>8
<1>10. QED
  BY <1>3, <1>4, <1>5, <1>9

(* A step passes the routes it has dealt with, and no others.              *)
Goes == Enter \/ Include \/ Collect \/ Return

Onward == Walking /\ Clear /\ Walking' /\ UNCHANGED root

(* Enter passes the file opened,                                           *)
LEMMA EnterPasses ==
  Onward /\ Enter =>
    /\ Asking
    /\ \A r \in AllRoute :
         /\ P!Before(r, Here) => P!Before(r, Here')
         /\ P!Before(r, Here') /\ ~P!Before(r, Here) => P!Trouble(r)' = "none" /\ ~P!IsLeaf(r)'
<1> SUFFICES ASSUME Onward, Enter
             PROVE  /\ Asking
                    /\ \A r \in AllRoute :
                         /\ P!Before(r, Here) => P!Before(r, Here')
                         /\ P!Before(r, Here') /\ ~P!Before(r, Here) => P!Trouble(r)' = "none" /\ ~P!IsLeaf(r)'
  OBVIOUS
<1>1. PICK a : Asked(a) /\ a.kind = "text"
  BY EnterShape DEF Onward, Walking
<1>2. Walking' => Readable'
  BY WalkIsReadable, PTL
<1>3. Asking
  BY <1>1, <1>2 DEF Onward, Asking
<1>4. Here' = Append(Here, 1) /\ Here \in AllRoute
  BY EnterMoves, HereFacts DEF Onward
<1>5. \A r \in AllRoute : P!Before(r, Here') <=> P!Before(r, Here) \/ r = Here
  BY <1>4, FirstChild
<1>6. call.path \in Path /\ call.path # NONE /\ call.path \notin visited
  BY EnterShape, ConstantsAssumption DEF Onward, Walking, Call
<1>7. \A h : h = Here => P!Trouble(h)' = "none" /\ P!Reached(h)' # NONE
  BY <1>1, <1>3, <1>6, AnswerDecides
<1>8. Readable' => (\A r \in AllRoute : P!IsLeaf(r) => P!Reached(r) = NONE)'
  BY LeafEnds, PTL
<1>9. \A h \in AllRoute : h = Here => ~P!IsLeaf(h)'
  BY <1>2, <1>7, <1>8 DEF Onward
<1>10. QED
  BY <1>3, <1>5, <1>7, <1>9

(* Collect the entry collected,                                            *)
LEMMA CollectPasses ==
  Onward /\ Collect =>
    \A h : h = Here =>
      /\ h \in AllRoute /\ P!IsLeaf(h) /\ P!EntryAt(h) = Stamped(Top, Top.entries[Top.next])
      /\ P!Before(h, Here')
      /\ \A r \in AllRoute :
           /\ P!Before(r, Here) => P!Before(r, Here')
           /\ P!Before(r, Here') /\ ~P!Before(r, Here) => P!Trouble(r) = "none" /\ (P!IsLeaf(r) => r = h)
<1> SUFFICES ASSUME Onward, Collect, NEW h, h = Here
             PROVE  /\ h \in AllRoute /\ P!IsLeaf(h) /\ P!EntryAt(h) = Stamped(Top, Top.entries[Top.next])
                    /\ P!Before(h, Here')
                    /\ \A r \in AllRoute :
                         /\ P!Before(r, Here) => P!Before(r, Here')
                         /\ P!Before(r, Here') /\ ~P!Before(r, Here) => P!Trouble(r) = "none" /\ (P!IsLeaf(r) => r = h)
  OBVIOUS
<1>1. pc = "walk" /\ ~AtEnd(Top) /\ Top.entries[Top.next] \in PlainEntry /\ Walking
  BY CollectShape DEF Onward, Walking
<1>2. /\ h \in AllRoute /\ P!IsLeaf(h) /\ P!Reached(h) = NONE
      /\ P!EntryAt(h) = Stamped(Top, Top.entries[Top.next])
  BY <1>1, EntryIsLeaf
<1>3. h = Append(RouteTo(Deep), Top.next) /\ Top.next \in Line /\ RouteTo(Deep) \in AllRoute
  BY <1>1, HereFacts, TopAnswer
<1>4. Here' = Append(RouteTo(Deep), Top.next + 1)
  BY CollectMoves DEF Onward
<1>5. \A r \in AllRoute : P!Before(r, Here') <=> P!Before(r, h) \/ Extends(r, h)
  BY <1>3, <1>4, NextSibling
<1>6. Extends(h, h)
  BY <1>2, LenProperties DEF Extends, AllRoute
<1>7. \A r \in AllRoute : Extends(r, h) => P!Trouble(r) = "none" /\ (P!IsLeaf(r) => r = h)
  BY <1>1, <1>2, DeadExtensions, WalkIsReadable
<1>8. QED
  BY <1>2, <1>5, <1>6, <1>7

(* and Return nothing but routes that lead nowhere.                        *)
LEMMA ReturnPasses ==
  Onward /\ Return =>
    \A r \in AllRoute :
      /\ P!Before(r, Here) => P!Before(r, Here')
      /\ P!Before(r, Here') /\ ~P!Before(r, Here) => P!Trouble(r) = "none" /\ ~P!IsLeaf(r)
<1> SUFFICES ASSUME Onward, Return, NEW r \in AllRoute
             PROVE  /\ P!Before(r, Here) => P!Before(r, Here')
                    /\ P!Before(r, Here') /\ ~P!Before(r, Here) => P!Trouble(r) = "none" /\ ~P!IsLeaf(r)
  OBVIOUS
<1>1. pc = "walk" /\ AtEnd(Top) /\ Walking
  BY ReturnShape DEF Onward, Walking
<1>2. PICK q \in AllRoute, m \in Line : RouteTo(Deep) = Append(q, m) /\ Here' = Append(q, m + 1)
  BY ReturnMoves DEF Onward
<1>3. Here = Append(RouteTo(Deep), Top.next) /\ Top.next \in Line /\ RouteTo(Deep) \in AllRoute
  BY <1>1, HereFacts, TopAnswer
<1> DEFINE s == RouteTo(Deep)
<1>4. P!Before(r, Here') <=> P!Before(r, s) \/ Extends(r, s)
  BY <1>2, NextSibling
<1>5. P!Before(r, Here) => P!Before(r, s) \/ Extends(r, s)
  BY <1>3, BeforeAppend
<1>6. P!Before(r, s) => P!Before(r, Here)
  BY <1>3, BeforeAppend
<1>7. Extends(r, s) /\ ~P!Before(r, Here) => P!Trouble(r) = "none" /\ ~P!IsLeaf(r)
  BY <1>1, RestIsDead
<1>8. QED
  BY <1>4, <1>5, <1>6, <1>7

(* No step brings trouble to a route passed, or forgets an entry there.    *)
LEMMA Passing ==
  Onward /\ Goes =>
    \A r \in AllRoute :
      /\ P!Before(r, Here) =>
           /\ P!Before(r, Here')
           /\ P!Trouble(r)' = "none"
           /\ P!IsLeaf(r)' <=> P!IsLeaf(r)
           /\ P!IsLeaf(r) => P!EntryAt(r)' = P!EntryAt(r)
      /\ P!Before(r, Here') /\ ~P!Before(r, Here) =>
           P!Trouble(r)' = "none" /\ (P!IsLeaf(r)' => Collect /\ r = Here)
<1> SUFFICES ASSUME Onward, Goes, NEW r \in AllRoute
             PROVE  /\ P!Before(r, Here) =>
                         /\ P!Before(r, Here')
                         /\ P!Trouble(r)' = "none"
                         /\ P!IsLeaf(r)' <=> P!IsLeaf(r)
                         /\ P!IsLeaf(r) => P!EntryAt(r)' = P!EntryAt(r)
                    /\ P!Before(r, Here') /\ ~P!Before(r, Here) =>
                         P!Trouble(r)' = "none" /\ (P!IsLeaf(r)' => Collect /\ r = Here)
  OBVIOUS
<1>1. CASE Enter
  BY <1>1, EnterPasses, PassedStays
<1>2. CASE Include \/ Collect \/ Return
  <2>1. UNCHANGED <<root, disk>>
    BY <1>2, IncludeShape, CollectShape, ReturnShape DEF Onward, Walking
  <2>2. /\ P!Trouble(r)' = P!Trouble(r)
        /\ P!IsLeaf(r)' <=> P!IsLeaf(r)
        /\ P!EntryAt(r)' = P!EntryAt(r)
    BY <2>1, PromiseStays
  <2>3. P!Before(r, Here) => P!Trouble(r) = "none"
    BY DEF Onward, Clear
  <2>4. CASE Include
    <3>1. Here' = Here
      BY <2>4, IncludeMoves DEF Onward
    <3>2. QED
      BY <2>2, <2>3, <3>1
  <2>5. CASE Collect
    BY <2>2, <2>3, <2>5, CollectPasses
  <2>6. CASE Return
    BY <2>2, <2>3, <2>6, ReturnPasses
  <2>7. QED
    BY <1>2, <2>4, <2>5, <2>6
<1>3. QED
  BY <1>1, <1>2 DEF Goes

(* The walk starts before every route but the empty one.                   *)
LEMMA StartHere ==
  Begin /\ stack = <<>> => Here' = <<>>
<1> SUFFICES ASSUME Begin, stack = <<>> PROVE Here' = <<>>
  OBVIOUS
<1>1. pc' = "call" /\ stack' = <<>>
  BY DEF Begin
<1>2. Deep' = 1
  BY <1>1 DEF Deep
<1>3. Here' = [i \in 1 .. 0 |-> stack'[i].next - 1]
  BY <1>1, <1>2 DEF Here, RouteTo
<1>4. [i \in 1 .. 0 |-> stack'[i].next - 1] = <<>>
  OBVIOUS
<1>5. QED
  BY <1>3, <1>4

(* Clear is inductive.                                                     *)
LEMMA ClearNext ==
  IInv /\ Rooted /\ (Going => Open /\ Clear) /\ RNext /\ Going' => Clear'
<1> SUFFICES ASSUME IInv, Rooted, Going => Open /\ Clear, RNext, Going' PROVE Clear'
  OBVIOUS
<1>1. Walking' /\ root' = root
  BY WalkingNext DEF RNext
<1>2. CASE Begin /\ stack = <<>>
  <2>1. Here' = <<>>
    BY <1>2, StartHere
  <2>2. \A r : ~P!Before(r, Here')
    BY <2>1 DEF P!Before
  <2>3. QED
    BY <2>2 DEF Clear
<1>3. CASE Going /\ Goes
  <2>1. Onward
    BY <1>1, <1>3 DEF Onward, Walking
  <2>2. QED
    BY <1>3, <2>1, Passing DEF Clear
<1>4. QED
  BY <1>2, <1>3, OnlyThese DEF Goes

(* The entries passed, in the order of their routes.                       *)
InOrder(log) ==
  /\ log \in Seq(Routes)
  /\ \A r \in AllRoute :
       (\E i \in 1 .. Len(log) : log[i] = r) <=> P!Before(r, Here) /\ P!IsLeaf(r)
  /\ \A i, j \in 1 .. Len(log) : i < j => P!Before(log[i], log[j])

(* What the activations gathered are consecutive shares of them.           *)
Shared(log, starts) ==
  /\ starts \in [1 .. Len(stack) + 1 -> 0 .. Len(log)]
  /\ starts[1] = 0 /\ starts[Len(stack) + 1] = Len(log)
  /\ \A i \in 1 .. Len(stack) :
       /\ starts[i + 1] = starts[i] + Len(stack[i].out)
       /\ \A j \in 1 .. Len(stack[i].out) : stack[i].out[j] = P!EntryAt(log[starts[i] + j])

Gathered == \E log, starts : InOrder(log) /\ Shared(log, starts)

(* The routes the promise looks at reach as far as the walk does.          *)
WithinRoutes == Going /\ (pc = "walk" => ~AtEnd(Top)) => Here \in Routes

(* The log of entries grows by the one Collect adds.                       *)
LEMMA InOrderNext ==
  Onward /\ Goes /\ WithinRoutes /\ Routes \subseteq AllRoute =>
    \A log : InOrder(log) =>
      /\ ~Collect => InOrder(log)'
      /\ \A h : Collect /\ h = Here => InOrder(Append(log, h))'
<1> SUFFICES ASSUME Onward, Goes, WithinRoutes, Routes \subseteq AllRoute, NEW log, InOrder(log)
             PROVE  /\ ~Collect => InOrder(log)'
                    /\ \A h : Collect /\ h = Here => InOrder(Append(log, h))'
  OBVIOUS
<1>1. ASSUME ~Collect PROVE InOrder(log)'
  <2>1. ASSUME NEW r \in AllRoute
        PROVE  P!Before(r, Here') /\ P!IsLeaf(r)' <=> P!Before(r, Here) /\ P!IsLeaf(r)
    BY <1>1, Passing
  <2>2. QED
    BY <2>1 DEF InOrder
<1>2. ASSUME Collect, NEW h, h = Here PROVE InOrder(Append(log, h))'
  <2> DEFINE new == Append(log, h)
  <2>1. h \in AllRoute /\ P!IsLeaf(h) /\ P!Before(h, Here')
    BY <1>2, CollectPasses
  <2>2. h \in Routes
    BY <1>2, CollectShape DEF WithinRoutes, Onward, Walking
  <2>3. log \in Seq(Routes) /\ Len(log) \in Nat
    BY LenProperties DEF InOrder
  <2>4. /\ new \in Seq(Routes) /\ Len(new) = Len(log) + 1 /\ new[Len(log) + 1] = h
        /\ \A i \in 1 .. Len(log) : new[i] = log[i]
    BY <2>2, <2>3, AppendProperties
  <2>5. \A i \in 1 .. Len(log) : log[i] \in AllRoute /\ P!Before(log[i], h)
    <3>1. \A i \in 1 .. Len(log) : log[i] \in AllRoute
      BY <2>3, ElementOfSeq
    <3>2. QED
      BY <1>2, <3>1 DEF InOrder
  <2> HIDE DEF new
  <2>6. ASSUME NEW r \in AllRoute
        PROVE  (\E i \in 1 .. Len(new) : new[i] = r) <=> P!Before(r, Here') /\ P!IsLeaf(r)'
    <3>1. (\E i \in 1 .. Len(new) : new[i] = r) <=> (\E i \in 1 .. Len(log) : log[i] = r) \/ r = h
      BY <2>3, <2>4
    <3>2. (\E i \in 1 .. Len(log) : log[i] = r) <=> P!Before(r, Here) /\ P!IsLeaf(r)
      BY DEF InOrder
    <3>3. P!IsLeaf(h)'
      <4>1. UNCHANGED <<root, disk>>
        BY <1>2, CollectShape DEF Onward, Walking
      <4>2. QED
        BY <2>1, <4>1, PromiseStays
    <3>4. CASE r = h
      BY <2>1, <3>1, <3>3, <3>4
    <3>5. CASE r # h
      BY <1>2, <3>1, <3>2, <3>5, Passing
    <3>6. QED
      BY <3>4, <3>5
  <2>7. ASSUME NEW i \in 1 .. Len(new), NEW j \in 1 .. Len(new), i < j
        PROVE  P!Before(new[i], new[j])
    <3>1. CASE j = Len(log) + 1
      <4>1. i \in 1 .. Len(log)
        BY <2>3, <2>4, <2>7, <3>1
      <4>2. QED
        BY <2>4, <2>5, <3>1, <4>1
    <3>2. CASE j # Len(log) + 1
      <4>1. i \in 1 .. Len(log) /\ j \in 1 .. Len(log)
        BY <2>3, <2>4, <2>7, <3>2
      <4>2. QED
        BY <2>4, <2>7, <4>1 DEF InOrder
    <3>3. QED
      BY <3>1, <3>2
  <2>8. InOrder(new)'
    BY <2>4, <2>6, <2>7 DEF InOrder
  <2>9. QED
    BY <2>8 DEF new
<1>3. QED
  BY <1>1, <1>2

(* What was gathered before a step is still what the routes passed say.    *)
LEMMA EntriesStay ==
  Onward /\ Goes /\ Routes \subseteq AllRoute =>
    \A log : InOrder(log) =>
      \A k \in 1 .. Len(log) : P!EntryAt(log[k])' = P!EntryAt(log[k])
<1> SUFFICES ASSUME Onward, Goes, Routes \subseteq AllRoute, NEW log, InOrder(log), NEW k \in 1 .. Len(log)
             PROVE  P!EntryAt(log[k])' = P!EntryAt(log[k])
  OBVIOUS
<1>1. log[k] \in AllRoute
  BY ElementOfSeq DEF InOrder
<1>2. P!Before(log[k], Here) /\ P!IsLeaf(log[k])
  BY <1>1 DEF InOrder
<1>3. QED
  BY <1>1, <1>2, Passing

(* What activations gathered are sequences.                                *)
LEMMA OutType ==
  IInv => \A i \in 1 .. Len(stack) : stack[i].out \in Seq(Collected) /\ Len(stack[i].out) \in Nat
<1> SUFFICES ASSUME IInv, NEW i \in 1 .. Len(stack)
             PROVE  stack[i].out \in Seq(Collected) /\ Len(stack[i].out) \in Nat
  OBVIOUS
<1>1. stack[i] \in Frame
  BY ElementOfSeq DEF IInv, TypeOK
<1>2. stack[i].out \in Seq(Collected)
  BY <1>1 DEF Frame
<1>3. QED
  BY <1>2, LenProperties

(* The shares of the activations lie within the log.                       *)
Shares(log, starts) ==
  /\ Len(stack) \in Nat /\ Len(log) \in Nat
  /\ \A i \in 1 .. Len(stack) + 1 : starts[i] \in Nat /\ starts[i] <= Len(log)
  /\ \A i \in 1 .. Len(stack) :
       /\ starts[i + 1] \in Nat /\ starts[i + 1] <= Len(log)
       /\ starts[i + 1] = starts[i] + Len(stack[i].out)
       /\ stack[i].out \in Seq(Collected) /\ Len(stack[i].out) \in Nat
       /\ \A j \in 1 .. Len(stack[i].out) :
            starts[i] + j \in 1 .. Len(log) /\ stack[i].out[j] = P!EntryAt(log[starts[i] + j])

LEMMA SharedFacts ==
  IInv => \A log, starts : InOrder(log) /\ Shared(log, starts) => Shares(log, starts)
<1> SUFFICES ASSUME IInv, NEW log, NEW starts, InOrder(log), Shared(log, starts)
             PROVE  Shares(log, starts)
  OBVIOUS
<1>1. Len(stack) \in Nat /\ Len(log) \in Nat
  BY LenProperties DEF IInv, TypeOK, InOrder
<1>2. \A i \in 1 .. Len(stack) + 1 : starts[i] \in Nat /\ starts[i] <= Len(log)
  BY <1>1 DEF Shared
<1>3. \A i \in 1 .. Len(stack) : i + 1 \in 1 .. Len(stack) + 1 /\ i \in 1 .. Len(stack) + 1
  BY <1>1
<1>4. ASSUME NEW i \in 1 .. Len(stack)
      PROVE  /\ starts[i + 1] \in Nat /\ starts[i + 1] <= Len(log)
             /\ starts[i + 1] = starts[i] + Len(stack[i].out)
             /\ stack[i].out \in Seq(Collected) /\ Len(stack[i].out) \in Nat
             /\ \A j \in 1 .. Len(stack[i].out) :
                  starts[i] + j \in 1 .. Len(log) /\ stack[i].out[j] = P!EntryAt(log[starts[i] + j])
  <2>1. /\ starts[i + 1] \in Nat /\ starts[i + 1] <= Len(log) /\ starts[i] \in Nat
        /\ stack[i].out \in Seq(Collected) /\ Len(stack[i].out) \in Nat
    BY <1>2, <1>3, OutType
  <2>2. /\ starts[i + 1] = starts[i] + Len(stack[i].out)
        /\ \A j \in 1 .. Len(stack[i].out) : stack[i].out[j] = P!EntryAt(log[starts[i] + j])
    BY DEF Shared
  <2>3. \A j \in 1 .. Len(stack[i].out) : starts[i] + j \in 1 .. Len(log)
    BY SMTT(60), <1>1, <2>1, <2>2
  <2>4. QED
    BY <2>1, <2>2, <2>3
<1>5. QED
  BY <1>1, <1>2, <1>4 DEF Shares

(* Enter opens an empty share,                                             *)
LEMMA SharedEnter ==
  Onward /\ Enter /\ Routes \subseteq AllRoute =>
    \A log, starts : InOrder(log) /\ Shared(log, starts) => \E new : Shared(log, new)'
<1> SUFFICES ASSUME Onward, Enter, Routes \subseteq AllRoute,
                    NEW log, NEW starts, InOrder(log), Shared(log, starts)
             PROVE  \E new : Shared(log, new)'
  OBVIOUS
<1> DEFINE L == Len(stack)
<1>0. PICK new : new = [i \in 1 .. L + 2 |-> IF i = L + 2 THEN Len(log) ELSE starts[i]]
  OBVIOUS
<1>1. PICK a : stack'[L + 1] = [path |-> call.path, constraint |-> call.constraint,
                                entries |-> a.entries, next |-> 1, out |-> <<>>]
  BY EnterShape DEF Onward, Walking
<1>2. L \in Nat /\ Len(stack') = L + 1 /\ \A i \in 1 .. L : stack'[i] = stack[i]
  BY EnterShape DEF Onward, Walking
<1>3. stack'[L + 1].out = <<>> /\ Len(stack'[L + 1].out) = 0
  BY <1>1
<1>4. /\ Len(log) \in Nat
      /\ \A i \in 1 .. L + 1 : starts[i] \in Nat /\ starts[i] <= Len(log)
      /\ \A i \in 1 .. L :
           /\ starts[i + 1] = starts[i] + Len(stack[i].out)
           /\ \A j \in 1 .. Len(stack[i].out) :
                starts[i] + j \in 1 .. Len(log) /\ stack[i].out[j] = P!EntryAt(log[starts[i] + j])
  <2>1. Shares(log, starts)
    BY SharedFacts DEF Onward, Walking
  <2>2. QED
    BY <2>1 DEF Shares
<1>5. \A k \in 1 .. Len(log) : P!EntryAt(log[k])' = P!EntryAt(log[k])
  BY EntriesStay DEF Goes
<1>6. starts[1] = 0 /\ starts[L + 1] = Len(log)
  BY DEF Shared
<1>7. /\ \A i \in 1 .. L + 1 : new[i] = starts[i]
      /\ new[L + 2] = Len(log)
      /\ new \in [1 .. L + 2 -> 0 .. Len(log)]
  <2>1. \A i \in 1 .. L + 1 : i \in 1 .. L + 2 /\ i # L + 2
    BY <1>2
  <2>2. L + 2 \in 1 .. L + 2 /\ \A i \in 1 .. L + 2 : i # L + 2 => i \in 1 .. L + 1
    BY <1>2
  <2>3. \A i \in 1 .. L + 1 : new[i] = starts[i]
    BY <1>0, <2>1
  <2>4. new[L + 2] = Len(log)
    BY <1>0, <2>2
  <2>5. \A i \in 1 .. L + 2 : (IF i = L + 2 THEN Len(log) ELSE starts[i]) \in 0 .. Len(log)
    BY <1>4, <2>2
  <2>6. QED
    BY <1>0, <2>3, <2>4, <2>5
<1>8. new[1] = 0
  BY <1>2, <1>6, <1>7
<1>9. ASSUME NEW i \in 1 .. L + 1
      PROVE  /\ new[i + 1] = new[i] + Len(stack'[i].out)
             /\ \A j \in 1 .. Len(stack'[i].out) : stack'[i].out[j] = P!EntryAt(log[new[i] + j])'
  <2>1. CASE i = L + 1
    <3>1. new[i] = Len(log) /\ i + 1 = L + 2
      BY <1>2, <1>6, <1>7, <2>1
    <3>2. QED
      BY <1>3, <1>4, <1>7, <2>1, <3>1
  <2>2. CASE i \in 1 .. L
    <3>1. /\ new[i] = starts[i] /\ new[i + 1] = starts[i + 1] /\ stack'[i] = stack[i]
      BY <1>2, <1>7, <2>2
    <3>2. ASSUME NEW j \in 1 .. Len(stack'[i].out)
          PROVE  stack'[i].out[j] = P!EntryAt(log[new[i] + j])'
      BY SMTT(60), <1>4, <1>5, <2>2, <3>1
    <3>3. QED
      BY <1>4, <2>2, <3>1, <3>2
  <2>3. QED
    BY <1>2, <2>1, <2>2
<1>10. Shared(log, new)'
  <2>1. 1 .. L + 2 = 1 .. Len(stack') + 1 /\ Len(stack') + 1 = L + 2
    BY <1>2
  <2>2. QED
    BY <1>2, <1>7, <1>8, <1>9, <2>1 DEF Shared
<1>11. QED
  BY <1>10

(* Include leaves the shares alone,                                        *)
LEMMA SharedInclude ==
  Onward /\ Include /\ Routes \subseteq AllRoute =>
    \A log, starts : InOrder(log) /\ Shared(log, starts) => Shared(log, starts)'
<1> SUFFICES ASSUME Onward, Include, Routes \subseteq AllRoute,
                    NEW log, NEW starts, InOrder(log), Shared(log, starts)
             PROVE  Shared(log, starts)'
  OBVIOUS
<1>1. /\ Len(stack') = Len(stack)
      /\ \A i \in 1 .. Len(stack) : stack'[i].out = stack[i].out
      /\ UNCHANGED <<root, disk>>
  BY IncludeShape DEF Onward, Walking
<1>2. \A r : P!EntryAt(r)' = P!EntryAt(r)
  BY <1>1, PromiseStays
<1>3. QED
  BY ZenonT(60), <1>1, <1>2 DEF Shared

(* Collect puts one entry into the last share,                             *)
LEMMA SharedCollect ==
  Onward /\ Collect /\ Routes \subseteq AllRoute =>
    \A log, starts, h : InOrder(log) /\ Shared(log, starts) /\ h = Here
      => \E new : Shared(Append(log, h), new)'
<1> SUFFICES ASSUME Onward, Collect, Routes \subseteq AllRoute,
                    NEW log, NEW starts, NEW h, InOrder(log), Shared(log, starts), h = Here
             PROVE  \E new : Shared(Append(log, h), new)'
  OBVIOUS
<1> DEFINE L == Len(stack)
           long == Append(log, h)
           e == Stamped(Top, Top.entries[Top.next])
<1>0. PICK new : new = [i \in 1 .. L + 1 |-> IF i = L + 1 THEN Len(log) + 1 ELSE starts[i]]
  OBVIOUS
<1>1. /\ L \in Nat \ {0} /\ Len(stack') = L
      /\ \A i \in 1 .. L : stack'[i].out = IF i = L THEN Append(stack[i].out, e) ELSE stack[i].out
      /\ UNCHANGED <<root, disk>>
      /\ Top \in Frame /\ Top.entries[Top.next] \in PlainEntry
  BY CollectShape DEF Onward, Walking, Top
<1>2. \A r : P!EntryAt(r)' = P!EntryAt(r)
  BY <1>1, PromiseStays
<1>3. P!EntryAt(h) = e /\ h \in AllRoute
  BY CollectPasses
<1>4. /\ Len(log) \in Nat
      /\ \A i \in 1 .. L + 1 : starts[i] \in Nat /\ starts[i] <= Len(log)
      /\ \A i \in 1 .. L :
           /\ starts[i + 1] = starts[i] + Len(stack[i].out)
           /\ stack[i].out \in Seq(Collected) /\ Len(stack[i].out) \in Nat
           /\ \A j \in 1 .. Len(stack[i].out) :
                starts[i] + j \in 1 .. Len(log) /\ stack[i].out[j] = P!EntryAt(log[starts[i] + j])
  <2>1. Shares(log, starts)
    BY SharedFacts DEF Onward, Walking
  <2>2. QED
    BY <2>1 DEF Shares
<1>5. Len(long) = Len(log) + 1 /\ long[Len(log) + 1] = h /\ \A k \in 1 .. Len(log) : long[k] = log[k]
  <2> DEFINE S == Routes \cup {h}
  <2>1. log \in Seq(Routes) /\ \A i \in 1 .. Len(log) : log[i] \in S
    BY ElementOfSeq DEF InOrder
  <2>2. log \in Seq(S)
    BY <2>1, LenProperties, IsASeq
  <2>3. h \in S
    OBVIOUS
  <2> HIDE DEF S
  <2>4. QED
    BY <2>2, <2>3, AppendProperties
<1>6. starts[1] = 0 /\ starts[L + 1] = Len(log)
  BY DEF Shared
<1>7. /\ \A i \in 1 .. L : new[i] = starts[i]
      /\ new[L + 1] = Len(log) + 1
      /\ new \in [1 .. L + 1 -> 0 .. Len(log) + 1]
  <2>1. \A i \in 1 .. L : i \in 1 .. L + 1 /\ i # L + 1
    BY <1>1
  <2>2. L + 1 \in 1 .. L + 1
    BY <1>1
  <2>3. \A i \in 1 .. L + 1 : (IF i = L + 1 THEN Len(log) + 1 ELSE starts[i]) \in 0 .. Len(log) + 1
    BY <1>4
  <2>4. QED
    BY <1>0, <2>1, <2>2, <2>3
<1>8. new[1] = 0
  BY <1>1, <1>6, <1>7
<1>9. e \in Collected
  <2>1. Top.path \in Path /\ Top.next \in Nat \ {0} /\ Top.constraint \in BOOLEAN
    BY <1>1 DEF Frame
  <2>2. QED
    BY <1>1, <2>1 DEF Stamped, Collected, PlainEntry
<1> HIDE DEF long, e
<1>10. ASSUME NEW i \in 1 .. L
       PROVE  /\ new[i + 1] = new[i] + Len(stack'[i].out)
              /\ \A j \in 1 .. Len(stack'[i].out) : stack'[i].out[j] = P!EntryAt(long[new[i] + j])'
  <2>1. \A j \in 1 .. Len(stack[i].out) :
          stack[i].out[j] = P!EntryAt(long[new[i] + j])
    <3>1. SUFFICES ASSUME NEW j \in 1 .. Len(stack[i].out)
                   PROVE  stack[i].out[j] = P!EntryAt(long[new[i] + j])
      OBVIOUS
    <3>2. starts[i] + j \in 1 .. Len(log) /\ stack[i].out[j] = P!EntryAt(log[starts[i] + j])
      BY <1>4
    <3>3. long[new[i] + j] = log[starts[i] + j]
      BY <1>5, <1>7, <3>2
    <3>4. QED
      BY <3>2, <3>3
  <2>2. /\ starts[i + 1] = starts[i] + Len(stack[i].out) /\ new[i] = starts[i] /\ starts[i] \in Nat
        /\ stack[i].out \in Seq(Collected) /\ Len(stack[i].out) \in Nat
    <3>1. i \in 1 .. L + 1
      BY <1>1
    <3>2. starts[i] \in Nat
      BY <1>4, <3>1
    <3>3. QED
      BY <1>4, <1>7, <3>2
  <2>3. CASE i = L
    <3> DEFINE o == stack[i].out
    <3>1. /\ Len(Append(o, e)) = Len(o) + 1
          /\ Append(o, e)[Len(o) + 1] = e
          /\ \A j \in 1 .. Len(o) : Append(o, e)[j] = o[j]
      BY <1>9, <2>2, AppendProperties
    <3>2. stack'[i].out = Append(o, e)
      BY <1>1, <2>3
    <3>3. new[i + 1] = new[i] + Len(stack'[i].out)
      <4>1. new[i + 1] = Len(log) + 1 /\ starts[i + 1] = Len(log)
        BY <1>6, <1>7, <2>3
      <4>2. Len(stack'[i].out) = Len(o) + 1
        BY <3>1, <3>2
      <4>3. starts[i + 1] = new[i] + Len(o) /\ new[i] \in Nat /\ Len(o) \in Nat
        BY <2>2
      <4> HIDE DEF o
      <4>4. QED
        BY SMTT(60), <4>1, <4>2, <4>3
    <3>4. new[i] + (Len(o) + 1) = Len(log) + 1
      BY SMTT(60), <1>4, <1>6, <2>2, <2>3
    <3>5. e = P!EntryAt(long[new[i] + (Len(o) + 1)])
      BY <1>3, <1>5, <3>4
    <3>6. ASSUME NEW j \in 1 .. Len(stack'[i].out)
          PROVE  stack'[i].out[j] = P!EntryAt(long[new[i] + j])
      <4>1. j = Len(o) + 1 \/ j \in 1 .. Len(o)
        BY <2>2, <3>1, <3>2
      <4>2. QED
        BY <2>1, <3>1, <3>2, <3>5, <4>1
    <3>7. \A r : r = long => \A j \in 1 .. Len(stack'[i].out) : stack'[i].out[j] = P!EntryAt(r[new[i] + j])'
      BY <1>2, <3>6
    <3>8. QED
      BY <3>3, <3>7 DEF long
  <2>4. CASE i # L
    <3>1. stack'[i].out = stack[i].out /\ i + 1 \in 1 .. L /\ new[i + 1] = starts[i + 1]
      BY <1>1, <1>7, <2>4
    <3>2. \A r : r = long => \A j \in 1 .. Len(stack'[i].out) : stack'[i].out[j] = P!EntryAt(r[new[i] + j])'
      BY <1>2, <2>1, <3>1
    <3>3. QED
      BY <2>2, <3>1, <3>2 DEF long
  <2>5. QED
    BY <2>3, <2>4
<1>11. Shared(long, new)'
  <2>1. 1 .. L + 1 = 1 .. Len(stack') + 1 /\ Len(stack') + 1 = L + 1
    BY <1>1
  <2>2. QED
    BY <1>1, <1>5, <1>7, <1>8, <1>10, <2>1 DEF Shared, long
<1>12. QED
  BY <1>11 DEF long

(* and Return merges the last two.                                         *)
LEMMA SharedReturn ==
  Onward /\ Return /\ Routes \subseteq AllRoute =>
    \A log, starts : InOrder(log) /\ Shared(log, starts) => \E new : Shared(log, new)'
<1> SUFFICES ASSUME Onward, Return, Routes \subseteq AllRoute,
                    NEW log, NEW starts, InOrder(log), Shared(log, starts)
             PROVE  \E new : Shared(log, new)'
  OBVIOUS
<1> DEFINE L == Len(stack)
<1>0. PICK new : new = [i \in 1 .. L |-> IF i = L THEN Len(log) ELSE starts[i]]
  OBVIOUS
<1>1. /\ L \in Nat /\ L > 1 /\ Len(stack') = L - 1 /\ L \in 1 .. L
      /\ \A i \in 1 .. L - 1 : stack'[i].out = IF i = L - 1 THEN stack[i].out \o stack[L].out ELSE stack[i].out
      /\ UNCHANGED <<root, disk>>
  BY ReturnShape DEF Onward, Walking, Top
<1>2. \A r : P!EntryAt(r)' = P!EntryAt(r)
  BY <1>1, PromiseStays
<1>3. /\ Len(log) \in Nat
      /\ \A i \in 1 .. L + 1 : starts[i] \in Nat /\ starts[i] <= Len(log)
      /\ \A i \in 1 .. L :
           /\ starts[i + 1] = starts[i] + Len(stack[i].out)
           /\ stack[i].out \in Seq(Collected) /\ Len(stack[i].out) \in Nat
           /\ \A j \in 1 .. Len(stack[i].out) : stack[i].out[j] = P!EntryAt(log[starts[i] + j])
  <2>1. Shares(log, starts)
    BY SharedFacts DEF Onward, Walking
  <2>2. QED
    BY <2>1 DEF Shares
<1>4. starts[1] = 0 /\ starts[L + 1] = Len(log)
  BY DEF Shared
<1>5. /\ \A i \in 1 .. L - 1 : new[i] = starts[i]
      /\ new[L] = Len(log)
      /\ new \in [1 .. L -> 0 .. Len(log)]
  <2>1. \A i \in 1 .. L - 1 : i \in 1 .. L /\ i # L
    BY <1>1
  <2>2. \A i \in 1 .. L : i \in 1 .. L + 1
    BY <1>1
  <2>3. \A i \in 1 .. L : (IF i = L THEN Len(log) ELSE starts[i]) \in 0 .. Len(log)
    BY <1>3, <2>2
  <2>4. QED
    BY <1>0, <1>1, <2>1, <2>3
<1>6. new[1] = 0
  BY <1>1, <1>4, <1>5
<1>7. ASSUME NEW i \in 1 .. L - 1
      PROVE  /\ new[i + 1] = new[i] + Len(stack'[i].out)
             /\ \A j \in 1 .. Len(stack'[i].out) : stack'[i].out[j] = P!EntryAt(log[new[i] + j])'
  <2>0. i \in 1 .. L /\ new[i] = starts[i]
    BY <1>1, <1>5
  <2>1. CASE i = L - 1
    <3> DEFINE u == stack[i].out
               v == stack[L].out
    <3>1. i + 1 = L
      BY <1>1, <2>1
    <3>2. /\ u \in Seq(Collected) /\ Len(u) \in Nat
          /\ starts[i + 1] = starts[i] + Len(u) /\ starts[i] \in Nat
          /\ \A j \in 1 .. Len(u) : u[j] = P!EntryAt(log[starts[i] + j])
      <4>1. i \in 1 .. L + 1
        BY <1>1, <2>0
      <4>2. starts[i] \in Nat
        BY <1>3, <4>1, Zenon
      <4>3. /\ stack[i].out \in Seq(Collected) /\ Len(stack[i].out) \in Nat
            /\ starts[i + 1] = starts[i] + Len(stack[i].out)
            /\ \A j \in 1 .. Len(stack[i].out) : stack[i].out[j] = P!EntryAt(log[starts[i] + j])
        BY <1>3, <2>0, Zenon
      <4>4. QED
        BY <4>2, <4>3
    <3>3. /\ v \in Seq(Collected) /\ Len(v) \in Nat
          /\ starts[L + 1] = starts[L] + Len(v)
          /\ \A j \in 1 .. Len(v) : v[j] = P!EntryAt(log[starts[L] + j])
      BY <1>1, <1>3
    <3>4. stack'[i].out = u \o v
      BY <1>1, <2>1
    <3> HIDE DEF u, v
    <3>5. /\ Len(u \o v) = Len(u) + Len(v)
          /\ \A j \in 1 .. Len(u) + Len(v) : (u \o v)[j] = IF j <= Len(u) THEN u[j] ELSE v[j - Len(u)]
      BY <3>2, <3>3, ConcatProperties
    <3>6. new[i + 1] = new[i] + Len(stack'[i].out)
      BY SMTT(60), <1>3, <1>4, <1>5, <2>0, <3>1, <3>2, <3>3, <3>4, <3>5
    <3>7. ASSUME NEW j \in 1 .. Len(u) + Len(v)
          PROVE  (u \o v)[j] = P!EntryAt(log[new[i] + j])
      <4>1. CASE j <= Len(u)
        <5>1. j \in 1 .. Len(u)
          BY <3>2, <3>3, <4>1
        <5>2. QED
          BY <2>0, <3>2, <3>5, <4>1, <5>1
      <4>2. CASE ~(j <= Len(u))
        <5>1. j - Len(u) \in 1 .. Len(v) /\ starts[L] + (j - Len(u)) = new[i] + j
          <6>1. starts[L] = starts[i] + Len(u)
            BY <3>1, <3>2
          <6>2. j - Len(u) \in 1 .. Len(v)
            BY <3>2, <3>3, <4>2
          <6>3. starts[i] + Len(u) + (j - Len(u)) = starts[i] + j
            BY <3>2
          <6>4. QED
            BY <2>0, <6>1, <6>2, <6>3
        <5>2. QED
          BY <3>3, <3>5, <4>2, <5>1
      <4>3. QED
        BY <4>1, <4>2
    <3>8. \A j \in 1 .. Len(stack'[i].out) : stack'[i].out[j] = P!EntryAt(log[new[i] + j])'
      BY <1>2, <3>4, <3>5, <3>7
    <3>9. QED
      BY <3>6, <3>8
  <2>2. CASE i # L - 1
    <3>1. i + 1 \in 1 .. L - 1 /\ stack'[i].out = stack[i].out /\ new[i + 1] = starts[i + 1]
      BY <1>1, <1>5, <2>2
    <3>2. \A j \in 1 .. Len(stack'[i].out) : stack'[i].out[j] = P!EntryAt(log[new[i] + j])'
      BY <1>2, <1>3, <2>0, <3>1
    <3>3. QED
      BY <1>3, <2>0, <3>1, <3>2
  <2>3. QED
    BY <2>1, <2>2
<1>8. Shared(log, new)'
  <2>1. 1 .. L = 1 .. Len(stack') + 1 /\ Len(stack') + 1 = L
    BY <1>1
  <2>2. QED
    BY <1>1, <1>5, <1>6, <1>7, <2>1 DEF Shared
<1>9. QED
  BY <1>8

(* The log of the entries passed survives every step.                      *)
LEMMA GatheredNext ==
  /\ IInv /\ Rooted /\ (Going => Open /\ Clear /\ Gathered)
  /\ WithinRoutes /\ Routes \subseteq AllRoute /\ RNext /\ Going'
  => Gathered'
<1> SUFFICES ASSUME IInv, Rooted, Going => Open /\ Clear /\ Gathered,
                    WithinRoutes, Routes \subseteq AllRoute, RNext, Going'
             PROVE  Gathered'
  OBVIOUS
<1>1. Walking' /\ root' = root
  BY WalkingNext DEF RNext
<1>2. CASE Begin /\ stack = <<>>
  <2>1. Here' = <<>>
    BY <1>2, StartHere
  <2>2. \A r : ~P!Before(r, Here')
    BY <2>1 DEF P!Before
  <2>3. stack' = <<>> /\ Len(stack') = 0
    BY <1>2 DEF Begin
  <2>4. InOrder(<<>>)'
    <3>1. <<>> \in Seq(Routes) /\ Len(<<>>) = 0
      BY EmptySeq
    <3>2. QED
      BY <2>2, <3>1 DEF InOrder
  <2>5. Shared(<<>>, [i \in 1 .. 1 |-> 0])'
    BY <2>3 DEF Shared
  <2>6. QED
    BY <2>4, <2>5 DEF Gathered
<1>3. CASE Going /\ Goes
  <2>1. Onward
    BY <1>1, <1>3 DEF Onward, Walking
  <2>2. PICK log, starts : InOrder(log) /\ Shared(log, starts)
    BY <1>3 DEF Gathered
  <2>3. CASE Enter
    <3>1. InOrder(log)'
      <4>1. ~Collect
        BY <2>3 DEF Enter, Collect
      <4>2. QED
        BY <1>3, <2>1, <2>2, <4>1, InOrderNext
    <3>2. PICK new : Shared(log, new)'
      BY <2>1, <2>2, <2>3, SharedEnter
    <3>3. QED
      BY <3>1, <3>2 DEF Gathered
  <2>4. CASE Include
    <3>1. InOrder(log)'
      <4>1. ~Collect
        BY <2>4 DEF Include, Collect
      <4>2. QED
        BY <1>3, <2>1, <2>2, <4>1, InOrderNext
    <3>2. Shared(log, starts)'
      BY <2>1, <2>2, <2>4, SharedInclude
    <3>3. QED
      BY <3>1, <3>2 DEF Gathered
  <2>5. CASE Collect
    <3>0. PICK h : h = Here
      OBVIOUS
    <3>1. InOrder(Append(log, h))'
      BY <1>3, <2>1, <2>2, <2>5, <3>0, InOrderNext
    <3>2. PICK new : Shared(Append(log, h), new)'
      BY <2>1, <2>2, <2>5, <3>0, SharedCollect
    <3>3. QED
      BY <3>1, <3>2 DEF Gathered
  <2>6. CASE Return
    <3>1. InOrder(log)'
      <4>1. ~Collect
        BY <2>6 DEF Return, Collect
      <4>2. QED
        BY <1>3, <2>1, <2>2, <4>1, InOrderNext
    <3>2. PICK new : Shared(log, new)'
      BY <2>1, <2>2, <2>6, SharedReturn
    <3>3. QED
      BY <3>1, <3>2 DEF Gathered
  <2>7. QED
    BY <1>3, <2>3, <2>4, <2>5, <2>6 DEF Goes
<1>4. QED
  BY <1>2, <1>3, OnlyThese DEF Goes

(***************************************************************************)
(* The answers                                                             *)
(***************************************************************************)
(* The error a failed walk unwinds with is the promised one.               *)
Foretold ==
  pc = "unwind" =>
    /\ opener = "nil" => err = [kind |-> "nil_open", path |-> NONE]
    /\ opener = "stable" =>
         \E h \in Routes :
           /\ P!Trouble(h) = err.kind /\ P!Reached(h) = err.path
           /\ \A r \in AllRoute : P!Before(r, h) => P!Trouble(r) = "none"

(* An error is the first trouble there is.                                 *)
LEMMA FailForetold ==
  /\ IInv /\ Rooted /\ (Going => Open /\ Clear)
  /\ WithinRoutes /\ UNCHANGED root
  /\ RecursiveInclude \/ OpenFails \/ ParseFails
  => Foretold'
<1> SUFFICES ASSUME IInv, Rooted, Going => Open /\ Clear, WithinRoutes, UNCHANGED root,
                    RecursiveInclude \/ OpenFails \/ ParseFails
             PROVE  Foretold'
  OBVIOUS
<1>1. pc = "call" /\ opener' = opener /\ opener # "nil"
  BY DEF RecursiveInclude, OpenFails, ParseFails, Rooted
<1> SUFFICES ASSUME opener = "stable"
             PROVE  \E h \in Routes :
                      /\ P!Trouble(h)' = err'.kind /\ P!Reached(h)' = err'.path
                      /\ \A r \in AllRoute : P!Before(r, h) => P!Trouble(r)' = "none"
  BY <1>1 DEF Foretold
<1>2. Walking /\ Clear
  BY <1>1 DEF Walking, Going
<1>3. PICK h : h = Here
  OBVIOUS
<1>4. h \in Routes
  BY <1>1, <1>2, <1>3 DEF WithinRoutes, Walking
<1>5. h = RouteTo(Deep) /\ Deep = Len(stack) + 1 /\ Deep \in 1 .. Deep /\ PathAt(Deep) = call.path
      /\ call.path \in Path /\ Len(stack) \in Nat
  BY <1>1, <1>2, <1>3, HereFacts
<1>6. CASE RecursiveInclude
  <2>1. call.path \in visited /\ UNCHANGED <<root, disk>>
    BY <1>6 DEF RecursiveInclude
  <2>2. P!Reached(h) = call.path
    BY <1>2, <1>5, RouteReaches
  <2>3. {P!Reached(q) : q \in P!ProperPrefixes(h)} = visited
    <3>1. {P!Reached(q) : q \in P!ProperPrefixes(h)} = {stack[k].path : k \in 1 .. Deep - 1}
      BY <1>2, <1>5, VisitedIsReached
    <3>2. Deep - 1 = Len(stack)
      BY <1>5
    <3>3. QED
      BY <3>1, <3>2 DEF IInv, VisitedIsStack
  <2>4. P!Trouble(h) = "recursive"
    <3>1. \E q \in P!ProperPrefixes(h) : P!Reached(q) = P!Reached(h)
      BY <2>1, <2>2, <2>3
    <3>2. P!Reached(h) # NONE
      BY <1>5, <2>2, ConstantsAssumption
    <3>3. QED
      BY <3>1, <3>2 DEF P!Trouble
  <2>5. err'.kind = "recursive" /\ err'.path = call.path
    BY <1>6 DEF RecursiveInclude, Fail
  <2>6. \A r : P!Trouble(r)' = P!Trouble(r) /\ P!Reached(r)' = P!Reached(r)
    BY <2>1, PromiseStays
  <2>7. \A r \in AllRoute : P!Before(r, h) => P!Trouble(r)' = "none"
    BY <1>2, <1>3, <2>6 DEF Clear
  <2>8. QED
    BY <1>4, <2>2, <2>4, <2>5, <2>6, <2>7
<1>7. CASE OpenFails \/ ParseFails
  <2>1. PICK a : /\ Asked(a)
                 /\ \/ a.kind = "fail" /\ err'.kind = "open"
                    \/ a.kind = "malformed" /\ err'.kind = "parse"
    BY <1>1, <1>7 DEF Asked, OpenFails, ParseFails, Fail
  <2>2. call.path \notin visited /\ err'.path = call.path
    BY <1>7 DEF OpenFails, ParseFails, Fail
  <2>3. Readable'
    <3>1. IInv'
      BY <1>7, OpenFailsIInv, ParseFailsIInv
    <3>2. QED
      BY <3>1 DEF Readable, IInv, Rooted
  <2>4. Asking
    BY <1>2, <2>1, <2>3 DEF Asking
  <2>5. /\ P!Reached(h)' = call.path
        /\ P!Trouble(h)' = CASE a.kind = "fail"      -> "open"
                             [] a.kind = "malformed" -> "parse"
                             [] a.kind = "text"      -> "none"
    BY <1>3, <2>1, <2>2, <2>4, AnswerDecides
  <2>6. P!Trouble(h)' = err'.kind
    BY <2>1, <2>5
  <2>7. \A r \in AllRoute : P!Before(r, h) => P!Trouble(r)' = "none"
    BY <1>3, <2>4, PassedStays
  <2>8. QED
    BY <1>4, <2>2, <2>5, <2>6, <2>7
<1>8. QED
  BY <1>6, <1>7

(* And remains so while the walk unwinds.                                  *)
LEMMA ForetoldNext ==
  /\ IInv /\ Rooted /\ (Going => Open /\ Clear) /\ Foretold
  /\ WithinRoutes /\ RNext
  => Foretold'
<1> SUFFICES ASSUME IInv, Rooted, Going => Open /\ Clear, Foretold, WithinRoutes, RNext
             PROVE  Foretold'
  OBVIOUS
<1>1. root' = root
  BY DEF RNext
<1>2. CASE NilOpen
  BY <1>2 DEF NilOpen, Fail, Foretold
<1>3. CASE RecursiveInclude \/ OpenFails \/ ParseFails
  BY <1>1, <1>3, FailForetold
<1>4. CASE Unwind
  <2>1. UNCHANGED <<root, disk>> /\ UNCHANGED <<opener, pc, err>>
    BY <1>1, <1>4 DEF Unwind
  <2>2. \A r : P!Trouble(r)' = P!Trouble(r) /\ P!Reached(r)' = P!Reached(r)
    BY <2>1, PromiseStays
  <2>3. QED
    BY <2>1, <2>2 DEF Foretold
<1>5. CASE Begin \/ Enter \/ Include \/ Collect \/ Return \/ ReturnFile \/ ReturnError
  <2>1. pc' # "unwind"
    BY <1>5 DEF Begin, Enter, Include, Collect, Return, ReturnFile, ReturnError
  <2>2. QED
    BY <2>1 DEF Foretold
<1>6. QED
  BY <1>2, <1>3, <1>4, <1>5 DEF RNext, Next

(* A set listed without repetition has as many members.                    *)
LEMMA Counted ==
  ASSUME NEW n \in Nat, NEW s, NEW T,
         T = {s[i] : i \in 1 .. n},
         \A i, j \in 1 .. n : s[i] = s[j] => i = j
  PROVE  Cardinality(T) = n
<1> DEFINE f == [i \in 1 .. n |-> s[i]]
<1>1. f \in [1 .. n -> T]
  OBVIOUS
<1>2. \A i, j \in 1 .. n : f[i] = f[j] => i = j
  OBVIOUS
<1>3. \A t \in T : \E i \in 1 .. n : f[i] = t
  OBVIOUS
<1> HIDE DEF f
<1>4. f \in Bijection(1 .. n, T)
  BY <1>1, <1>2, <1>3 DEF Bijection, Injection, Surjection, IsInjective
<1>5. ExistsBijection(1 .. n, T)
  BY <1>4 DEF ExistsBijection
<1>6. QED
  BY <1>5, FS_CountingElements

(* The promise counts as the rest of the module does.                      *)
LEMMA SameCounting == \A S : P!Cardinality(S) = Cardinality(S)
BY Zenon DEF P!Cardinality, Cardinality

(* The whole file collected is the promised expansion.                     *)
LEMMA AllCollected ==
  Walking /\ Clear /\ Gathered /\ Routes \subseteq AllRoute /\ ReturnFile =>
    P!Promised = [kind |-> "none", path |-> NONE, out |-> Top.out]
<1> SUFFICES ASSUME Walking, Clear, Gathered, Routes \subseteq AllRoute, ReturnFile
             PROVE  P!Promised = [kind |-> "none", path |-> NONE, out |-> Top.out]
  OBVIOUS
<1>1. pc = "walk" /\ AtEnd(Top) /\ Len(stack) = 1 /\ Deep = 1 /\ Deep \in 1 .. Deep /\ IInv /\ opener = "stable"
  BY DEF ReturnFile, Deep, Walking, Going
<1>2. PICK log, starts : InOrder(log) /\ Shared(log, starts)
  BY DEF Gathered
<1> DEFINE n == Len(log)
           o == Top.out
<1>3. n \in Nat /\ log \in Seq(Routes) /\ \A i \in 1 .. n : log[i] \in Routes /\ log[i] \in AllRoute
  BY <1>2, LenProperties, ElementOfSeq DEF InOrder
<1>4. /\ o \in Seq(Collected) /\ Len(o) = n
      /\ \A j \in 1 .. n : o[j] = P!EntryAt(log[j])
  <2>1. 1 \in 1 .. Len(stack) /\ Top = stack[1]
    BY <1>1 DEF Top
  <2>2. /\ starts[1 + 1] = starts[1] + Len(stack[1].out)
        /\ stack[1].out \in Seq(Collected) /\ Len(stack[1].out) \in Nat
        /\ \A j \in 1 .. Len(stack[1].out) : stack[1].out[j] = P!EntryAt(log[starts[1] + j])
    <3>1. Shares(log, starts)
      BY <1>1, <1>2, SharedFacts
    <3>2. QED
      BY <1>1, <2>1, <3>1 DEF Shares
  <2>3. starts[1] = 0 /\ starts[1 + 1] = n
    BY <1>1, <1>2 DEF Shared
  <2>4. Len(o) = n
    BY <2>1, <2>2, <2>3
  <2>5. \A j \in 1 .. n : 0 + j = j
    OBVIOUS
  <2>6. QED
    BY <2>1, <2>2, <2>3, <2>4, <2>5
<1> HIDE DEF o
<1>5. RouteTo(Deep) = <<>>
  <2>1. RouteTo(Deep) \in AllRoute /\ Len(RouteTo(Deep)) = 0
    BY <1>1, RouteToFacts
  <2>2. QED
    BY <2>1, EmptySeq DEF AllRoute
<1>6. \A r \in AllRoute : ~P!Before(r, Here) => P!Trouble(r) = "none" /\ ~P!IsLeaf(r)
  <2>1. \A r \in AllRoute : Extends(r, RouteTo(Deep))
    BY <1>5, LenProperties DEF Extends, AllRoute
  <2>2. QED
    BY <1>1, <2>1, RestIsDead
<1>7. {r \in Routes : P!Trouble(r) # "none"} = {}
  BY <1>6 DEF Clear
<1>8. P!Leaves = {log[i] : i \in 1 .. n}
  <2>1. \A r \in AllRoute : (\E i \in 1 .. n : log[i] = r) <=> P!IsLeaf(r)
    BY <1>2, <1>6 DEF InOrder
  <2>2. QED
    BY <1>3, <2>1 DEF P!Leaves
<1>9. \A i, j \in 1 .. n : P!Before(log[i], log[j]) <=> i < j
  <2>1. SUFFICES ASSUME NEW i \in 1 .. n, NEW j \in 1 .. n
                 PROVE  P!Before(log[i], log[j]) <=> i < j
    OBVIOUS
  <2>2. /\ i < j => P!Before(log[i], log[j])
        /\ j < i => P!Before(log[j], log[i])
    BY <1>2 DEF InOrder
  <2>3. i < j \/ j < i \/ i = j
    OBVIOUS
  <2>4. P!Before(log[i], log[j]) => ~P!Before(log[j], log[i]) /\ log[i] # log[j]
    BY <1>3, BeforeFacts
  <2>5. QED
    BY <2>2, <2>3, <2>4
<1>10. \A i, j \in 1 .. n : log[i] = log[j] => i = j
  <2>1. SUFFICES ASSUME NEW i \in 1 .. n, NEW j \in 1 .. n, log[i] = log[j], i # j PROVE FALSE
    OBVIOUS
  <2>2. i < j \/ j < i
    BY <2>1
  <2>3. \A k \in 1 .. n : ~P!Before(log[k], log[k])
    BY <1>9
  <2>4. QED
    BY <1>9, <2>1, <2>2, <2>3
<1>11. Cardinality(P!Leaves) = n
  BY SMTT(60), <1>3, <1>8, <1>10, Counted
<1>12. ASSUME NEW i \in 1 .. n PROVE P!Place(log[i]) = i - 1
  <2>1. i - 1 \in Nat /\ \A j \in 1 .. n : j < i <=> j \in 1 .. i - 1
    OBVIOUS
  <2>2. {s \in P!Leaves : P!Before(s, log[i])} = {log[j] : j \in 1 .. i - 1}
    <3>1. \A j \in 1 .. i - 1 : j \in 1 .. n /\ j < i
      OBVIOUS
    <3>2. \A s : s \in P!Leaves /\ P!Before(s, log[i]) => \E j \in 1 .. i - 1 : s = log[j]
      BY <1>8, <1>9, <2>1
    <3>3. \A j \in 1 .. i - 1 : log[j] \in P!Leaves /\ P!Before(log[j], log[i])
      BY <1>8, <1>9, <3>1
    <3>4. QED
      BY <3>2, <3>3
  <2>3. \A j, k \in 1 .. i - 1 : log[j] = log[k] => j = k
    BY <1>10
  <2>4. PICK m \in Nat : m = i - 1
    BY <2>1
  <2>5. \A T : T = {log[j] : j \in 1 .. m} => Cardinality(T) = m
    BY <2>3, <2>4, Counted
  <2>6. P!Place(log[i]) = m
    BY <2>2, <2>4, <2>5, SameCounting DEF P!Place
  <2>7. QED
    BY <2>4, <2>6
<1>13. \A i \in 1 .. n : (CHOOSE r \in P!Leaves : P!Place(r) = i - 1) = log[i]
  <2>1. SUFFICES ASSUME NEW i \in 1 .. n PROVE (CHOOSE r \in P!Leaves : P!Place(r) = i - 1) = log[i]
    OBVIOUS
  <2>2. log[i] \in P!Leaves /\ P!Place(log[i]) = i - 1
    BY <1>8, <1>12
  <2>3. \A r \in P!Leaves : P!Place(r) = i - 1 => r = log[i]
    <3>1. SUFFICES ASSUME NEW r \in P!Leaves, P!Place(r) = i - 1 PROVE r = log[i]
      OBVIOUS
    <3>2. PICK j \in 1 .. n : r = log[j]
      BY <1>8
    <3>3. j - 1 = i - 1
      BY <1>12, <3>1, <3>2
    <3>4. QED
      BY <3>2, <3>3
  <2>4. QED
    BY <2>2, <2>3
<1>14. P!Expansion = [i \in 1 .. n |-> P!EntryAt(log[i])]
  <2>1. P!Expansion = [i \in 1 .. n |-> P!EntryAt(CHOOSE r \in P!Leaves : P!Place(r) = i - 1)]
    BY <1>11, SameCounting DEF P!Expansion
  <2>2. \A i \in 1 .. n : P!EntryAt(CHOOSE r \in P!Leaves : P!Place(r) = i - 1) = P!EntryAt(log[i])
    BY <1>13
  <2>3. QED
    BY <2>1, <2>2, Zenon
<1>15. P!Expansion = o
  <2>1. o = [i \in 1 .. n |-> o[i]]
    BY <1>4, LenProperties
  <2>2. QED
    BY <1>4, <1>14, <2>1
<1>16. QED
  BY <1>1, <1>7, <1>15 DEF P!Promised, o

(***************************************************************************)
(* The promise                                                             *)
(***************************************************************************)
RInv == IInv /\ Rooted /\ (Going => Open /\ Clear /\ Gathered) /\ Foretold

(* The inductive invariant of the refinement holds at the start,           *)
LEMMA InitRInv == RInit => RInv
<1> SUFFICES ASSUME RInit PROVE RInv
  OBVIOUS
<1>1. IInv /\ pc = "start" /\ stack = <<>> /\ root = call.path
  BY InitIInv DEF RInit, Init
<1>2. root \in Roots
  BY DEF RInit, Init
<1>3. Rooted /\ ~Going /\ Foretold
  BY <1>1, <1>2 DEF Rooted, Going, Foretold
<1>4. QED
  BY <1>1, <1>3 DEF RInv

(* and every step keeps it.                                                *)
LEMMA NextRInv ==
  RInv /\ WithinRoutes /\ Routes \subseteq AllRoute /\ [RNext]_<<vars, root>> => RInv'
<1>1. ASSUME RInv, WithinRoutes, Routes \subseteq AllRoute, RNext PROVE RInv'
  <2>1. IInv' /\ Rooted'
    BY <1>1, NextIInv, RootedNext DEF RInv, RNext
  <2>2. Foretold'
    BY <1>1, ForetoldNext DEF RInv
  <2>3. ASSUME Going' PROVE Open' /\ Clear' /\ Gathered'
    BY <1>1, <2>3, WalkingNext, ClearNext, GatheredNext DEF RInv, Walking
  <2>4. QED
    BY <2>1, <2>2, <2>3 DEF RInv
<1>2. ASSUME RInv, UNCHANGED <<vars, root>> PROVE RInv'
  <2>1. IInv' /\ UNCHANGED vars /\ root' = root
    BY <1>2, NextIInv DEF RInv
  <2>2. UNCHANGED <<root, disk>> /\ UNCHANGED <<opener, pc, call, stack, err>>
    BY <2>1 DEF vars
  <2>3. Rooted' /\ (Going' <=> Going)
    BY <1>2, <2>2 DEF RInv, Rooted, Going
  <2>4. \A r : /\ P!Trouble(r)' = P!Trouble(r)
               /\ P!IsLeaf(r)' <=> P!IsLeaf(r)
               /\ P!EntryAt(r)' = P!EntryAt(r)
               /\ P!Reached(r)' = P!Reached(r)
    BY <2>2, PromiseStays
  <2>5. Here' = Here
    BY <2>2 DEF Here, Deep, RouteTo, Top
  <2>6. Open => Open'
    BY <2>2 DEF Open
  <2>7. Clear => Clear'
    BY <2>4, <2>5 DEF Clear
  <2>8. Gathered => Gathered'
    <3>1. SUFFICES ASSUME NEW log, NEW starts, InOrder(log), Shared(log, starts)
                   PROVE  InOrder(log)' /\ Shared(log, starts)'
      BY DEF Gathered
    <3>2. InOrder(log)'
      BY <2>4, <2>5, <3>1 DEF InOrder
    <3>3. Shared(log, starts)'
      BY <2>2, <2>4, <3>1 DEF Shared
    <3>4. QED
      BY <3>2, <3>3
  <2>9. Foretold => Foretold'
    BY <2>2, <2>4 DEF Foretold
  <2>10. QED
    BY <1>2, <2>1, <2>3, <2>6, <2>7, <2>8, <2>9 DEF RInv
<1>3. QED
  BY <1>1, <1>2

(* Every step is a step of the promise, or leaves its state alone.         *)
LEMMA StepKeepsPromise ==
  RInv /\ Routes \subseteq AllRoute /\ RNext => P!Read \/ P!Deliver \/ UNCHANGED P!avars
<1> SUFFICES ASSUME RInv, Routes \subseteq AllRoute, RNext
             PROVE  P!Read \/ P!Deliver \/ UNCHANGED P!avars
  OBVIOUS
<1>1. IInv /\ IInv' /\ root' = root
  BY NextIInv DEF RInv, RNext
<1>2. opener' = opener /\ pc # "done"
  BY DEF RNext, Next, NilOpen, Begin, RecursiveInclude, OpenFails, ParseFails, Enter, Include,
         Collect, Return, ReturnFile, Unwind, ReturnError
<1>3. Answered = P!Pending
  BY <1>2 DEF Answered, P!Pending
<1>4. CASE NilOpen \/ Begin \/ RecursiveInclude \/ Include \/ Collect \/ Return \/ Unwind
  <2>1. pc' # "done" /\ disk' = disk
    BY <1>4 DEF NilOpen, Begin, RecursiveInclude, Include, Collect, Return, Unwind, Fail, IInv, Bookkeeping
  <2>2. Answered' = Answered
    BY <1>2, <2>1 DEF Answered
  <2>3. QED
    BY <1>1, <1>2, <2>1, <2>2 DEF P!avars
<1>5. CASE OpenFails \/ ParseFails \/ Enter
  <2>1. pc' # "done"
    BY <1>5 DEF OpenFails, ParseFails, Enter, Fail
  <2>2. Answered' = Answered
    BY <1>2, <2>1 DEF Answered
  <2>3. PICK a : Remember(call.path, a)
    BY <1>5 DEF OpenFails, ParseFails, Enter
  <2>4. disk \in [File -> Answer \cup {Unread}]
    BY <1>1 DEF IInv, TypeOK
  <2>5. CASE FileOf(call.path) \notin File
    BY <1>1, <1>2, <2>2, <2>3, <2>5 DEF P!avars, Remember
  <2>6. CASE FileOf(call.path) \in File
    <3>1. disk' = [disk EXCEPT ![FileOf(call.path)] = a]
      BY <2>3, <2>6 DEF Remember
    <3>2. disk'[FileOf(call.path)] = a
      BY <2>4, <2>6, <3>1
    <3>3. \E f \in File : disk' = [disk EXCEPT ![f] = disk'[f]]
      BY <2>6, <3>1, <3>2
    <3>4. QED
      BY <1>1, <1>2, <1>3, <2>2, <3>3 DEF P!Read
  <2>7. QED
    BY <2>5, <2>6
<1>6. CASE ReturnFile \/ ReturnError
  <2>1. /\ pc' = "done" /\ disk' = disk /\ err' = err
        /\ Answered' = [kind |-> err.kind, path |-> err.path, out |-> out']
    BY <1>6 DEF ReturnFile, ReturnError, Answered
  <2>2. Answered' # P!Pending
    <3>1. err.kind \in ErrorKind
      BY <1>1 DEF IInv, TypeOK
    <3>2. err.kind # "pending"
      BY <3>1 DEF ErrorKind
    <3>3. QED
      BY <2>1, <3>2 DEF P!Pending
  <2>3. ASSUME opener # "changing" PROVE Answered' = P!Promised
    <3>1. opener \in {"nil", "stable"}
      BY <1>1, <2>3 DEF IInv, TypeOK
    <3>2. CASE ReturnFile
      <4>1. pc = "walk" /\ out' = Top.out /\ err = NoError
        BY <1>1, <3>2 DEF ReturnFile, IInv, Bookkeeping
      <4>2. opener = "stable"
        BY <3>1, <4>1 DEF RInv, Rooted
      <4>3. Going
        BY <4>1, <4>2 DEF Going
      <4>4. P!Promised = [kind |-> "none", path |-> NONE, out |-> Top.out]
        BY <3>2, <4>3, AllCollected DEF RInv, Walking
      <4>5. QED
        BY <2>1, <4>1, <4>4 DEF NoError
    <3>3. CASE ReturnError
      <4>1. pc = "unwind" /\ out' = <<>> /\ err.kind # "none"
        BY <1>1, <3>3 DEF ReturnError, IInv, Bookkeeping
      <4>2. CASE opener = "nil"
        <5>1. err = [kind |-> "nil_open", path |-> NONE]
          BY <4>1, <4>2 DEF RInv, Foretold
        <5>2. P!Promised = [kind |-> "nil_open", path |-> NONE, out |-> <<>>]
          BY <4>2 DEF P!Promised
        <5>3. QED
          BY <2>1, <4>1, <5>1, <5>2
      <4>3. CASE opener = "stable"
        <5>1. PICK h \in Routes :
                /\ P!Trouble(h) = err.kind /\ P!Reached(h) = err.path
                /\ \A r \in AllRoute : P!Before(r, h) => P!Trouble(r) = "none"
          BY <4>1, <4>3 DEF RInv, Foretold
        <5>2. P!Promised = [kind |-> P!Trouble(h), path |-> P!Reached(h), out |-> <<>>]
          BY <4>1, <4>3, <5>1, FirstTrouble
        <5>3. QED
          BY <2>1, <4>1, <5>1, <5>2
      <4>4. QED
        BY <3>1, <4>2, <4>3
    <3>4. QED
      BY <1>6, <3>2, <3>3
  <2>4. QED
    BY <1>1, <1>2, <1>3, <2>1, <2>2, <2>3 DEF P!Deliver
<1>7. QED
  BY <1>4, <1>5, <1>6 DEF RNext, Next

(* Flatten keeps its promise, as far as the routes looked at reach: a run  *)
(* that ends ends with the entries along every route of include            *)
(* directives, in the order of the routes, each with the flag of its       *)
(* immediate directive, or with the first trouble on them.                 *)
THEOREM PromiseIsKeptWithin ==
  Routes \subseteq Seq(Nat \ {0}) =>
    (RSpec /\ []WithinRoutes /\ <>(pc = "done") => PromiseKept)
<1> SUFFICES ASSUME Routes \subseteq AllRoute
             PROVE  RSpec /\ []WithinRoutes /\ <>(pc = "done") => PromiseKept
  BY DEF AllRoute, Line
<1>1. RInit => P!PInit
  BY DEF RInit, Init, P!PInit, Answered, P!Pending
<1>2. RInv /\ WithinRoutes /\ [RNext]_<<vars, root>> => RInv'
  BY NextRInv
<1>3. RInv /\ [RNext]_<<vars, root>> => [P!Read \/ P!Deliver]_(P!avars)
  <2>1. UNCHANGED <<vars, root>> => UNCHANGED P!avars
    BY DEF vars, P!avars, Answered
  <2>2. QED
    BY <2>1, StepKeepsPromise
<1>4. RInv /\ pc = "done" => Answered # P!Pending
  <2>1. IInv => err.kind # "pending"
    BY DEF IInv, TypeOK, ErrorKind
  <2>2. QED
    BY <2>1 DEF RInv, Answered, P!Pending
<1>5. QED
  BY <1>1, <1>2, <1>3, <1>4, InitRInv, PTL DEF RSpec, PromiseKept, P!Promise

(* And without any bound on how deep files nest: every run that ends keeps *)
(* the promise that looks at all the routes there are.                     *)
THEOREM PromiseIsKept ==
  Routes = Seq(Nat \ {0}) => (RSpec /\ <>(pc = "done") => PromiseKept)
<1> SUFFICES ASSUME Routes = AllRoute
             PROVE  RSpec /\ <>(pc = "done") => PromiseKept
  BY DEF AllRoute, Line
<1>1. RInv => WithinRoutes
  BY HereFacts DEF RInv, WithinRoutes, Walking
<1>2. RInv /\ [RNext]_<<vars, root>> => RInv'
  BY <1>1, NextRInv
<1>3. RSpec /\ []WithinRoutes /\ <>(pc = "done") => PromiseKept
  BY PromiseIsKeptWithin DEF AllRoute, Line
<1>4. QED
  BY <1>1, <1>2, <1>3, InitRInv, PTL DEF RSpec

(***************************************************************************)
(* Files that are walked inside themselves                                 *)
(***************************************************************************)
(* A level that a relative target leads to.                                *)
LEMMA RelativeLevel ==
  ASSUME IInv, OneSpelling, NEW i \in 1 .. Len(stack), ~AsWritten(i)
  PROVE  /\ i - 1 \in 1 .. Len(stack)
         /\ stack[i].path \in Resolved
         /\ FileOf(stack[i].path) \in File
         /\ Base(stack[i].path) = Base(stack[i - 1].path)
<1> DEFINE k == i - 1
<1>1. Len(stack) \in Nat
  BY LenProperties DEF IInv, TypeOK
<1>2. k \in 1 .. Len(stack) - 1 /\ k \in 1 .. Len(stack) /\ k + 1 = i
  BY <1>1 DEF AsWritten
<1>3. Directive(k).target \notin Verbatim
  BY DEF AsWritten
<1> HIDE DEF k
<1>4. /\ stack[k].next > 1
      /\ Directive(k).kind = "include"
      /\ stack[i].path = Resolve(stack[k].path, Directive(k).target)
  BY <1>2 DEF IInv, ImmediateConstraint
<1>5. stack[k] \in Frame /\ stack[k].next <= Len(stack[k].entries) + 1
  BY <1>2, ElementOfSeq DEF IInv, TypeOK
<1>6. Directive(k) \in Entry
  <2>1. stack[k].entries \in Seq(Entry) /\ stack[k].next \in Nat \ {0}
    BY <1>5, ConstantsAssumption DEF Frame
  <2>2. stack[k].next - 1 \in 1 .. Len(stack[k].entries)
    BY SMTT(60), <1>4, <1>5, <2>1, LenProperties
  <2>3. QED
    BY <2>1, <2>2, ElementOfSeq DEF Directive
<1>7. Directive(k).target \in Target
  BY <1>4, <1>6, ConstantsAssumption DEF Entry, IncludeEntry, PlainEntry
<1>8. stack[k].path \in Path
  BY <1>5 DEF Frame
<1>9. FileOf(stack[i].path) \in File
  BY DEF IInv, Bookkeeping
<1>10. stack[i].path \in Resolved
  BY <1>3, <1>4, <1>7, <1>8 DEF Resolved
<1>11. Base(stack[i].path) = Base(stack[k].path)
  <2>1. FileOf(Resolve(stack[k].path, Directive(k).target)) \in File
    BY <1>4, <1>9
  <2>2. Base(Resolve(stack[k].path, Directive(k).target)) = Base(stack[k].path)
    BY <1>3, <1>7, <1>8, <2>1 DEF OneSpelling
  <2>3. QED
    BY <1>4, <2>2
<1>12. QED
  BY <1>2, <1>9, <1>10, <1>11 DEF k

(* Levels that relative targets lead to, one from the other, have one      *)
(* base.                                                                   *)
LEMMA OneBase ==
  ASSUME IInv, OneSpelling, NEW i \in 1 .. Len(stack), NEW j \in 1 .. Len(stack), i < j,
         \A k \in i .. j : ~AsWritten(k)
  PROVE  Base(stack[j].path) = Base(stack[i].path)
<1> DEFINE T == {n \in Nat : i + n <= j => Base(stack[i + n].path) = Base(stack[i].path)}
<1>1. Len(stack) \in Nat
  BY LenProperties DEF IInv, TypeOK
<1>2. 0 \in T
  <2>1. i + 0 = i
    BY <1>1
  <2>2. QED
    BY <2>1
<1>3. ASSUME NEW n \in T PROVE n + 1 \in T
  <2>1. n \in Nat /\ n + 1 \in Nat
    OBVIOUS
  <2> SUFFICES ASSUME i + (n + 1) <= j
               PROVE  Base(stack[i + (n + 1)].path) = Base(stack[i].path)
    BY <2>1
  <2>2. Base(stack[i + n].path) = Base(stack[i].path)
    BY <2>1
  <2> DEFINE k == i + (n + 1)
  <2>3. k \in 1 .. Len(stack) /\ k \in i .. j /\ k - 1 = i + n
    BY <1>1, <2>1
  <2> HIDE DEF k, T
  <2>4. ~AsWritten(k)
    BY <2>3
  <2>5. Base(stack[k].path) = Base(stack[k - 1].path)
    BY <2>3, <2>4, RelativeLevel
  <2>6. Base(stack[k].path) = Base(stack[i].path)
    BY <2>2, <2>3, <2>5
  <2>7. QED
    BY <2>6 DEF k
<1>4. T = Nat
  <2> HIDE DEF T
  <2>1. T \in SUBSET Nat
    BY DEF T
  <2>2. QED
    BY <1>2, <1>3, <2>1, Induction
<1>5. j - i \in Nat /\ i + (j - i) = j
  BY <1>1
<1>6. j - i \in T
  BY <1>4, <1>5
<1>7. QED
  BY <1>5, <1>6

(* Two levels at one file with only relative targets about them would have *)
(* one path.                                                               *)
LEMMA RepeatsByRelativeTargets == IInv /\ OneSpelling => AliasedAsWritten
<1> SUFFICES ASSUME IInv, OneSpelling, NEW i \in 1 .. Len(stack), NEW j \in 1 .. Len(stack),
                    i < j, FileOf(stack[i].path) = FileOf(stack[j].path),
                    \A k \in i .. j : ~AsWritten(k)
             PROVE  FALSE
  BY DEF AliasedAsWritten
<1>1. Len(stack) \in Nat
  BY LenProperties DEF IInv, TypeOK
<1>2. ~AsWritten(i) /\ ~AsWritten(j)
  BY <1>1
<1>3. Base(stack[j].path) = Base(stack[i].path)
  BY OneBase
<1>4. stack[i].path \in Resolved /\ FileOf(stack[i].path) \in File /\ stack[j].path \in Resolved
  BY <1>2, RelativeLevel
<1>5. stack[i].path = stack[j].path
  BY <1>3, <1>4 DEF OneSpelling
<1>6. i = j
  BY <1>5 DEF IInv, VisitedIsStack
<1>7. QED
  BY <1>1, <1>6

(* Where relative targets get one spelling of a file under each base, the  *)
(* walk repeats a file inside itself only by way of a root, or of a rooted *)
(* or scheme-bearing target, that reached open as somebody wrote it.       *)
THEOREM RepeatsAreAsWritten == OneSpelling => (Spec => []AliasedAsWritten)
<1> SUFFICES ASSUME OneSpelling PROVE Spec => []AliasedAsWritten
  OBVIOUS
<1>1. IInv => AliasedAsWritten
  BY RepeatsByRelativeTargets
<1>2. QED
  BY <1>1, Invariance, PTL
=============================================================================
