------------------------ MODULE SharedCompareProofs ------------------------
(***************************************************************************)
(* Proofs about SharedCompare, for any number of goroutines, any versions  *)
(* and releases of any length.                                             *)
(***************************************************************************)
EXTENDS SharedCompare, TLAPS

Doing == {"idle", "pad", "zero", "zeroing", "compare", "answered"}
Sides == {1, 2}

TypeOK ==
  /\ heap \in [Array -> [Index -> Int]]
  /\ pc \in [Goroutine -> Doing]
  /\ pair \in [Goroutine -> [Sides -> Version]]
  /\ at \in [Goroutine -> [Sides -> Array]]
  /\ side \in [Goroutine -> Sides]
  /\ next \in [Goroutine -> Nat]
  /\ answer \in [Goroutine -> Int]

Intact == \A v \in Version : heap[v] = Release[v]

(* A goroutine reads a version's own array or the buffer it made for it.   *)
OwnArrays(g) == \A s \in Sides : at[g][s] \in {pair[g][s], <<g, s>>}

Unpadded(g, s) == at[g][s] = pair[g][s]

(* An operand that is ready reads as its release as far as it is compared. *)
ReadyTo(g, s, last) == \A k \in 1 .. last : heap[at[g][s]][k] = Release[pair[g][s]][k]
Ready(g, s) == ReadyTo(g, s, Size(g))

Padding(g) ==
  pc[g] = "pad" => Unpadded(g, side[g]) /\ (side[g] = 1 => Unpadded(g, 2)) /\ (side[g] = 2 => Ready(g, 1))

Zeroing(g) ==
  pc[g] \in {"zero", "zeroing"} =>
    /\ at[g][side[g]] = <<g, side[g]>>
    /\ KeyLen[Operand(g)] < next[g] /\ next[g] <= Size(g) + 1
    /\ pc[g] = "zeroing" => next[g] <= Size(g)
    /\ ReadyTo(g, side[g], next[g] - 1)
    /\ side[g] = 1 => Unpadded(g, 2)
    /\ side[g] = 2 => Ready(g, 1)

Comparing(g) ==
  pc[g] = "compare" =>
    /\ Ready(g, 1) /\ Ready(g, 2)
    /\ next[g] \in 1 .. Size(g) + 1
    /\ \A k \in 1 .. next[g] - 1 : Release[pair[g][1]][k] = Release[pair[g][2]][k]

Answered(g) == pc[g] = "answered" => IsOrder(pair[g][1], pair[g][2], answer[g])

Holds(g) == OwnArrays(g) /\ Padding(g) /\ Zeroing(g) /\ Comparing(g) /\ Answered(g)

IInv == TypeOK /\ Intact /\ \A g \in Goroutine : Holds(g)

-----------------------------------------------------------------------------
(* Facts about pairs, sizes and arrays.                                    *)

LEMMA PairType ==
  ASSUME NEW S, NEW a \in S, NEW b \in S
  PROVE  <<a, b>> \in [Sides -> S] /\ <<a, b>>[1] = a /\ <<a, b>>[2] = b
BY DEF Sides

LEMMA SizeFacts ==
  ASSUME TypeOK, NEW g \in Goroutine
  PROVE  /\ Size(g) \in 0 .. MaxLen
         /\ \A s \in Sides : /\ pair[g][s] \in Version
                             /\ KeyLen[pair[g][s]] \in 0 .. MaxLen
                             /\ KeyLen[pair[g][s]] <= Size(g)
<1>1. /\ pair[g][1] \in Version /\ pair[g][2] \in Version
      /\ KeyLen[pair[g][1]] \in 0 .. MaxLen /\ KeyLen[pair[g][2]] \in 0 .. MaxLen
  BY ReleaseAssumption DEF TypeOK, Sides
<1>2. QED
  BY <1>1, LengthAssumption DEF Size, Sides

LEMMA BufferFacts ==
  ASSUME NEW g \in Goroutine, NEW s \in Sides
  PROVE  /\ <<g, s>> \in Array /\ <<g, s>> \notin Version
         /\ \A h \in Goroutine, t \in Sides : <<g, s>> = <<h, t>> => g = h /\ s = t
BY BufferAssumption DEF Array, Buffer, Sides

LEMMA ReleaseFacts ==
  ASSUME NEW v \in Version, NEW k \in Index
  PROVE  Release[v][k] \in Nat /\ KeyLen[v] \in 0 .. MaxLen /\ (k > KeyLen[v] => Release[v][k] = 0)
BY ReleaseAssumption

-----------------------------------------------------------------------------
LEMMA InitIInv == Init => IInv
<1> SUFFICES ASSUME Init PROVE IInv
  OBVIOUS
<1>1. pair \in [Goroutine -> [Sides -> Version]]
  BY PairType DEF Init
<1>2. heap \in [Array -> [Index -> Int]] /\ Intact
  BY ReleaseAssumption DEF Init, Array, Intact
<1>3. TypeOK
  BY <1>1, <1>2 DEF Init, TypeOK, Doing, Sides, Array
<1>4. \A g \in Goroutine : Holds(g)
  BY DEF Init, Holds, OwnArrays, Padding, Zeroing, Comparing, Answered
<1>5. QED
  BY <1>2, <1>3, <1>4 DEF IInv

(* What the other goroutines rely on: a step of g writes to no array but   *)
(* g's own buffers and to no variable but at g.                            *)
OnlyOwn(g) ==
  /\ \A a \in Array : a \notin {<<g, 1>>, <<g, 2>>} => heap'[a] = heap[a]
  /\ \A h \in Goroutine : h # g =>
       /\ pc'[h] = pc[h] /\ pair'[h] = pair[h] /\ at'[h] = at[h]
       /\ side'[h] = side[h] /\ next'[h] = next[h] /\ answer'[h] = answer[h]

LEMMA OthersKeep ==
  ASSUME IInv, NEW g \in Goroutine, OnlyOwn(g), NEW h \in Goroutine, h # g
  PROVE  Holds(h)'
<1>1. /\ pc'[h] = pc[h] /\ pair'[h] = pair[h] /\ at'[h] = at[h]
      /\ side'[h] = side[h] /\ next'[h] = next[h] /\ answer'[h] = answer[h]
  BY DEF OnlyOwn
<1>2. ASSUME NEW s \in Sides PROVE heap'[at[h][s]] = heap[at[h][s]]
  <2>1. at[h][s] \in {pair[h][s], <<h, s>>} /\ pair[h][s] \in Version /\ at[h][s] \in Array
    BY DEF IInv, Holds, OwnArrays, TypeOK
  <2>2. at[h][s] # <<g, 1>> /\ at[h][s] # <<g, 2>>
    <3>1. 1 \in Sides /\ 2 \in Sides
      BY DEF Sides
    <3>2. <<g, 1>> \notin Version /\ <<g, 2>> \notin Version /\ <<h, s>> # <<g, 1>> /\ <<h, s>> # <<g, 2>>
      BY <3>1, BufferFacts
    <3>3. QED
      BY <2>1, <3>2
  <2>3. QED
    BY <2>1, <2>2 DEF OnlyOwn
<1>3. Holds(h)
  BY DEF IInv
<1>4. OwnArrays(h)' /\ Size(h)' = Size(h) /\ Operand(h)' = Operand(h)
  BY <1>1, <1>3 DEF Holds, OwnArrays, Size, Operand
<1>5. ASSUME NEW s \in Sides, NEW last PROVE ReadyTo(h, s, last)' = ReadyTo(h, s, last)
  BY <1>1, <1>2 DEF ReadyTo
<1>6. side[h] \in Sides /\ 1 \in Sides /\ 2 \in Sides
  BY DEF IInv, TypeOK, Sides
<1>7. ASSUME NEW s \in Sides PROVE Ready(h, s)' = Ready(h, s) /\ Unpadded(h, s)' = Unpadded(h, s)
  BY <1>1, <1>2, <1>4 DEF Ready, ReadyTo, Unpadded
<1>8. Padding(h)'
  BY <1>1, <1>3, <1>6, <1>7 DEF Holds, Padding
<1>9. Zeroing(h)'
  BY <1>1, <1>2, <1>3, <1>4, <1>6, <1>7 DEF Holds, Zeroing, ReadyTo
<1>10. Comparing(h)' /\ Answered(h)'
  BY <1>1, <1>3, <1>4, <1>6, <1>7 DEF Holds, Comparing, Answered
<1>11. QED
  BY <1>4, <1>8, <1>9, <1>10 DEF Holds

LEMMA StepIInv ==
  ASSUME IInv, NEW g \in Goroutine, OnlyOwn(g), TypeOK', Holds(g)'
  PROVE  IInv'
<1>1. Intact'
  <2> SUFFICES ASSUME NEW v \in Version PROVE heap'[v] = Release[v]
    BY DEF Intact
  <2>1. v \in Array /\ v \notin {<<g, 1>>, <<g, 2>>}
    BY BufferAssumption DEF Array, Buffer
  <2>2. QED
    BY <2>1 DEF OnlyOwn, IInv, Intact
<1>2. QED
  BY <1>1, OthersKeep DEF IInv

-----------------------------------------------------------------------------
(* The steps of a goroutine.                                               *)

LEMMA CallIInv ==
  ASSUME IInv, NEW g \in Goroutine, NEW v \in Version, NEW w \in Version, Call(g, v, w)
  PROVE  IInv'
<1>1. TypeOK'
  BY PairType DEF IInv, TypeOK, Call, Doing, Sides, Array
<1>2. OnlyOwn(g)
  BY DEF IInv, TypeOK, Call, OnlyOwn
<1>3. /\ pc'[g] = "pad" /\ pair'[g] = <<v, w>> /\ at'[g] = <<v, w>> /\ side'[g] = 1
  BY DEF IInv, TypeOK, Call
<1>4. Holds(g)'
  BY <1>3, PairType DEF Holds, OwnArrays, Padding, Zeroing, Comparing, Answered, Unpadded, Sides
<1>5. QED
  BY <1>1, <1>2, <1>4, StepIInv

(* Both ways on from an operand that is ready.                             *)
LEMMA OtherSideIInv ==
  ASSUME IInv, NEW g \in Goroutine, OtherSide(g), Ready(g, side[g]),
         side[g] = 1 => Unpadded(g, 2), side[g] = 2 => Ready(g, 1)
  PROVE  IInv'
<1>1. TypeOK'
  BY DEF IInv, TypeOK, OtherSide, Doing, Sides
<1>2. OnlyOwn(g)
  BY DEF IInv, TypeOK, OtherSide, OnlyOwn
<1>3. /\ pc'[g] = (IF side[g] = 1 THEN "pad" ELSE "compare")
      /\ side'[g] = 2 /\ next'[g] = 1 /\ UNCHANGED <<heap, pair, at>> /\ side[g] \in {1, 2}
  BY DEF IInv, TypeOK, OtherSide, Sides
<1>4. Size(g)' = Size(g) /\ Size(g) \in Nat
  BY <1>3, SizeFacts, LengthAssumption DEF IInv, Size
<1>5. \A s \in Sides : Ready(g, s)' = Ready(g, s) /\ Unpadded(g, s)' = Unpadded(g, s)
  BY <1>3, <1>4 DEF Ready, ReadyTo, Unpadded
<1>6. OwnArrays(g)'
  BY <1>3 DEF IInv, Holds, OwnArrays
<1>7. Padding(g)'
  BY <1>3, <1>5 DEF Padding, Sides
<1>8. Comparing(g)'
  BY <1>3, <1>4, <1>5 DEF Comparing, Sides
<1>9. Zeroing(g)' /\ Answered(g)'
  BY <1>3 DEF Zeroing, Answered
<1>10. QED
  BY <1>1, <1>2, <1>6, <1>7, <1>8, <1>9, StepIInv DEF Holds

LEMMA LongEnoughIInv ==
  ASSUME IInv, NEW g \in Goroutine, LongEnough(g)
  PROVE  IInv'
<1>1. Unpadded(g, side[g]) /\ (side[g] = 1 => Unpadded(g, 2)) /\ (side[g] = 2 => Ready(g, 1))
  BY DEF IInv, Holds, Padding, LongEnough
<1>2. Ready(g, side[g])
  BY <1>1, SizeFacts DEF IInv, TypeOK, Intact, Unpadded, Ready, ReadyTo
<1>3. QED
  BY <1>1, <1>2, OtherSideIInv DEF LongEnough

LEMMA PaddedIInv ==
  ASSUME IInv, NEW g \in Goroutine, Padded(g)
  PROVE  IInv'
<1>1. /\ (side[g] = 1 => Unpadded(g, 2)) /\ (side[g] = 2 => Ready(g, 1))
      /\ next[g] <= Size(g) + 1 /\ next[g] > Size(g) /\ ReadyTo(g, side[g], next[g] - 1)
  BY DEF IInv, Holds, Zeroing, Padded
<1>2. next[g] - 1 = Size(g)
  <2>1. next[g] \in Nat /\ TypeOK
    BY DEF IInv, TypeOK
  <2>2. Size(g) \in 0 .. MaxLen
    BY <2>1, SizeFacts
  <2>3. QED
    BY <1>1, <2>1, <2>2, LengthAssumption
<1>3. QED
  BY <1>1, <1>2, OtherSideIInv DEF Padded, Ready

LEMMA MakeIInv ==
  ASSUME IInv, NEW g \in Goroutine, Make(g)
  PROVE  IInv'
<1> DEFINE s == side[g]
           b == <<g, s>>
           v == Operand(g)
<1>1. /\ s \in Sides /\ 1 \in Sides /\ 2 \in Sides /\ s \in {1, 2}
      /\ b \in Array /\ b \notin Version /\ v \in Version /\ v \in Array
      /\ heap[v] = Release[v]
  <2>1. s \in Sides /\ 1 \in Sides /\ 2 \in Sides /\ s \in {1, 2}
    BY DEF IInv, TypeOK, Sides
  <2>2. b \in Array /\ b \notin Version
    BY <2>1, BufferFacts
  <2>3. v \in Version /\ v \in Array /\ heap[v] = Release[v]
    BY <2>1 DEF IInv, TypeOK, Operand, Array, Intact
  <2>4. QED
    BY <2>1, <2>2, <2>3
<1>2. /\ Size(g) \in 0 .. MaxLen /\ KeyLen[v] \in 0 .. MaxLen /\ KeyLen[v] < Size(g)
  BY <1>1, SizeFacts DEF IInv, Make, Operand
<1>3. /\ pc'[g] = "zero" /\ next'[g] = KeyLen[v] + 1 /\ UNCHANGED <<pair, side>>
      /\ heap' = [heap EXCEPT ![b] = [k \in Index |-> IF k <= KeyLen[v] THEN heap[v][k] ELSE @[k]]]
      /\ at' = [at EXCEPT ![g] = [at[g] EXCEPT ![s] = b]]
      /\ pc' = [pc EXCEPT ![g] = "zero"] /\ next' = [next EXCEPT ![g] = KeyLen[v] + 1]
      /\ UNCHANGED answer
  BY DEF IInv, TypeOK, Make, Target
<1>4. /\ at'[g][s] = b /\ at' \in [Goroutine -> [Sides -> Array]]
      /\ \A t \in Sides : t # s => at'[g][t] = at[g][t]
      /\ \A h \in Goroutine : h # g => at'[h] = at[h]
  BY <1>1, <1>3 DEF IInv, TypeOK
<1>5. /\ \A k \in Index : heap'[b][k] = IF k <= KeyLen[v] THEN Release[v][k] ELSE heap[b][k]
      /\ \A a \in Array : a # b => heap'[a] = heap[a]
      /\ heap' \in [Array -> [Index -> Int]]
  <2>1. /\ \A k \in Index : heap[v][k] \in Int /\ heap[b][k] \in Int
        /\ heap \in [Array -> [Index -> Int]]
    BY <1>1 DEF IInv, TypeOK
  <2>2. [k \in Index |-> IF k <= KeyLen[v] THEN heap[v][k] ELSE heap[b][k]] \in [Index -> Int]
    BY <2>1
  <2>3. QED
    BY <1>1, <1>3, <2>1, <2>2
<1>6. TypeOK'
  <2>1. KeyLen[v] + 1 \in Nat
    BY <1>2, LengthAssumption
  <2>2. QED
    BY <2>1, <1>3, <1>4, <1>5 DEF IInv, TypeOK, Doing
<1>7. OnlyOwn(g)
  BY <1>1, <1>3, <1>4, <1>5 DEF IInv, TypeOK, OnlyOwn
<1>8. Size(g)' = Size(g) /\ Operand(g)' = v
  BY <1>3 DEF Size, Operand
<1>9. OwnArrays(g)'
  BY <1>3, <1>4 DEF IInv, Holds, OwnArrays
<1>10. Zeroing(g)'
  <2>1. ReadyTo(g, s, KeyLen[v])'
    BY <1>2, <1>3, <1>4, <1>5, LengthAssumption DEF ReadyTo, Index, Operand
  <2>2. s = 1 => Unpadded(g, 2) /\ Unpadded(g, 2)'
    BY <1>1, <1>3, <1>4 DEF IInv, Holds, Padding, Make, Unpadded
  <2>3. s = 2 => Ready(g, 1)'
    <3> SUFFICES ASSUME s = 2 PROVE Ready(g, 1)'
      OBVIOUS
    <3>1. Ready(g, 1) /\ at'[g][1] = at[g][1]
      BY <1>1, <1>4 DEF IInv, Holds, Padding, Make
    <3>2. at[g][1] \in {pair[g][1], <<g, 1>>} /\ pair[g][1] \in Version /\ at[g][1] \in Array
      BY <1>1 DEF IInv, Holds, OwnArrays, TypeOK
    <3>3. at[g][1] # b
      BY <1>1, <3>2, BufferFacts
    <3>4. QED
      BY <1>3, <1>5, <1>8, <3>1, <3>2, <3>3 DEF Ready, ReadyTo
  <2>4. next'[g] - 1 = KeyLen[v] /\ KeyLen[v] < next'[g] /\ next'[g] <= Size(g) + 1
    BY <1>2, <1>3, LengthAssumption
  <2>5. QED
    BY <1>3, <1>4, <1>8, <2>1, <2>2, <2>3, <2>4 DEF Zeroing
<1>11. Padding(g)' /\ Comparing(g)' /\ Answered(g)'
  BY <1>3 DEF Padding, Comparing, Answered
<1>12. QED
  BY <1>6, <1>7, <1>9, <1>10, <1>11, StepIInv DEF Holds

(* Both writes of padding: the array is the goroutine's own buffer.        *)
LEMMA WriteFacts ==
  ASSUME IInv, NEW g \in Goroutine, NEW segment \in Int, Write(g, segment),
         at[g][side[g]] = <<g, side[g]>>, next[g] \in Index
  PROVE  /\ heap' \in [Array -> [Index -> Int]]
         /\ heap'[<<g, side[g]>>][next[g]] = segment
         /\ \A k \in Index : k # next[g] => heap'[<<g, side[g]>>][k] = heap[<<g, side[g]>>][k]
         /\ \A a \in Array : a # <<g, side[g]>> => heap'[a] = heap[a]
<1>1. side[g] \in Sides /\ <<g, side[g]>> \in Array /\ heap \in [Array -> [Index -> Int]]
  BY BufferFacts DEF IInv, TypeOK
<1>2. heap' = [heap EXCEPT ![<<g, side[g]>>] = [heap[<<g, side[g]>>] EXCEPT ![next[g]] = segment]]
  BY <1>1 DEF Write
<1>3. [heap[<<g, side[g]>>] EXCEPT ![next[g]] = segment] \in [Index -> Int]
  BY <1>1
<1>4. QED
  BY <1>1, <1>2, <1>3

LEMMA ZeroIInv ==
  ASSUME IInv, NEW g \in Goroutine, BeginZero(g) \/ EndZero(g)
  PROVE  IInv'
<1> DEFINE s == side[g]
           b == <<g, s>>
           v == Operand(g)
<1>1. /\ at[g][s] = b /\ KeyLen[v] < next[g] /\ next[g] <= Size(g)
      /\ ReadyTo(g, s, next[g] - 1)
      /\ (s = 1 => Unpadded(g, 2)) /\ (s = 2 => Ready(g, 1))
      /\ next[g] \in Nat /\ s \in Sides /\ s \in {1, 2} /\ 1 \in Sides
  BY DEF IInv, TypeOK, Holds, Zeroing, BeginZero, EndZero, Sides
<1>2. /\ Size(g) \in 0 .. MaxLen /\ KeyLen[v] \in 0 .. MaxLen /\ v \in Version
  BY <1>1, SizeFacts DEF IInv, Operand
<1>3. next[g] \in Index /\ Release[v][next[g]] = 0
  BY <1>1, <1>2, LengthAssumption, ReleaseFacts DEF Index
<1>4. /\ heap' \in [Array -> [Index -> Int]]
      /\ \A k \in Index : k # next[g] => heap'[b][k] = heap[b][k]
      /\ \A a \in Array : a # b => heap'[a] = heap[a]
      /\ EndZero(g) => heap'[b][next[g]] = 0
  <2>1. CASE BeginZero(g)
    <3>1. PICK half \in Torn : Write(g, half)
      BY <2>1 DEF BeginZero
    <3>2. half \in Int /\ ~EndZero(g)
      BY <2>1, ReleaseAssumption DEF BeginZero, EndZero
    <3>3. QED
      BY <1>1, <1>3, <3>1, <3>2, WriteFacts
  <2>2. CASE EndZero(g)
    <3>1. Write(g, 0) /\ 0 \in Int
      BY <2>2 DEF EndZero
    <3>2. QED
      BY <1>1, <1>3, <3>1, WriteFacts
  <2>3. QED
    BY <2>1, <2>2
<1>5. /\ UNCHANGED <<pair, at, side, answer>>
      /\ \/ pc' = [pc EXCEPT ![g] = "zeroing"] /\ next' = next
         \/ EndZero(g) /\ pc' = [pc EXCEPT ![g] = "zero"] /\ next' = [next EXCEPT ![g] = @ + 1]
  BY DEF BeginZero, EndZero
<1>6. TypeOK'
  <2>1. next[g] + 1 \in Nat
    BY <1>1
  <2>2. QED
    BY ZenonT(60), <2>1, <1>4, <1>5 DEF IInv, TypeOK, Doing
<1>7. OnlyOwn(g)
  BY <1>1, <1>4, <1>5 DEF IInv, TypeOK, OnlyOwn
<1>8. /\ pc'[g] \in {"zero", "zeroing"}
      /\ \/ pc'[g] = "zeroing" /\ next'[g] = next[g]
         \/ EndZero(g) /\ pc'[g] = "zero" /\ next'[g] = next[g] + 1
  BY <1>5 DEF IInv, TypeOK
<1>9. Size(g)' = Size(g) /\ Operand(g)' = v
  BY <1>5 DEF Size, Operand
<1>10. OwnArrays(g)'
  BY <1>5 DEF IInv, Holds, OwnArrays
<1>11. Zeroing(g)'
  <2>1. ReadyTo(g, side[g], next[g] - 1)'
    <3> SUFFICES ASSUME NEW k \in 1 .. next'[g] - 1 PROVE heap'[b][k] = Release[v][k]
      <4>1. at'[g][s] = b /\ side'[g] = s /\ pair' = pair
        BY <1>1, <1>5
      <4>2. QED
        BY <4>1 DEF ReadyTo, Operand
    <3>1. CASE k = next[g]
      BY <1>1, <1>3, <1>4, <1>8, <3>1
    <3>2. CASE k # next[g]
      <4>1. k \in 1 .. next[g] - 1 /\ k \in Index
        BY <1>1, <1>2, <1>8, <3>2, LengthAssumption DEF Index
      <4>2. QED
        BY <1>1, <1>4, <3>2, <4>1 DEF ReadyTo, Operand
    <3>3. QED
      BY <3>1, <3>2
  <2>2. s = 1 => Unpadded(g, 2)'
    BY <1>1, <1>5 DEF Unpadded
  <2>3. s = 2 => Ready(g, 1)'
    <3> SUFFICES ASSUME s = 2 PROVE Ready(g, 1)'
      OBVIOUS
    <3>1. at[g][1] \in {pair[g][1], <<g, 1>>} /\ pair[g][1] \in Version /\ at[g][1] \in Array
      BY <1>1 DEF IInv, Holds, OwnArrays, TypeOK
    <3>2. at[g][1] # b
      <4>1. b \notin Version /\ (<<g, 1>> = b => 1 = s)
        BY <1>1, BufferFacts
      <4>2. QED
        BY <3>1, <4>1
    <3>3. QED
      BY <1>1, <1>4, <1>5, <1>9, <3>1, <3>2 DEF Ready, ReadyTo
  <2>4. /\ KeyLen[v] < next'[g] /\ next'[g] <= Size(g) + 1
        /\ pc'[g] = "zeroing" => next'[g] <= Size(g)
    BY <1>1, <1>2, <1>8, LengthAssumption
  <2>5. QED
    BY <1>1, <1>5, <1>9, <2>1, <2>2, <2>3, <2>4 DEF Zeroing
<1>12. Padding(g)' /\ Comparing(g)' /\ Answered(g)'
  BY <1>8 DEF Padding, Comparing, Answered
<1>13. QED
  BY <1>6, <1>7, <1>10, <1>11, <1>12, StepIInv DEF Holds

(* What a goroutine that compares reads is what the versions hold.         *)
LEMMA ComparingFacts ==
  ASSUME IInv, NEW g \in Goroutine, pc[g] = "compare"
  PROVE  /\ pair[g][1] \in Version /\ pair[g][2] \in Version
         /\ Size(g) \in Nat /\ Size(g) <= MaxLen
         /\ next[g] \in 1 .. Size(g) + 1
         /\ \A k \in 1 .. next[g] - 1 : Release[pair[g][1]][k] = Release[pair[g][2]][k]
         /\ next[g] <= Size(g) =>
              /\ next[g] \in Index
              /\ Segment(g, 1) = Release[pair[g][1]][next[g]]
              /\ Segment(g, 2) = Release[pair[g][2]][next[g]]
<1>1. /\ pair[g][1] \in Version /\ pair[g][2] \in Version
      /\ Size(g) \in 0 .. MaxLen
  BY SizeFacts DEF IInv, Sides
<1>2. Ready(g, 1) /\ Ready(g, 2) /\ next[g] \in 1 .. Size(g) + 1
  BY DEF IInv, Holds, Comparing
<1>3. next[g] <= Size(g) => next[g] \in Index /\ next[g] \in 1 .. Size(g)
  BY <1>1, <1>2, LengthAssumption DEF Index
<1>4. QED
  BY <1>1, <1>2, <1>3, LengthAssumption DEF IInv, Holds, Comparing, Ready, ReadyTo, Segment

LEMMA SameSegmentIInv ==
  ASSUME IInv, NEW g \in Goroutine, SameSegment(g)
  PROVE  IInv'
<1>1. /\ next' = [next EXCEPT ![g] = @ + 1] /\ UNCHANGED <<heap, pc, pair, at, side, answer>>
      /\ pc[g] = "compare" /\ next[g] <= Size(g) /\ Segment(g, 1) = Segment(g, 2)
  BY DEF SameSegment
<1>2. next'[g] = next[g] + 1 /\ next[g] \in Nat
  BY <1>1 DEF IInv, TypeOK
<1>3. TypeOK'
  BY <1>1 DEF IInv, TypeOK
<1>4. OnlyOwn(g)
  BY <1>1 DEF IInv, TypeOK, OnlyOwn
<1>5. Size(g)' = Size(g)
  BY <1>1 DEF Size
<1>6. Comparing(g)'
  <2>1. Ready(g, 1)' /\ Ready(g, 2)'
    BY <1>1, <1>5 DEF IInv, Holds, Comparing, Ready, ReadyTo
  <2>2. next'[g] \in 1 .. Size(g) + 1
    BY <1>1, <1>2, ComparingFacts
  <2>3. \A k \in 1 .. next'[g] - 1 : Release[pair[g][1]][k] = Release[pair[g][2]][k]
    <3> SUFFICES ASSUME NEW k \in 1 .. next'[g] - 1 PROVE Release[pair[g][1]][k] = Release[pair[g][2]][k]
      OBVIOUS
    <3>1. k = next[g] \/ k \in 1 .. next[g] - 1
      BY <1>2
    <3>2. QED
      BY <1>1, <3>1, ComparingFacts
  <2>4. QED
    BY <1>1, <1>5, <2>1, <2>2, <2>3 DEF Comparing
<1>7. OwnArrays(g)' /\ Padding(g)' /\ Zeroing(g)' /\ Answered(g)'
  BY <1>1 DEF IInv, Holds, OwnArrays, Padding, Zeroing, Answered
<1>8. QED
  BY <1>3, <1>4, <1>6, <1>7, StepIInv DEF Holds

LEMMA ReturnIInv ==
  ASSUME IInv, NEW g \in Goroutine, NEW sign \in Int, Return(g, sign),
         IsOrder(pair[g][1], pair[g][2], sign)
  PROVE  IInv'
<1>1. TypeOK'
  BY DEF IInv, TypeOK, Return, Doing
<1>2. OnlyOwn(g)
  BY DEF IInv, TypeOK, Return, OnlyOwn
<1>3. pc'[g] = "answered" /\ answer'[g] = sign /\ UNCHANGED <<pair, at>>
  BY DEF IInv, TypeOK, Return
<1>4. Holds(g)'
  BY <1>3 DEF IInv, Holds, OwnArrays, Padding, Zeroing, Comparing, Answered, IsOrder
<1>5. QED
  BY <1>1, <1>2, <1>4, StepIInv

LEMMA DifferIInv ==
  ASSUME IInv, NEW g \in Goroutine, Differ(g)
  PROVE  IInv'
<1> DEFINE v == pair[g][1]
           w == pair[g][2]
           k == next[g]
<1>1. /\ k \in Index /\ v \in Version /\ w \in Version
      /\ \A j \in Index : j < k => Release[v][j] = Release[w][j]
      /\ Segment(g, 1) = Release[v][k] /\ Segment(g, 2) = Release[w][k]
  <2>1. pc[g] = "compare" /\ k <= Size(g)
    BY DEF Differ
  <2>2. \A j \in Index : j < k => j \in 1 .. k - 1
    BY <2>1, ComparingFacts, LengthAssumption DEF Index
  <2>3. QED
    BY <2>1, <2>2, ComparingFacts
<1>2. CASE Segment(g, 1) < Segment(g, 2) /\ Return(g, -1)
  <2>1. IsOrder(v, w, -1)
    BY <1>1, <1>2 DEF IsOrder
  <2>2. QED
    BY <1>2, <2>1, ReturnIInv
<1>3. CASE Segment(g, 1) > Segment(g, 2) /\ Return(g, 1)
  <2>1. IsOrder(v, w, 1)
    BY <1>1, <1>3 DEF IsOrder
  <2>2. QED
    BY <1>3, <2>1, ReturnIInv
<1>4. QED
  BY <1>2, <1>3 DEF Differ

LEMMA SameIInv ==
  ASSUME IInv, NEW g \in Goroutine, Same(g)
  PROVE  IInv'
<1>1. pc[g] = "compare" /\ next[g] > Size(g) /\ Return(g, 0)
  BY DEF Same
<1>2. IsOrder(pair[g][1], pair[g][2], 0)
  <2> SUFFICES ASSUME NEW k \in Index PROVE Release[pair[g][1]][k] = Release[pair[g][2]][k]
    BY DEF IsOrder
  <2>1. CASE k <= Size(g)
    BY <1>1, <2>1, ComparingFacts, LengthAssumption DEF Index
  <2>2. CASE k > Size(g)
    <3>1. /\ pair[g][1] \in Version /\ pair[g][2] \in Version
          /\ KeyLen[pair[g][1]] \in 0 .. MaxLen /\ KeyLen[pair[g][1]] <= Size(g)
          /\ KeyLen[pair[g][2]] \in 0 .. MaxLen /\ KeyLen[pair[g][2]] <= Size(g)
          /\ Size(g) \in 0 .. MaxLen
      BY SizeFacts DEF IInv, Sides
    <3>2. k > KeyLen[pair[g][1]] /\ k > KeyLen[pair[g][2]]
      BY <2>2, <3>1, LengthAssumption DEF Index
    <3>3. QED
      BY <3>1, <3>2, ReleaseFacts
  <2>3. QED
    BY <2>1, <2>2, <1>1, ComparingFacts, LengthAssumption DEF Index
<1>3. QED
  BY <1>1, <1>2, ReturnIInv

-----------------------------------------------------------------------------
LEMMA NextIInv == IInv /\ [Next]_vars => IInv'
<1> SUFFICES ASSUME IInv, [Next]_vars PROVE IInv'
  OBVIOUS
<1>1. ASSUME NEW g \in Goroutine, Step(g) PROVE IInv'
  BY <1>1, LongEnoughIInv, MakeIInv, ZeroIInv, PaddedIInv, SameSegmentIInv, DifferIInv, SameIInv DEF Step
<1>2. ASSUME NEW g \in Goroutine, NEW v \in Version, NEW w \in Version, Call(g, v, w) PROVE IInv'
  BY <1>2, CallIInv
<1>3. CASE UNCHANGED vars
  BY <1>3 DEF vars, IInv, TypeOK, Intact, Holds, OwnArrays, Padding, Zeroing, Comparing, Answered,
              Unpadded, Ready, ReadyTo, Size, Operand
<1>4. QED
  BY <1>1, <1>2, <1>3 DEF Next

LEMMA Invariance == Spec => []IInv
<1>1. QED
  BY InitIInv, NextIInv, PTL DEF Spec

(* Whatever the goroutines compare at the same time, and however their     *)
(* steps interleave, each is told the order of its own two versions.       *)
THEOREM AnswersAreTheOrder == Spec => []AnswersAreOrder
<1>1. IInv => AnswersAreOrder
  BY DEF IInv, Holds, Answered, AnswersAreOrder
<1>2. QED
  BY <1>1, Invariance, PTL

(* compareVersions only reads the versions it is given.                    *)
THEOREM VersionsStayIntact == Spec => SharedIntact
<1>1. IInv /\ IInv' => \A v \in Version : heap'[v] = heap[v]
  BY DEF IInv, Intact
<1>2. IInv /\ IInv' => [\A v \in Version : heap'[v] = heap[v]]_vars
  BY <1>1
<1>3. QED
  BY <1>2, Invariance, PTL DEF SharedIntact
=============================================================================
