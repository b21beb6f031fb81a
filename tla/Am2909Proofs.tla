---------------------------- MODULE Am2909Proofs ----------------------------
(***************************************************************************)
(* Theorems about the sequencer slice, for every width the assumption      *)
(* names and whatever is on the pins.                                      *)
(***************************************************************************)
EXTENDS Am2909Calls, SequenceTheorems, TLAPS

LEMMA TopNat == Top \in Nat /\ Top >= 1
BY SliceAssumption

(* The addresses a clock edge chooses from fit the slice.                  *)
LEMMA OrNibble ==
  ASSUME NEW a \in Nibble, NEW b \in Nibble
  PROVE  Or(a, b) \in Nibble
<1>1. CASE Top = 1  BY <1>1 DEF Or, Nibble
<1>2. CASE Top = 3  BY <1>2 DEF Or, Nibble
<1>3. CASE Top = 7  BY <1>3 DEF Or, Nibble
<1>4. CASE Top = 15  BY <1>4 DEF Or, Nibble
<1> QED  BY <1>1, <1>2, <1>3, <1>4, SliceAssumption

LEMMA SelectedNibble ==
  ASSUME TypeOK, NEW p \in Ports
  PROVE  Latch(p) \in Nibble /\ Selected(p) \in Nibble
<1>1. p \in Pins  BY SliceAssumption
<1>2. Latch(p) \in Nibble  BY <1>1 DEF Pins, Latch, TypeOK
<1>3. Source(p) \in Nibble  BY <1>1, <1>2 DEF Pins, Source, TypeOK
<1>4. 0 \in Nibble  BY TopNat DEF Nibble
<1>5. Or(Source(p), p.ORi) \in Nibble  BY <1>1, <1>3, OrNibble DEF Pins
<1> QED  BY <1>2, <1>4, <1>5 DEF Selected

(* The counter and its carry, whichever address they start from.           *)
LEMMA CountTo ==
  ASSUME TypeOK, NEW p \in Ports, Count(p)
  PROVE  LET a == IF p.OE_ = 1 THEN uPC ELSE Selected(p) IN
         /\ a \in Nibble
         /\ uPC' \in Nibble
         /\ Co' \in Bit
         /\ uPC' + (Top + 1) * Co' = a + p.Cn
<1> DEFINE a == IF p.OE_ = 1 THEN uPC ELSE Selected(p)
<1>1. p \in Pins  BY SliceAssumption
<1>2. a \in Nibble  BY SelectedNibble DEF TypeOK
<1>3. /\ uPC' = (a + p.Cn) % (Top + 1)
      /\ Co' = IF p.Cn = 1 /\ a = Top THEN 1 ELSE 0
  BY DEF Count
<1> HIDE DEF a
<1>4. p.Cn = 0 \/ p.Cn = 1  BY <1>1 DEF Pins, Bit
<1>5. CASE p.Cn = 1 /\ a = Top
  <2>1. uPC' = 0 /\ Co' = 1  BY <1>3, <1>5, TopNat
  <2> QED  BY <1>2, <1>5, <2>1, TopNat DEF Nibble, Bit, a
<1>6. CASE ~(p.Cn = 1 /\ a = Top)
  <2>1. a \in Nat /\ a + p.Cn \in 0 .. Top  BY <1>2, <1>4, <1>6, TopNat DEF Nibble
  <2>2. uPC' = a + p.Cn /\ Co' = 0  BY <1>3, <1>6, <2>1, TopNat
  <2> QED  BY <1>2, <2>1, <2>2, TopNat DEF Nibble, Bit, a
<1> QED  BY <1>5, <1>6

(* Where the k-th address of the stack is kept before and after a push and *)
(* a pop.                                                                  *)
LEMMA PushMoves ==
  ASSUME TypeOK,
         SP' = (SP + 1) % 4,
         STK' = [STK EXCEPT ![(SP + 1) % 4] = uPC]
  PROVE  /\ stack'[1] = uPC
         /\ \A k \in 1 .. 3 : stack'[k + 1] = stack[k]
<1>1. SP \in {0, 1, 2, 3} /\ DOMAIN STK = {0, 1, 2, 3}  BY DEF TypeOK
<1>2. CASE SP = 0
  <2>1. SP' = 1 /\ STK' = [STK EXCEPT ![1] = uPC]  BY <1>2
  <2> QED  BY <1>1, <1>2, <2>1 DEF stack
<1>3. CASE SP = 1
  <2>1. SP' = 2 /\ STK' = [STK EXCEPT ![2] = uPC]  BY <1>3
  <2> QED  BY <1>1, <1>3, <2>1 DEF stack
<1>4. CASE SP = 2
  <2>1. SP' = 3 /\ STK' = [STK EXCEPT ![3] = uPC]  BY <1>4
  <2> QED  BY <1>1, <1>4, <2>1 DEF stack
<1>5. CASE SP = 3
  <2>1. SP' = 0 /\ STK' = [STK EXCEPT ![0] = uPC]  BY <1>5
  <2> QED  BY <1>1, <1>5, <2>1 DEF stack
<1> QED  BY <1>1, <1>2, <1>3, <1>4, <1>5

LEMMA PopMoves ==
  ASSUME TypeOK,
         SP' = IF SP # 0 THEN SP - 1 ELSE 3,
         STK' = STK
  PROVE  /\ stack'[4] = stack[1]
         /\ \A k \in 1 .. 3 : stack'[k] = stack[k + 1]
<1>1. SP \in {0, 1, 2, 3}  BY DEF TypeOK
<1>2. CASE SP = 0  BY <1>2 DEF stack
<1>3. CASE SP = 1  BY <1>3 DEF stack
<1>4. CASE SP = 2  BY <1>4 DEF stack
<1>5. CASE SP = 3  BY <1>5 DEF stack
<1> QED  BY <1>1, <1>2, <1>3, <1>4, <1>5

(***************************************************************************)
(* The registers always hold addresses of the slice.                       *)
(***************************************************************************)
LEMMA EdgeTypeOK ==
  ASSUME TypeOK, NEW p \in Ports, clock_edge_LH(p)
  PROVE  TypeOK'
<1>1. p \in Pins  BY SliceAssumption
<1>2. AR' \in Nibble /\ Y' \in Nibble  BY SelectedNibble DEF clock_edge_LH, TypeOK
<1>3. uPC' \in Nibble /\ Co' \in Bit  BY CountTo DEF clock_edge_LH
<1>4. SP' \in 0 .. 3 /\ STK' \in [0 .. 3 -> Nibble]
  <2>1. StackStep(p) /\ SP \in 0 .. 3 /\ STK \in [0 .. 3 -> Nibble] /\ uPC \in Nibble
    BY DEF clock_edge_LH, TypeOK
  <2>2. CASE p.FE_ = 0 /\ p.PUP = 1
    <3>1. SP' = (SP + 1) % 4 /\ STK' = [STK EXCEPT ![(SP + 1) % 4] = uPC]
      BY <2>1, <2>2 DEF StackStep
    <3> QED  BY <2>1, <3>1
  <2>3. CASE p.FE_ = 0 /\ p.PUP = 0
    <3>1. SP' = (IF SP # 0 THEN SP - 1 ELSE 3) /\ STK' = STK
      BY <2>1, <2>3 DEF StackStep
    <3> QED  BY <2>1, <3>1
  <2>4. CASE p.FE_ = 1  BY <2>1, <2>4 DEF StackStep
  <2> QED  BY <1>1, <2>2, <2>3, <2>4 DEF Pins, Bit
<1> QED  BY <1>2, <1>3, <1>4 DEF TypeOK

LEMMA InitTypeOK == Init => TypeOK
BY TopNat DEF Init, TypeOK, Nibble, Bit

THEOREM TypeCorrect == Spec => []TypeOK
<1>1. TypeOK /\ [Next]_vars => TypeOK'
  <2> SUFFICES ASSUME TypeOK, [Next]_vars PROVE TypeOK'
    OBVIOUS
  <2>1. CASE Next  BY <2>1, EdgeTypeOK DEF Next
  <2>2. CASE UNCHANGED vars  BY <2>2 DEF TypeOK, vars
  <2> QED  BY <2>1, <2>2
<1> QED  BY <1>1, InitTypeOK, PTL DEF Spec

(***************************************************************************)
(* A slice and its carry count without loss.                               *)
(***************************************************************************)
THEOREM CarryCorrect == Spec => CarryIsExact
<1>1. ASSUME TypeOK, NEW p \in Ports, clock_edge_LH(p)
      PROVE  \E a \in {uPC, Y'}, c \in Bit : uPC' + (Top + 1) * Co' = a + c
  <2>1. p.Cn \in Bit  BY SliceAssumption DEF Pins
  <2>2. CASE p.OE_ = 1
    <3>1. uPC' + (Top + 1) * Co' = uPC + p.Cn  BY <1>1, <2>2, CountTo DEF clock_edge_LH
    <3> QED  BY <2>1, <3>1
  <2>3. CASE p.OE_ # 1
    <3>1. uPC' + (Top + 1) * Co' = Y' + p.Cn  BY <1>1, <2>3, CountTo DEF clock_edge_LH
    <3> QED  BY <2>1, <3>1
  <2> QED  BY <2>2, <2>3
<1>2. TypeOK /\ [Next]_vars =>
        [\E a \in {uPC, Y'}, c \in Bit : uPC' + (Top + 1) * Co' = a + c]_vars
  BY <1>1 DEF Next
<1> QED  BY <1>2, TypeCorrect, PTL DEF Spec, CarryIsExact

(***************************************************************************)
(* The circular buffer implements the stack: the place SP points to is its *)
(* top, and the places below follow in decreasing order, around the end.   *)
(***************************************************************************)
LEMMA FourWords ==
  ASSUME NEW f \in [1 .. 4 -> Nibble]
  PROVE  f \in Seq(Nibble) /\ Len(f) = 4 /\ f # <<>>
<1>1. f \in Seq(Nibble)  BY 4 \in Nat, SeqDef
<1>2. DOMAIN f = 1 .. Len(f) /\ Len(f) \in Nat  BY <1>1, LenProperties
<1>3. Len(f) = 4  BY <1>2
<1> QED  BY <1>1, <1>3

LEMMA Rotation ==
  ASSUME NEW sp \in 0 .. 3, NEW st \in [0 .. 3 -> Nibble]
  PROVE  [k \in 1 .. 4 |-> st[(sp + 5 - k) % 4]] \in [1 .. 4 -> Nibble]
<1> SUFFICES ASSUME NEW k \in 1 .. 4
             PROVE  st[(sp + 5 - k) % 4] \in Nibble
  OBVIOUS
<1>1. (sp + 5 - k) % 4 \in 0 .. 3  OBVIOUS
<1> QED  BY <1>1

LEMMA StackType ==
  ASSUME TypeOK
  PROVE  stack \in [1 .. 4 -> Nibble]
BY Rotation DEF stack, TypeOK

(* Sequences of four words that stand in such a relation.                  *)
LEMMA PushedWord ==
  ASSUME NEW S, NEW s \in Seq(S), NEW t \in Seq(S), Len(s) = 4, Len(t) = 4,
         NEW e \in S, t[1] = e, \A k \in 1 .. 3 : t[k + 1] = s[k]
  PROVE  t = <<e>> \o SubSeq(s, 1, 4 - 1)
<1> DEFINE rest == SubSeq(s, 1, 4 - 1)
           one  == <<e>>
<1>1. rest \in Seq(S) /\ Len(rest) = 3 /\ \A i \in 1 .. 3 : rest[i] = s[i]
  <2>1. ASSUME NEW i \in 1 .. 3 PROVE s[i] \in S
    <3>1. i \in 1 .. Len(s)  OBVIOUS
    <3> QED  BY <3>1, ElementOfSeq
  <2>2. 1 \in Int /\ 4 - 1 \in Int /\ 4 - 1 = 3  OBVIOUS
  <2> QED  BY <2>1, <2>2, SubSeqProperties
<1>2. one \in Seq(S) /\ Len(one) = 1 /\ one[1] = e  OBVIOUS
<1> HIDE DEF rest, one
<1>3. one \o rest \in Seq(S)  BY <1>1, <1>2, ConcatProperties
<1>4. Len(one \o rest) = 4
  <2>1. Len(one \o rest) = Len(one) + Len(rest)  BY <1>1, <1>2, ConcatProperties
  <2> QED  BY <1>1, <1>2, <2>1
<1>5. ASSUME NEW i \in 1 .. 4 PROVE t[i] = (one \o rest)[i]
  <2>1. i \in 1 .. Len(one) + Len(rest)  BY <1>1, <1>2
  <2>2. (one \o rest)[i] = IF i <= Len(one) THEN one[i] ELSE rest[i - Len(one)]
    BY <1>1, <1>2, <2>1, ConcatProperties
  <2>3. CASE i = 1
    <3>1. (one \o rest)[i] = one[1]  BY <1>2, <2>2, <2>3
    <3> QED  BY <1>2, <2>3, <3>1
  <2>4. CASE i \in 2 .. 4
    <3>1. PICK j \in 1 .. 3 : j = i - 1 /\ i = j + 1 /\ ~(i <= 1)  BY <2>4
    <3>2. t[i] = s[j]  BY <3>1
    <3>3. (one \o rest)[i] = rest[i - 1]  BY <1>2, <2>2, <3>1
    <3>4. (one \o rest)[i] = rest[j]  BY <3>1, <3>3
    <3>5. rest[j] = s[j]  BY <1>1
    <3> QED  BY <3>2, <3>4, <3>5
  <2>5. i = 1 \/ i \in 2 .. 4  OBVIOUS
  <2> QED  BY <2>3, <2>4, <2>5, Zenon
<1>6. t = one \o rest  BY <1>3, <1>4, <1>5, SeqEqual
<1> QED  BY <1>6 DEF one, rest

LEMMA PoppedWord ==
  ASSUME NEW S, NEW s \in Seq(S), NEW t \in Seq(S), Len(s) = 4, Len(t) = 4,
         t[4] = s[1], \A k \in 1 .. 3 : t[k] = s[k + 1]
  PROVE  t = Append(Tail(s), Head(s))
<1> DEFINE tail == Tail(s)
           head == Head(s)
<1>1. s # <<>>  BY EmptySeq
<1>2. tail \in Seq(S) /\ head \in S  BY <1>1, HeadTailProperties
<1>3. Len(tail) = 3  BY <1>1, HeadTailProperties
<1>4. \A i \in 1 .. Len(tail) : tail[i] = s[i + 1]  BY <1>1, HeadTailProperties
<1>5. head = s[1]  OBVIOUS
<1> HIDE DEF tail, head
<1>6. Append(tail, head) \in Seq(S)  BY <1>2, AppendProperties
<1>7. Len(Append(tail, head)) = 4
  <2>1. Len(Append(tail, head)) = Len(tail) + 1  BY <1>2, AppendProperties
  <2> QED  BY <1>3, <2>1
<1>8. ASSUME NEW i \in 1 .. 4 PROVE t[i] = Append(tail, head)[i]
  <2>1. CASE i = 4
    <3>1. Append(tail, head)[Len(tail) + 1] = head  BY <1>2, AppendProperties
    <3>2. Len(tail) + 1 = i  BY <1>3, <2>1
    <3>3. Append(tail, head)[i] = s[1]  BY <1>5, <3>1, <3>2
    <3> QED  BY <2>1, <3>3
  <2>2. CASE i \in 1 .. 3
    <3>1. i \in 1 .. Len(tail)  BY <1>3, <2>2
    <3>2. Append(tail, head)[i] = tail[i]  BY <1>2, <3>1, AppendProperties
    <3>3. t[i] = s[i + 1]  BY <2>2
    <3>4. tail[i] = s[i + 1]  BY <1>4, <3>1
    <3> QED  BY <3>2, <3>3, <3>4
  <2>3. i = 4 \/ i \in 1 .. 3  OBVIOUS
  <2> QED  BY <2>1, <2>2, <2>3, Zenon
<1>9. t = Append(tail, head)  BY <1>6, <1>7, <1>8, SeqEqual
<1> QED  BY <1>9 DEF tail, head

LEMMA StackStepRefines ==
  ASSUME TypeOK, TypeOK', NEW p \in Ports, StackStep(p)
  PROVE  Abstract!Next \/ UNCHANGED stack
<1>1. stack \in Seq(Nibble) /\ Len(stack) = 4
  BY StackType, FourWords
<1>2. stack' \in Seq(Nibble) /\ Len(stack') = 4
  <2>1. stack' = [k \in 1 .. 4 |-> STK'[(SP' + 5 - k) % 4]]  BY DEF stack
  <2>2. stack' \in [1 .. 4 -> Nibble]  BY <2>1, Rotation DEF TypeOK
  <2> QED  BY <2>2, FourWords
<1>3. CASE p.FE_ = 0 /\ p.PUP = 1
  <2>1. /\ stack'[1] = uPC
        /\ \A k \in 1 .. 3 : stack'[k + 1] = stack[k]
    BY <1>3, PushMoves DEF StackStep
  <2>2. uPC \in Nibble  BY DEF TypeOK
  <2>3. Abstract!Push  BY <1>1, <1>2, <2>1, <2>2, PushedWord DEF Abstract!Push
  <2> QED  BY <2>3 DEF Abstract!Next
<1>4. CASE p.FE_ = 0 /\ p.PUP = 0
  <2>1. /\ stack'[4] = stack[1]
        /\ \A k \in 1 .. 3 : stack'[k] = stack[k + 1]
    BY <1>4, PopMoves DEF StackStep
  <2>2. Abstract!Pop  BY <1>1, <1>2, <2>1, PoppedWord DEF Abstract!Pop
  <2> QED  BY <2>2 DEF Abstract!Next
<1>5. CASE p.FE_ = 1  BY <1>5 DEF StackStep, stack
<1>6. p \in Pins  BY SliceAssumption
<1> QED  BY <1>3, <1>4, <1>5, <1>6 DEF Pins, Bit

THEOREM StackRefinement == Spec => ImplementsReturnStack
<1>1. Init => Abstract!Init
  BY DEF Init, Abstract!Init, stack
<1>2. TypeOK /\ TypeOK' /\ [Next]_vars => [Abstract!Next]_stack
  <2> SUFFICES ASSUME TypeOK, TypeOK', [Next]_vars
               PROVE  Abstract!Next \/ UNCHANGED stack
    OBVIOUS
  <2>1. CASE Next  BY <2>1, StackStepRefines DEF Next, clock_edge_LH
  <2>2. CASE UNCHANGED vars  BY <2>2 DEF vars, stack
  <2> QED  BY <2>1, <2>2
<1> QED  BY <1>1, <1>2, TypeCorrect, PTL DEF Spec, ImplementsReturnStack, Abstract!Spec

(***************************************************************************)
(* Returns find the addresses of their calls.                              *)
(***************************************************************************)
LEMMA CalledWord ==
  ASSUME NEW S, NEW s \in Seq(S), NEW e \in S, NEW n \in 0 .. Len(s)
  PROVE  LET t == <<e>> \o SubSeq(s, 1, n) IN
         /\ t \in Seq(S) /\ Len(t) = n + 1
         /\ t[1] = e
         /\ \A k \in 1 .. n : t[k + 1] = s[k]
<1> DEFINE rest == SubSeq(s, 1, n)
           one  == <<e>>
<1>1. Len(s) \in Nat /\ n \in Nat  BY LenProperties
<1>2. rest \in Seq(S) /\ Len(rest) = n /\ \A i \in 1 .. n : rest[i] = s[i]
  <2>1. ASSUME NEW i \in 1 .. n PROVE s[i] \in S
    <3>1. i \in 1 .. Len(s)  BY <1>1
    <3> QED  BY <3>1, ElementOfSeq
  <2>2. 1 \in Int /\ n \in Int  BY <1>1
  <2>3. rest \in Seq(S)  BY <2>1, <2>2, SubSeqProperties
  <2>4. Len(rest) = IF 1 <= n THEN n - 1 + 1 ELSE 0  BY <2>1, <2>2, SubSeqProperties
  <2>5. \A i \in 1 .. n - 1 + 1 : rest[i] = s[1 + i - 1]
    BY <2>1, <2>2, SubSeqProperties
  <2>6. Len(rest) = n  BY <1>1, <2>4
  <2>7. ASSUME NEW i \in 1 .. n PROVE rest[i] = s[i]
    <3>1. i \in 1 .. n - 1 + 1 /\ 1 + i - 1 = i  BY <1>1
    <3>2. rest[i] = s[1 + i - 1]  BY <2>5, <3>1
    <3> QED  BY <3>1, <3>2
  <2> QED  BY <2>3, <2>6, <2>7
<1>3. one \in Seq(S) /\ Len(one) = 1 /\ one[1] = e  OBVIOUS
<1> HIDE DEF rest, one
<1>4. one \o rest \in Seq(S)  BY <1>2, <1>3, ConcatProperties
<1>5. Len(one \o rest) = n + 1
  <2>1. Len(one \o rest) = Len(one) + Len(rest)  BY <1>2, <1>3, ConcatProperties
  <2> QED  BY <1>1, <1>2, <1>3, <2>1
<1>6. (one \o rest)[1] = e
  <2>1. 1 \in 1 .. Len(one) + Len(rest) /\ 1 <= Len(one)  BY <1>1, <1>2, <1>3
  <2>2. (one \o rest)[1] = one[1]  BY <1>2, <1>3, <2>1, ConcatProperties
  <2> QED  BY <1>3, <2>2
<1>7. ASSUME NEW k \in 1 .. n PROVE (one \o rest)[k + 1] = s[k]
  <2>1. /\ k + 1 \in 1 .. Len(one) + Len(rest)
        /\ ~(k + 1 <= Len(one)) /\ k + 1 - Len(one) = k
    BY <1>1, <1>2, <1>3
  <2>2. \A i \in 1 .. Len(one) + Len(rest) :
          (one \o rest)[i] = IF i <= Len(one) THEN one[i] ELSE rest[i - Len(one)]
    BY <1>2, <1>3, ConcatProperties
  <2>3. (one \o rest)[k + 1] = rest[k + 1 - Len(one)]  BY <2>1, <2>2
  <2>4. rest[k] = s[k]  BY <1>2
  <2> QED  BY <2>1, <2>3, <2>4
<1> QED  BY <1>4, <1>5, <1>6, <1>7 DEF one, rest

LEMMA CallKeepsPending ==
  ASSUME CallsInv, TypeOK', NEW p \in Ports, Calls(p), StackStep(p), pending' = Called
  PROVE  Pending'
<1>1. pending \in Seq(Nibble) /\ Len(pending) <= 4 /\ Len(pending) \in Nat
  BY LenProperties DEF CallsInv, Pending
<1>2. Kept \in 0 .. Len(pending) /\ Kept \in 0 .. 3
  <2> DEFINE n == Len(pending)
  <2>1. n \in Nat /\ n <= 4  BY <1>1
  <2>2. Kept = IF n < 4 THEN n ELSE 3  BY DEF Kept
  <2> HIDE DEF n
  <2>3. Kept \in 0 .. n /\ Kept \in 0 .. 3  BY <2>1, <2>2
  <2> QED  BY <2>3 DEF n
<1>3. uPC \in Nibble /\ TypeOK  BY DEF CallsInv, TypeOK
<1>4. /\ pending' \in Seq(Nibble) /\ Len(pending') = Kept + 1
      /\ pending'[1] = uPC
      /\ \A k \in 1 .. Kept : pending'[k + 1] = pending[k]
  <2> DEFINE t == <<uPC>> \o SubSeq(pending, 1, Kept)
  <2>1. pending \in Seq(Nibble) /\ uPC \in Nibble /\ Kept \in 0 .. Len(pending)
    BY <1>1, <1>2, <1>3
  <2>2. /\ t \in Seq(Nibble) /\ Len(t) = Kept + 1
        /\ t[1] = uPC
        /\ \A k \in 1 .. Kept : t[k + 1] = pending[k]
    BY ONLY <2>1, CalledWord
  <2>3. pending' = t  BY DEF Called
  <2> HIDE DEF t
  <2> QED  BY <2>2, <2>3
<1>5. /\ stack'[1] = uPC
      /\ \A k \in 1 .. 3 : stack'[k + 1] = stack[k]
  BY <1>3, PushMoves DEF StackStep, Calls
<1>6. ASSUME NEW k \in 1 .. Len(pending') PROVE stack'[k] = pending'[k]
  <2>1. CASE k = 1  BY <1>4, <1>5, <2>1
  <2>2. CASE k # 1
    <3>1. PICK j \in 1 .. Kept : k = j + 1  BY <1>2, <1>4, <2>2
    <3>2. j \in 1 .. 3 /\ j \in 1 .. Len(pending)  BY <1>1, <1>2
    <3>3. pending'[j + 1] = pending[j]  BY <1>4
    <3>4. stack'[j + 1] = stack[j]  BY <1>5, <3>2
    <3>5. stack[j] = pending[j]  BY <3>2 DEF CallsInv, Pending
    <3> QED  BY <3>1, <3>3, <3>4, <3>5
  <2> QED  BY <2>1, <2>2
<1>7. Len(pending') <= 4  BY <1>2, <1>4
<1> QED  BY <1>4, <1>6, <1>7 DEF Pending

LEMMA ReturnKeepsPending ==
  ASSUME CallsInv, TypeOK', NEW p \in Ports, Returns(p), StackStep(p),
         pending # <<>>, pending' = Tail(pending)
  PROVE  Pending'
<1>1. pending \in Seq(Nibble) /\ Len(pending) <= 4 /\ Len(pending) \in Nat
  BY LenProperties DEF CallsInv, Pending
<1>2. pending' \in Seq(Nibble)  BY <1>1, HeadTailProperties
<1>3. Len(pending') = Len(pending) - 1  BY <1>1, HeadTailProperties
<1>4. \A k \in 1 .. Len(Tail(pending)) : Tail(pending)[k] = pending[k + 1]
  BY <1>1, HeadTailProperties
<1>5. \A k \in 1 .. 3 : stack'[k] = stack[k + 1]
  BY PopMoves DEF StackStep, Returns, CallsInv
<1>6. ASSUME NEW k \in 1 .. Len(pending') PROVE stack'[k] = pending'[k]
  <2>1. k \in 1 .. 3 /\ k + 1 \in 1 .. Len(pending)  BY <1>1, <1>3
  <2>2. stack[k + 1] = pending[k + 1]  BY <2>1 DEF CallsInv, Pending
  <2>3. pending'[k] = pending[k + 1]  BY <1>4
  <2>4. stack'[k] = stack[k + 1]  BY <1>5, <2>1
  <2> QED  BY <2>2, <2>3, <2>4
<1>7. Len(pending') <= 4  BY <1>1, <1>3
<1> QED  BY <1>2, <1>6, <1>7 DEF Pending

(* A return too many finds nothing pending, and the rest does not touch    *)
(* the stack.                                                              *)
LEMMA IdleKeepsPending ==
  ASSUME CallsInv, pending' = pending, pending = <<>> \/ UNCHANGED <<SP, STK>>
  PROVE  Pending'
<1>1. CASE pending = <<>>  BY <1>1, EmptySeq DEF Pending, CallsInv
<1>2. CASE UNCHANGED <<SP, STK>>  BY <1>2 DEF Pending, CallsInv, stack
<1> QED  BY <1>1, <1>2

THEOREM CallsInvariance == CallsSpec => []CallsInv
<1>1. CallsInit => CallsInv
  <2> SUFFICES ASSUME CallsInit PROVE CallsInv
    OBVIOUS
  <2>1. TypeOK  BY InitTypeOK DEF CallsInit
  <2>2. Pending  BY EmptySeq DEF CallsInit, Pending
  <2> QED  BY <2>1, <2>2 DEF CallsInv
<1>2. CallsInv /\ [CallsNext]_<<vars, pending>> => CallsInv'
  <2> SUFFICES ASSUME CallsInv, [CallsNext]_<<vars, pending>> PROVE CallsInv'
    OBVIOUS
  <2>1. ASSUME NEW p \in Ports, CallsStep(p) PROVE CallsInv'
    <3>1. TypeOK'  BY <2>1, EdgeTypeOK DEF CallsStep, CallsInv
    <3>2. StackStep(p)  BY <2>1 DEF CallsStep, clock_edge_LH
    <3>3. CASE Calls(p)
      <4>1. pending' = Called  BY <2>1, <3>3 DEF CallsStep, Calls, Returns
      <4> QED  BY <3>1, <3>2, <3>3, <4>1, CallKeepsPending DEF CallsInv
    <3>4. CASE Returns(p) /\ pending # <<>>
      <4>1. pending' = Tail(pending)  BY <2>1, <3>4 DEF CallsStep, Calls, Returns
      <4> QED  BY <3>1, <3>2, <3>4, <4>1, ReturnKeepsPending DEF CallsInv
    <3>5. CASE ~Calls(p) /\ ~(Returns(p) /\ pending # <<>>)
      <4>1. pending' = pending  BY <2>1, <3>5 DEF CallsStep
      <4>2. p \in Pins  BY SliceAssumption
      <4>3. pending = <<>> \/ UNCHANGED <<SP, STK>>
        BY <3>2, <3>5, <4>2 DEF StackStep, Calls, Returns, Pins, Bit
      <4> QED  BY <3>1, <4>1, <4>3, IdleKeepsPending DEF CallsInv
    <3> QED  BY <3>3, <3>4, <3>5
  <2>2. CASE UNCHANGED <<vars, pending>>
    BY <2>2 DEF CallsInv, TypeOK, Pending, vars, stack
  <2> QED  BY <2>1, <2>2 DEF CallsNext
<1> QED  BY <1>1, <1>2, PTL DEF CallsSpec

THEOREM ReturnsCorrect == CallsSpec => []ReturnsNest
<1>1. CallsInv => ReturnsNest
  <2> SUFFICES ASSUME CallsInv, pending # <<>> PROVE STK[SP] = pending[1]
    BY DEF ReturnsNest
  <2>1. Len(pending) \in Nat /\ Len(pending) # 0  BY EmptySeq DEF CallsInv, Pending
  <2>2. stack[1] = pending[1]  BY <2>1 DEF CallsInv, Pending
  <2>3. stack[1] = STK[(SP + 4) % 4]  BY DEF stack
  <2>4. (SP + 4) % 4 = SP  BY DEF CallsInv, TypeOK
  <2> QED  BY <2>2, <2>3, <2>4
<1> QED  BY <1>1, CallsInvariance, PTL
=============================================================================
