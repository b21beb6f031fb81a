-------------------------- MODULE Cpu6MachineProofs --------------------------
(***************************************************************************)
(* Interrupt levels do not disturb each other's registers, and a return    *)
(* takes its frame from the stack, for every register file and every       *)
(* sequence of operations.  Both rest on what single reads and writes of   *)
(* memory do, and on the stack pointer's being two cells of it.            *)
(*                                                                         *)
(* The emulator's arithmetic, for bytes and for words, loses nothing: what *)
(* the register cannot hold is in the link.                                *)
(***************************************************************************)
EXTENDS Cpu6Machine, Cpu6Alu, TLAPS

Memory == [Byte -> Byte]

TypeOK ==
  /\ run \in {0, 1} /\ IE \in {0, 1}
  /\ PC \in Word /\ LV \in Byte /\ MAP \in Byte
  /\ RF \in Memory /\ flags \in SUBSET Flags

(***************************************************************************)
(* Memory.                                                                 *)
(***************************************************************************)
LEMMA Words == \A n : n \in Word <=> n \in Nat /\ n < 65536
<1> DEFINE m == 65535
<1>1. Word = 0 .. m
  BY DEF Word
<1>2. m \in Nat /\ \A n \in Nat : n <= m <=> n < 65536
  OBVIOUS
<1> HIDE DEF m
<1> QED BY <1>1, <1>2

LEMMA Bytes == \A n : n \in Byte <=> n \in Nat /\ n < 256
  BY DEF Byte

LEMMA ReadType ==
  ASSUME NEW rf \in Memory, NEW a \in Nat
  PROVE  Read(rf, a) \in Byte
<1>1. 0 \in Byte
  BY Bytes
<1> QED BY <1>1 DEF Memory, Read

LEMMA ReadWordType ==
  ASSUME NEW rf \in Memory, NEW a \in Nat
  PROVE  ReadWord(rf, a) \in Word
<1>1. Read(rf, a) \in Byte /\ Read(rf, (a + 1) % 65536) \in Byte
  BY ReadType
<1> QED BY <1>1, Words, Bytes DEF ReadWord

LEMMA WriteOne ==
  ASSUME NEW rf \in Memory, NEW a \in Nat, NEW v \in Byte
  PROVE  /\ Write(rf, a, v) \in Memory
         /\ a \in Byte => Read(Write(rf, a, v), a) = v
         /\ \A b \in Nat \ {a} : Read(Write(rf, a, v), b) = Read(rf, b)
  BY DEF Memory, Write, Read, Byte

(* A word written is two cells, and can be read back if both exist.        *)
Cells(a) == {a, (a + 1) % 65536}

LEMMA WriteTwo ==
  ASSUME NEW rf \in Memory, NEW a \in Word, NEW v \in Word
  PROVE  /\ WriteWord(rf, a, v) \in Memory
         /\ a \in Byte /\ a + 1 \in Byte => ReadWord(WriteWord(rf, a, v), a) = v
         /\ \A b \in Nat \ Cells(a) : Read(WriteWord(rf, a, v), b) = Read(rf, b)
<1> DEFINE hi == v \div 256
           lo == v % 256
           n  == (a + 1) % 65536
           w1 == Write(rf, a, hi)
           w2 == Write(w1, n, lo)
<1>1. hi \in Byte /\ lo \in Byte /\ v = 256 * hi + lo
  BY Words, Bytes
<1>2. n \in Nat /\ a \in Nat /\ n # a
  BY Words
<1>3. w1 \in Memory /\ (a \in Byte => Read(w1, a) = hi)
      /\ \A b \in Nat \ {a} : Read(w1, b) = Read(rf, b)
  BY <1>1, <1>2, WriteOne
<1>4. w2 \in Memory /\ (n \in Byte => Read(w2, n) = lo)
      /\ \A b \in Nat \ {n} : Read(w2, b) = Read(w1, b)
  BY <1>1, <1>2, <1>3, WriteOne
<1>5. WriteWord(rf, a, v) = w2
  BY DEF WriteWord
<1>6. a + 1 \in Byte => n \in Byte
  BY Words, Bytes
<1>7. ReadWord(w2, a) = 256 * Read(w2, a) + Read(w2, n)
  BY DEF ReadWord
<1> HIDE DEF hi, lo, w1, w2
<1>8. a \in Byte /\ a + 1 \in Byte => ReadWord(w2, a) = v
  BY <1>1, <1>2, <1>3, <1>4, <1>6, <1>7
<1>9. \A b \in Nat \ Cells(a) : Read(w2, b) = Read(rf, b)
  BY <1>3, <1>4 DEF Cells
<1> QED BY <1>4, <1>5, <1>8, <1>9

(***************************************************************************)
(* Registers of the current level, and pops.                               *)
(***************************************************************************)
Names == {X, S, C}

LEMMA RegisterCells ==
  ASSUME TypeOK, NEW r \in Names
  PROVE  /\ ILREG(r) \in Word /\ ILREG(r) + 1 \in Word
         /\ Cells(ILREG(r)) = {ILREG(r), ILREG(r) + 1}
         /\ \A a \in Cells(ILREG(r)) : a \div 16 = LV
         /\ LV < 16 => ILREG(r) \in Byte /\ ILREG(r) + 1 \in Byte
<1> DEFINE i == 16 * LV + r
<1>1. LV \in 0 .. 255 /\ r \in {4, 10, 12}
  BY DEF TypeOK, Byte, Names, X, S, C
<1>2. ILREG(r) = i
  BY DEF ILREG
<1>3. i \in Nat /\ i < 65535 /\ (i + 1) % 65536 = i + 1
  BY <1>1
<1>4. i \div 16 = LV /\ (i + 1) \div 16 = LV
  BY <1>1
<1>5. LV < 16 => i + 1 \in 0 .. 255 /\ i \in 0 .. 255
  BY <1>1
<1> HIDE DEF i
<1> QED BY <1>2, <1>3, <1>4, <1>5, Words, Bytes DEF Cells

(* Only cells of the current level differ.                                 *)
Keeps(rf, to) == \A a \in Byte : Read(to, a) # Read(rf, a) => a \div 16 = LV

LEMMA KeepsWrite ==
  ASSUME TypeOK, NEW rf \in Memory, NEW r \in Names, NEW v \in Word
  PROVE  WriteWord(rf, ILREG(r), v) \in Memory /\ Keeps(rf, WriteWord(rf, ILREG(r), v))
<1> DEFINE a == ILREG(r)
           to == WriteWord(rf, a, v)
<1>1. a \in Word /\ \A b \in Cells(a) : b \div 16 = LV
  BY RegisterCells
<1> HIDE DEF a
<1>2. to \in Memory /\ \A b \in Nat \ Cells(a) : Read(to, b) = Read(rf, b)
  BY <1>1, WriteTwo
<1> HIDE DEF to
<1>3. ASSUME NEW b \in Byte, Read(to, b) # Read(rf, b) PROVE b \div 16 = LV
  <2>1. b \in Nat
    BY DEF Byte
  <2> QED BY <1>1, <1>2, <1>3, <2>1
<1> QED BY <1>2, <1>3 DEF Keeps, to, a

LEMMA KeepsTransitive ==
  ASSUME NEW r1, NEW r2, NEW r3, Keeps(r1, r2), Keeps(r2, r3)
  PROVE  Keeps(r1, r3)
  BY DEF Keeps

LEMMA PopKeeps ==
  ASSUME TypeOK, NEW rf \in Memory
  PROVE  Pop(rf).rf \in Memory /\ Pop(rf).val \in Byte /\ Keeps(rf, Pop(rf).rf)
<1> DEFINE sp == ReadWord(rf, ILREG(S))
           moved == WriteWord(rf, ILREG(S), (sp + 1) % 65536)
<1>1. S \in Names /\ ILREG(S) \in Nat
  <2>1. S \in Names
    BY DEF Names
  <2>2. ILREG(S) \in Word
    BY <2>1, RegisterCells
  <2> QED BY <2>1, <2>2, Words
<1>2. sp \in Word /\ sp \in Nat /\ (sp + 1) % 65536 \in Word
  <2>1. sp \in Word
    BY <1>1, ReadWordType
  <2> HIDE DEF sp
  <2> QED BY <2>1, Words
<1>3. moved \in Memory /\ Keeps(rf, moved)
  BY <1>1, <1>2, KeepsWrite
<1>4. Read(moved, sp) \in Byte
  BY <1>2, <1>3, ReadType
<1>5. Pop(rf).rf = moved /\ Pop(rf).val = Read(moved, sp)
  BY DEF Pop
<1> QED BY <1>3, <1>4, <1>5

LEMMA PopWordIsTwoPops ==
  ASSUME NEW rf
  PROVE  /\ PopWord(rf).rf = Pop(Pop(rf).rf).rf
         /\ PopWord(rf).val = 256 * Pop(rf).val + Pop(Pop(rf).rf).val
  BY DEF PopWord

LEMMA PopWordKeeps ==
  ASSUME TypeOK, NEW rf \in Memory
  PROVE  PopWord(rf).rf \in Memory /\ PopWord(rf).val \in Word /\ Keeps(rf, PopWord(rf).rf)
<1> DEFINE p == Pop(rf)
           q == Pop(p.rf)
<1>1. p.rf \in Memory /\ p.val \in Byte /\ Keeps(rf, p.rf)
  BY PopKeeps
<1>2. q.rf \in Memory /\ q.val \in Byte /\ Keeps(p.rf, q.rf)
  BY <1>1, PopKeeps
<1>3. Keeps(rf, q.rf)
  BY <1>1, <1>2, KeepsTransitive
<1>4. PopWord(rf).rf = q.rf /\ PopWord(rf).val = 256 * p.val + q.val
  BY PopWordIsTwoPops
<1>5. 256 * p.val + q.val \in Word
  <2>1. p.val \in Byte /\ q.val \in Byte
    BY <1>1, <1>2
  <2> HIDE DEF p, q
  <2> QED BY <2>1, Words, Bytes
<1> QED BY <1>2, <1>3, <1>4, <1>5

(***************************************************************************)
(* The operations that write registers.                                    *)
(***************************************************************************)
LEMMA OrType ==
  ASSUME NEW a \in Nat, NEW b \in Nat
  PROVE  Or(a, b) \in Byte
<1> DEFINE at(w) == IF (a \div w) % 2 = 1 \/ (b \div w) % 2 = 1 THEN w ELSE 0
<1>1. \A w \in Nat : at(w) = 0 \/ at(w) = w
  OBVIOUS
<1>2. Or(a, b) = at(1) + at(2) + at(4) + at(8) + at(16) + at(32) + at(64) + at(128)
  BY DEF Or
<1> HIDE DEF at
<1>3. /\ at(1) + at(2) \in 0 .. 3 /\ at(4) + at(8) \in 0 .. 12
      /\ at(16) + at(32) \in 0 .. 48 /\ at(64) + at(128) \in 0 .. 192
  BY <1>1
<1>4. \A p \in 0 .. 3, q \in 0 .. 12, s \in 0 .. 48, t \in 0 .. 192 :
        p + q + s + t \in Nat /\ p + q + s + t < 256
  OBVIOUS
<1>5. Or(a, b) = (at(1) + at(2)) + (at(4) + at(8)) + (at(16) + at(32)) + (at(64) + at(128))
  <2>1. \A w \in Nat : at(w) \in Nat
    BY <1>1
  <2> QED BY <1>2, <2>1
<1> QED BY <1>3, <1>4, <1>5, Bytes

LEMMA TransferKeeps ==
  ASSUME TypeOK, NEW pc \in Word, TransferPCtoX(pc)
  PROVE  RF' \in Memory /\ Keeps(RF, RF')
<1>1. X \in Names /\ RF \in Memory
  BY DEF Names, TypeOK
<1> QED BY <1>1, KeepsWrite DEF TransferPCtoX

LEMMA ReturnSubKeeps ==
  ASSUME TypeOK, ReturnSub
  PROVE  RF' \in Memory /\ Keeps(RF, RF')
<1> DEFINE link == PopWord(RF)
<1>1. X \in Names /\ RF \in Memory
  BY DEF Names, TypeOK
<1>2. link.rf \in Memory /\ link.val \in Word /\ Keeps(RF, link.rf)
  BY <1>1, PopWordKeeps
<1>3. RF' = WriteWord(link.rf, ILREG(X), link.val)
  BY DEF ReturnSub
<1> HIDE DEF link
<1>4. RF' \in Memory /\ Keeps(link.rf, RF')
  BY <1>1, <1>2, <1>3, KeepsWrite
<1> QED BY <1>2, <1>4, KeepsTransitive

LEMMA ReturnModifiedKeeps ==
  ASSUME TypeOK, ReturnModified
  PROVE  RF' \in Memory /\ Keeps(RF, RF') /\ LV' \in Byte
<1> DEFINE regC  == ReadWord(RF, ILREG(C))
           msb   == 16 * FlagsValue + ((regC \div 256) % 16)
           level == (regC % 256) \div 16
           lsb   == Or(16 * level, MAP)
<1>1. C \in Names /\ RF \in Memory /\ MAP \in Nat
  BY Bytes DEF Names, TypeOK
<1>2. regC \in Nat /\ regC < 65536
  <2>1. ILREG(C) \in Word
    BY <1>1, RegisterCells
  <2>2. ILREG(C) \in Nat
    BY <2>1, Words
  <2> QED BY <1>1, <2>2, ReadWordType, Words
<1>3. FlagsValue \in 0 .. 15
  BY DEF FlagsValue
<1>4. RF' = WriteWord(RF, ILREG(C), 256 * msb + lsb) /\ LV' = level
  BY DEF ReturnModified
<1> HIDE DEF regC
<1>5. level \in 0 .. 15 /\ 16 * level \in Nat /\ msb \in 0 .. 255
  BY <1>2, <1>3
<1>6. lsb \in Byte
  BY <1>1, <1>5, OrType
<1> HIDE DEF level, msb, lsb
<1>7. 256 * msb + lsb \in Word /\ level \in Byte
  BY <1>5, <1>6, Words, Bytes
<1> QED BY <1>1, <1>4, <1>7, KeepsWrite

(* What ReturnStack does, pop by pop.                                      *)
P1 == Pop(RF)
P2 == Pop(P1.rf)
P3 == Pop(P2.rf)
P4 == Pop(P3.rf)
P5 == Pop(P4.rf)

LEMMA ReturnStackPops ==
  ASSUME ReturnStack
  PROVE  /\ RF' = WriteWord(P5.rf, ILREG(X), 256 * P2.val + P3.val)
         /\ LV' = P4.val /\ MAP' = P5.val
<1>1. PopWord(P1.rf).rf = P3.rf /\ PopWord(P1.rf).val = 256 * P2.val + P3.val
  BY PopWordIsTwoPops DEF P2, P3
<1> QED BY <1>1 DEF ReturnStack, P1, P4, P5

LEMMA PopsKeep ==
  ASSUME TypeOK
  PROVE  /\ P1.rf \in Memory /\ P2.rf \in Memory /\ P3.rf \in Memory
         /\ P4.rf \in Memory /\ P5.rf \in Memory
         /\ P2.val \in Byte /\ P3.val \in Byte /\ P4.val \in Byte /\ P5.val \in Byte
         /\ Keeps(RF, P5.rf)
<1>0. RF \in Memory
  BY DEF TypeOK
<1>1. P1.rf \in Memory /\ Keeps(RF, P1.rf)
  BY <1>0, PopKeeps DEF P1
<1>2. P2.rf \in Memory /\ P2.val \in Byte /\ Keeps(P1.rf, P2.rf)
  BY <1>1, PopKeeps DEF P2
<1>3. P3.rf \in Memory /\ P3.val \in Byte /\ Keeps(P2.rf, P3.rf)
  BY <1>2, PopKeeps DEF P3
<1>4. P4.rf \in Memory /\ P4.val \in Byte /\ Keeps(P3.rf, P4.rf)
  BY <1>3, PopKeeps DEF P4
<1>5. P5.rf \in Memory /\ P5.val \in Byte /\ Keeps(P4.rf, P5.rf)
  BY <1>4, PopKeeps DEF P5
<1>6. Keeps(RF, P5.rf)
  BY <1>1, <1>2, <1>3, <1>4, <1>5 DEF Keeps
<1> QED BY <1>1, <1>2, <1>3, <1>4, <1>5, <1>6

LEMMA ReturnStackKeeps ==
  ASSUME TypeOK, ReturnStack
  PROVE  RF' \in Memory /\ Keeps(RF, RF') /\ LV' \in Byte /\ MAP' \in Byte
<1>1. X \in Names
  BY DEF Names
<1>2. 256 * P2.val + P3.val \in Word
  BY PopsKeep, Words, Bytes
<1>3. RF' \in Memory /\ Keeps(P5.rf, RF')
  BY <1>1, <1>2, PopsKeep, ReturnStackPops, KeepsWrite
<1>4. Keeps(RF, RF')
  BY <1>3, PopsKeep, KeepsTransitive
<1> QED BY <1>3, <1>4, PopsKeep, ReturnStackPops

(***************************************************************************)
(* Every call.                                                             *)
(***************************************************************************)
LEMMA Stay ==
  ASSUME TypeOK, UNCHANGED RF
  PROVE  RF' \in Memory /\ Keeps(RF, RF')
  BY DEF TypeOK, Keeps

LEMMA InSequenceStep ==
  ASSUME TypeOK, NEW o \in Byte, NEW pc \in Word, InSequence(o, pc)
  PROVE  /\ run' \in {0, 1} /\ IE' \in {0, 1} /\ LV' \in Byte /\ MAP' \in Byte
         /\ flags' \in SUBSET Flags /\ RF' \in Memory /\ Keeps(RF, RF')
<1> USE DEF TypeOK, Flags
<1>1. CASE Halt
  BY <1>1, Stay DEF Halt
<1>2. CASE UNCHANGED machine
  BY <1>2, Stay DEF machine
<1>3. CASE \E f \in {"F", "L"} : SetFlags({f})
  BY <1>3, Stay DEF SetFlags
<1>4. CASE \E f \in {"F", "L"} : ClearFlags({f})
  BY <1>4, Stay DEF ClearFlags
<1>5. CASE ToggleFlags({"F"})
  BY <1>5, Stay DEF ToggleFlags
<1>6. CASE SetIE(0) \/ SetIE(1)
  BY <1>6, Stay DEF SetIE
<1>7. CASE ReturnModified
  BY <1>7, ReturnModifiedKeeps DEF ReturnModified
<1>8. CASE TransferPCtoX(pc)
  BY <1>8, TransferKeeps DEF TransferPCtoX
<1>9. CASE ReturnStack
  BY <1>9, ReturnStackKeeps DEF ReturnStack
<1> QED BY <1>1, <1>2, <1>3, <1>4, <1>5, <1>6, <1>7, <1>8, <1>9 DEF InSequence

LEMMA CallStep ==
  ASSUME TypeOK, NEW o \in Byte, NEW pc \in Word, eval_op(o, pc)
  PROVE  TypeOK' /\ Keeps(RF, RF')
<1>1. CASE PC' = pc /\ UNCHANGED machine
  BY <1>1, Stay DEF machine, TypeOK
<1>2. CASE InSequence(o, pc) /\ PC' = pc
  BY <1>2, InSequenceStep DEF TypeOK
<1>3. CASE PC' = ReadWord(RF, ILREG(X)) /\ ReturnSub
  <2>1. RF' \in Memory /\ Keeps(RF, RF')
    BY <1>3, ReturnSubKeeps
  <2>2. PC' \in Word
    <3>1. X \in Names /\ RF \in Memory
      BY DEF Names, TypeOK
    <3>2. ILREG(X) \in Word
      BY <3>1, RegisterCells
    <3>3. ILREG(X) \in Nat
      BY <3>2, Words
    <3> QED BY <1>3, <3>1, <3>3, ReadWordType
  <2> QED BY <1>3, <2>1, <2>2 DEF TypeOK, ReturnSub
<1> QED BY <1>1, <1>2, <1>3 DEF eval_op, Control

LEMMA Step ==
  ASSUME TypeOK, [Next]_vars
  PROVE  TypeOK' /\ Keeps(RF, RF')
<1>1. CASE UNCHANGED vars
  BY <1>1, Stay DEF vars, machine, TypeOK
<1>2. ASSUME NEW o \in Ops, eval_op(o, PC) PROVE TypeOK' /\ Keeps(RF, RF')
  BY <1>2, CallStep, MachineAssumption DEF TypeOK
<1>3. CASE run_next_instruction
  <2>1. PC \in Nat /\ RF \in Memory
    BY Words DEF TypeOK
  <2>2. Read(RF, PC) \in Byte
    BY <2>1, ReadType
  <2>3. (PC + 1) % 65536 \in Word
    BY <2>1, Words
  <2> QED BY <1>3, <2>2, <2>3, CallStep DEF run_next_instruction
<1> QED BY <1>1, <1>2, <1>3 DEF Next

LEMMA InitTypeOK == Init => TypeOK
  BY MachineAssumption, Bytes DEF Init, TypeOK, Memory, Flags, Address

(* Registers, counters and memory keep their widths: levels beyond 15 and  *)
(* frames across the end of memory do no harm.                             *)
THEOREM TypeCorrect == Spec => []TypeOK
<1>1. TypeOK /\ [Next]_vars => TypeOK'
  BY Step
<1> QED BY InitTypeOK, <1>1, PTL DEF Spec

(* No instruction writes a register of another level, whatever the levels, *)
(* stacks and programs are.                                                *)
THEOREM BanksCorrect == Spec => BanksKeepApart
<1>1. TypeOK /\ [Next]_vars =>
        [\A a \in Byte : RF'[a] # RF[a] => a \div 16 = LV]_vars
  <2> SUFFICES ASSUME TypeOK, [Next]_vars, NEW a \in Byte, RF'[a] # RF[a]
               PROVE  a \div 16 = LV
    OBVIOUS
  <2>1. Read(RF, a) = RF[a] /\ Read(RF', a) = RF'[a]
    BY DEF Read
  <2> QED BY <2>1, Step DEF Keeps
<1> QED BY <1>1, TypeCorrect, PTL DEF Spec, BanksKeepApart

(***************************************************************************)
(* Frames.  A pop answers the byte above the stack pointer, which has been *)
(* moved by then, and leaves all cells but those of the pointer alone.     *)
(***************************************************************************)
(* n bytes have been popped, and nothing else has happened.                *)
Popped(rf, n) ==
  /\ rf \in Memory
  /\ ReadWord(rf, ILREG(S)) = (SP + n) % 65536
  /\ \A b \in Nat \ Cells(ILREG(S)) : Read(rf, b) = Read(RF, b)

LEMMA StackCells ==
  ASSUME TypeOK, LV < 16
  PROVE  /\ ILREG(S) \in Word /\ ILREG(S) \in Byte /\ ILREG(S) + 1 \in Byte
         /\ ILREG(X) \in Word /\ ILREG(X) \in Byte /\ ILREG(X) + 1 \in Byte
         /\ Cells(ILREG(S)) = {ILREG(S), ILREG(S) + 1}
         /\ Cells(ILREG(X)) \cap Cells(ILREG(S)) = {}
<1>1. S \in Names /\ X \in Names
  BY DEF Names
<1>2. /\ Cells(ILREG(S)) = {ILREG(S), ILREG(S) + 1}
      /\ Cells(ILREG(X)) = {ILREG(X), ILREG(X) + 1}
  BY <1>1, RegisterCells
<1>3. LV \in Nat
  BY Bytes DEF TypeOK
<1>4. ILREG(S) = 16 * LV + 10 /\ ILREG(X) = 16 * LV + 4
  BY DEF ILREG, S, X
<1>5. {ILREG(X), ILREG(X) + 1} \cap {ILREG(S), ILREG(S) + 1} = {}
  BY <1>3, <1>4
<1> QED BY <1>1, <1>2, <1>5, RegisterCells

LEMMA StackPointer == ASSUME TypeOK PROVE SP \in Nat /\ SP < 65536
<1>1. S \in Names /\ RF \in Memory
  BY DEF Names, TypeOK
<1>2. ILREG(S) \in Word
  BY <1>1, RegisterCells
<1>3. ILREG(S) \in Nat
  BY <1>2, Words
<1> QED BY <1>1, <1>3, ReadWordType, Words DEF SP

LEMMA NothingPopped == ASSUME TypeOK PROVE Popped(RF, 0)
<1>1. SP % 65536 = SP /\ SP + 0 = SP
  BY StackPointer
<1> QED BY <1>1 DEF Popped, SP, TypeOK

LEMMA PopStep ==
  ASSUME TypeOK, LV < 16, NEW n \in 0 .. 4, NEW rf, Popped(rf, n)
  PROVE  Popped(Pop(rf).rf, n + 1) /\ Pop(rf).val = At(n)
<1> DEFINE at   == (SP + n) % 65536
           next == (SP + (n + 1)) % 65536
           a    == ILREG(S)
           to   == WriteWord(rf, a, next)
<1>1. at \in Nat /\ next \in Nat /\ next < 65536 /\ (at + 1) % 65536 = next
  BY StackPointer
<1>2. rf \in Memory /\ ReadWord(rf, a) = at
      /\ \A b \in Nat \ Cells(a) : Read(rf, b) = Read(RF, b)
  BY DEF Popped
<1>3. a \in Word /\ a \in Byte /\ a + 1 \in Byte /\ Cells(a) = {a, a + 1}
  BY StackCells
<1>4. At(n) = IF at = a THEN next \div 256
              ELSE IF at = a + 1 THEN next % 256 ELSE Read(RF, at)
  BY <1>1 DEF At
<1>6. Pop(rf).rf = WriteWord(rf, a, (ReadWord(rf, a) + 1) % 65536)
      /\ Pop(rf).val = Read(WriteWord(rf, a, (ReadWord(rf, a) + 1) % 65536), ReadWord(rf, a))
  BY DEF Pop
<1>7. next \in Word
  BY <1>1, Words
<1> HIDE DEF at, next, a
<1>8. /\ to \in Memory /\ ReadWord(to, a) = next
      /\ \A b \in Nat \ Cells(a) : Read(to, b) = Read(rf, b)
  BY <1>2, <1>3, <1>7, WriteTwo
<1>9. Pop(rf).rf = to /\ Pop(rf).val = Read(to, at)
  BY <1>1, <1>2, <1>6
<1> HIDE DEF to
<1>10. Pop(rf).val = At(n)
  <2>1. CASE at \notin Cells(a)
    BY <1>1, <1>2, <1>3, <1>4, <1>8, <1>9, <2>1
  <2>2. CASE at \in Cells(a)
    <3>1. next = 256 * Read(to, a) + Read(to, a + 1)
      <4>1. a + 1 < 65536 /\ a \in Nat
        BY <1>3, Bytes
      <4>2. (a + 1) % 65536 = a + 1
        BY <4>1
      <4>. QED  BY <1>8, <4>2 DEF ReadWord
    <3>2. PICK h \in Nat, l \in Nat : h = Read(to, a) /\ l = Read(to, a + 1) /\ l < 256
      <4>1. a \in Nat /\ a + 1 \in Nat
        BY <1>3, Bytes
      <4>. QED  BY <1>8, <4>1, ReadType, Bytes
    <3>3. next \div 256 = h /\ next % 256 = l
      <4>1. next = 256 * h + l
        BY <3>1, <3>2
      <4>2. (256 * h + l) \div 256 = h /\ (256 * h + l) % 256 = l
        BY <3>2
      <4>. QED  BY <4>1, <4>2
    <3>4. at = a \/ at = a + 1
      BY <1>3, <2>2
    <3>5. a # a + 1
      BY <1>3, Bytes
    <3>. QED  BY <1>4, <1>9, <3>2, <3>3, <3>4, <3>5
  <2> QED BY <2>1, <2>2
<1>11. \A b \in Nat \ Cells(a) : Read(to, b) = Read(RF, b)
  BY <1>2, <1>8
<1> QED BY <1>8, <1>9, <1>10, <1>11 DEF Popped, a, next

LEMMA SetX ==
  ASSUME TypeOK, LV < 16, NEW n \in 0 .. 5, NEW rf, Popped(rf, n), NEW v \in Word
  PROVE  /\ ReadWord(WriteWord(rf, ILREG(X), v), ILREG(S)) = (SP + n) % 65536
         /\ ReadWord(WriteWord(rf, ILREG(X), v), ILREG(X)) = v
<1> DEFINE to == WriteWord(rf, ILREG(X), v)
<1>1. rf \in Memory /\ ReadWord(rf, ILREG(S)) = (SP + n) % 65536
  BY DEF Popped
<1>2. ReadWord(to, ILREG(X)) = v
      /\ \A b \in Nat \ Cells(ILREG(X)) : Read(to, b) = Read(rf, b)
  BY <1>1, StackCells, WriteTwo
<1>3. ILREG(S) \in Nat /\ (ILREG(S) + 1) % 65536 \in Nat
  BY StackCells, Words
<1>4. Read(to, ILREG(S)) = Read(rf, ILREG(S))
      /\ Read(to, (ILREG(S) + 1) % 65536) = Read(rf, (ILREG(S) + 1) % 65536)
  <2>1. {ILREG(S), (ILREG(S) + 1) % 65536} = Cells(ILREG(S))
    BY DEF Cells
  <2>2. Cells(ILREG(X)) \cap Cells(ILREG(S)) = {}
    BY StackCells
  <2> QED BY <1>2, <1>3, <2>1, <2>2
<1> HIDE DEF to
<1>5. ReadWord(to, ILREG(S)) = ReadWord(rf, ILREG(S))
  BY <1>4 DEF ReadWord
<1> QED BY <1>1, <1>2, <1>5 DEF to

LEMMA FivePops ==
  ASSUME TypeOK, LV < 16
  PROVE  /\ Popped(P5.rf, 5) /\ P2.val = At(1) /\ P3.val = At(2)
         /\ P4.val = At(3) /\ P5.val = At(4)
<1>1. Popped(P1.rf, 1)
  BY NothingPopped, PopStep DEF P1
<1>2. Popped(P2.rf, 2) /\ P2.val = At(1)
  BY <1>1, PopStep DEF P2
<1>3. Popped(P3.rf, 3) /\ P3.val = At(2)
  BY <1>2, PopStep DEF P3
<1>4. Popped(P4.rf, 4) /\ P4.val = At(3)
  BY <1>3, PopStep DEF P4
<1>5. Popped(P5.rf, 5) /\ P5.val = At(4)
  BY <1>4, PopStep DEF P5
<1> QED BY <1>2, <1>3, <1>4, <1>5

LEMMA ReturnStackFrame ==
  ASSUME TypeOK, ReturnStack, LV < 16
  PROVE  /\ Taken(5)
         /\ ReadWord(RF', ILREG(X)) = 256 * At(1) + At(2)
         /\ LV' = At(3) /\ MAP' = At(4)
<1>1. 256 * P2.val + P3.val \in Word
  BY PopsKeep, Words, Bytes
<1>2. /\ ReadWord(RF', ILREG(S)) = (SP + 5) % 65536
      /\ ReadWord(RF', ILREG(X)) = 256 * P2.val + P3.val
  BY <1>1, FivePops, ReturnStackPops, SetX
<1> QED BY <1>2, FivePops, ReturnStackPops DEF Taken

LEMMA ReturnSubFrame ==
  ASSUME TypeOK, ReturnSub, LV < 16
  PROVE  Taken(2) /\ ReadWord(RF', ILREG(X)) = 256 * At(0) + At(1)
<1>1. Popped(P1.rf, 1) /\ P1.val = At(0)
  BY NothingPopped, PopStep DEF P1
<1>2. Popped(P2.rf, 2) /\ P2.val = At(1)
  BY <1>1, PopStep DEF P2
<1>3. RF' = WriteWord(P2.rf, ILREG(X), 256 * P1.val + P2.val)
  BY PopWordIsTwoPops DEF ReturnSub, P1, P2
<1>4. 256 * P1.val + P2.val \in Word
  <2>1. RF \in Memory
    BY DEF TypeOK
  <2>2. P1.val \in Byte /\ P2.val \in Byte
    BY <2>1, PopsKeep, PopKeeps DEF P1
  <2> QED BY <2>2, Words, Bytes
<1>5. /\ ReadWord(RF', ILREG(S)) = (SP + 2) % 65536
      /\ ReadWord(RF', ILREG(X)) = 256 * P1.val + P2.val
  BY <1>2, <1>3, <1>4, SetX
<1> QED BY <1>1, <1>2, <1>5 DEF Taken

(* The two operations that take frames are 9 and 15.                       *)
LEMMA CallFrame ==
  ASSUME TypeOK, NEW o, NEW pc, eval_op(o, pc)
  PROVE  /\ op' = 9 => PC' = ReadWord(RF, ILREG(X)) /\ ReturnSub
         /\ op' = 15 => ReturnStack
<1>1. op' = o
  BY DEF eval_op
<1>2. ASSUME o \in {9, 15} PROVE Control(o, pc)
  BY <1>2 DEF eval_op, Special
<1>3. o = 9 => ~InSequence(o, pc)
  BY DEF InSequence
<1>4. o = 15 /\ InSequence(o, pc) => ReturnStack
  BY DEF InSequence
<1> QED BY <1>1, <1>2, <1>3, <1>4 DEF Control

(* On every level with registers the returns from a subroutine and from    *)
(* the stack take the bytes above the stack pointer and leave the pointer  *)
(* behind them, wherever it points: also at the end of memory and at the   *)
(* pointer itself.                                                         *)
THEOREM FrameCorrect == Spec => FrameIsTaken
<1>1. ASSUME TypeOK, Next
      PROVE  /\ op' = 9 => PC' = ReadWord(RF, ILREG(X)) /\ ReturnSub
             /\ op' = 15 => ReturnStack
  BY <1>1, CallFrame DEF Next, run_next_instruction
<1>2. TypeOK /\ [Next]_vars =>
        [/\ op' = 9 /\ LV < 16 =>
              /\ Taken(2)
              /\ PC' = ReadWord(RF, ILREG(X))
              /\ ReadWord(RF', ILREG(X)) = 256 * At(0) + At(1)
         /\ op' = 15 /\ LV < 16 =>
              /\ Taken(5)
              /\ ReadWord(RF', ILREG(X)) = 256 * At(1) + At(2)
              /\ LV' = At(3) /\ MAP' = At(4)]_vars
  BY <1>1, ReturnSubFrame, ReturnStackFrame
<1> QED BY <1>2, TypeCorrect, PTL DEF Spec, FrameIsTaken

(***************************************************************************)
(* The arithmetic of the emulator.                                         *)
(***************************************************************************)
AluTypeOK == acc \in Value /\ F \in Bit /\ L \in Bit /\ M \in Bit /\ V \in Bit

(* The factors of shifts.                                                  *)
Powers == {1, 2, 4, 8, 16, 32, 64, 128, 256, 512, 1024, 2048, 4096, 8192, 16384, 32768, 65536}

LEMMA PowerOfShift ==
  ASSUME NEW k \in 0 .. 16
  PROVE  2 ^ k \in Powers
<1>1. k \in {0, 1, 2, 3, 4, 5, 6, 7, 8, 9, 10, 11, 12, 13, 14, 15, 16}
  OBVIOUS
<1>2. 2 ^ k \in {2 ^ 0, 2 ^ 1, 2 ^ 2, 2 ^ 3, 2 ^ 4, 2 ^ 5, 2 ^ 6, 2 ^ 7, 2 ^ 8, 2 ^ 9,
                2 ^ 10, 2 ^ 11, 2 ^ 12, 2 ^ 13, 2 ^ 14, 2 ^ 15, 2 ^ 16}
  BY <1>1, Zenon
<1>. QED  BY <1>2, SMT DEF Powers

LEMMA PowerType ==
  ASSUME NEW k \in 0 .. 16
  PROVE  2 ^ k \in Nat \ {0}
<1>1. Powers \subseteq Nat \ {0}
  BY DEF Powers
<1>. QED  BY <1>1, PowerOfShift, Zenon

LEMMA PowersOfByte == ASSUME NEW k PROVE (k = 7 => 2 ^ k = 128) /\ (k = 8 => 2 ^ k = 256)
<1>1. k = 7 => 2 ^ k = 128
  BY SMT
<1>2. k = 8 => 2 ^ k = 256
  BY SMT
<1>. QED  BY <1>1, <1>2

LEMMA PowersOfWord ==
  ASSUME NEW k PROVE (k = 15 => 2 ^ k = 32768) /\ (k = 16 => 2 ^ k = 65536)
<1>1. k = 15 => 2 ^ k = 32768
  BY SMT
<1>2. k = 16 => 2 ^ k = 65536
  BY SMT
<1>. QED  BY <1>1, <1>2, SMT

(* The two widths.                                                         *)
LEMMA Widths ==
  /\ W \in 1 .. 16
  /\ Modulus \in Nat /\ Half \in Nat /\ Half > 0 /\ Modulus = 2 * Half
  /\ \/ W = 8 /\ Modulus = 256 /\ Half = 128
     \/ W = 16 /\ Modulus = 65536 /\ Half = 32768
<1>1. CASE W = 8
  <2>1. Modulus = 256
    BY <1>1, SMT DEF Modulus
  <2>2. W - 1 = 7
    BY <1>1
  <2>3. Half = 128
    BY <2>2, PowersOfByte DEF Half
  <2>. QED  BY <1>1, <2>1, <2>3, SMT
<1>2. CASE W = 16
  <2>1. Modulus = 65536
    BY <1>2, SMT DEF Modulus
  <2>2. W - 1 = 15
    BY <1>2
  <2>3. Half = 32768
    BY <2>2, PowersOfWord, SMT DEF Half
  <2>. QED  BY <1>2, <2>1, <2>3, SMT
<1>. QED  BY <1>1, <1>2, AluAssumption

(* Remainders.                                                             *)
LEMMA Remainder ==
  ASSUME NEW m \in Nat, m > 0, NEW x \in Int
  PROVE  x % m \in Nat /\ x % m < m
OBVIOUS

LEMMA ValueIs ==
  ASSUME NEW x
  PROVE  x \in Value <=> x \in Nat /\ x < Modulus
BY Widths, SMT DEF Value

LEMMA Truncated ==
  ASSUME NEW x \in Int
  PROVE  x % Modulus \in Value
BY Remainder, Widths, ValueIs, SMT

(* Every operation ends with a value of the register and flags that are    *)
(* bits.                                                                   *)
LEMMA StoreType ==
  ASSUME NEW res \in Value, Store(res)
  PROVE  acc' \in Value /\ M' \in Bit /\ V' \in Bit
BY DEF Store, Bit

LEMMA ShiftedType ==
  ASSUME NEW res \in Value, NEW out \in Bit, Shifted(res, out)
  PROVE  AluTypeOK'
<1>1. acc' \in Value /\ M' \in Bit /\ V' \in Bit
  BY StoreType DEF Shifted
<1>2. res \div Half \in Nat
  BY ValueIs, Widths
<1>3. Top(res) + out \in Nat
  BY <1>2 DEF Top, Bit
<1>4. F' \in Bit
  BY <1>3 DEF Shifted, Bit
<1>. QED  BY <1>1, <1>4 DEF Shifted, AluTypeOK

LEMMA UndefinedShiftType ==
  ASSUME UndefinedShift
  PROVE  AluTypeOK'
BY ShiftedType DEF UndefinedShift

LEMMA AddCarryType ==
  ASSUME NEW v1 \in Int, NEW v2 \in Int, NEW carry \in Int, AddCarry(v1, v2, carry)
  PROVE  AluTypeOK'
<1>1. (v1 + v2 + carry) % Modulus \in Value
  BY Truncated
<1>. QED  BY <1>1, StoreType DEF AddCarry, AluTypeOK, Bit

LEMMA LogicType ==
  ASSUME AluTypeOK, NEW bits, Logic(bits)
  PROVE  AluTypeOK'
BY StoreType DEF Logic, AluTypeOK

(* The bit that a shift by k loses last.                                   *)
LEMMA LastOut ==
  ASSUME NEW n \in Nat, NEW k \in 1 .. 16
  PROVE  (n \div 2 ^ (k - 1)) % 2 \in Bit /\ n \div 2 ^ k \in Nat
<1>1. 2 ^ (k - 1) \in Nat \ {0} /\ 2 ^ k \in Nat \ {0}
  <2>1. k - 1 \in 0 .. 16 /\ k \in 0 .. 16
    OBVIOUS
  <2>. QED  BY <2>1, PowerType, Zenon
<1>2. n \div 2 ^ (k - 1) \in Nat /\ n \div 2 ^ k \in Nat
  BY <1>1
<1>. QED  BY <1>2 DEF Bit

LEMMA ShiftTypes ==
  ASSUME AluTypeOK, NEW k \in 1 .. 16,
         ArithmeticRight(k) \/ Left(k) \/ RotateRight(k) \/ RotateLeft(k)
  PROVE  AluTypeOK'
<1>1. acc \in Nat /\ L \in Nat
  BY ValueIs DEF AluTypeOK, Bit
<1>2. (acc \div 2 ^ (k - 1)) % 2 \in Bit /\ acc \div 2 ^ k \in Nat /\ 2 ^ k \in Nat
  <2>1. k \in 0 .. 16
    OBVIOUS
  <2>2. 2 ^ k \in Nat
    BY <2>1, PowerType
  <2>. QED  BY <1>1, <2>2, LastOut
<1>3. k <= W => 2 ^ (W - k) \in Nat /\ acc \div 2 ^ (W - k) \in Nat
  <2>1. k <= W => W - k \in 0 .. 16
    BY Widths
  <2>2. k <= W => 2 ^ (W - k) \in Nat \ {0}
    BY <2>1, PowerType
  <2>. QED  BY <1>1, <2>2
<1>4. 0 \in Bit
  BY DEF Bit
<1>5. CASE UndefinedShift
  BY <1>5, UndefinedShiftType
<1>6. CASE ArithmeticRight(k) /\ ~UndefinedShift
  <2>1. acc \div 2 ^ k - (IF Top(acc) = 1 THEN 2 ^ (W - k) ELSE 0) \in Int
    BY <1>2, <1>3, <1>6 DEF ArithmeticRight
  <2>2. (acc \div 2 ^ k - (IF Top(acc) = 1 THEN 2 ^ (W - k) ELSE 0)) % Modulus \in Value
    BY <2>1, Truncated
  <2>. QED  BY <1>2, <1>6, <2>2, ShiftedType DEF ArithmeticRight
<1>7. CASE Left(k)
  <2>1. acc * 2 ^ k \in Int
    BY <1>1, <1>2
  <2>2. (acc * 2 ^ k) % Modulus \in Value
    BY <2>1, Truncated
  <2>. QED  BY <1>4, <1>7, <2>2, ShiftedType DEF Left
<1>8. CASE RotateRight(k) /\ ~UndefinedShift
  <2>1. k <= W
    BY <1>8 DEF RotateRight
  <2>2. acc \div 2 ^ k + (2 * acc + L) * 2 ^ (W - k) \in Int
    BY <1>1, <1>2, <1>3, <2>1
  <2>3. (acc \div 2 ^ k + (2 * acc + L) * 2 ^ (W - k)) % Modulus \in Value
    BY <2>2, Truncated
  <2>. QED  BY <1>2, <1>8, <2>1, <2>3, ShiftedType DEF RotateRight
<1>9. CASE RotateLeft(k) /\ ~UndefinedShift
  <2>1. k <= W
    BY <1>9 DEF RotateLeft
  <2>2. (2 * acc + L) * 2 ^ k + acc \div 2 ^ (W - k) \in Int
    BY <1>1, <1>2, <1>3, <2>1
  <2>3. ((2 * acc + L) * 2 ^ k + acc \div 2 ^ (W - k)) % Modulus \in Value
    BY <2>2, Truncated
  <2>. QED  BY <1>4, <1>9, <2>1, <2>3, ShiftedType DEF RotateLeft
<1>. QED  BY <1>5, <1>6, <1>7, <1>8, <1>9

LEMMA OperationType ==
  ASSUME AluTypeOK, NEW operation \in Unary \cup Binary, NEW v2 \in Value,
         operation \in Unary => v2 \in 0 .. 15, Do(operation, v2)
  PROVE  AluTypeOK'
<1>1. acc \in Int /\ v2 \in Int /\ Complement(acc) \in Int /\ Complement(v2) \in Int
  BY ValueIs DEF AluTypeOK, Complement
<1>2. CASE operation \in {"INC", "DEC"}
  <2>1. PICK v \in Int : Increment(acc, v)
    BY <1>1, <1>2 DEF Do
  <2>2. (acc + v) % Modulus \in Value
    BY <1>1, Truncated
  <2>. QED  BY <2>1, <2>2, StoreType DEF Increment, AluTypeOK, Bit
<1>3. CASE operation \in {"CLR", "INV", "ADD", "SUB"}
  <2>1. \/ AddCarry(0, v2, 0) \/ AddCarry(Complement(acc), v2, 0)
        \/ AddCarry(acc, v2, 0) \/ AddCarry(acc, Complement(v2), 1)
    BY <1>3 DEF Do
  <2>. QED  BY <1>1, <2>1, AddCarryType
<1>4. CASE operation \in {"ASR", "SL", "RRC", "RLC"}
  <2>1. 1 + v2 \in 1 .. 16
    BY <1>4 DEF Unary
  <2>2. ArithmeticRight(1 + v2) \/ Left(1 + v2) \/ RotateRight(1 + v2) \/ RotateLeft(1 + v2)
    BY <1>4 DEF Do
  <2>. QED  BY <2>1, <2>2, ShiftTypes
<1>5. CASE operation \in {"AND", "OR", "XOR", "XFR"}
  <2>1. PICK bits : Logic(bits)
    BY <1>5 DEF Do
  <2>. QED  BY <2>1, LogicType
<1>. QED  BY <1>2, <1>3, <1>4, <1>5 DEF Unary, Binary

LEMMA AluTypes == AluSpec => []AluTypeOK
<1>1. AluInit => AluTypeOK
  BY ValueIs, Widths DEF AluInit, AluTypeOK
<1>2. AluTypeOK /\ [AluNext]_aluVars => AluTypeOK'
  <2> SUFFICES ASSUME AluTypeOK, [AluNext]_aluVars PROVE AluTypeOK'
    OBVIOUS
  <2>1. CASE UNCHANGED aluVars
    BY <2>1 DEF AluTypeOK, aluVars
  <2>2. CASE Load
    BY <2>2, AluAssumption DEF Load, AluTypeOK
  <2>3. ASSUME NEW operation \in Unary, NEW v2 \in Count, Do(operation, v2) PROVE AluTypeOK'
    BY <2>3, OperationType, AluAssumption
  <2>4. ASSUME NEW operation \in Binary, NEW v2 \in Operand, Do(operation, v2) PROVE AluTypeOK'
    <3>1. operation \notin Unary
      BY DEF Unary, Binary
    <3>. QED  BY <2>4, <3>1, OperationType, AluAssumption
  <2>. QED  BY <2>1, <2>2, <2>3, <2>4 DEF AluNext
<1>. QED  BY <1>1, <1>2, PTL DEF AluSpec

(* A number that is off by one modulus at most.                            *)
LEMMA Wraps ==
  ASSUME NEW x \in Int, 0 - Modulus <= x, x < 2 * Modulus
  PROVE  x % Modulus = IF x < 0 THEN x + Modulus ELSE IF x < Modulus THEN x ELSE x - Modulus
<1>1. CASE Modulus = 256
  BY <1>1, SMT
<1>2. CASE Modulus = 65536
  BY <1>2, SMT
<1>. QED  BY <1>1, <1>2, Widths

(* Whole moduli are lost.                                                  *)
LEMMA LosesModuli ==
  ASSUME NEW x \in Int, NEW n \in Int
  PROVE  (x + n * Modulus) % Modulus = x % Modulus
<1>1. CASE Modulus = 256
  BY <1>1, SMT
<1>2. CASE Modulus = 65536
  BY <1>2, SMT
<1>. QED  BY <1>1, <1>2, Widths

LEMMA AddIsExact ==
  ASSUME AluTypeOK, NEW v2 \in Value, Do("ADD", v2)
  PROVE  acc' + Modulus * L' = acc + v2
<1>1. AddCarry(acc, v2, 0)
  BY DEF Do
<1>2. PICK m \in Nat, a \in Nat, b \in Nat :
        m = Modulus /\ a = acc /\ b = v2 /\ a < m /\ b < m
  BY Widths, ValueIs DEF AluTypeOK
<1>3. acc' = (a + b + 0) % m /\ L' = IF acc' < a THEN 1 ELSE 0
  BY <1>1, <1>2 DEF AddCarry, Store
<1>4. acc' = IF a + b < m THEN a + b ELSE a + b - m
  <2>1. PICK x \in Int : x = a + b + 0 /\ 0 - Modulus <= x /\ x < 2 * Modulus /\ ~(x < 0)
    BY <1>2
  <2>2. x % Modulus = IF x < Modulus THEN x ELSE x - Modulus
    BY <2>1, Wraps
  <2>. QED  BY <1>2, <1>3, <2>1, <2>2
<1>5. CASE a + b < m
  <2>1. acc' = a + b /\ L' = 0
    BY <1>2, <1>3, <1>4, <1>5
  <2>. QED  BY <1>2, <2>1
<1>6. CASE ~(a + b < m)
  <2>1. acc' = a + b - m /\ L' = 1
    BY <1>2, <1>3, <1>4, <1>6
  <2>. QED  BY <1>2, <2>1
<1>. QED  BY <1>5, <1>6

LEMMA SubIsExact ==
  ASSUME AluTypeOK, NEW v2 \in Value, Do("SUB", v2)
  PROVE  acc' + v2 = acc + (IF v2 = 0 THEN 0 ELSE Modulus * (1 - L'))
<1>1. AddCarry(acc, Complement(v2), 1)
  BY DEF Do
<1>2. PICK m \in Nat, a \in Nat, b \in Nat :
        m = Modulus /\ a = acc /\ b = v2 /\ a < m /\ b < m
  BY Widths, ValueIs DEF AluTypeOK
<1>3. acc' = (a - b) % m /\ L' = IF acc' < a THEN 1 ELSE 0
  <2>1. a + Complement(b) + 1 = a - b
    BY <1>2 DEF Complement
  <2>. QED  BY <1>1, <1>2, <2>1 DEF AddCarry, Store
<1>4. acc' = IF a - b < 0 THEN a - b + m ELSE a - b
  <2>1. a - b \in Int /\ 0 - Modulus <= a - b /\ a - b < Modulus /\ a - b < 2 * Modulus
    BY <1>2
  <2>2. (a - b) % Modulus = IF a - b < 0 THEN a - b + Modulus ELSE a - b
    BY <2>1, Wraps
  <2>. QED  BY <1>2, <1>3, <2>2
<1>5. CASE a - b < 0
  <2>1. acc' = a - b + m /\ L' = 0 /\ b # 0
    BY <1>2, <1>3, <1>4, <1>5
  <2>. QED  BY <1>2, <2>1
<1>6. CASE ~(a - b < 0) /\ b # 0
  <2>1. acc' = a - b /\ L' = 1
    BY <1>2, <1>3, <1>4, <1>6
  <2>. QED  BY <1>2, <1>6, <2>1
<1>7. CASE b = 0
  <2>1. acc' = a
    BY <1>2, <1>4, <1>7
  <2>. QED  BY <1>2, <1>7, <2>1
<1>. QED  BY <1>5, <1>6, <1>7

(* Of sums and differences, for bytes and words, nothing is lost: what the *)
(* register cannot hold is in the link (_CPU6_ALU_ADDC).                   *)
THEOREM AluArithmeticCorrect == AluSpec => ArithmeticIsExact
<1>1. AluTypeOK /\ [AluNext]_aluVars =>
        [\A v2 \in Operand :
           /\ Do("ADD", v2) => acc' + Modulus * L' = acc + v2
           /\ Do("SUB", v2) =>
                acc' + v2 = acc + (IF v2 = 0 THEN 0 ELSE Modulus * (1 - L'))]_aluVars
  BY AddIsExact, SubIsExact, AluAssumption
<1>. QED  BY <1>1, AluTypes, PTL DEF AluSpec, ArithmeticIsExact

(* Two powers that make up the modulus.                                    *)
LEMMA PowersOfModulus ==
  ASSUME NEW i \in 0 .. W
  PROVE  2 ^ i * 2 ^ (W - i) = Modulus
<1>1. PICK j : j = W - i
  OBVIOUS
<1>2. CASE W = 8
  <2>1. \/ (i = 0 /\ j = 8) \/ (i = 1 /\ j = 7) \/ (i = 2 /\ j = 6) \/ (i = 3 /\ j = 5)
        \/ (i = 4 /\ j = 4) \/ (i = 5 /\ j = 3) \/ (i = 6 /\ j = 2) \/ (i = 7 /\ j = 1)
        \/ (i = 8 /\ j = 0)
    BY <1>1, <1>2
  <2>2. 2 ^ i * 2 ^ j \in {2 ^ 0 * 2 ^ 8, 2 ^ 1 * 2 ^ 7, 2 ^ 2 * 2 ^ 6, 2 ^ 3 * 2 ^ 5,
                          2 ^ 4 * 2 ^ 4, 2 ^ 5 * 2 ^ 3, 2 ^ 6 * 2 ^ 2, 2 ^ 7 * 2 ^ 1,
                          2 ^ 8 * 2 ^ 0}
    BY <2>1, Zenon
  <2>3. {2 ^ 0 * 2 ^ 8, 2 ^ 1 * 2 ^ 7, 2 ^ 2 * 2 ^ 6, 2 ^ 3 * 2 ^ 5, 2 ^ 4 * 2 ^ 4,
         2 ^ 5 * 2 ^ 3, 2 ^ 6 * 2 ^ 2, 2 ^ 7 * 2 ^ 1, 2 ^ 8 * 2 ^ 0} = {256}
    BY SMT
  <2>4. 2 ^ i * 2 ^ j = 256
    BY <2>2, <2>3, SMT
  <2>. QED  BY <1>1, <1>2, <2>4, Widths, SMT
<1>3. CASE W = 16
  <2>1. \/ (i = 0 /\ j = 16) \/ (i = 1 /\ j = 15) \/ (i = 2 /\ j = 14) \/ (i = 3 /\ j = 13)
        \/ (i = 4 /\ j = 12) \/ (i = 5 /\ j = 11) \/ (i = 6 /\ j = 10) \/ (i = 7 /\ j = 9)
        \/ (i = 8 /\ j = 8) \/ (i = 9 /\ j = 7) \/ (i = 10 /\ j = 6) \/ (i = 11 /\ j = 5)
        \/ (i = 12 /\ j = 4) \/ (i = 13 /\ j = 3) \/ (i = 14 /\ j = 2) \/ (i = 15 /\ j = 1)
        \/ (i = 16 /\ j = 0)
    BY <1>1, <1>3
  <2>2. 2 ^ i * 2 ^ j \in {2 ^ 0 * 2 ^ 16, 2 ^ 1 * 2 ^ 15, 2 ^ 2 * 2 ^ 14, 2 ^ 3 * 2 ^ 13,
                          2 ^ 4 * 2 ^ 12, 2 ^ 5 * 2 ^ 11, 2 ^ 6 * 2 ^ 10, 2 ^ 7 * 2 ^ 9,
                          2 ^ 8 * 2 ^ 8, 2 ^ 9 * 2 ^ 7, 2 ^ 10 * 2 ^ 6, 2 ^ 11 * 2 ^ 5,
                          2 ^ 12 * 2 ^ 4, 2 ^ 13 * 2 ^ 3, 2 ^ 14 * 2 ^ 2, 2 ^ 15 * 2 ^ 1,
                          2 ^ 16 * 2 ^ 0}
    BY <2>1, Zenon
  <2>3. {2 ^ 0 * 2 ^ 16, 2 ^ 1 * 2 ^ 15, 2 ^ 2 * 2 ^ 14, 2 ^ 3 * 2 ^ 13, 2 ^ 4 * 2 ^ 12,
         2 ^ 5 * 2 ^ 11, 2 ^ 6 * 2 ^ 10, 2 ^ 7 * 2 ^ 9, 2 ^ 8 * 2 ^ 8, 2 ^ 9 * 2 ^ 7,
         2 ^ 10 * 2 ^ 6, 2 ^ 11 * 2 ^ 5, 2 ^ 12 * 2 ^ 4, 2 ^ 13 * 2 ^ 3, 2 ^ 14 * 2 ^ 2,
         2 ^ 15 * 2 ^ 1, 2 ^ 16 * 2 ^ 0} = {65536}
    BY SMT
  <2>4. 2 ^ i * 2 ^ j = 65536
    BY <2>2, <2>3, SMT
  <2>. QED  BY <1>1, <1>3, <2>4, Widths, SMT
<1>. QED  BY <1>2, <1>3, AluAssumption

(* Division by a power of two rounds down, and lets go of its multiples.   *)
LEMMA PowerDivides ==
  ASSUME NEW p \in Powers,
         NEW x \in Int, NEW q \in Int
  PROVE  /\ x \div p \in Int
         /\ (x - p * q) \div p = x \div p - q
         /\ x >= 0 => x \div p >= 0 /\ x \div p <= x
         /\ x < 0 => x \div p < 0 /\ x \div p >= x
BY SMTT(120) DEF Powers

LEMMA SignedIs ==
  ASSUME NEW n \in Value
  PROVE  /\ n < Half => Top(n) = 0 /\ Signed(n) = n
         /\ n >= Half => Top(n) = 1 /\ Signed(n) = n - Modulus
<1>1. PICK m \in Nat : m = n /\ m < Modulus
  BY ValueIs
<1>2. CASE Half = 128 /\ Modulus = 256
  BY <1>1, <1>2, SMT DEF Top, Signed
<1>3. CASE Half = 32768 /\ Modulus = 65536
  BY <1>1, <1>3, SMT DEF Top, Signed
<1>. QED  BY <1>2, <1>3, Widths

LEMMA RightIsExact ==
  ASSUME AluTypeOK, NEW k \in 0 .. W - 1, Do("ASR", k)
  PROVE  Signed(acc') = Signed(acc) \div 2 ^ (k + 1) /\ L' = (acc \div 2 ^ k) % 2
<1>1. ArithmeticRight(1 + k)
  BY DEF Do
<1>2. 1 + k \in 0 .. W /\ 1 + k \in 0 .. 16 /\ W - (1 + k) \in 0 .. 16 /\ k \in 0 .. 16
      /\ (1 + k) - 1 = k /\ 1 + k = k + 1 /\ 1 + k <= W
  BY Widths
<1>3. PICK p, q : p = 2 ^ (1 + k) /\ q = 2 ^ (W - (1 + k))
  OBVIOUS
<1>4. p * q = Modulus /\ p \in Nat /\ q \in Nat
      /\ p \in Powers
  <2>1. p * q = Modulus
    BY <1>2, <1>3, PowersOfModulus, Zenon
  <2>2. p \in Nat /\ q \in Nat
    BY <1>2, <1>3, PowerType
  <2>3. p \in Powers
    BY <1>2, <1>3, PowerOfShift, Zenon
  <2>. QED  BY <2>1, <2>2, <2>3
<1>5. Shifted((acc \div p - (IF Top(acc) = 1 THEN q ELSE 0)) % Modulus, (acc \div 2 ^ k) % 2)
  BY <1>1, <1>2, <1>3, Zenon DEF ArithmeticRight
<1>6. acc' = (acc \div p - (IF Top(acc) = 1 THEN q ELSE 0)) % Modulus
      /\ L' = (acc \div 2 ^ k) % 2
  BY <1>5 DEF Shifted, Store
<1>7. acc \in Value /\ acc \in Nat /\ acc < Modulus
  BY ValueIs DEF AluTypeOK
<1>8. PICK d \in Int : d = acc \div p /\ d >= 0 /\ d <= acc /\ (acc - p * q) \div p = d - q
  BY <1>4, <1>7, PowerDivides
<1>9. CASE acc < Half
  <2>1. acc' = d % Modulus /\ Signed(acc) = acc
    BY <1>6, <1>7, <1>8, <1>9, SignedIs
  <2>2. d % Modulus = d
    BY <1>7, <1>8, Wraps, Widths
  <2>3. d \in Value /\ d < Half
    BY <1>7, <1>8, <1>9, ValueIs, Widths
  <2>4. Signed(acc') = d
    BY <2>1, <2>2, <2>3, SignedIs
  <2>. QED  BY <1>2, <1>3, <1>6, <1>8, <2>1, <2>4
<1>10. CASE ~(acc < Half)
  <2>1. acc' = (d - q) % Modulus /\ Signed(acc) = acc - Modulus
    BY <1>6, <1>7, <1>8, <1>10, SignedIs, Widths
  <2>2. PICK x \in Int : x = acc - Modulus /\ x < 0 /\ x >= 0 - Half
    BY <1>7, <1>10, Widths
  <2>3. x \div p = d - q
    BY <1>4, <1>8, <2>2
  <2>4. PICK y \in Int : y = d - q /\ y < 0 /\ y >= 0 - Half
    BY <1>4, <2>2, <2>3, PowerDivides, Widths
  <2>5. y % Modulus = y + Modulus
    BY <2>4, Wraps, Widths
  <2>6. y + Modulus \in Value /\ y + Modulus >= Half
    BY <2>4, ValueIs, Widths
  <2>7. Signed(acc') = y
    BY <2>1, <2>4, <2>5, <2>6, SignedIs, Widths
  <2>. QED  BY <1>2, <1>3, <1>6, <2>1, <2>2, <2>3, <2>4, <2>7
<1>. QED  BY <1>9, <1>10

LEMMA RotationIsExact ==
  ASSUME AluTypeOK, Do("RRC", 0)
  PROVE  2 * acc' + L' = acc + Modulus * L
<1>1. RotateRight(1)
  BY DEF Do
<1>2. PICK m \in Nat, h \in Nat, a \in Nat, b \in Nat :
        m = Modulus /\ h = Half /\ a = acc /\ b = L /\ a < m /\ m = 2 * h /\ b <= 1 /\ h > 0
  <2>1. acc \in Nat /\ acc < Modulus
    BY ValueIs DEF AluTypeOK
  <2>2. L \in Nat /\ L <= 1
    BY DEF AluTypeOK, Bit
  <2>. QED  BY <2>1, <2>2, Widths
<1>3. 2 ^ 1 = 2 /\ 2 ^ (1 - 1) = 1
  BY SMT
<1>4. Shifted((a \div 2 + (2 * a + b) * h) % m, a % 2)
  <2>1. 1 <= W
    BY Widths
  <2>2. Shifted((acc \div 2 + (2 * acc + L) * Half) % Modulus, (acc \div 1) % 2)
    BY <1>1, <1>3, <2>1, Zenon DEF RotateRight, Half
  <2>3. a \div 1 = a
    BY <1>2
  <2>. QED  BY <1>2, <2>2, <2>3, Zenon
<1>5. acc' = (a \div 2 + (2 * a + b) * h) % m /\ L' = a % 2
  BY <1>4 DEF Shifted, Store
<1>6. PICK x \in Int : x = a \div 2 + b * h /\ 0 <= x /\ x < m
  <2>1. CASE b = 0
    BY <1>2, <2>1
  <2>2. CASE b = 1
    BY <1>2, <2>2
  <2>. QED  BY <1>2, <2>1, <2>2
<1>7. a \div 2 + (2 * a + b) * h = x + a * m
  BY <1>2, <1>6
<1>8. acc' = x
  <2>1. (x + a * m) % m = x % m
    BY <1>2, <1>6, LosesModuli
  <2>2. x % m = x
    BY <1>2, <1>6, Wraps
  <2>. QED  BY <1>5, <1>7, <2>1, <2>2
<1>9. 2 * (a \div 2) + (a % 2) = a
  BY <1>2
<1>10. 2 * (b * h) = m * b
  BY <1>2
<1>. QED  BY <1>2, <1>5, <1>6, <1>8, <1>9, <1>10

(* For bytes and words an arithmetic shift right by less than the width    *)
(* divides the signed value, rounding down, and a rotation right by one    *)
(* place turns the register and the link as one number (_CPU6_SHIFT_ASR,   *)
(* _CPU6_SHIFT_RRC).                                                       *)
THEOREM AluShiftsCorrect == AluSpec => ShiftsAreExact
<1>1. AluTypeOK /\ [AluNext]_aluVars =>
        [/\ \A k \in Count \cap (0 .. W - 1) : Do("ASR", k) =>
               /\ Signed(acc') = Signed(acc) \div 2 ^ (k + 1)
               /\ L' = (acc \div 2 ^ k) % 2
         /\ Do("RRC", 0) => 2 * acc' + L' = acc + Modulus * L]_aluVars
  BY RightIsExact, RotationIsExact
<1>. QED  BY <1>1, AluTypes, PTL DEF AluSpec, ShiftsAreExact
=============================================================================
