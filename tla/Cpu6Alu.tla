------------------------------- MODULE Cpu6Alu -------------------------------
(***************************************************************************)
(* CPU6_ALU_C_op_byte and CPU6_ALU_C_op_word, the C arithmetic of the      *)
(* instruction-set emulator: one operation after the other on a register   *)
(* and the flags.  The functions are the same for both sizes.              *)
(*                                                                         *)
(* C computes in int and truncates when it stores the result: negative     *)
(* numbers are what ~ makes of a byte.  ISBITSETMSB looks at bit 31 of the *)
(* int it is given.  No operation sets that bit with the counts the        *)
(* emulator passes (in additions one of the two factors is never           *)
(* negative), so the model has 0 where the code uses it.                   *)
(*                                                                         *)
(* What a shift joins with | has no bit in common: one part lies below     *)
(* 2^n, the other is a multiple of it.  There | is a sum.  Of a word, bits *)
(* shifted beyond the int are lost, as all bits beyond the register are.   *)
(***************************************************************************)
EXTENDS Integers

CONSTANTS
  W,               \* bits of the register: 8 or 16
  Operand,         \* second operands of the two-operand operations
  Count            \* second operands of shifts and steps, 0 .. 15 (arg.val)

Modulus == 2 ^ W
Half    == 2 ^ (W - 1)
Value   == 0 .. Modulus - 1
Bit     == {0, 1}

ASSUME AluAssumption ==
  /\ W \in {8, 16}
  /\ Operand \subseteq Value
  /\ Count \subseteq 0 .. 15 /\ Count \subseteq Value

VARIABLES
  acc,             \* the register that is v1 and takes the result
  F, L, M, V       \* fault (overflow), link (carry), minus, zero

aluVars == <<acc, F, L, M, V>>

AluInit == acc = 0 /\ F \in Bit /\ L \in Bit /\ M \in Bit /\ V \in Bit

Top(n) == n \div Half

(* Faulty variants stand before the definition they vary.                  *)
ComplementNegates(n) == 0 - n            \* two's complement

Complement(n) == -1 - n                  \* ~n, as an int

(* Every operation ends by setting M and V.  M tests bit W of a result of  *)
(* W bits.                                                                 *)
Store(res) ==
  /\ acc' = res
  /\ M' = 0
  /\ V' = IF res = 0 THEN 1 ELSE 0

AddCarrySaturated(v1, v2, c) ==          \* <= for < in the carry
  LET res == (v1 + v2 + c) % Modulus
  IN Store(res) /\ L' = (IF res <= v1 THEN 1 ELSE 0) /\ F' = 0

(* _CPU6_ALU_ADDC with the carry to L.                                     *)
AddCarry(v1, v2, c) ==
  LET res == (v1 + v2 + c) % Modulus
  IN Store(res) /\ L' = (IF res < v1 THEN 1 ELSE 0) /\ F' = 0

(* _CPU6_ALU_ADDC with the carry to a temporary.                           *)
Increment(v1, v2) ==
  Store((v1 + v2) % Modulus) /\ F' = 0 /\ UNCHANGED L

Shifted(res, out) ==
  Store(res) /\ L' = out /\ F' = (Top(res) + out) % 2

(* A count beyond the width shifts by a negative number: undefined.        *)
UndefinedShift == \E res \in Value, out \in Bit : Shifted(res, out)

ArithmeticRight(k) ==
  IF k <= W \/ Top(acc) = 0
  THEN Shifted((acc \div 2 ^ k - (IF Top(acc) = 1 THEN 2 ^ (W - k) ELSE 0)) % Modulus,
               (acc \div 2 ^ (k - 1)) % 2)
  ELSE UndefinedShift

Left(k) == Shifted((acc * 2 ^ k) % Modulus, 0)

RotateRightNoLink(k) ==                  \* the link left out of the rotation
  IF k <= W
  THEN Shifted((acc \div 2 ^ k + acc * 2 ^ (W - k + 1)) % Modulus,
               (acc \div 2 ^ (k - 1)) % 2)
  ELSE UndefinedShift

RotateRight(k) ==
  IF k <= W
  THEN Shifted((acc \div 2 ^ k + (2 * acc + L) * 2 ^ (W - k)) % Modulus,
               (acc \div 2 ^ (k - 1)) % 2)
  ELSE UndefinedShift

RotateLeft(k) ==
  IF k <= W
  THEN Shifted(((2 * acc + L) * 2 ^ k + acc \div 2 ^ (W - k)) % Modulus, 0)
  ELSE UndefinedShift

(* The result is the register with these bits.                             *)
Bits(n)     == { k \in 0 .. W - 1 : (n \div 2 ^ k) % 2 = 1 }
Logic(bits) ==
  \E res \in Value : Bits(res) = bits /\ Store(res) /\ UNCHANGED <<F, L>>

Unary == {"INC", "DEC", "CLR", "INV", "ASR", "SL", "RRC", "RLC"}
Binary == {"ADD", "SUB", "AND", "OR", "XOR", "XFR"}

Do(op, v2) ==
  CASE op = "INC" -> Increment(acc, v2)
    [] op = "DEC" -> Increment(acc, Complement(v2))
    [] op = "CLR" -> AddCarry(0, v2, 0)
    [] op = "INV" -> AddCarry(Complement(acc), v2, 0)
    [] op = "ASR" -> ArithmeticRight(1 + v2)
    [] op = "SL"  -> Left(1 + v2)
    [] op = "RRC" -> RotateRight(1 + v2)
    [] op = "RLC" -> RotateLeft(1 + v2)
    [] op = "ADD" -> AddCarry(acc, v2, 0)
    [] op = "SUB" -> AddCarry(acc, Complement(v2), 1)
    [] op = "AND" -> Logic(Bits(acc) \cap Bits(v2))
    [] op = "OR"  -> Logic(Bits(acc) \cup Bits(v2))
    [] op = "XOR" -> Logic((Bits(acc) \cup Bits(v2)) \ (Bits(acc) \cap Bits(v2)))
    [] op = "XFR" -> Logic(Bits(acc))

(* The register is loaded between operations, which leaves the flags.      *)
Load == acc' \in Operand /\ UNCHANGED <<F, L, M, V>>

AluNext ==
  \/ Load
  \/ \E op \in Unary, v2 \in Count : Do(op, v2)
  \/ \E op \in Binary, v2 \in Operand : Do(op, v2)

AluSpec == AluInit /\ [][AluNext]_aluVars

(***************************************************************************)
(* Properties.                                                             *)
(***************************************************************************)
(* "Add" and "Subtract" (ISA_insts.tsv): the carry is read off a           *)
(* truncated result, by a comparison, and is the bit that was lost; after  *)
(* a subtraction the link is set when nothing had to be borrowed.          *)
(* Subtracting zero leaves the link clear all the same: the comparison     *)
(* cannot see the carry of acc + 255 + 1.                                  *)
ArithmeticIsExact ==
  [][\A v2 \in Operand :
       /\ Do("ADD", v2) => acc' + Modulus * L' = acc + v2
       /\ Do("SUB", v2) =>
            acc' + v2 = acc + (IF v2 = 0 THEN 0 ELSE Modulus * (1 - L'))]_aluVars

(* "Arithmetic Shift Register Right": division of the signed value by a    *)
(* power of two, rounding down; the link takes the last bit shifted out.   *)
(* "Rotate Register Right": W + 1 bits, the link and the register, turn as *)
(* one.                                                                    *)
Signed(n) == IF n >= Half THEN n - Modulus ELSE n
ShiftsAreExact ==
  [][/\ \A k \in Count \cap (0 .. W - 1) : Do("ASR", k) =>
          /\ Signed(acc') = Signed(acc) \div 2 ^ (k + 1)
          /\ L' = (acc \div 2 ^ k) % 2
     /\ Do("RRC", 0) => 2 * acc' + L' = acc + Modulus * L]_aluVars
=============================================================================
