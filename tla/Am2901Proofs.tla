----------------------------- MODULE Am2901Proofs -----------------------------
(***************************************************************************)
(* Theorems about Am2901Chain, for every program, every register file and  *)
(* whatever the lines hold at first: the sum and the zero flag of a chain  *)
(* of slices, then what two slices compute and store, by the symbol of     *)
(* each function.                                                          *)
(***************************************************************************)
EXTENDS Am2901Chain, TLAPS

USE DEF Bit, Byte, alu0!Bit, alu1!Bit, alu0!Nibble, alu1!Nibble

(***************************************************************************)
(* A carry that ripples through a nibble.                                  *)
(***************************************************************************)
Has(n, w) == (n \div w) % 2 = 1
Gen(r, s, w) == Has(r, w) /\ Has(s, w)
Prop(r, s, w) == Has(r, w) \/ Has(s, w)
Carry1(r, s, c) == Gen(r, s, 1) \/ (Prop(r, s, 1) /\ c = 1)
Carry2(r, s, c) == Gen(r, s, 2) \/ (Prop(r, s, 2) /\ Carry1(r, s, c))
Carry3(r, s, c) == Gen(r, s, 4) \/ (Prop(r, s, 4) /\ Carry2(r, s, c))
Carry4(r, s, c) == Gen(r, s, 8) \/ (Prop(r, s, 8) /\ Carry3(r, s, c))
Digit(n, w) == (n \div w) % 2

(* A nibble is the sum of its bits.                                        *)
LEMMA NibbleIsItsBits ==
  ASSUME NEW n \in 0 .. 15
  PROVE  /\ Digit(n, 1) \in {0, 1} /\ Digit(n, 2) \in {0, 1}
         /\ Digit(n, 4) \in {0, 1} /\ Digit(n, 8) \in {0, 1}
         /\ n = Digit(n, 1) + 2 * Digit(n, 2) + 4 * Digit(n, 4) + 8 * Digit(n, 8)
BY DEF Digit

(* The gates of am2901_function_decode compute the fifth bit of the sum.   *)
LEMMA CarryIsFifthBit ==
  ASSUME NEW r \in 0 .. 15, NEW s \in 0 .. 15, NEW c \in {0, 1}
  PROVE  r + s + c = ((r + s + c) % 16) + (IF Carry4(r, s, c) THEN 16 ELSE 0)
<1> DEFINE r1 == Digit(r, 1)  r2 == Digit(r, 2)  r4 == Digit(r, 4)  r8 == Digit(r, 8)
           s1 == Digit(s, 1)  s2 == Digit(s, 2)  s4 == Digit(s, 4)  s8 == Digit(s, 8)
           k1 == IF Carry1(r, s, c) THEN 1 ELSE 0
           k2 == IF Carry2(r, s, c) THEN 1 ELSE 0
           k3 == IF Carry3(r, s, c) THEN 1 ELSE 0
           k4 == IF Carry4(r, s, c) THEN 1 ELSE 0
<1>1. /\ r1 \in {0, 1} /\ r2 \in {0, 1} /\ r4 \in {0, 1} /\ r8 \in {0, 1}
      /\ r = r1 + 2 * r2 + 4 * r4 + 8 * r8
  BY NibbleIsItsBits
<1>2. /\ s1 \in {0, 1} /\ s2 \in {0, 1} /\ s4 \in {0, 1} /\ s8 \in {0, 1}
      /\ s = s1 + 2 * s2 + 4 * s4 + 8 * s8
  BY NibbleIsItsBits
<1>3. /\ k1 \in {0, 1} /\ r1 + s1 + c >= 2 * k1 /\ r1 + s1 + c <= 2 * k1 + 1
  BY <1>1, <1>2 DEF Carry1, Gen, Prop, Has, Digit
<1>4. /\ k2 \in {0, 1} /\ r2 + s2 + k1 >= 2 * k2 /\ r2 + s2 + k1 <= 2 * k2 + 1
  BY <1>1, <1>2 DEF Carry2, Gen, Prop, Has, Digit
<1>5. /\ k3 \in {0, 1} /\ r4 + s4 + k2 >= 2 * k3 /\ r4 + s4 + k2 <= 2 * k3 + 1
  BY <1>1, <1>2 DEF Carry3, Gen, Prop, Has, Digit
<1>6. /\ k4 \in {0, 1} /\ r8 + s8 + k3 >= 2 * k4 /\ r8 + s8 + k3 <= 2 * k4 + 1
  BY <1>1, <1>2 DEF Carry4, Gen, Prop, Has, Digit
<1> HIDE DEF r1, r2, r4, r8, s1, s2, s4, s8, k1, k2, k3, k4
<1>7. r + s + c >= 16 * k4 /\ r + s + c <= 16 * k4 + 15
  BY <1>1, <1>2, <1>3, <1>4, <1>5, <1>6
<1>8. r + s + c = ((r + s + c) % 16) + 16 * k4
  BY <1>6, <1>7
<1>. QED  BY <1>8 DEF k4

(***************************************************************************)
(* Types.                                                                  *)
(***************************************************************************)
(* The fields of the instruction on the pins, from the type of programs.   *)
LEMMA InstructionType ==
  ASSUME inst \in Program
  PROVE  /\ inst \in Instruction
         /\ inst.src \in alu0!Sources /\ inst.func \in alu0!Functions8
         /\ inst.dest \in alu0!Destinations /\ inst.rA \in Reg /\ inst.rB \in Reg
         /\ inst.D % 16 \in 0 .. 15 /\ inst.D \div 16 \in 0 .. 15
         /\ inst.Cin \in {0, 1}
<1>1. inst \in Instruction
  BY ChainAssumption
<1>2. /\ inst.D \in 0 .. 255
      /\ inst.src \in alu0!Sources /\ inst.func \in alu0!Functions8
      /\ inst.dest \in alu0!Destinations /\ inst.rA \in Reg /\ inst.rB \in Reg
      /\ inst.Cin \in {0, 1}
  BY <1>1 DEF Instruction
<1>. QED  BY <1>1, <1>2

(* The operands that alu0 selects, and what it computes of them, are       *)
(* nibbles.                                                                *)
LEMMA OperandsLow ==
  ASSUME TypeOK
  PROVE  /\ alu0!Rmux \in 0 .. 15 /\ alu0!Smux \in 0 .. 15
         /\ alu0!R \in 0 .. 15 /\ alu0!S \in 0 .. 15
         /\ alu0!Function \in 0 .. 15
<1>1. /\ Al \in 0 .. 15 /\ Bl \in 0 .. 15 /\ Ql \in 0 .. 15 /\ C0 \in {0, 1}
  BY DEF TypeOK, alu0!SliceTypeOK, alu1!SliceTypeOK
<1>2. /\ inst.src \in alu0!Sources /\ inst.func \in alu0!Functions8
      /\ inst.D % 16 \in 0 .. 15 /\ inst.D \div 16 \in 0 .. 15
  BY InstructionType DEF TypeOK
<1>3. alu0!Rmux \in 0 .. 15
  BY <1>1, <1>2 DEF alu0!Rmux, alu0!Sources
<1>4. alu0!Smux \in 0 .. 15
  BY <1>1, <1>2 DEF alu0!Smux, alu0!Sources
<1>5. alu0!R \in 0 .. 15 /\ alu0!S \in 0 .. 15
  BY <1>3, <1>4 DEF alu0!R, alu0!S, alu0!Not
<1>6. \A m, k : alu0!And(m, k) \in 0 .. 15 /\ alu0!Or(m, k) \in 0 .. 15
  BY DEF alu0!And, alu0!Or, alu0!Join, alu0!AsBit
<1>7. (alu0!R + alu0!S + C0) % 16 \in 0 .. 15
  BY <1>1, <1>5
<1>8. alu0!Function \in 0 .. 15
  BY <1>2, <1>6, <1>7 DEF alu0!Function, alu0!Arithmetic, alu0!Functions8
<1>. QED  BY <1>3, <1>4, <1>5, <1>8

(* The same of alu1, whose carry in is C4.                                 *)
LEMMA OperandsHigh ==
  ASSUME TypeOK
  PROVE  /\ alu1!Rmux \in 0 .. 15 /\ alu1!Smux \in 0 .. 15
         /\ alu1!R \in 0 .. 15 /\ alu1!S \in 0 .. 15
         /\ alu1!Function \in 0 .. 15
<1>1. /\ Ah \in 0 .. 15 /\ Bh \in 0 .. 15 /\ Qh \in 0 .. 15 /\ C4 \in {0, 1}
  BY DEF TypeOK, alu0!SliceTypeOK, alu1!SliceTypeOK
<1>2. /\ inst.src \in alu0!Sources /\ inst.func \in alu0!Functions8
      /\ inst.D % 16 \in 0 .. 15 /\ inst.D \div 16 \in 0 .. 15
  BY InstructionType DEF TypeOK
<1>3. alu1!Rmux \in 0 .. 15
  BY <1>1, <1>2 DEF alu1!Rmux, alu0!Sources
<1>4. alu1!Smux \in 0 .. 15
  BY <1>1, <1>2 DEF alu1!Smux, alu0!Sources
<1>5. alu1!R \in 0 .. 15 /\ alu1!S \in 0 .. 15
  BY <1>3, <1>4 DEF alu1!R, alu1!S, alu1!Not
<1>6. \A m, k : alu1!And(m, k) \in 0 .. 15 /\ alu1!Or(m, k) \in 0 .. 15
  BY DEF alu1!And, alu1!Or, alu1!Join, alu1!AsBit
<1>7. (alu1!R + alu1!S + C4) % 16 \in 0 .. 15
  BY <1>1, <1>5
<1>8. alu1!Function \in 0 .. 15
  BY <1>2, <1>6, <1>7 DEF alu1!Function, alu1!Arithmetic, alu0!Functions8
<1>. QED  BY <1>3, <1>4, <1>5, <1>8

(* One call of am2901_update leaves alu0, and the lines it drives, in       *)
(* their types: one case for each of the four clock states.                *)
LEMMA UpdateLowType ==
  ASSUME TypeOK, alu0!Update
  PROVE  alu0!SliceTypeOK'
<1>1. alu0!SliceTypeOK /\ clk \in {"LO", "LH", "HI", "HL"}
  BY DEF TypeOK
<1>2. /\ inst.dest \in alu0!Destinations /\ inst.rA \in Reg /\ inst.rB \in Reg
  BY InstructionType DEF TypeOK
<1>3. alu0!Function \in 0 .. 15
  BY OperandsLow
<1>4. \A k, v \in 0 .. 15, d, l, h \in {0, 1} :
        \A e : alu0!Shifted(k, e, l, h, v) \in 0 .. 15
  BY DEF alu0!Shifted
<1>5. /\ RAMl' \in [Reg -> 0 .. 15]
      /\ Al' \in 0 .. 15 /\ Bl' \in 0 .. 15 /\ Ql' \in 0 .. 15 /\ Fl' \in 0 .. 15
      /\ destl' \in alu0!Destinations \cup {"none"}
      /\ C4' \in {0, 1} /\ lookl' \in [P_ : {0, 1}, G_ : {0, 1}, OVR : {0, 1}]
  <2>1. CASE clk = "HL"
    BY <1>1, <1>2, <2>1 DEF alu0!Update, alu0!clock_state_edge_HL, alu0!SliceTypeOK
  <2>2. CASE clk = "LO"
    <3>1. Fl' \in 0 .. 15
      BY <1>3, <2>2 DEF alu0!Update, alu0!clock_state_setup_L
    <3>2. C4' \in {0, 1} /\ lookl' \in [P_ : {0, 1}, G_ : {0, 1}, OVR : {0, 1}]
      BY <2>2 DEF alu0!Update, alu0!clock_state_setup_L, alu0!AsBit
    <3>3. RAMl' \in [Reg -> 0 .. 15]
      <4>1. alu0!Shifted(Fl', destl, RAM0, RAM3, Fl') \in 0 .. 15
        BY <1>1, <1>4, <3>1 DEF alu0!SliceTypeOK
      <4>. QED  BY <1>1, <1>2, <2>2, <4>1 DEF alu0!Update, alu0!clock_state_setup_L, alu0!SliceTypeOK
    <3>4. UNCHANGED <<Al, Bl, Ql, destl>>
      BY <2>2 DEF alu0!Update, alu0!clock_state_setup_L
    <3>. QED  BY <1>1, <3>1, <3>2, <3>3, <3>4 DEF alu0!SliceTypeOK
  <2>3. CASE clk = "LH"
    <3>1. alu0!Shifted(Ql, destl, Q0, Q3, Fl) \in 0 .. 15
      BY <1>1, <1>4 DEF alu0!SliceTypeOK
    <3>. QED  BY <1>1, <2>3, <3>1 DEF alu0!Update, alu0!clock_state_edge_LH, alu0!SliceTypeOK
  <2>4. CASE clk = "HI"
    BY <1>1, <1>2, <2>4 DEF alu0!Update, alu0!clock_state_setup_H, alu0!SliceTypeOK,
       alu0!Destinations, alu1!Destinations
  <2>. QED  BY <1>1, <2>1, <2>2, <2>3, <2>4
<1>6. /\ Q0' \in {0, 1} /\ Q3' \in {0, 1} /\ RAM0' \in {0, 1} /\ RAM3' \in {0, 1}
      /\ FZ' \in {0, 1}
  BY <1>1, <1>5 DEF alu0!Update, alu0!DrivePins, alu0!SliceTypeOK
<1>. QED  BY <1>5, <1>6 DEF alu0!SliceTypeOK

(* The same of alu1.                                                       *)
LEMMA UpdateHighType ==
  ASSUME TypeOK, alu1!Update
  PROVE  alu1!SliceTypeOK'
<1>1. alu1!SliceTypeOK /\ clk \in {"LO", "LH", "HI", "HL"}
  BY DEF TypeOK
<1>2. /\ inst.dest \in alu0!Destinations /\ inst.rA \in Reg /\ inst.rB \in Reg
  BY InstructionType DEF TypeOK
<1>3. alu1!Function \in 0 .. 15
  BY OperandsHigh
<1>4. \A k, v \in 0 .. 15, d, l, h \in {0, 1} :
        \A e : alu1!Shifted(k, e, l, h, v) \in 0 .. 15
  BY DEF alu1!Shifted
<1>5. /\ RAMh' \in [Reg -> 0 .. 15]
      /\ Ah' \in 0 .. 15 /\ Bh' \in 0 .. 15 /\ Qh' \in 0 .. 15 /\ Fh' \in 0 .. 15
      /\ desth' \in alu1!Destinations \cup {"none"}
      /\ FC' \in {0, 1} /\ lookh' \in [P_ : {0, 1}, G_ : {0, 1}, OVR : {0, 1}]
  <2>1. CASE clk = "HL"
    BY <1>1, <1>2, <2>1 DEF alu1!Update, alu1!clock_state_edge_HL, alu1!SliceTypeOK
  <2>2. CASE clk = "LO"
    <3>1. Fh' \in 0 .. 15
      BY <1>3, <2>2 DEF alu1!Update, alu1!clock_state_setup_L
    <3>2. FC' \in {0, 1} /\ lookh' \in [P_ : {0, 1}, G_ : {0, 1}, OVR : {0, 1}]
      BY <2>2 DEF alu1!Update, alu1!clock_state_setup_L, alu1!AsBit
    <3>3. RAMh' \in [Reg -> 0 .. 15]
      <4>1. alu1!Shifted(Fh', desth, RAM3, RAM7, Fh') \in 0 .. 15
        BY <1>1, <1>4, <3>1 DEF alu1!SliceTypeOK
      <4>. QED  BY <1>1, <1>2, <2>2, <4>1 DEF alu1!Update, alu1!clock_state_setup_L, alu1!SliceTypeOK
    <3>4. UNCHANGED <<Ah, Bh, Qh, desth>>
      BY <2>2 DEF alu1!Update, alu1!clock_state_setup_L
    <3>. QED  BY <1>1, <3>1, <3>2, <3>3, <3>4 DEF alu1!SliceTypeOK
  <2>3. CASE clk = "LH"
    <3>1. alu1!Shifted(Qh, desth, Q3, Q7, Fh) \in 0 .. 15
      BY <1>1, <1>4 DEF alu1!SliceTypeOK
    <3>. QED  BY <1>1, <2>3, <3>1 DEF alu1!Update, alu1!clock_state_edge_LH, alu1!SliceTypeOK
  <2>4. CASE clk = "HI"
    BY <1>1, <1>2, <2>4 DEF alu1!Update, alu1!clock_state_setup_H, alu1!SliceTypeOK,
       alu0!Destinations, alu1!Destinations
  <2>. QED  BY <1>1, <2>1, <2>2, <2>3, <2>4
<1>6. /\ Q3' \in {0, 1} /\ Q7' \in {0, 1} /\ RAM3' \in {0, 1} /\ RAM7' \in {0, 1}
      /\ FZ' \in {0, 1}
  BY <1>1, <1>5 DEF alu1!Update, alu1!DrivePins, alu1!SliceTypeOK
<1>. QED  BY <1>5, <1>6 DEF alu1!SliceTypeOK

(* The driver stops advancing the clock after four times.                  *)
ClockInv == TypeOK /\ (turn = "clock" => advanced < 4)

(* The types, with the bound on the clock that they rest on, are invariant. *)
LEMMA ClockCorrect == Spec => []ClockInv
<1>1. Init => ClockInv
  <2> SUFFICES ASSUME Init PROVE ClockInv
    OBVIOUS
  <2>1. PICK l \in [Line -> {0, 1}] :
          /\ RAM0 = l["RAM0"] /\ RAM3 = l["RAM3"] /\ RAM7 = l["RAM7"]
          /\ Q0 = l["Q0"] /\ Q3 = l["Q3"] /\ Q7 = l["Q7"]
          /\ C0 = l["C0"] /\ C4 = l["C4"] /\ FC = l["FC"] /\ FZ = l["FZ"]
          /\ lookl = [P_ |-> l["P_0"], G_ |-> l["G_0"], OVR |-> l["OVR0"]]
          /\ lookh = [P_ |-> l["P_1"], G_ |-> l["G_1"], OVR |-> l["FV"]]
    BY ChainAssumption DEF Init
  <2>2. \A x \in Line : l[x] \in {0, 1}
    BY <2>1
  <2>3. alu0!SliceTypeOK /\ alu1!SliceTypeOK /\ C0 \in {0, 1}
    BY <2>1, <2>2 DEF Init, alu0!InitSlice, alu1!InitSlice, alu0!SliceTypeOK,
       alu1!SliceTypeOK, Line
  <2>. QED  BY <2>3, ChainAssumption DEF Init, TypeOK, ClockInv
<1>2. ClockInv /\ [Next]_vars => ClockInv'
  <2> SUFFICES ASSUME ClockInv, [Next]_vars PROVE ClockInv'
    OBVIOUS
  <2> USE DEF ClockInv
  <2>1. CASE SetPins
    <3>1. inst'.Cin \in {0, 1}
      BY <2>1, ChainAssumption DEF SetPins, Instruction
    <3>. QED  BY <2>1, <3>1, ChainAssumption DEF SetPins, TypeOK, alu0!SliceTypeOK, alu1!SliceTypeOK,
              low, high
  <2>2. CASE UpdateLow
    <3>1. alu0!SliceTypeOK'
      BY <2>2, UpdateLowType DEF UpdateLow
    <3>2. alu1!SliceTypeOK'
      BY <2>2, <3>1 DEF UpdateLow, TypeOK, alu0!SliceTypeOK, alu1!SliceTypeOK, high
    <3>. QED  BY <2>2, <3>1, <3>2 DEF UpdateLow, TypeOK
  <2>3. CASE UpdateHigh
    <3>1. alu1!SliceTypeOK'
      BY <2>3, UpdateHighType DEF UpdateHigh
    <3>2. alu0!SliceTypeOK'
      BY <2>3, <3>1 DEF UpdateHigh, TypeOK, alu0!SliceTypeOK, alu1!SliceTypeOK, low
    <3>. QED  BY <2>3, <3>1, <3>2 DEF UpdateHigh, TypeOK
  <2>4. CASE Advance
    <3>1. /\ clk' \in {"LO", "LH", "HI", "HL"} /\ advanced' \in 0 .. 4
      BY <2>4 DEF Advance, NextState, TypeOK
    <3>. QED  BY <2>4, <3>1 DEF Advance, TypeOK, alu0!SliceTypeOK, alu1!SliceTypeOK,
              low, high, lines
  <2>5. CASE UNCHANGED vars
    BY <2>5 DEF vars, low, high, lines, driver, TypeOK, alu0!SliceTypeOK, alu1!SliceTypeOK
  <2>. QED  BY <2>1, <2>2, <2>3, <2>4, <2>5 DEF Next
<1>. QED  BY <1>1, <1>2, PTL DEF Spec

(* Registers, results and lines keep their widths: masks are where they    *)
(* must be in all four steps of am2901_update.                             *)
THEOREM TypeCorrect == Spec => []TypeOK
<1>1. ClockInv => TypeOK
  BY DEF ClockInv
<1>. QED  BY <1>1, ClockCorrect, PTL

(***************************************************************************)
(* The carry between the slices.                                           *)
(***************************************************************************)
(* alu0 has added its nibbles: C4 is what alu1 is to add.                  *)
SumInv ==
  turn = "alu1" /\ clk = "LO" /\ inst.func \in alu0!Arithmetic =>
    Fl + 16 * C4 = alu0!R + alu0!S + C0

(* One update of alu0 leaves its result and C4 as the exact sum.            *)
LEMMA LowSum ==
  ASSUME TypeOK, alu0!clock_state_setup_L, inst.func \in alu0!Arithmetic
  PROVE  Fl' + 16 * C4' = alu0!R + alu0!S + C0
<1>1. alu0!R \in 0 .. 15 /\ alu0!S \in 0 .. 15 /\ C0 \in {0, 1}
  BY OperandsLow DEF TypeOK
<1>2. Fl' = (alu0!R + alu0!S + C0) % 16
  BY DEF alu0!clock_state_setup_L, alu0!Function, alu0!Arithmetic
<1>3. alu0!C4 <=> Carry4(alu0!R, alu0!S, C0)
  BY DEF alu0!C4, alu0!C3, alu0!C2, alu0!C1, alu0!P, alu0!G, alu0!Has,
     Carry4, Carry3, Carry2, Carry1, Gen, Prop, Has
<1>4. C4' = IF Carry4(alu0!R, alu0!S, C0) THEN 1 ELSE 0
  BY <1>3 DEF alu0!clock_state_setup_L, alu0!CarryOut, alu0!AsBit, alu0!Arithmetic
<1>. QED  BY <1>1, <1>2, <1>4, CarryIsFifthBit

(* One update of alu1 leaves its result and FC as the exact sum.            *)
LEMMA HighSum ==
  ASSUME TypeOK, alu1!clock_state_setup_L, inst.func \in alu0!Arithmetic
  PROVE  Fh' + 16 * FC' = alu1!R + alu1!S + C4
<1>1. alu1!R \in 0 .. 15 /\ alu1!S \in 0 .. 15 /\ C4 \in {0, 1}
  BY OperandsHigh DEF TypeOK, alu0!SliceTypeOK
<1>2. Fh' = (alu1!R + alu1!S + C4) % 16
  BY DEF alu1!clock_state_setup_L, alu1!Function, alu0!Arithmetic, alu1!Arithmetic
<1>3. alu1!C4 <=> Carry4(alu1!R, alu1!S, C4)
  BY DEF alu1!C4, alu1!C3, alu1!C2, alu1!C1, alu1!P, alu1!G, alu1!Has,
     Carry4, Carry3, Carry2, Carry1, Gen, Prop, Has
<1>4. FC' = IF Carry4(alu1!R, alu1!S, C4) THEN 1 ELSE 0
  BY <1>3 DEF alu1!clock_state_setup_L, alu1!CarryOut, alu1!AsBit, alu0!Arithmetic,
     alu1!Arithmetic
<1>. QED  BY <1>1, <1>2, <1>4, CarryIsFifthBit

(* Every step preserves what the two lemmas above establish.               *)
LEMMA SumStays == ClockInv /\ SumInv /\ [Next]_vars => SumInv'
<1> SUFFICES ASSUME ClockInv, SumInv, [Next]_vars,
                    turn' = "alu1", clk' = "LO", inst'.func \in alu0!Arithmetic
             PROVE  Fl' + 16 * C4' = alu0!R' + alu0!S' + C0'
  BY DEF SumInv
<1>1. CASE SetPins
  BY <1>1 DEF SetPins
<1>2. CASE UpdateLow
  <2>1. clk = "LO" /\ inst' = inst /\ C0' = C0
    BY <1>2 DEF UpdateLow
  <2>2. alu0!clock_state_setup_L
    BY <1>2, <2>1 DEF UpdateLow, alu0!Update
  <2>3. UNCHANGED <<Al, Bl, Ql>>
    BY <2>2 DEF alu0!clock_state_setup_L
  <2>4. alu0!R' = alu0!R /\ alu0!S' = alu0!S
    BY <2>1, <2>3 DEF alu0!R, alu0!S, alu0!Rmux, alu0!Smux, alu0!Not
  <2>. QED  BY <2>1, <2>2, <2>4, LowSum DEF ClockInv
<1>3. CASE UpdateHigh
  BY <1>3 DEF UpdateHigh
<1>4. CASE Advance
  BY <1>4 DEF Advance
<1>5. CASE UNCHANGED vars
  <2>1. /\ turn' = turn /\ clk' = clk /\ inst' = inst /\ C0' = C0 /\ C4' = C4
        /\ UNCHANGED <<Al, Bl, Ql, Fl>>
    BY <1>5 DEF vars, low, lines, driver
  <2>2. alu0!R' = alu0!R /\ alu0!S' = alu0!S
    BY <2>1 DEF alu0!R, alu0!S, alu0!Rmux, alu0!Smux, alu0!Not
  <2>. QED  BY <2>1, <2>2 DEF SumInv
<1>. QED  BY <1>1, <1>2, <1>3, <1>4, <1>5 DEF Next

(* Two slices, chained by one carry, add and subtract bytes exactly.       *)
THEOREM SumCorrect == Spec => SumIsExact
<1>1. Init => SumInv
  BY DEF Init, SumInv
<1>2. ClockInv /\ SumInv /\ [Next]_vars =>
        [Completes("LO") /\ inst.func \in alu0!Arithmetic =>
           ByteF' + 256 * FC' = (alu0!R + 16 * alu1!R) + (alu0!S + 16 * alu1!S) + C0]_vars
  <2> SUFFICES ASSUME ClockInv, SumInv, Next, Completes("LO"),
                      inst.func \in alu0!Arithmetic
               PROVE  ByteF' + 256 * FC' = (alu0!R + 16 * alu1!R)
                                           + (alu0!S + 16 * alu1!S) + C0
    BY DEF Completes
  <2>1. UpdateHigh
    BY DEF Next, Completes, SetPins, UpdateLow, Advance
  <2>2. alu1!clock_state_setup_L /\ Fl' = Fl
    BY <2>1 DEF UpdateHigh, alu1!Update, Completes, low
  <2>3. Fh' + 16 * FC' = alu1!R + alu1!S + C4
    BY <2>2, HighSum DEF ClockInv
  <2>4. Fl + 16 * C4 = alu0!R + alu0!S + C0
    BY DEF SumInv, Completes
  <2>5. /\ alu0!R \in Int /\ alu0!S \in Int /\ alu1!R \in Int /\ alu1!S \in Int
        /\ C0 \in Int /\ C4 \in Int /\ Fl \in Int
    BY OperandsLow, OperandsHigh DEF ClockInv, TypeOK, alu0!SliceTypeOK
  <2>6. Fh' \in Int /\ FC' \in Int
    BY <2>1, UpdateHighType DEF UpdateHigh, ClockInv, alu1!SliceTypeOK
  <2>7. (Fl + 16 * Fh') + 256 * FC' = (alu0!R + 16 * alu1!R) + (alu0!S + 16 * alu1!S) + C0
    <3>1. 16 * (Fh' + 16 * FC') = 16 * Fh' + 256 * FC'
      BY <2>6
    <3>2. 16 * (alu1!R + alu1!S + C4) = 16 * alu1!R + 16 * alu1!S + 16 * C4
      BY <2>5
    <3>3. 16 * Fh' + 256 * FC' = 16 * alu1!R + 16 * alu1!S + 16 * C4
      BY <3>1, <3>2, <2>3
    <3>4. Fl + (16 * Fh' + 256 * FC') = (Fl + 16 * C4) + 16 * alu1!R + 16 * alu1!S
      BY <3>3, <2>5
    <3>5. Fl + (16 * Fh' + 256 * FC') = (alu0!R + alu0!S + C0) + 16 * alu1!R + 16 * alu1!S
      BY <3>4, <2>4
    <3>6. Fl + (16 * Fh' + 256 * FC') = (Fl + 16 * Fh') + 256 * FC'
      BY <2>5, <2>6
    <3>7. (alu0!R + alu0!S + C0) + 16 * alu1!R + 16 * alu1!S =
          (alu0!R + 16 * alu1!R) + (alu0!S + 16 * alu1!S) + C0
      BY <2>5
    <3>. QED BY <3>5, <3>6, <3>7
  <2>. QED  BY <2>2, <2>7 DEF ByteF
<1>. QED  BY <1>1, <1>2, SumStays, ClockCorrect, PTL DEF Spec, SumIsExact

(***************************************************************************)
(* The zero line.                                                          *)
(***************************************************************************)
(* A slice that has been updated for this instruction would have pulled    *)
(* the line down.                                                          *)
ZeroInv ==
  /\ turn = "alu1" /\ FZ = 1 => Fl = 0
  /\ turn = "clock" /\ FZ = 1 => Fl = 0 /\ Fh = 0
  /\ turn = "set" /\ run > 0 /\ FZ = 1 => Fl = 0 /\ Fh = 0

(* An open collector shared by both slices: when nobody has pulled it down *)
(* the whole byte is zero.                                                 *)
THEOREM ZeroFlagCorrect == Spec => []ZeroFlagIsSound
<1>1. Init => ZeroInv
  BY DEF Init, ZeroInv
<1>2. TypeOK /\ ZeroInv /\ [Next]_vars => ZeroInv'
  <2> SUFFICES ASSUME TypeOK, ZeroInv, [Next]_vars PROVE ZeroInv'
    OBVIOUS
  <2>1. CASE SetPins
    BY <2>1 DEF SetPins, ZeroInv
  <2>2. CASE UpdateLow
    <3>1. FZ' = 1 => Fl' = 0
      BY <2>2 DEF UpdateLow, alu0!Update, alu0!DrivePins
    <3>. QED  BY <2>2, <3>1 DEF UpdateLow, ZeroInv
  <2>3. CASE UpdateHigh
    <3>1. (FZ' = 1 => Fh' = 0) /\ (FZ' = 1 => FZ = 1) /\ Fl' = Fl
      BY <2>3 DEF UpdateHigh, alu1!Update, alu1!DrivePins, low
    <3>. QED  BY <2>3, <3>1 DEF UpdateHigh, ZeroInv
  <2>4. CASE Advance
    BY <2>4 DEF Advance, ZeroInv
  <2>5. CASE UNCHANGED vars
    BY <2>5 DEF vars, low, high, lines, driver, ZeroInv
  <2>. QED  BY <2>1, <2>2, <2>3, <2>4, <2>5 DEF Next
<1>3. ZeroInv => ZeroFlagIsSound
  BY DEF ZeroInv, ZeroFlagIsSound, ByteF
<1>. QED  BY <1>1, <1>2, <1>3, TypeCorrect, PTL DEF Spec

(***************************************************************************)
(* The outputs for a lookahead generator.                                  *)
(***************************************************************************)
(* What a generator would make of one slice.                               *)
Looks(look, c) == look.G_ = 0 \/ (look.P_ = 0 /\ c = 1)

(* alu0's outputs tell the carry it makes of the one it is given.          *)
LEMMA LowLooks ==
  ASSUME alu0!clock_state_setup_L, inst.func \in alu0!Arithmetic
  PROVE  C4' = 1 <=> Looks(lookl', C0)
<1>1. /\ C4' = alu0!AsBit(alu0!C4)
      /\ lookl'.P_ = alu0!AsBit(~alu0!Pall)
      /\ lookl'.G_ = alu0!AsBit(~(alu0!Generates
                                  \/ (alu0!P(8) /\ alu0!P(4) /\ alu0!P(2) /\ alu0!G(1))))
  BY DEF alu0!clock_state_setup_L, alu0!CarryOut, alu0!Propagate_, alu0!Generate_,
     alu0!Arithmetic
<1>2. alu0!C4 <=> \/ alu0!Generates \/ (alu0!P(8) /\ alu0!P(4) /\ alu0!P(2) /\ alu0!G(1))
                  \/ alu0!Pall /\ C0 = 1
  BY DEF alu0!C4, alu0!C3, alu0!C2, alu0!C1, alu0!Generates, alu0!Pall
<1> QED BY <1>1, <1>2 DEF Looks, alu0!AsBit

(* The same of alu1.                                                       *)
LEMMA HighLooks ==
  ASSUME alu1!clock_state_setup_L, inst.func \in alu0!Arithmetic
  PROVE  FC' = 1 <=> Looks(lookh', C4)
<1>1. /\ FC' = alu1!AsBit(alu1!C4)
      /\ lookh'.P_ = alu1!AsBit(~alu1!Pall)
      /\ lookh'.G_ = alu1!AsBit(~(alu1!Generates
                                  \/ (alu1!P(8) /\ alu1!P(4) /\ alu1!P(2) /\ alu1!G(1))))
  BY DEF alu1!clock_state_setup_L, alu1!CarryOut, alu1!Propagate_, alu1!Generate_,
     alu0!Arithmetic, alu1!Arithmetic
<1>2. alu1!C4 <=> \/ alu1!Generates \/ (alu1!P(8) /\ alu1!P(4) /\ alu1!P(2) /\ alu1!G(1))
                  \/ alu1!Pall /\ C4 = 1
  BY DEF alu1!C4, alu1!C3, alu1!C2, alu1!C1, alu1!Generates, alu1!Pall
<1> QED BY <1>1, <1>2 DEF Looks, alu1!AsBit

(* alu0 has added: its outputs still tell the carry that alu1 is to add.   *)
LookInv ==
  turn = "alu1" /\ clk = "LO" /\ inst.func \in alu0!Arithmetic =>
    (C4 = 1 <=> Looks(lookl, C0))

(* P_ and G_ are sound for a generator outside: it finds the carry that    *)
(* has rippled through both slices.                                        *)
THEOREM LookaheadCorrect == Spec => LookaheadAgrees
<1>1. Init => LookInv
  BY DEF Init, LookInv
<1>2. LookInv /\ [Next]_vars => LookInv'
  <2> SUFFICES ASSUME LookInv, [Next]_vars,
                      turn' = "alu1", clk' = "LO", inst'.func \in alu0!Arithmetic
               PROVE  C4' = 1 <=> Looks(lookl', C0')
    BY DEF LookInv, alu0!Arithmetic
  <2>1. CASE UpdateLow
    <3>1. clk = "LO" /\ inst' = inst /\ C0' = C0
      BY <2>1 DEF UpdateLow
    <3>2. alu0!clock_state_setup_L
      BY <2>1, <3>1 DEF UpdateLow, alu0!Update
    <3> QED BY <3>1, <3>2, LowLooks
  <2>2. CASE UNCHANGED vars
    BY <2>2 DEF vars, low, lines, driver, LookInv
  <2> QED BY <2>1, <2>2 DEF Next, SetPins, UpdateHigh, Advance
<1>3. LookInv /\ [Next]_vars =>
        [Completes("LO") /\ inst.func \in alu0!Arithmetic =>
           (FC' = 1 <=> \/ lookh'.G_ = 0
                        \/ lookh'.P_ = 0 /\ lookl'.G_ = 0
                        \/ lookh'.P_ = 0 /\ lookl'.P_ = 0 /\ C0 = 1)]_vars
  <2> SUFFICES ASSUME LookInv, Next, Completes("LO"), inst.func \in alu0!Arithmetic
               PROVE  FC' = 1 <=> \/ lookh'.G_ = 0
                                  \/ lookh'.P_ = 0 /\ lookl'.G_ = 0
                                  \/ lookh'.P_ = 0 /\ lookl'.P_ = 0 /\ C0 = 1
    BY DEF Completes
  <2>1. UpdateHigh
    BY DEF Next, Completes, SetPins, UpdateLow, Advance
  <2>2. alu1!clock_state_setup_L /\ lookl' = lookl
    BY <2>1 DEF UpdateHigh, alu1!Update, Completes, low
  <2>3. FC' = 1 <=> Looks(lookh', C4)
    BY <2>2, HighLooks
  <2>4. C4 = 1 <=> Looks(lookl, C0)
    BY DEF LookInv, Completes
  <2> QED BY <2>2, <2>3, <2>4 DEF Looks
<1> QED BY <1>1, <1>2, <1>3, PTL DEF Spec, LookaheadAgrees

(***************************************************************************)
(* The register file.                                                      *)
(***************************************************************************)
Stores == {"RAMA", "RAMF"}

(* Where the driver is tells the clock; from the high state on the slices  *)
(* hold the instruction's destination; and the last update of a slice has  *)
(* stored its result.                                                      *)
StoreInv ==
  /\ clk = <<"LO", "LH", "HI", "HL", "LO">>[advanced + 1]
  /\ turn = "set" => advanced \in {0, 4} /\ (run > 0 => advanced = 4)
  /\ turn = "clock" => advanced < 4
  /\ advanced \in {3, 4} \/ (advanced = 2 /\ turn \in {"alu1", "clock"}) =>
       destl = inst.dest
  /\ advanced \in {3, 4} \/ (advanced = 2 /\ turn = "clock") => desth = inst.dest
  /\ advanced = 4 /\ turn \in {"alu1", "set"} /\ inst.dest \in Stores =>
       RAMl[inst.rB] = Fl
  /\ advanced = 4 /\ turn = "set" /\ inst.dest \in Stores => RAMh[inst.rB] = Fh

(* In the state LO alu0 stores the result that it computes.                *)
LEMMA LowStores ==
  ASSUME TypeOK, alu0!clock_state_setup_L, destl = inst.dest, inst.dest \in Stores
  PROVE  RAMl'[inst.rB] = Fl' /\ destl' = destl
<1>1. inst.rB \in Reg
  BY InstructionType DEF TypeOK
<1>2. alu0!RAM_EN(destl) /\ ~alu0!ShiftsDown(destl) /\ ~alu0!ShiftsUp(destl)
  BY DEF Stores, alu0!RAM_EN, alu0!ShiftsDown, alu0!ShiftsUp, alu0!Destinations
<1>3. RAMl' = [RAMl EXCEPT ![inst.rB] = Fl']
  BY <1>2 DEF alu0!clock_state_setup_L, alu0!Shifted
<1> QED BY <1>1, <1>3 DEF TypeOK, alu0!SliceTypeOK, alu0!clock_state_setup_L

(* The same of alu1.                                                       *)
LEMMA HighStores ==
  ASSUME TypeOK, alu1!clock_state_setup_L, desth = inst.dest, inst.dest \in Stores
  PROVE  RAMh'[inst.rB] = Fh' /\ desth' = desth
<1>1. inst.rB \in Reg
  BY InstructionType DEF TypeOK
<1>2. alu1!RAM_EN(desth) /\ ~alu1!ShiftsDown(desth) /\ ~alu1!ShiftsUp(desth)
  BY DEF Stores, alu1!RAM_EN, alu1!ShiftsDown, alu1!ShiftsUp, alu1!Destinations
<1>3. RAMh' = [RAMh EXCEPT ![inst.rB] = Fh']
  BY <1>2 DEF alu1!clock_state_setup_L, alu1!Shifted
<1> QED BY <1>1, <1>3 DEF TypeOK, alu1!SliceTypeOK, alu1!clock_state_setup_L

(* Only the high state sets a destination, and only to the one on the pins. *)
LEMMA Decodes ==
  ASSUME TypeOK
  PROVE  /\ alu0!Update => destl' = IF clk = "HI" THEN inst.dest ELSE destl
         /\ alu1!Update => desth' = IF clk = "HI" THEN inst.dest ELSE desth
  BY DEF TypeOK, alu0!Update, alu0!clock_state_edge_HL, alu0!clock_state_setup_L,
     alu0!clock_state_edge_LH, alu0!clock_state_setup_H, alu1!Update,
     alu1!clock_state_edge_HL, alu1!clock_state_setup_L, alu1!clock_state_edge_LH,
     alu1!clock_state_setup_H

(* The driver's clock: no step of it breaks the invariant.                 *)
LEMMA StoreStays == TypeOK /\ StoreInv /\ [Next]_vars => StoreInv'
<1> SUFFICES ASSUME TypeOK, StoreInv, [Next]_vars PROVE StoreInv'
  OBVIOUS
<1>0. /\ advanced \in 0 .. 4 /\ run \in Nat
      /\ clk = <<"LO", "LH", "HI", "HL", "LO">>[advanced + 1]
  BY ChainAssumption DEF TypeOK, StoreInv
<1>1. CASE SetPins
  BY <1>0, <1>1 DEF SetPins, StoreInv
<1>2. CASE UpdateLow
  <2>1. /\ turn = "alu0" /\ turn' = "alu1" /\ alu0!Update
        /\ UNCHANGED <<high, advanced, run, clk, inst>>
    BY <1>2 DEF UpdateLow
  <2>2. destl' = IF clk = "HI" THEN inst.dest ELSE destl
    BY <2>1, Decodes
  <2>3. ASSUME advanced = 4, inst.dest \in Stores PROVE RAMl'[inst.rB] = Fl'
    <3>1. alu0!clock_state_setup_L /\ destl = inst.dest
      BY <1>0, <2>1, <2>3 DEF alu0!Update, StoreInv
    <3> QED BY <2>3, <3>1, LowStores
  <2>4. advanced \in {3, 4} => destl = inst.dest /\ desth = inst.dest
    BY DEF StoreInv
  <2>5. advanced = 2 => clk = "HI"
    BY <1>0
  <2> QED BY <1>0, <2>1, <2>2, <2>3, <2>4, <2>5 DEF StoreInv, high
<1>3. CASE UpdateHigh
  <2>1. /\ turn = "alu1" /\ turn' = (IF advanced < 4 THEN "clock" ELSE "set")
        /\ alu1!Update /\ UNCHANGED <<low, advanced, run, clk, inst>>
    BY <1>3 DEF UpdateHigh
  <2>2. desth' = IF clk = "HI" THEN inst.dest ELSE desth
    BY <2>1, Decodes
  <2>3. ASSUME advanced = 4, inst.dest \in Stores PROVE RAMh'[inst.rB] = Fh'
    <3>1. alu1!clock_state_setup_L /\ desth = inst.dest
      BY <1>0, <2>1, <2>3 DEF alu1!Update, StoreInv
    <3> QED BY <2>3, <3>1, HighStores
  <2>4. advanced \in {3, 4} => destl = inst.dest /\ desth = inst.dest
    BY DEF StoreInv
  <2>5. advanced = 2 => clk = "HI" /\ destl = inst.dest
    BY <1>0, <2>1 DEF StoreInv
  <2>6. advanced = 4 /\ inst.dest \in Stores => RAMl[inst.rB] = Fl
    BY <2>1 DEF StoreInv
  <2> QED BY <1>0, <2>1, <2>2, <2>3, <2>4, <2>5, <2>6 DEF StoreInv, low
<1>4. CASE Advance
  <2>1. /\ turn = "clock" /\ turn' = "alu0" /\ clk' = NextState(clk)
        /\ advanced' = advanced + 1 /\ UNCHANGED <<low, high, run, inst>>
    BY <1>4 DEF Advance
  <2>2. advanced \in 0 .. 3
    BY <1>0, <2>1 DEF StoreInv
  <2>3. clk' = <<"LO", "LH", "HI", "HL", "LO">>[advanced' + 1]
    BY <1>0, <2>1, <2>2 DEF NextState
  <2>4. advanced \in {2, 3} => destl = inst.dest /\ desth = inst.dest
    BY <2>1 DEF StoreInv
  <2> QED BY <2>1, <2>2, <2>3, <2>4 DEF StoreInv, low, high
<1>5. CASE UNCHANGED vars
  BY <1>5 DEF vars, low, high, lines, driver, StoreInv
<1> QED BY <1>1, <1>2, <1>3, <1>4, <1>5 DEF Next

(* When the driver comes to the next instruction, the one before has       *)
(* stored its result in both slices, whatever an instruction before that   *)
(* has left in them.                                                       *)
THEOREM StoreCorrect == Spec => []ResultIsStored
<1>1. Init => StoreInv
  BY DEF Init, StoreInv
<1>2. TypeOK /\ StoreInv => ResultIsStored
  BY DEF StoreInv, ResultIsStored, Stores, ByteF
<1> QED BY <1>1, <1>2, StoreStays, TypeCorrect, PTL DEF Spec

(***************************************************************************)
(* The functions and their symbols.                                        *)
(***************************************************************************)
Four == {1, 2, 4, 8}

(* The bits of a byte are those of its two nibbles.                        *)
LEMMA BitsOfByte ==
  ASSUME NEW l \in 0 .. 15, NEW h \in 0 .. 15
  PROVE  /\ \A w \in Four : Has(l + 16 * h, w) <=> Has(l, w)
         /\ \A w \in Four : Has(l + 16 * h, 16 * w) <=> Has(h, w)
<1>1. \A w \in Four : (l + 16 * h) \div w = l \div w + (16 \div w) * h
  BY DEF Four
<1>2. \A w \in Four : Has(l + 16 * h, w) <=> Has(l, w)
  BY <1>1 DEF Has, Four
<1>3. \A w \in Four : (l + 16 * h) \div (16 * w) = h \div w
  BY DEF Four
<1> QED BY <1>2, <1>3 DEF Has

(* A nibble joined of four bits has those bits.                            *)
LEMMA BitsOfJoin ==
  ASSUME NEW b \in BOOLEAN, NEW c \in BOOLEAN, NEW d \in BOOLEAN, NEW e \in BOOLEAN
  PROVE  LET n == alu0!AsBit(b) + 2 * alu0!AsBit(c) + 4 * alu0!AsBit(d) + 8 * alu0!AsBit(e)
         IN  (Has(n, 1) <=> b) /\ (Has(n, 2) <=> c) /\ (Has(n, 4) <=> d) /\ (Has(n, 8) <=> e)
BY DEF Has, alu0!AsBit

(* The complement of a nibble has the bits that the nibble lacks.          *)
LEMMA BitsOfNot ==
  ASSUME NEW n \in 0 .. 15
  PROVE  \A w \in Four : Has(15 - n, w) <=> ~Has(n, w)
BY DEF Has, Four

(* What a logical function makes of two bits.                              *)
BitOf(func, x, y) ==
  CASE func = "OR"    -> x \/ y
    [] func = "AND"   -> x /\ y
    [] func = "NOTRS" -> ~x /\ y
    [] func = "EXOR"  -> ~(x <=> y)
    [] func = "EXNOR" -> (x <=> y)

(* Complements and gates together, alu0 makes of every bit what the symbol *)
(* says.                                                                   *)
LEMMA LowBits ==
  ASSUME TypeOK, inst.func \notin alu0!Arithmetic
  PROVE  \A w \in Four : Has(alu0!Function, w)
                          <=> BitOf(inst.func, Has(alu0!Rmux, w), Has(alu0!Smux, w))
<1>1. /\ alu0!Rmux \in 0 .. 15 /\ alu0!Smux \in 0 .. 15
      /\ alu0!R \in 0 .. 15 /\ alu0!S \in 0 .. 15
      /\ inst.func \in alu0!Functions8
  BY OperandsLow, InstructionType DEF TypeOK
<1>2. \A m, k : \A w \in Four :
        /\ Has(alu0!And(m, k), w) <=> Has(m, w) /\ Has(k, w)
        /\ Has(alu0!Or(m, k), w) <=> Has(m, w) \/ Has(k, w)
  BY BitsOfJoin DEF alu0!And, alu0!Or, alu0!Join, alu0!AsBit, alu0!Has, Has, Four
<1>3. \A m \in 0 .. 15 : \A w \in Four : Has(alu0!Not(m), w) <=> ~Has(m, w)
  BY BitsOfNot DEF alu0!Not
<1>4. CASE inst.func = "OR"
  BY <1>2, <1>4 DEF alu0!Function, alu0!R, alu0!S, alu0!Arithmetic, BitOf
<1>5. CASE inst.func = "AND"
  BY <1>2, <1>5 DEF alu0!Function, alu0!R, alu0!S, alu0!Arithmetic, BitOf
<1>6. CASE inst.func = "NOTRS"
  BY <1>1, <1>2, <1>3, <1>6 DEF alu0!Function, alu0!R, alu0!S, alu0!Arithmetic, BitOf
<1>7. CASE inst.func = "EXNOR"
  BY <1>1, <1>2, <1>3, <1>7 DEF alu0!Function, alu0!R, alu0!S, alu0!Arithmetic, BitOf
<1>8. CASE inst.func = "EXOR"
  BY <1>1, <1>2, <1>3, <1>8 DEF alu0!Function, alu0!R, alu0!S, alu0!Arithmetic, BitOf
<1> QED BY <1>1, <1>4, <1>5, <1>6, <1>7, <1>8 DEF alu0!Functions8, alu0!Arithmetic

(* The same of alu1.                                                       *)
LEMMA HighBits ==
  ASSUME TypeOK, inst.func \notin alu0!Arithmetic
  PROVE  \A w \in Four : Has(alu1!Function, w)
                          <=> BitOf(inst.func, Has(alu1!Rmux, w), Has(alu1!Smux, w))
<1>1. /\ alu1!Rmux \in 0 .. 15 /\ alu1!Smux \in 0 .. 15
      /\ alu1!R \in 0 .. 15 /\ alu1!S \in 0 .. 15
      /\ inst.func \in alu0!Functions8
  BY OperandsHigh, InstructionType DEF TypeOK
<1>2. \A m, k : \A w \in Four :
        /\ Has(alu1!And(m, k), w) <=> Has(m, w) /\ Has(k, w)
        /\ Has(alu1!Or(m, k), w) <=> Has(m, w) \/ Has(k, w)
  BY BitsOfJoin DEF alu1!And, alu1!Or, alu1!Join, alu1!AsBit, alu0!AsBit, alu1!Has, Has, Four
<1>3. \A m \in 0 .. 15 : \A w \in Four : Has(alu1!Not(m), w) <=> ~Has(m, w)
  BY BitsOfNot DEF alu1!Not
<1>4. CASE inst.func = "OR"
  BY <1>2, <1>4 DEF alu1!Function, alu1!R, alu1!S, alu1!Arithmetic, BitOf
<1>5. CASE inst.func = "AND"
  BY <1>2, <1>5 DEF alu1!Function, alu1!R, alu1!S, alu1!Arithmetic, BitOf
<1>6. CASE inst.func = "NOTRS"
  BY <1>1, <1>2, <1>3, <1>6 DEF alu1!Function, alu1!R, alu1!S, alu1!Arithmetic, BitOf
<1>7. CASE inst.func = "EXNOR"
  BY <1>1, <1>2, <1>3, <1>7 DEF alu1!Function, alu1!R, alu1!S, alu1!Arithmetic, BitOf
<1>8. CASE inst.func = "EXOR"
  BY <1>1, <1>2, <1>3, <1>8 DEF alu1!Function, alu1!R, alu1!S, alu1!Arithmetic, BitOf
<1> QED BY <1>1, <1>4, <1>5, <1>6, <1>7, <1>8 DEF alu0!Functions8, alu0!Arithmetic

(* alu0 has computed its nibble from the operands that alu1 will use.      *)
FunctionInv == turn = "alu1" /\ clk = "LO" => Fl = alu0!Function

(* No step between alu0's update and alu1's touches alu0's operands.       *)
LEMMA FunctionStays == FunctionInv /\ [Next]_vars => FunctionInv'
<1> SUFFICES ASSUME FunctionInv, [Next]_vars, turn' = "alu1", clk' = "LO"
             PROVE  Fl' = alu0!Function'
  BY DEF FunctionInv
<1>1. CASE UpdateLow
  <2>1. clk = "LO" /\ inst' = inst /\ C0' = C0
    BY <1>1 DEF UpdateLow
  <2>2. Fl' = alu0!Function /\ UNCHANGED <<Al, Bl, Ql>>
    BY <1>1, <2>1 DEF UpdateLow, alu0!Update, alu0!clock_state_setup_L
  <2>3. alu0!R' = alu0!R /\ alu0!S' = alu0!S
    BY <2>1, <2>2 DEF alu0!R, alu0!S, alu0!Rmux, alu0!Smux, alu0!Not
  <2> QED BY <2>1, <2>2, <2>3 DEF alu0!Function, alu0!Or, alu0!And, alu0!Not,
     alu0!Join, alu0!AsBit, alu0!Has, alu0!Arithmetic
<1>2. CASE UNCHANGED vars
  <2>1. /\ turn' = turn /\ clk' = clk /\ inst' = inst /\ C0' = C0
        /\ UNCHANGED <<Al, Bl, Ql, Fl>>
    BY <1>2 DEF vars, low, lines, driver
  <2>2. alu0!R' = alu0!R /\ alu0!S' = alu0!S
    BY <2>1 DEF alu0!R, alu0!S, alu0!Rmux, alu0!Smux, alu0!Not
  <2>3. alu0!Function' = alu0!Function
    BY <2>1, <2>2 DEF alu0!Function, alu0!Or, alu0!And, alu0!Not, alu0!Join,
       alu0!AsBit, alu0!Has, alu0!Arithmetic
  <2>4. turn = "alu1" /\ clk = "LO"
    BY <2>1
  <2> QED BY <2>1, <2>3, <2>4 DEF FunctionInv
<1> QED BY <1>1, <1>2 DEF Next, SetPins, UpdateHigh, Advance

(* The operands before the complement are bytes.                           *)
LEMMA BytesAreBytes ==
  ASSUME TypeOK
  PROVE  ByteR \in 0 .. 255 /\ ByteS \in 0 .. 255
<1>1. /\ alu0!Rmux \in 0 .. 15 /\ alu1!Rmux \in 0 .. 15
      /\ alu0!Smux \in 0 .. 15 /\ alu1!Smux \in 0 .. 15
  BY OperandsLow, OperandsHigh
<1> QED BY <1>1 DEF ByteR, ByteS

(* What the complement of an operand makes of its byte.                    *)
LEMMA Complements ==
  ASSUME TypeOK, inst.func \in alu0!Arithmetic
  PROVE  /\ alu0!R + 16 * alu1!R = IF inst.func = "SUBR" THEN 255 - ByteR ELSE ByteR
         /\ alu0!S + 16 * alu1!S = IF inst.func = "SUBS" THEN 255 - ByteS ELSE ByteS
<1>1. /\ alu0!Rmux \in 0 .. 15 /\ alu1!Rmux \in 0 .. 15
      /\ alu0!Smux \in 0 .. 15 /\ alu1!Smux \in 0 .. 15
  BY OperandsLow, OperandsHigh
<1>2. /\ alu0!R = IF inst.func = "SUBR" THEN 15 - alu0!Rmux ELSE alu0!Rmux
      /\ alu1!R = IF inst.func = "SUBR" THEN 15 - alu1!Rmux ELSE alu1!Rmux
      /\ alu0!S = IF inst.func = "SUBS" THEN 15 - alu0!Smux ELSE alu0!Smux
      /\ alu1!S = IF inst.func = "SUBS" THEN 15 - alu1!Smux ELSE alu1!Smux
  BY DEF alu0!Arithmetic, alu0!R, alu0!S, alu1!R, alu1!S, alu0!Not, alu1!Not
<1> HIDE DEF Bit
<1> QED BY <1>1, <1>2 DEF ByteR, ByteS

(* f is the sum and k its ninth bit, one operand complemented or none.      *)
AddsUp(func, r, s, c, f, k) ==
  f + 256 * k = (IF func = "SUBR" THEN 255 - r ELSE r)
                + (IF func = "SUBS" THEN 255 - s ELSE s) + c

(* A complement and the carry in make the sum the difference of the symbol. *)
LEMMA SumMeans ==
  ASSUME NEW func \in alu0!Arithmetic, NEW r \in Byte, NEW s \in Byte,
         NEW c \in Bit, NEW f \in Byte, NEW k \in Bit,
         AddsUp(func, r, s, c, f, k)
  PROVE  MeansSymbol(func, r, s, c, f)
<1>1. ASSUME func = "ADD" PROVE f = (r + s + c) % 256
  <2>1. f + 256 * k = r + s + c
    BY <1>1 DEF AddsUp
  <2>2. CASE k = 0
    BY <2>1, <2>2
  <2>3. CASE k = 1
    BY <2>1, <2>3
  <2> QED BY <2>2, <2>3
<1>2. ASSUME func = "SUBR" PROVE f = (s - r - 1 + c) % 256
  <2>1. f + 256 * k = (255 - r) + s + c
    BY <1>2 DEF AddsUp
  <2>2. CASE k = 0
    BY <2>1, <2>2
  <2>3. CASE k = 1
    BY <2>1, <2>3
  <2> QED BY <2>2, <2>3
<1>3. ASSUME func = "SUBS" PROVE f = (r - s - 1 + c) % 256
  <2>1. f + 256 * k = r + (255 - s) + c
    BY <1>3 DEF AddsUp
  <2>2. CASE k = 0
    BY <2>1, <2>2
  <2>3. CASE k = 1
    BY <2>1, <2>3
  <2> QED BY <2>2, <2>3
<1> QED BY <1>1, <1>2, <1>3 DEF MeansSymbol, alu0!Arithmetic

(* Both nibbles together: every bit of the byte is what the symbol says.   *)
LEMMA LogicMeans ==
  ASSUME TypeOK, inst.func \notin alu0!Arithmetic, C0 \in {0, 1}
  PROVE  MeansSymbol(inst.func, ByteR, ByteS, C0, alu0!Function + 16 * alu1!Function)
<1> DEFINE f == alu0!Function + 16 * alu1!Function
<1>1. /\ alu0!Rmux \in 0 .. 15 /\ alu1!Rmux \in 0 .. 15
      /\ alu0!Smux \in 0 .. 15 /\ alu1!Smux \in 0 .. 15
      /\ alu0!Function \in 0 .. 15 /\ alu1!Function \in 0 .. 15
      /\ inst.func \in alu0!Functions8
  BY OperandsLow, OperandsHigh, InstructionType DEF TypeOK
<1>2. \A w \in Four : /\ Has(f, w) <=> Has(alu0!Function, w)
                      /\ Has(ByteR, w) <=> Has(alu0!Rmux, w)
                      /\ Has(ByteS, w) <=> Has(alu0!Smux, w)
  BY <1>1, BitsOfByte DEF ByteR, ByteS
<1>3. \A w \in Four : /\ Has(f, 16 * w) <=> Has(alu1!Function, w)
                      /\ Has(ByteR, 16 * w) <=> Has(alu1!Rmux, w)
                      /\ Has(ByteS, 16 * w) <=> Has(alu1!Smux, w)
  BY <1>1, BitsOfByte DEF ByteR, ByteS
<1> HIDE DEF f
<1>4. \A w \in Four : Has(f, w) <=> BitOf(inst.func, Has(ByteR, w), Has(ByteS, w))
  BY <1>2, LowBits DEF BitOf
<1>5. \A w \in Four :
        Has(f, 16 * w) <=> BitOf(inst.func, Has(ByteR, 16 * w), Has(ByteS, 16 * w))
  BY <1>3, HighBits DEF BitOf
<1>6. \A w \in Weights : w \in Four \/ \E v \in Four : w = 16 * v
  BY DEF Weights, Four
<1>7. ASSUME NEW w \in Weights
      PROVE  Has(f, w) <=> BitOf(inst.func, Has(ByteR, w), Has(ByteS, w))
  <2>1. CASE w \in Four
    BY <1>4, <2>1
  <2>2. CASE \E v \in Four : w = 16 * v
    BY <1>5, <2>2
  <2> QED BY <1>6, <2>1, <2>2
<1>8. MeansSymbol(inst.func, ByteR, ByteS, C0, f)
  <2>1. CASE inst.func = "OR"
    BY <1>7, <2>1 DEF MeansSymbol, BitOf, Has
  <2>2. CASE inst.func = "AND"
    BY <1>7, <2>2 DEF MeansSymbol, BitOf, Has
  <2>3. CASE inst.func = "NOTRS"
    BY <1>7, <2>3 DEF MeansSymbol, BitOf, Has
  <2>4. CASE inst.func = "EXOR"
    BY <1>7, <2>4 DEF MeansSymbol, BitOf, Has
  <2>5. CASE inst.func = "EXNOR"
    BY <1>7, <2>5 DEF MeansSymbol, BitOf, Has
  <2> QED BY <1>1, <2>1, <2>2, <2>3, <2>4, <2>5 DEF alu0!Functions8, alu0!Arithmetic
<1> QED BY <1>8 DEF f

(* Every function of the table computes on bytes what its symbol says,     *)
(* with the complements of single slices and the carry between them.       *)
THEOREM FunctionsCorrect == Spec => FunctionsAsNamed
<1> DEFINE Sum == Completes("LO") /\ inst.func \in alu0!Arithmetic =>
                    ByteF' + 256 * FC' = (alu0!R + 16 * alu1!R) + (alu0!S + 16 * alu1!S) + C0
           Named == Completes("LO") => MeansSymbol(inst.func, ByteR, ByteS, C0, ByteF')
<1>1. Init => FunctionInv
  BY DEF Init, FunctionInv
<1>2. TypeOK /\ TypeOK' /\ FunctionInv /\ [Next]_vars /\ [Sum]_vars => [Named]_vars
  <2> SUFFICES ASSUME TypeOK, TypeOK', FunctionInv, Next, Sum, Completes("LO")
               PROVE  MeansSymbol(inst.func, ByteR, ByteS, C0, ByteF')
    BY DEF Completes, vars, driver
  <2>1. UpdateHigh
    BY DEF Next, Completes, SetPins, UpdateLow, Advance
  <2>2. Fl' = alu0!Function /\ Fh' = alu1!Function
    BY <2>1 DEF FunctionInv, Completes, UpdateHigh, low, alu1!Update,
       alu1!clock_state_setup_L
  <2>3. C0 \in {0, 1} /\ FC' \in {0, 1}
    BY DEF TypeOK, alu1!SliceTypeOK
  <2>4. CASE inst.func \in alu0!Arithmetic
    <3>1. /\ ByteR \in Byte /\ ByteS \in Byte /\ ByteF' \in Byte
          /\ C0 \in Bit /\ FC' \in Bit
      <4>1. alu0!Function \in 0 .. 15 /\ alu1!Function \in 0 .. 15
        BY OperandsLow, OperandsHigh
      <4>2. ByteF' = alu0!Function + 16 * alu1!Function
        BY <2>2 DEF ByteF
      <4>3. ByteF' \in Byte
        BY <4>1, <4>2
      <4> QED BY <2>3, <4>1, <4>3, BytesAreBytes
    <3>2. AddsUp(inst.func, ByteR, ByteS, C0, ByteF', FC')
      BY <2>4, Complements DEF AddsUp
    <3> HIDE DEF Byte, Bit
    <3> QED BY <2>4, <3>1, <3>2, SumMeans
  <2>5. CASE inst.func \notin alu0!Arithmetic
    BY <2>2, <2>3, <2>5, LogicMeans DEF ByteF
  <2> QED BY <2>4, <2>5
<1> QED BY <1>1, <1>2, FunctionStays, TypeCorrect, SumCorrect, PTL
      DEF Spec, SumIsExact, FunctionsAsNamed

(***************************************************************************)
(* The lines between the slices.                                           *)
(***************************************************************************)
Ups   == {"RAMQU", "RAMU"}
Downs == {"RAMQD", "RAMD"}

(* Both slices hold the same destination, but for the moment when alu0 has *)
(* taken the next one; then alu1 has it from its own pins.  While alu1     *)
(* moves down, its lowest bit of Q waits on Q3; and what alu0 has moved up *)
(* waits on RAM3 for alu1 in the same state of the clock.                  *)
ShiftInv ==
  /\ ~(turn = "alu1" /\ clk = "HI") =>
       destl = desth /\ (desth \in Downs => Q3 = Qh % 2)
  /\ turn = "alu1" /\ clk = "HI" => destl = inst.dest
  /\ turn = "alu1" /\ clk = "LO" /\ destl \in Ups =>
       RAMl[inst.rB] = (2 * Fl + RAM0) % 16 /\ RAM3 = Fl \div 8

(* The pins of alu0: a bit of Q or F leaves where the destination moves    *)
(* them, and a line that it does not drive stays.                          *)
LEMMA LowDrives ==
  ASSUME TypeOK, alu0!Update
  PROVE  /\ destl' \in Ups => RAM3' = Fl' \div 8 /\ RAM0' = RAM0
         /\ destl' \in Downs => Q3' = Q3
         /\ clk # "LH" => Ql' = Ql
BY DEF TypeOK, alu0!Update, alu0!DrivePins, alu0!ShiftsUp, alu0!ShiftsDown, Ups, Downs,
   alu0!clock_state_edge_HL, alu0!clock_state_setup_L, alu0!clock_state_setup_H

(* alu1 drives Q3 with its lowest bit when it moves down.                  *)
LEMMA HighDrives ==
  ASSUME alu1!Update
  PROVE  desth' \in Downs => Q3' = Qh' % 2
BY DEF alu1!Update, alu1!DrivePins, alu1!ShiftsDown, Downs

(* In the state LO a slice stores its result one bit up, and the bit of    *)
(* its neighbour or of the line below it.                                  *)
LEMMA LowMovesUp ==
  ASSUME TypeOK, alu0!clock_state_setup_L, destl \in Ups
  PROVE  RAMl'[inst.rB] = (2 * Fl' + RAM0) % 16 /\ destl' = destl
<1>1. inst.rB \in Reg
  BY InstructionType DEF TypeOK
<1>2. alu0!RAM_EN(destl) /\ ~alu0!ShiftsDown(destl) /\ alu0!ShiftsUp(destl)
  BY DEF Ups, alu0!RAM_EN, alu0!ShiftsDown, alu0!ShiftsUp, alu0!Destinations
<1>3. RAMl' = [RAMl EXCEPT ![inst.rB] = (2 * Fl' + RAM0) % 16]
  BY <1>2 DEF alu0!clock_state_setup_L, alu0!Shifted
<1> QED BY <1>1, <1>3 DEF TypeOK, alu0!SliceTypeOK, alu0!clock_state_setup_L

(* The same of alu1, whose line is RAM3.                                   *)
LEMMA HighMovesUp ==
  ASSUME TypeOK, alu1!clock_state_setup_L, desth \in Ups
  PROVE  RAMh'[inst.rB] = (2 * Fh' + RAM3) % 16
<1>1. inst.rB \in Reg
  BY InstructionType DEF TypeOK
<1>2. alu1!RAM_EN(desth) /\ ~alu1!ShiftsDown(desth) /\ alu1!ShiftsUp(desth)
  BY DEF Ups, alu1!RAM_EN, alu1!ShiftsDown, alu1!ShiftsUp, alu1!Destinations
<1>3. RAMh' = [RAMh EXCEPT ![inst.rB] = (2 * Fh' + RAM3) % 16]
  BY <1>2 DEF alu1!clock_state_setup_L, alu1!Shifted
<1> QED BY <1>1, <1>3 DEF TypeOK, alu1!SliceTypeOK

(* A byte moved up is its two nibbles moved up, the bit between them       *)
(* carried over; and a byte moved down has that bit on top of its low one. *)
LEMMA NibblesMove ==
  ASSUME NEW l \in 0 .. 15, NEW h \in 0 .. 15, NEW b \in {0, 1}
  PROVE  /\ ((2 * l + b) % 16) + 16 * ((2 * h + l \div 8) % 16) = (2 * (l + 16 * h) + b) % 256
         /\ ((l + 16 * h) \div 2) % 16 = l \div 2 + 8 * (h % 2)
OBVIOUS

(* No step breaks the invariant of the lines.                              *)
LEMMA ShiftStays == ClockInv /\ ShiftInv /\ [Next]_vars => ShiftInv'
<1> SUFFICES ASSUME ClockInv, ShiftInv, [Next]_vars PROVE ShiftInv'
  OBVIOUS
<1>0. TypeOK
  BY DEF ClockInv
<1>1. CASE SetPins
  BY <1>1 DEF SetPins, ShiftInv, low, high
<1>2. CASE UpdateLow
  <2>1. /\ turn = "alu0" /\ turn' = "alu1" /\ alu0!Update
        /\ UNCHANGED <<high, clk, inst>>
    BY <1>2 DEF UpdateLow
  <2>2. destl' = IF clk = "HI" THEN inst.dest ELSE destl
    BY <1>0, <2>1, Decodes
  <2>3. destl = desth /\ (desth \in Downs => Q3 = Qh % 2)
    BY <2>1 DEF ShiftInv
  <2>4. /\ destl' \in Ups => RAM3' = Fl' \div 8 /\ RAM0' = RAM0
        /\ destl' \in Downs => Q3' = Q3
    BY <1>0, <2>1, LowDrives
  <2>5. ASSUME clk # "HI" PROVE destl' = desth' /\ (desth' \in Downs => Q3' = Qh' % 2)
    BY <2>1, <2>2, <2>3, <2>4, <2>5 DEF high
  <2>6. ASSUME clk = "LO", destl' \in Ups
        PROVE  RAMl'[inst.rB] = (2 * Fl' + RAM0') % 16 /\ RAM3' = Fl' \div 8
    <3>1. alu0!clock_state_setup_L
      BY <2>1, <2>6 DEF alu0!Update
    <3>2. destl \in Ups
      BY <2>2, <2>6
    <3> QED BY <1>0, <2>4, <2>6, <3>1, <3>2, LowMovesUp
  <2> QED BY <2>1, <2>2, <2>5, <2>6 DEF ShiftInv
<1>3. CASE UpdateHigh
  <2>1. /\ turn = "alu1" /\ turn' \in {"clock", "set"} /\ alu1!Update
        /\ UNCHANGED <<low, clk, inst>>
    BY <1>3 DEF UpdateHigh
  <2>2. desth' = IF clk = "HI" THEN inst.dest ELSE desth
    BY <1>0, <2>1, Decodes
  <2>3. destl' = desth'
    <3>1. CASE clk = "HI"
      BY <2>1, <2>2, <3>1 DEF ShiftInv, low
    <3>2. CASE clk # "HI"
      BY <2>1, <2>2, <3>2 DEF ShiftInv, low
    <3> QED BY <3>1, <3>2
  <2> QED BY <2>1, <2>3, HighDrives DEF ShiftInv
<1>4. CASE Advance
  <2>1. turn = "clock" /\ turn' = "alu0" /\ UNCHANGED <<low, high, lines, inst>>
    BY <1>4 DEF Advance
  <2> QED BY <2>1 DEF ShiftInv, low, high, lines
<1>5. CASE UNCHANGED vars
  BY <1>5 DEF vars, low, high, lines, driver, ShiftInv
<1> QED BY <1>1, <1>2, <1>3, <1>4, <1>5 DEF Next

(* A result moved up is stored as one byte moved up, the bit that leaves   *)
(* alu0 entering alu1 in the same state of the clock; and Q moved down as  *)
(* one byte, the bit that leaves alu1 having waited on Q3: the order in    *)
(* which the driver updates the slices costs no bit in either direction.   *)
THEOREM ShiftsCorrect == Spec => ShiftsCross
<1> DEFINE Up   == Completes("LO") /\ desth \in {"RAMQU", "RAMU"} =>
                     RAMl'[inst.rB] + 16 * RAMh'[inst.rB] = (2 * ByteF' + RAM0) % 256
           Down == Begins("LH") /\ destl = "RAMQD" => Ql' = ((Ql + 16 * Qh) \div 2) % 16
<1>1. Init => ShiftInv
  BY DEF Init, ShiftInv, alu0!InitSlice, alu1!InitSlice, Downs
<1>2. TypeOK /\ TypeOK' /\ ShiftInv /\ [Next]_vars => [Up]_vars
  <2> SUFFICES ASSUME TypeOK, TypeOK', ShiftInv, Next, Completes("LO"), desth \in Ups
               PROVE  RAMl'[inst.rB] + 16 * RAMh'[inst.rB] = (2 * ByteF' + RAM0) % 256
    BY DEF Completes, vars, driver, Ups
  <2>1. UpdateHigh
    BY DEF Next, Completes, SetPins, UpdateLow, Advance
  <2>2. alu1!clock_state_setup_L /\ RAMl' = RAMl /\ Fl' = Fl
    BY <2>1 DEF Completes, UpdateHigh, low, alu1!Update
  <2>3. RAMl[inst.rB] = (2 * Fl + RAM0) % 16 /\ RAM3 = Fl \div 8
    BY DEF Completes, ShiftInv
  <2>4. RAMh'[inst.rB] = (2 * Fh' + RAM3) % 16
    BY <2>2, HighMovesUp
  <2>5. Fl \in 0 .. 15 /\ Fh' \in 0 .. 15 /\ RAM0 \in {0, 1}
    BY <2>2 DEF TypeOK, alu0!SliceTypeOK, alu1!SliceTypeOK, alu0!Nibble, alu1!Nibble,
       alu0!Bit, alu1!Bit
  <2>6. ((2 * Fl + RAM0) % 16) + 16 * ((2 * Fh' + Fl \div 8) % 16)
          = (2 * (Fl + 16 * Fh') + RAM0) % 256
    BY <2>5, NibblesMove
  <2> QED BY <2>2, <2>3, <2>4, <2>6 DEF ByteF
<1>3. TypeOK /\ ShiftInv /\ [Next]_vars => [Down]_vars
  <2> SUFFICES ASSUME TypeOK, ShiftInv, Next, Begins("LH"), destl = "RAMQD"
               PROVE  Ql' = ((Ql + 16 * Qh) \div 2) % 16
    BY DEF Begins, vars, driver
  <2>1. alu0!clock_state_edge_LH
    BY DEF Next, Begins, SetPins, UpdateLow, UpdateHigh, Advance, alu0!Update
  <2>2. Ql' = Ql \div 2 + 8 * Q3
    BY <2>1 DEF alu0!clock_state_edge_LH, alu0!Q_EN, alu0!Shifted, alu0!ShiftsDown
  <2>3. Q3 = Qh % 2
    BY DEF Begins, ShiftInv, Downs
  <2>4. Ql \in 0 .. 15 /\ Qh \in 0 .. 15
    BY DEF TypeOK, alu0!SliceTypeOK, alu1!SliceTypeOK, alu0!Nibble, alu1!Nibble
  <2> QED BY <2>2, <2>3, <2>4, NibblesMove
<1>4. [Up]_vars /\ [Down]_vars => [Up /\ Down]_vars
  OBVIOUS
<1>5. TypeOK /\ TypeOK' /\ ShiftInv /\ [Next]_vars => [Up /\ Down]_vars
  BY <1>2, <1>3, <1>4
<1> QED BY <1>1, <1>5, ShiftStays, TypeCorrect, ClockCorrect, PTL DEF Spec, ShiftsCross
=============================================================================
