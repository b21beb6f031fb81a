-------------------------- MODULE Cpu6MicrowordProofs --------------------------
(***************************************************************************)
(* Theorems about Cpu6Microword, for every microprogram and whatever the   *)
(* ALU finds on its pins: what its outputs show, what the latch UF11       *)
(* keeps, what its shifters are fed, to which bits the chips listen, and   *)
(* that the core of the library is the slice of Am2901.                    *)
(* Then about RomTools, which make the headers with the ROMs' contents.    *)
(***************************************************************************)
EXTENDS Cpu6Microword, RomTools, SequenceLemmas, FiniteSetTheorems, TLAPS

Clocks    == {"LO", "LH", "HI", "HL"}
Muxes     == {"0", "D", "A", "B", "Q"}
Functions == {"ADD", "SUBR", "SUBS", "OR", "AND", "NOTRS", "EXOR", "EXNOR"}
Chosen    == {"QREG", "NOP", "RAMA", "RAMF", "RAMQD", "RAMD", "RAMQU", "RAMU"}
Operands  == {"AQ", "AB", "ZQ", "ZB", "ZA", "DA", "DQ", "DZ"}

(***************************************************************************)
(* Numbers and the sets of their bits.                                     *)
(***************************************************************************)
(* A set of bits has a nibble for its value, and a narrower field less.    *)
LEMMA ValueType ==
  ASSUME NEW bits
  PROVE  /\ Value(bits) \in 0 .. 15
         /\ 3 \notin bits => Value(bits) \in 0 .. 7
         /\ 2 \notin bits /\ 3 \notin bits => Value(bits) \in 0 .. 3
BY DEF Value, AsBit

(* The bits of a field are those of the word, counted from its position.   *)
LEMMA FieldOfFour ==
  ASSUME NEW w, NEW s \in Nat
  PROVE  BITRANGE(w, s, 4) = AsBit(s \in w) + 2 * AsBit(s + 1 \in w)
                             + 4 * AsBit(s + 2 \in w) + 8 * AsBit(s + 3 \in w)
BY DEF BITRANGE, Value

LEMMA FieldOfThree ==
  ASSUME NEW w, NEW s \in Nat
  PROVE  BITRANGE(w, s, 3) = AsBit(s \in w) + 2 * AsBit(s + 1 \in w) + 4 * AsBit(s + 2 \in w)
BY DEF BITRANGE, Value, AsBit

(* uI_decode finds an instruction in every word.                           *)
LEMMA DecodeType ==
  ASSUME NEW w
  PROVE  /\ uI_decode(w).rA \in 0 .. 15 /\ uI_decode(w).rB \in 0 .. 15
         /\ uI_decode(w).dest \in Chosen /\ uI_decode(w).func \in Functions
         /\ uI_decode(w).src \in Operands
<1>1. /\ BITRANGE(w, \o57, 4) \in 0 .. 15 /\ BITRANGE(w, \o53, 4) \in 0 .. 15
  BY FieldOfFour DEF AsBit
<1>2. /\ BITRANGE(w, \o50, 3) \in 0 .. 7 /\ BITRANGE(w, \o45, 3) \in 0 .. 7
      /\ BITRANGE(w, \o42, 3) \in 0 .. 7
  BY FieldOfThree DEF AsBit
<1>3. \A k \in 0 .. 7 : /\ Destination[k + 1] \in Chosen
                        /\ Function[k + 1] \in Functions
                        /\ Source[k + 1] \in Operands
  BY DEF Destination, Function, Source, Chosen, Functions, Operands
<1>. QED  BY <1>1, <1>2, <1>3 DEF uI_decode

(***************************************************************************)
(* Types.                                                                  *)
(***************************************************************************)
RowsOfTable == { destinations[d] : d \in Chosen }

(* What the pins, the registers and the latch may hold; the instruction on *)
(* the pins is that of the microinstruction.                               *)
TypeOK ==
  /\ clk \in Clocks /\ words \in Nat \ {0}
  /\ inst = uI_decode(uIW) /\ in \in [Cin : Bit, D : Nibble, OE_ : Bit]
  /\ RAM0 \in Bit /\ RAM3 \in Bit /\ Q0 \in Bit /\ Q3 \in Bit
  /\ RAM \in [Reg -> Nibble]
  /\ A \in Nibble /\ B \in Nibble /\ Q \in Nibble /\ F \in Nibble
  /\ dst \in RowsOfTable
  /\ flags \in [Cout : Bit, OVR : Bit, FZ : Bit, F3 : Bit]
  /\ look \in [P_ : Bit, G_ : Bit] /\ Y \in Nibble
  /\ UF11 \in [0 .. 7 -> Bit]
  /\ sig \in [ClockB1_ : Bit, BUSRESET_ : Bit, BUS_RESET_NEXT_ : Bit, FLR_SIGN : Bit]

(* A row of the table of destinations.                                     *)
LEMMA RowType ==
  ASSUME NEW row \in RowsOfTable
  PROVE  /\ row.RAM \in {"D", "N", "U"} /\ row.Q \in {"D", "N", "U"}
         /\ row.Y \in {"A", "F"}
BY DEF RowsOfTable, Chosen, destinations, Row

(* What the shifters load is a nibble.                                     *)
LEMMA ShifterType ==
  ASSUME NEW mux \in {"D", "N", "U"}, NEW k \in 0 .. 15, NEW v \in 0 .. 15,
         NEW l \in {0, 1}, NEW m \in {0, 1}
  PROVE  Shifter(mux, k, l, m, v) \in 0 .. 15
BY DEF Shifter

(* The gates compute a nibble.                                             *)
LEMMA ResultType ==
  inst.func \in Functions /\ in.Cin \in {0, 1} => Result \in 0 .. 15
<1> SUFFICES ASSUME inst.func \in Functions, in.Cin \in {0, 1} PROVE Result \in 0 .. 15
  OBVIOUS
<1>1. \A bits : Value(bits) \in 0 .. 15
  BY ValueType
<1>2. (Value(R) + Value(S) + in.Cin) % 16 \in 0 .. 15
  BY <1>1
<1>. QED  BY <1>1, <1>2 DEF Result, Functions, Arithmetic

(* am2901_update_shifter and the code after it, in whatever clock state:   *)
(* the flags that are set and those that stay.                             *)
LEMMA FlagsFollow ==
  ASSUME TypeOK, update_outputs, F' \in Nibble
  PROVE  /\ flags' \in [Cout : Bit, OVR : Bit, FZ : Bit, F3 : Bit]
         /\ flags'.F3 = F' \div 8
         /\ clk = "LO" => /\ flags'.FZ = 1 <=> F' = 0
                          /\ flags'.Cout = AsBit(CarryOut)'
                          /\ flags'.OVR = AsBit(Overflow)'
         /\ clk # "LO" => /\ flags'.FZ = IF F' # 0 THEN 0 ELSE flags.FZ
                          /\ flags'.Cout = flags.Cout /\ flags'.OVR = flags.OVR
<1>1. F' \div 8 \in {0, 1}
  <2>1. \A k \in 0 .. 15 : k \div 8 \in {0, 1}
    OBVIOUS
  <2>. QED  BY <2>1 DEF Nibble
<1> DEFINE old == IF clk = "LO" THEN FlagsOf(F)' ELSE flags
<1>2. old \in [Cout : Bit, OVR : Bit, FZ : Bit, F3 : Bit]
  BY <1>1 DEF FlagsOf, AsBit, Bit, TypeOK
<1>3. flags' = [old EXCEPT !.FZ = IF F' # 0 THEN 0 ELSE @, !.F3 = F' \div 8]
  BY DEF update_outputs
<1>4. clk = "LO" => /\ old.Cout = AsBit(CarryOut)' /\ old.OVR = AsBit(Overflow)'
                    /\ old.FZ = AsBit(F' = 0)
  BY DEF FlagsOf
<1>5. clk # "LO" => old = flags
  OBVIOUS
<1> HIDE DEF old
<1>6. /\ flags' \in [Cout : Bit, OVR : Bit, FZ : Bit, F3 : Bit]
      /\ flags'.F3 = F' \div 8
      /\ flags'.FZ = IF F' # 0 THEN 0 ELSE old.FZ
      /\ flags'.Cout = old.Cout /\ flags'.OVR = old.OVR
  BY <1>1, <1>2, <1>3 DEF Bit
<1>. QED  BY <1>4, <1>5, <1>6 DEF AsBit

(* One clock state of the core keeps the types of its registers.           *)
LEMMA RegistersType ==
  ASSUME TypeOK, CoreUpdate
  PROVE  /\ RAM' \in [Reg -> Nibble] /\ A' \in Nibble /\ B' \in Nibble
         /\ Q' \in Nibble /\ F' \in Nibble /\ dst' \in RowsOfTable
         /\ look' \in [P_ : Bit, G_ : Bit]
<1>1. /\ inst.rA \in Reg /\ inst.rB \in Reg /\ inst.dest \in Chosen
      /\ inst.func \in Functions /\ in.Cin \in {0, 1}
  BY DecodeType, MicrowordAssumption DEF TypeOK, Bit
<1>2. dst.RAM \in {"D", "N", "U"} /\ dst.Q \in {"D", "N", "U"}
  BY RowType DEF TypeOK
<1>3. CASE clk = "HL"
  BY <1>1, <1>3 DEF CoreUpdate, edge_HL, TypeOK
<1>4. CASE clk = "LO"
  <2>1. inst' = inst /\ in' = in
    BY DEF CoreUpdate
  <2>2. F' \in 0 .. 15
    <3>1. (inst.func \in Functions /\ in.Cin \in {0, 1} => Result \in 0 .. 15)'
      BY ResultType, PTL
    <3>2. Result' \in 0 .. 15
      BY <1>1, <2>1, <3>1 DEF Functions
    <3>. QED  BY <1>4, <3>2 DEF CoreUpdate, setup_L, function_decode
  <2>3. Shifter(dst.RAM, F', RAM0, RAM3, F') \in 0 .. 15
    BY <1>2, <2>2, ShifterType DEF TypeOK, Bit
  <2>4. RAM' \in [Reg -> Nibble]
    BY <1>1, <1>4, <2>3 DEF CoreUpdate, setup_L, update_RAM, TypeOK, Nibble
  <2>5. look' \in [P_ : Bit, G_ : Bit]
    <3>1. look' = Lookahead'
      BY <1>4 DEF CoreUpdate, setup_L, function_decode
    <3>. QED  BY <1>1, <2>1, <3>1 DEF Lookahead, Functions, Arithmetic, AsBit, Bit
  <2>. QED  BY <1>4, <2>2, <2>4, <2>5 DEF CoreUpdate, setup_L, TypeOK, Nibble
<1>5. CASE clk = "LH"
  <2>1. Shifter(dst.Q, Q, Q0, Q3, F) \in 0 .. 15
    BY <1>2, ShifterType DEF TypeOK, Bit, Nibble
  <2>. QED  BY <1>5, <2>1 DEF CoreUpdate, edge_LH, TypeOK, Nibble
<1>6. CASE clk = "HI"
  BY <1>1, <1>6 DEF CoreUpdate, setup_H, TypeOK, RowsOfTable
<1>. QED  BY <1>3, <1>4, <1>5, <1>6 DEF TypeOK, Clocks

(* Once a function has been decoded the flags are those of the result; Y   *)
(* follows too, but for the clock state in which the pins may change.      *)
OutputsInv ==
  /\ clk # "LO" \/ words > 1 => /\ flags.FZ = 1 <=> F = 0
                                /\ flags.F3 = F \div 8
  /\ clk \in {"LH", "HL"} \/ (clk = "LO" /\ words > 1) =>
       (in.OE_ = 0 => Y = IF dst.Y = "A" THEN A ELSE F)

MicrowordInv == TypeOK /\ OutputsInv

(* A clock state of the ALU keeps both.                                    *)
LEMMA AluStepInv ==
  ASSUME MicrowordInv, AluStep
  PROVE  MicrowordInv'
<1>1. /\ TypeOK /\ OutputsInv /\ CoreUpdate /\ update_outputs /\ update_shifter
      /\ UNCHANGED <<inst, in, uIW, UF11, sig, words>> /\ clk' = NextClock(clk)
  BY DEF MicrowordInv, AluStep, CoreUpdate
<1>2. /\ RAM' \in [Reg -> Nibble] /\ A' \in Nibble /\ B' \in Nibble
      /\ Q' \in Nibble /\ F' \in Nibble /\ dst' \in RowsOfTable
      /\ look' \in [P_ : Bit, G_ : Bit]
  BY <1>1, RegistersType
<1>3. /\ flags' \in [Cout : Bit, OVR : Bit, FZ : Bit, F3 : Bit]
      /\ flags'.F3 = F' \div 8
      /\ clk = "LO" => (flags'.FZ = 1 <=> F' = 0)
      /\ clk # "LO" => flags'.FZ = IF F' # 0 THEN 0 ELSE flags.FZ
  BY <1>1, <1>2, FlagsFollow
<1>4. /\ RAM0' \in Bit /\ RAM3' \in Bit /\ Q0' \in Bit /\ Q3' \in Bit
  <2>1. \A m \in Nibble : m % 2 \in Bit /\ m \div 8 \in Bit
    BY DEF Nibble, Bit
  <2>. QED  BY <1>1, <1>2, <2>1 DEF update_shifter, Drive, TypeOK
<1>5. Y' = IF in.OE_ = 1 THEN Y ELSE IF dst'.Y = "A" THEN A' ELSE F'
  BY <1>1 DEF update_outputs
<1>6. TypeOK'
  <2>1. clk' \in Clocks
    BY <1>1 DEF NextClock, TypeOK, Clocks
  <2>2. Y' \in Nibble
    BY <1>1, <1>2, <1>5 DEF TypeOK
  <2>. QED  BY <1>1, <1>2, <1>3, <1>4, <2>1, <2>2 DEF TypeOK
<1>7. OutputsInv'
  <2>1. (flags.FZ = 1 <=> F = 0)' /\ flags'.F3 = F' \div 8
    <3>1. CASE clk = "LO"
      BY <1>3, <3>1
    <3>2. CASE clk # "LO"
      <4>1. F' = F
        BY <1>1, <3>2 DEF CoreUpdate, edge_HL, edge_LH, setup_H, TypeOK, Clocks
      <4>. QED  BY <1>1, <1>3, <3>2, <4>1 DEF OutputsInv
    <3>. QED  BY <3>1, <3>2
  <2>2. in'.OE_ = 0 => Y' = IF dst'.Y = "A" THEN A' ELSE F'
    BY <1>1, <1>5
  <2>. QED  BY <2>1, <2>2 DEF OutputsInv
<1>. QED  BY <1>6, <1>7 DEF MicrowordInv

(* Both are invariant.                                                     *)
LEMMA MicrowordCorrect == Spec => []MicrowordInv
<1>1. Init => MicrowordInv
  <2> SUFFICES ASSUME Init PROVE MicrowordInv
    OBVIOUS
  <2>1. PICK b \in Bit :
          /\ flags = [Cout |-> b, OVR |-> b, FZ |-> b, F3 |-> b]
          /\ look = [P_ |-> b, G_ |-> b] /\ Y = 15 * b
          /\ sig = [ClockB1_ |-> 1, BUSRESET_ |-> 1, BUS_RESET_NEXT_ |-> 1, FLR_SIGN |-> b]
    BY MicrowordAssumption DEF Init
  <2>2. in \in [Cin : Bit, D : Nibble, OE_ : Bit]
    BY MicrowordAssumption DEF Init
  <2>3. RAM \in [Reg -> Nibble] /\ dst \in RowsOfTable
    BY DEF Init, CoreInit, Nibble, RowsOfTable, Chosen
  <2>4. UF11 \in [0 .. 7 -> Bit]
    BY DEF Init, Cleared, Bit
  <2>5. TypeOK
    BY <2>1, <2>2, <2>3, <2>4 DEF Init, CoreInit, TypeOK, Bit, Nibble, Clocks
  <2>. QED  BY <2>5 DEF Init, OutputsInv, MicrowordInv
<1>2. MicrowordInv /\ [Next]_vars => MicrowordInv'
  <2> SUFFICES ASSUME MicrowordInv, [Next]_vars PROVE MicrowordInv'
    OBVIOUS
  <2>0. TypeOK /\ OutputsInv
    BY DEF MicrowordInv
  <2>1. CASE AluStep
    BY <2>1, AluStepInv
  <2>2. CASE Fetch
    <3>1. in' \in [Cin : Bit, D : Nibble, OE_ : Bit]
      BY <2>2, MicrowordAssumption DEF Fetch
    <3>. QED  BY <2>0, <2>2, <3>1 DEF Fetch, TypeOK, OutputsInv, MicrowordInv,
              lines, internal, outputs
  <2>3. CASE ClockB
    <3>1. sig' \in [ClockB1_ : Bit, BUSRESET_ : Bit, BUS_RESET_NEXT_ : Bit, FLR_SIGN : Bit]
      BY <2>0, <2>3 DEF ClockB, Outside, TypeOK, Bit
    <3>2. UNCHANGED <<clk, inst, in, lines, internal, outputs, uIW, UF11, words>>
      BY <2>3 DEF ClockB, Outside
    <3>. QED  BY <2>0, <3>1, <3>2 DEF TypeOK, OutputsInv, MicrowordInv, lines, internal, outputs
  <2>4. CASE BusReset
    <3> DEFINE v == 1 - sig.BUSRESET_  w == 1 - sig.BUS_RESET_NEXT_
    <3>0. v \in Bit /\ w \in Bit
      BY <2>0 DEF TypeOK, Bit
    <3>a. sig' = [sig EXCEPT !.BUSRESET_ = v, !.BUS_RESET_NEXT_ = w]
      BY <2>4 DEF BusReset, Outside
    <3> HIDE DEF v, w
    <3>1. sig' \in [ClockB1_ : Bit, BUSRESET_ : Bit, BUS_RESET_NEXT_ : Bit, FLR_SIGN : Bit]
      BY <2>0, <3>0, <3>a DEF TypeOK
    <3>2. UNCHANGED <<clk, inst, in, lines, internal, outputs, uIW, UF11, words>>
      BY <2>4 DEF BusReset, Outside
    <3>. QED  BY <2>0, <3>1, <3>2 DEF TypeOK, OutputsInv, MicrowordInv, lines, internal, outputs
  <2>5. CASE LatchFollows
    <3>1. Latched \in [0 .. 7 -> Bit]
      BY <2>0 DEF Latched, Cleared, Level, Bit_, AsBit, Bit, TypeOK
    <3>. QED  BY <2>0, <2>5, <3>1 DEF LatchFollows, TypeOK, OutputsInv, MicrowordInv,
              lines, internal, outputs
  <2>6. CASE UNCHANGED vars
    BY <2>0, <2>6 DEF vars, TypeOK, OutputsInv, MicrowordInv, lines, internal, outputs
  <2>. QED  BY <2>1, <2>2, <2>3, <2>4, <2>5, <2>6 DEF Next
<1>. QED  BY <1>1, <1>2, PTL DEF Spec

(* Once a function has been decoded, the flags and Y are those of the      *)
(* result that the core holds, in every clock state (am2901_update).       *)
THEOREM MicrowordOutputsAreCurrent == Spec => []OutputsAreCurrent
<1>1. MicrowordInv => OutputsAreCurrent
  BY DEF MicrowordInv, OutputsInv, TypeOK, Clocks, OutputsAreCurrent
<1>. QED  BY <1>1, MicrowordCorrect, PTL

(***************************************************************************)
(* The chips.                                                              *)
(***************************************************************************)
(* A multiplexer with two address pins and four choices passes one of them *)
(* on exactly when it is enabled.                                          *)
LEMMA TwoPinsChoose ==
  ASSUME NEW en, NEW p, NEW q, NEW a, NEW b, NEW h, NEW d,
         "none" \notin {a, b, h, d}
  PROVE  (Choice(IC(en, <<p, q>>, <<a, b, h, d>>)) # "none")
           <=> Enabled(IC(en, <<p, q>>, <<a, b, h, d>>))
<1> DEFINE ic == IC(en, <<p, q>>, <<a, b, h, d>>)
<1>1. ic.sel = <<p, q>> /\ ic.choice = <<a, b, h, d>>
  BY DEF IC
<1>2. Len(ic.sel) = 2 /\ Len(ic.choice) = 4
  BY <1>1
<1>3. Selected(ic) \in 0 .. 3
  <2> DEFINE bits == { k \in 0 .. Len(ic.sel) - 1 : Level(ic.sel[k + 1]) = 1 }
  <2>1. 2 \notin bits /\ 3 \notin bits
    BY <1>2
  <2> HIDE DEF bits
  <2>2. Value(bits) \in 0 .. 3
    BY <2>1, ValueType
  <2>. QED  BY <2>2 DEF Selected, bits
<1>4. ic.choice[Selected(ic) + 1] \in {a, b, h, d}
  BY <1>1, <1>3
<1> HIDE DEF ic
<1>5. (Choice(ic) # "none") <=> Enabled(ic)
  BY <1>2, <1>3, <1>4 DEF Choice
<1>. QED  BY <1>5 DEF ic

(* Who drives the shifters' lines once a destination has been decoded, by  *)
(* uI_decode and the tables of UH6: the multiplexer for going down alone,  *)
(* at RAM7; and going up the other one, at RAM7 as well, where the slice   *)
(* puts a bit out, while nobody drives Q0, where it takes one in.          *)
THEOREM ShiftersDrivenAsListed == Spec => []ShiftersAreDriven
<1>1. MicrowordInv => ShiftersAreDriven
  <2> SUFFICES ASSUME TypeOK, dst = destinations[inst.dest]
               PROVE  /\ dst.RAM3 = "I" => Drivers("RAM7") = {"UH6a"}
                      /\ dst.Q0 = "I" => /\ Drivers("Q0") = {} /\ dst.RAM3 = "O"
                                         /\ Drivers("RAM7") = {"UH6b"}
    BY DEF MicrowordInv, ShiftersAreDriven
  <2>1. Choice(UH6a) # "none" <=> \o51 \notin uIW
    <3>1. Enabled(UH6a) <=> \o51 \notin uIW
      <4>1. UH6a.en = <<LO(Bit_(\o51))>>
        BY DEF UH6a, IC
      <4>. QED  BY <4>1 DEF Enabled, LO, Bit_, Level, AsBit
    <3>. QED  BY <3>1, TwoPinsChoose DEF UH6a
  <2>2. Choice(UH6b) # "none" <=> \o51 \in uIW
    <3>1. Enabled(UH6b) <=> \o51 \in uIW
      <4>1. UH6b.en = <<HI(Bit_(\o51))>>
        BY DEF UH6b, IC
      <4>. QED  BY <4>1 DEF Enabled, HI, Bit_, Level, AsBit
    <3>. QED  BY <3>1, TwoPinsChoose DEF UH6b
  <2>3. /\ inst.dest \in {"RAMQD", "RAMD"} => \o51 \notin uIW
        /\ inst.dest \in {"RAMQU", "RAMU"} => \o51 \in uIW
    <3>1. inst.dest = Destination[BITRANGE(uIW, \o50, 3) + 1]
      BY DEF TypeOK, uI_decode
    <3>2. BITRANGE(uIW, \o50, 3) = AsBit(\o50 \in uIW) + 2 * AsBit(\o50 + 1 \in uIW)
                                   + 4 * AsBit(\o50 + 2 \in uIW)
      BY FieldOfThree
    <3>. QED  BY <3>1, <3>2 DEF Destination, AsBit
  <2>4. inst.dest \in Chosen
    BY DecodeType DEF TypeOK
  <2>5. /\ dst.RAM3 = "I" <=> inst.dest \in {"RAMQD", "RAMD"}
        /\ dst.Q0 = "I" => inst.dest \in {"RAMQU", "RAMU"} /\ dst.RAM3 = "O"
    BY <2>4 DEF destinations, Row, Chosen
  <2>6. /\ DOMAIN Feeds = {"UH6a", "UH6b", "UF6a"}
        /\ Feeds["UH6a"] = "RAM7" /\ Feeds["UH6b"] = "RAM7" /\ Feeds["UF6a"] = "Cin"
    BY DEF Feeds
  <2>7. ICs["UH6a"] = UH6a /\ ICs["UH6b"] = UH6b
    BY DEF ICs
  <2>8. \A chip : chip \in Drivers("RAM7")
                   <=> \/ chip = "UH6a" /\ Choice(UH6a) # "none"
                       \/ chip = "UH6b" /\ Choice(UH6b) # "none"
    BY <2>6, <2>7 DEF Drivers
  <2>9. Drivers("Q0") = {}
    BY <2>6 DEF Drivers
  <2>10. CASE \o51 \notin uIW
    <3>1. \A chip : chip \in Drivers("RAM7") <=> chip = "UH6a"
      BY <2>1, <2>2, <2>8, <2>10
    <3>2. Drivers("RAM7") = {"UH6a"}
      BY <3>1
    <3>. QED  BY <2>3, <2>5, <2>10, <3>2
  <2>11. CASE \o51 \in uIW
    <3>1. \A chip : chip \in Drivers("RAM7") <=> chip = "UH6b"
      BY <2>1, <2>2, <2>8, <2>11
    <3>2. Drivers("RAM7") = {"UH6b"}
      BY <3>1
    <3>. QED  BY <2>3, <2>5, <2>9, <2>11, <3>2
  <2>. QED  BY <2>10, <2>11
<1>. QED  BY <1>1, MicrowordCorrect, PTL

(* A field of four bits, halved and its lowest bit.                        *)
LEMMA LatchAddress ==
  ASSUME NEW w
  PROVE  /\ BITRANGE(w, \o53, 4) \div 2 = Value({ k \in 0 .. 2 : \o54 + k \in w })
         /\ BITRANGE(w, \o53, 4) % 2 = AsBit(\o53 \in w)
         /\ Value({ k \in 0 .. 2 : \o54 + k \in w }) \in 0 .. 7
<1> DEFINE b == AsBit(\o53 \in w)     h == AsBit(\o54 \in w)
           d == AsBit(\o55 \in w)     e == AsBit(\o56 \in w)
<1>1. BITRANGE(w, \o53, 4) = b + 2 * h + 4 * d + 8 * e
  BY FieldOfFour
<1>2. Value({ k \in 0 .. 2 : \o54 + k \in w }) = h + 2 * d + 4 * e
  BY DEF Value, AsBit
<1>3. b \in {0, 1} /\ h \in {0, 1} /\ d \in {0, 1} /\ e \in {0, 1}
  BY DEF AsBit
<1> HIDE DEF b, h, d, e
<1>4. /\ (b + 2 * h + 4 * d + 8 * e) \div 2 = h + 2 * d + 4 * e
      /\ (b + 2 * h + 4 * d + 8 * e) % 2 = b
      /\ h + 2 * d + 4 * e \in 0 .. 7
  BY <1>3
<1>. QED  BY <1>1, <1>2, <1>4 DEF b

(* K11.3 is chosen under the other clock only, by a word whose field says  *)
(* so.                                                                     *)
LEMMA LatchIsChosen ==
  ASSUME TypeOK, Choice(UK11) = "UF11"
  PROVE  sig.ClockB1_ = 0 /\ BITRANGE(uIW, 7, 3) = 3
<1>1. /\ UK11.en = <<LO(Line("ClockB1_")), LO(Line("ClockB1_")), HI(Tied(1))>>
      /\ UK11.sel = <<Bit_(\o7), Bit_(\o10), Bit_(\o11)>>
      /\ UK11.choice = <<"RF", "UL13A", "UM13", "UF11", "O4", "O5", "WAR_LSB", "SysDB">>
  BY DEF UK11, IC
<1>2. Enabled(UK11)
  BY DEF Choice
<1>3. Level(Line("ClockB1_")) = 0
  <2>1. 1 \in DOMAIN UK11.en /\ UK11.en[1] = LO(Line("ClockB1_"))
    BY <1>1
  <2>2. Level(UK11.en[1].pin) = UK11.en[1].active
    BY <1>2, <2>1 DEF Enabled
  <2>. QED  BY <2>1, <2>2 DEF LO
<1>4. sig.ClockB1_ = 0
  BY <1>3 DEF Level, Line
<1>5. Selected(UK11) = BITRANGE(uIW, 7, 3)
  <2>1. Len(UK11.sel) = 3
    BY <1>1
  <2>2. \A k \in 0 .. 2 : Level(UK11.sel[k + 1]) = 1 <=> 7 + k \in uIW
    BY <1>1 DEF Level, Bit_, AsBit
  <2>3. { k \in 0 .. Len(UK11.sel) - 1 : Level(UK11.sel[k + 1]) = 1 }
          = { k \in 0 .. 3 - 1 : 7 + k \in uIW }
    BY <2>1, <2>2
  <2>. QED  BY <2>3 DEF Selected, BITRANGE
<1>6. BITRANGE(uIW, 7, 3) \in 0 .. 7
  BY FieldOfThree DEF AsBit
<1>7. UK11.choice[Selected(UK11) + 1] = "UF11"
  BY DEF Choice
<1>. QED  BY <1>1, <1>4, <1>5, <1>6, <1>7

(* Between bus resets the latch changes under the other clock only, in a   *)
(* word that chooses K11.3, and then in the bit that the same word names   *)
(* as register B (the tables of UK11 and UF11 against uI_decode).          *)
THEOREM LatchKeepsOtherBits == Spec => LatchKeepsItsBits
<1>1. ASSUME MicrowordInv, [Next]_vars, UF11' # UF11, sig.BUSRESET_ = 1
      PROVE  /\ sig.ClockB1_ = 0 /\ BITRANGE(uIW, 7, 3) = 3
             /\ UF11' = [UF11 EXCEPT ![inst.rB \div 2] = inst.rB % 2]
  <2>1. UF11' = Latched
    BY <1>1 DEF Next, AluStep, Fetch, ClockB, BusReset, Outside, LatchFollows, vars
  <2>2. TypeOK
    BY <1>1 DEF MicrowordInv
  <2>3. Choice(UK11) = "UF11"
    BY <1>1, <2>1 DEF Latched
  <2>4. UF11' = [UF11 EXCEPT ![Value({ k \in 0 .. 2 : \o54 + k \in uIW })] = Level(Bit_(\o53))]
    BY <1>1, <2>1, <2>3 DEF Latched
  <2>5. Level(Bit_(\o53)) = AsBit(\o53 \in uIW)
    BY DEF Level, Bit_
  <2>6. inst.rB = BITRANGE(uIW, \o53, 4)
    BY <2>2 DEF TypeOK, uI_decode
  <2>. QED  BY <2>2, <2>3, <2>4, <2>5, <2>6, LatchAddress, LatchIsChosen
<1>2. MicrowordInv /\ [Next]_vars =>
        [UF11' # UF11 /\ sig.BUSRESET_ = 1 =>
           /\ sig.ClockB1_ = 0 /\ BITRANGE(uIW, 7, 3) = 3
           /\ UF11' = [UF11 EXCEPT ![inst.rB \div 2] = inst.rB % 2]]_vars
  BY <1>1
<1>. QED  BY <1>2, MicrowordCorrect, PTL DEF Spec, LatchKeepsItsBits

(* A pin that carries no bit of the word but those of a set.               *)
OnlyBits(pin, bits) ==
  \/ pin.src = "uIW" /\ pin.at \in bits
  \/ pin.src \in {"force", "sig"}

(* A chip all of whose pins are such.                                      *)
ListensTo(ic, bits) ==
  /\ \A k \in DOMAIN ic.en : OnlyBits(ic.en[k].pin, bits)
  /\ \A k \in 0 .. Len(ic.sel) - 1 : OnlyBits(ic.sel[k + 1], bits)

(* A chip selects alike when the lines from outside stay and the bits it   *)
(* listens to do.                                                          *)
LEMMA SelectionFollowsBits ==
  ASSUME NEW ic, NEW bits, ListensTo(ic, bits),
         sig' = sig, uIW' \cap bits = uIW \cap bits
  PROVE  (Enabled(ic)' <=> Enabled(ic)) /\ Selected(ic)' = Selected(ic)
<1>1. ASSUME NEW pin, OnlyBits(pin, bits) PROVE Level(pin)' = Level(pin)
  <2>1. CASE pin.src = "uIW" /\ pin.at \in bits
    <3>1. pin.at \in uIW' <=> pin.at \in uIW
      BY <2>1
    <3>. QED  BY <2>1, <3>1 DEF Level, AsBit
  <2>2. CASE pin.src = "force"
    BY <2>2 DEF Level
  <2>3. CASE pin.src = "sig"
    BY <2>3 DEF Level
  <2>. QED  BY <1>1, <2>1, <2>2, <2>3 DEF OnlyBits
<1>2. Enabled(ic)' <=> Enabled(ic)
  BY <1>1 DEF Enabled, ListensTo
<1>3. Selected(ic)' = Selected(ic)
  <2>1. \A k \in 0 .. Len(ic.sel) - 1 :
          (Level(ic.sel[k + 1]))' = Level(ic.sel[k + 1])
    BY <1>1 DEF ListensTo
  <2>2. { k \in 0 .. Len(ic.sel) - 1 : (Level(ic.sel[k + 1]))' = 1 }
          = { k \in 0 .. Len(ic.sel) - 1 : Level(ic.sel[k + 1]) = 1 }
    BY <2>1
  <2>. QED  BY <2>2 DEF Selected
<1>. QED  BY <1>2, <1>3

(* A chip with one enable and two address pins.                            *)
LEMMA OneEnableTwoPins ==
  ASSUME NEW bits, NEW choice, NEW e1, NEW p1, NEW p2,
         OnlyBits(e1.pin, bits),
         OnlyBits(p1, bits), OnlyBits(p2, bits)
  PROVE  ListensTo(IC(<<e1>>, <<p1, p2>>, choice), bits)
BY DEF ListensTo, IC

(* A chip with one enable and three address pins.                          *)
LEMMA OneEnableThreePins ==
  ASSUME NEW bits, NEW choice, NEW e1, NEW p1, NEW p2, NEW p3,
         OnlyBits(e1.pin, bits),
         OnlyBits(p1, bits), OnlyBits(p2, bits), OnlyBits(p3, bits)
  PROVE  ListensTo(IC(<<e1>>, <<p1, p2, p3>>, choice), bits)
BY DEF ListensTo, IC

(* A chip with three enables and three address pins.                       *)
LEMMA ThreeEnableThreePins ==
  ASSUME NEW bits, NEW choice, NEW e1, NEW e2, NEW e3, NEW p1, NEW p2, NEW p3,
         OnlyBits(e1.pin, bits), OnlyBits(e2.pin, bits), OnlyBits(e3.pin, bits),
         OnlyBits(p1, bits), OnlyBits(p2, bits), OnlyBits(p3, bits)
  PROVE  ListensTo(IC(<<e1, e2, e3>>, <<p1, p2, p3>>, choice), bits)
BY DEF ListensTo, IC

(* The tables of each chip name no bit but those given for it.             *)
LEMMA TablesAsCommented ==
  ASSUME NEW chip \in DOMAIN Commented
  PROVE  ListensTo(ICs[chip], Commented[chip])
<1>1. CASE chip = "UD2A"
  <2>1. /\ OnlyBits(LO(Bit_(\o3)).pin, {0, 1, 3}) /\ OnlyBits(Bit_(\o0), {0, 1, 3})
        /\ OnlyBits(Bit_(\o1), {0, 1, 3})
    BY DEF OnlyBits, Bit_, Tied, Line, Unlisted, LO, HI
  <2>2. ListensTo(UD2A, {0, 1, 3})
    BY <2>1, OneEnableTwoPins DEF UD2A
  <2>. QED  BY <1>1, <2>2 DEF ICs, Commented
<1>2. CASE chip = "UD3"
  <2>1. /\ OnlyBits(LO(Tied(0)).pin, 0 .. 3) /\ OnlyBits(HI(Bit_(\o3)).pin, 0 .. 3)
        /\ OnlyBits(Bit_(\o0), 0 .. 3) /\ OnlyBits(Bit_(\o1), 0 .. 3)
        /\ OnlyBits(Bit_(\o2), 0 .. 3)
    BY DEF OnlyBits, Bit_, Tied, Line, Unlisted, LO, HI
  <2>2. ListensTo(UD3, 0 .. 3)
    BY <2>1, ThreeEnableThreePins DEF UD3
  <2>. QED  BY <1>2, <2>2 DEF ICs, Commented
<1>3. CASE chip = "UE6"
  <2>1. /\ OnlyBits(LO(Tied(0)).pin, 4 .. 6) /\ OnlyBits(HI(Tied(1)).pin, 4 .. 6)
        /\ OnlyBits(Bit_(\o4), 4 .. 6) /\ OnlyBits(Bit_(\o5), 4 .. 6)
        /\ OnlyBits(Bit_(\o6), 4 .. 6)
    BY DEF OnlyBits, Bit_, Tied, Line, Unlisted, LO, HI
  <2>2. ListensTo(UE6, 4 .. 6)
    BY <2>1, ThreeEnableThreePins DEF UE6
  <2>. QED  BY <1>3, <2>2 DEF ICs, Commented
<1>4. CASE chip = "UK11"
  <2>1. /\ OnlyBits(LO(Line("ClockB1_")).pin, 7 .. 9)
        /\ OnlyBits(HI(Tied(1)).pin, 7 .. 9) /\ OnlyBits(Bit_(\o7), 7 .. 9)
        /\ OnlyBits(Bit_(\o10), 7 .. 9) /\ OnlyBits(Bit_(\o11), 7 .. 9)
    BY DEF OnlyBits, Bit_, Tied, Line, Unlisted, LO, HI
  <2>2. ListensTo(UK11, 7 .. 9)
    BY <2>1, ThreeEnableThreePins DEF UK11
  <2>. QED  BY <1>4, <2>2 DEF ICs, Commented
<1>5. CASE chip = "UH11"
  <2>1. /\ OnlyBits(HI(Tied(0)).pin, 10 .. 12) /\ OnlyBits(HI(Tied(1)).pin, 10 .. 12)
        /\ OnlyBits(Bit_(\o12), 10 .. 12) /\ OnlyBits(Bit_(\o13), 10 .. 12)
        /\ OnlyBits(Bit_(\o14), 10 .. 12)
    BY DEF OnlyBits, Bit_, Tied, Line, Unlisted, LO, HI
  <2>2. ListensTo(UH11, 10 .. 12)
    BY <2>1, ThreeEnableThreePins DEF UH11
  <2>. QED  BY <1>5, <2>2 DEF ICs, Commented
<1>6. CASE chip = "UE7"
  <2>1. /\ OnlyBits(LO(Tied(0)).pin, {13, 14})
        /\ OnlyBits(HI(Line("BUS_RESET_NEXT_")).pin, {13, 14})
        /\ OnlyBits(Bit_(\o15), {13, 14}) /\ OnlyBits(Bit_(\o16), {13, 14})
        /\ OnlyBits(Tied(0), {13, 14})
    BY DEF OnlyBits, Bit_, Tied, Line, Unlisted, LO, HI
  <2>2. ListensTo(UE7, {13, 14})
    BY <2>1, ThreeEnableThreePins DEF UE7
  <2>. QED  BY <1>6, <2>2 DEF ICs, Commented
<1>7. CASE chip = "UH6a"
  <2>1. /\ OnlyBits(LO(Bit_(\o51)).pin, {41, 51, 52})
        /\ OnlyBits(Bit_(\o63), {41, 51, 52}) /\ OnlyBits(Bit_(\o64), {41, 51, 52})
    BY DEF OnlyBits, Bit_, Tied, Line, Unlisted, LO, HI
  <2>2. ListensTo(UH6a, {41, 51, 52})
    BY <2>1, OneEnableTwoPins DEF UH6a
  <2>. QED  BY <1>7, <2>2 DEF ICs, Commented
<1>8. CASE chip = "UH6b"
  <2>1. /\ OnlyBits(HI(Bit_(\o51)).pin, {41, 51, 52})
        /\ OnlyBits(Bit_(\o63), {41, 51, 52}) /\ OnlyBits(Bit_(\o64), {41, 51, 52})
    BY DEF OnlyBits, Bit_, Tied, Line, Unlisted, LO, HI
  <2>2. ListensTo(UH6b, {41, 51, 52})
    BY <2>1, OneEnableTwoPins DEF UH6b
  <2>. QED  BY <1>8, <2>2 DEF ICs, Commented
<1>9. CASE chip = "UF6a"
  <2>1. /\ OnlyBits(LO(Tied(0)).pin, {51, 52}) /\ OnlyBits(Bit_(\o63), {51, 52})
        /\ OnlyBits(Bit_(\o64), {51, 52})
    BY DEF OnlyBits, Bit_, Tied, Line, Unlisted, LO, HI
  <2>2. ListensTo(UF6a, {51, 52})
    BY <2>1, OneEnableTwoPins DEF UF6a
  <2>. QED  BY <1>9, <2>2 DEF ICs, Commented
<1>10. CASE chip = "UJ12a"
  <2>1. /\ OnlyBits(LO(Unlisted).pin, {16, 17}) /\ OnlyBits(Bit_(\o20), {16, 17})
        /\ OnlyBits(Bit_(\o21), {16, 17})
    BY DEF OnlyBits, Bit_, Tied, Line, Unlisted, LO, HI
  <2>2. ListensTo(UJ12a, {16, 17})
    BY <2>1, OneEnableTwoPins DEF UJ12a
  <2>. QED  BY <1>10, <2>2 DEF ICs, Commented
<1>11. CASE chip = "UJ12b"
  <2>1. /\ OnlyBits(LO(Unlisted).pin, {16, 17}) /\ OnlyBits(Bit_(\o20), {16, 17})
        /\ OnlyBits(Bit_(\o21), {16, 17})
    BY DEF OnlyBits, Bit_, Tied, Line, Unlisted, LO, HI
  <2>2. ListensTo(UJ12b, {16, 17})
    BY <2>1, OneEnableTwoPins DEF UJ12b
  <2>. QED  BY <1>11, <2>2 DEF ICs, Commented
<1>12. CASE chip = "UK9"
  <2>1. /\ OnlyBits(LO(Bit_(\o57)).pin, {47, 16, 17, 18})
        /\ OnlyBits(Bit_(\o20), {47, 16, 17, 18})
        /\ OnlyBits(Bit_(\o21), {47, 16, 17, 18})
        /\ OnlyBits(Bit_(\o22), {47, 16, 17, 18})
    BY DEF OnlyBits, Bit_, Tied, Line, Unlisted, LO, HI
  <2>2. ListensTo(UK9, {47, 16, 17, 18})
    BY <2>1, OneEnableThreePins DEF UK9
  <2>. QED  BY <1>12, <2>2 DEF ICs, Commented
<1>13. CASE chip = "UJ11"
  <2>1. /\ OnlyBits(LO(Bit_(\o22)).pin, 18 .. 20) /\ OnlyBits(Bit_(\o23), 18 .. 20)
        /\ OnlyBits(Bit_(\o24), 18 .. 20) /\ OnlyBits(Line("FLR_SIGN"), 18 .. 20)
    BY DEF OnlyBits, Bit_, Tied, Line, Unlisted, LO, HI
  <2>2. ListensTo(UJ11, 18 .. 20)
    BY <2>1, OneEnableThreePins DEF UJ11
  <2>. QED  BY <1>13, <2>2 DEF ICs, Commented
<1>14. CASE chip = "UJ10"
  <2>1. /\ OnlyBits(LO(Bit_(\o25)).pin, 21 .. 23) /\ OnlyBits(Bit_(\o26), 21 .. 23)
        /\ OnlyBits(Bit_(\o27), 21 .. 23) /\ OnlyBits(Unlisted, 21 .. 23)
    BY DEF OnlyBits, Bit_, Tied, Line, Unlisted, LO, HI
  <2>2. ListensTo(UJ10, 21 .. 23)
    BY <2>1, OneEnableThreePins DEF UJ10
  <2>. QED  BY <1>14, <2>2 DEF ICs, Commented
<1>15. CASE chip = "UJ13a"
  <2>1. /\ OnlyBits(LO(Bit_(\o41)).pin, {33, 16, 17}) /\ OnlyBits(Bit_(\o20), {33, 16, 17})
        /\ OnlyBits(Bit_(\o21), {33, 16, 17})
    BY DEF OnlyBits, Bit_, Tied, Line, Unlisted, LO, HI
  <2>2. ListensTo(UJ13a, {33, 16, 17})
    BY <2>1, OneEnableTwoPins DEF UJ13a
  <2>. QED  BY <1>15, <2>2 DEF ICs, Commented
<1>16. CASE chip = "UJ13b"
  <2>1. /\ OnlyBits(LO(Bit_(\o41)).pin, {33, 16, 17}) /\ OnlyBits(Bit_(\o20), {33, 16, 17})
        /\ OnlyBits(Bit_(\o21), {33, 16, 17})
    BY DEF OnlyBits, Bit_, Tied, Line, Unlisted, LO, HI
  <2>2. ListensTo(UJ13b, {33, 16, 17})
    BY <2>1, OneEnableTwoPins DEF UJ13b
  <2>. QED  BY <1>16, <2>2 DEF ICs, Commented
<1>17. CASE chip = "UK13a"
  <2>1. /\ OnlyBits(LO(Bit_(\o41)).pin, {33, 18, 19}) /\ OnlyBits(Bit_(\o22), {33, 18, 19})
        /\ OnlyBits(Bit_(\o23), {33, 18, 19})
    BY DEF OnlyBits, Bit_, Tied, Line, Unlisted, LO, HI
  <2>2. ListensTo(UK13a, {33, 18, 19})
    BY <2>1, OneEnableTwoPins DEF UK13a
  <2>. QED  BY <1>17, <2>2 DEF ICs, Commented
<1>18. CASE chip = "UK13b"
  <2>1. /\ OnlyBits(LO(Bit_(\o41)).pin, {33, 18, 19}) /\ OnlyBits(Bit_(\o22), {33, 18, 19})
        /\ OnlyBits(Bit_(\o23), {33, 18, 19})
    BY DEF OnlyBits, Bit_, Tied, Line, Unlisted, LO, HI
  <2>2. ListensTo(UK13b, {33, 18, 19})
    BY <2>1, OneEnableTwoPins DEF UK13b
  <2>. QED  BY <1>18, <2>2 DEF ICs, Commented
<1>. QED  BY <1>1, <1>2, <1>3, <1>4, <1>5, <1>6, <1>7, <1>8, <1>9, <1>10,
         <1>11, <1>12, <1>13, <1>14, <1>15, <1>16, <1>17, <1>18 DEF Commented

(* Whether a chip is enabled and what it selects depends on the bits that  *)
(* the comment above its tables names (those of the tables, for UJ13 and   *)
(* UK13), and on no other bit of the word (cpu6_ICs.h).                    *)
THEOREM ChipsListenAsCommented == Spec => ListensAsCommented
<1>1. ASSUME [Next]_vars, uIW' # uIW, NEW chip \in DOMAIN Commented,
             uIW' \cap Commented[chip] = uIW \cap Commented[chip]
      PROVE  /\ Enabled(ICs[chip])' <=> Enabled(ICs[chip])
             /\ Selected(ICs[chip])' = Selected(ICs[chip])
  <2>1. sig' = sig
    BY <1>1 DEF Next, AluStep, Fetch, ClockB, BusReset, Outside, LatchFollows, vars
  <2>. QED  BY <1>1, <2>1, TablesAsCommented, SelectionFollowsBits
<1>2. [Next]_vars =>
        [uIW' # uIW => \A chip \in DOMAIN Commented :
           uIW' \cap Commented[chip] = uIW \cap Commented[chip] =>
             /\ Enabled(ICs[chip])' <=> Enabled(ICs[chip])
             /\ Selected(ICs[chip])' = Selected(ICs[chip])]_vars
  BY <1>1
<1>. QED  BY <1>2, PTL DEF Spec, ListensAsCommented

(***************************************************************************)
(* The core is the slice.  The core reads nibbles as sets of bits, the     *)
(* slice tests each bit by its weight.                                     *)
(***************************************************************************)
(* A nibble, its bits and those of its complement.                         *)
LEMMA BitsOfNibble ==
  ASSUME NEW v \in 0 .. 15
  PROVE  /\ 0 \in BitsOf(v) <=> Slice!Has(v, 1)
         /\ 1 \in BitsOf(v) <=> Slice!Has(v, 2)
         /\ 2 \in BitsOf(v) <=> Slice!Has(v, 4)
         /\ 3 \in BitsOf(v) <=> Slice!Has(v, 8)
         /\ Slice!Has(15 - v, 1) <=> ~Slice!Has(v, 1)
         /\ Slice!Has(15 - v, 2) <=> ~Slice!Has(v, 2)
         /\ Slice!Has(15 - v, 4) <=> ~Slice!Has(v, 4)
         /\ Slice!Has(15 - v, 8) <=> ~Slice!Has(v, 8)
         /\ Value(BitsOf(v)) = v
         /\ Value(Positions \ BitsOf(v)) = 15 - v
<1>1. /\ 0 \in BitsOf(v) <=> Slice!Has(v, 1)
      /\ 1 \in BitsOf(v) <=> Slice!Has(v, 2)
      /\ 2 \in BitsOf(v) <=> Slice!Has(v, 4)
      /\ 3 \in BitsOf(v) <=> Slice!Has(v, 8)
  BY DEF BitsOf, Slice!Has, Positions
<1>2. /\ Slice!Has(15 - v, 1) <=> ~Slice!Has(v, 1)
      /\ Slice!Has(15 - v, 2) <=> ~Slice!Has(v, 2)
      /\ Slice!Has(15 - v, 4) <=> ~Slice!Has(v, 4)
      /\ Slice!Has(15 - v, 8) <=> ~Slice!Has(v, 8)
  BY DEF Slice!Has
<1>3. v = AsBit(Slice!Has(v, 1)) + 2 * AsBit(Slice!Has(v, 2))
          + 4 * AsBit(Slice!Has(v, 4)) + 8 * AsBit(Slice!Has(v, 8))
  BY DEF Slice!Has, AsBit
<1>4. Value(BitsOf(v)) = v
  BY <1>1, <1>3 DEF Value, AsBit
<1>5. Value(Positions \ BitsOf(v)) = 15 - v
  BY <1>1, <1>3 DEF Value, AsBit, Positions
<1>. QED  BY <1>1, <1>2, <1>4, <1>5

(* What the multiplexers must hold for the two to read the same operands.  *)
Selected_ ==
  /\ inst.src \in Operands /\ inst.func \in Functions
  /\ Rmux = source_operands[inst.src][1] /\ Smux = source_operands[inst.src][2]
  /\ A \in 0 .. 15 /\ B \in 0 .. 15 /\ Q \in 0 .. 15
  /\ in.D \in 0 .. 15 /\ in.Cin \in {0, 1}

(* The operands.                                                           *)
LEMMA OperandsAgree ==
  ASSUME Selected_
  PROVE  /\ 0 \in R <=> Slice!Has(Slice!R, 1)
         /\ 1 \in R <=> Slice!Has(Slice!R, 2)
         /\ 2 \in R <=> Slice!Has(Slice!R, 4)
         /\ 3 \in R <=> Slice!Has(Slice!R, 8)
         /\ 0 \in S <=> Slice!Has(Slice!S, 1)
         /\ 1 \in S <=> Slice!Has(Slice!S, 2)
         /\ 2 \in S <=> Slice!Has(Slice!S, 4)
         /\ 3 \in S <=> Slice!Has(Slice!S, 8)
         /\ Value(R) = Slice!R /\ Value(S) = Slice!S
         /\ Slice!R \in 0 .. 15 /\ Slice!S \in 0 .. 15
         /\ R \subseteq Positions /\ S \subseteq Positions
<1>1. /\ ReadMux(Rmux) = Slice!Rmux /\ ReadMux(Smux) = Slice!Smux
      /\ Slice!Rmux \in 0 .. 15 /\ Slice!Smux \in 0 .. 15
  BY DEF Selected_, Operands, source_operands, ReadMux, Slice!Rmux, Slice!Smux
<1>2. /\ R = IF inst.func \in {"SUBR", "NOTRS", "EXOR"}
             THEN Positions \ BitsOf(Slice!Rmux) ELSE BitsOf(Slice!Rmux)
      /\ Slice!R = IF inst.func \in {"SUBR", "NOTRS", "EXOR"}
                   THEN 15 - Slice!Rmux ELSE Slice!Rmux
  BY <1>1 DEF R, Operand, Slice!R, Slice!Not
<1>3. /\ S = IF inst.func = "SUBS" THEN Positions \ BitsOf(Slice!Smux) ELSE BitsOf(Slice!Smux)
      /\ Slice!S = IF inst.func = "SUBS" THEN 15 - Slice!Smux ELSE Slice!Smux
  BY <1>1 DEF S, Operand, Slice!S, Slice!Not
<1>4. /\ R \subseteq Positions /\ S \subseteq Positions
      /\ Slice!R \in 0 .. 15 /\ Slice!S \in 0 .. 15
  BY <1>1, <1>2, <1>3 DEF BitsOf
<1>5. /\ 0 \in R <=> Slice!Has(Slice!R, 1)
      /\ 1 \in R <=> Slice!Has(Slice!R, 2)
      /\ 2 \in R <=> Slice!Has(Slice!R, 4)
      /\ 3 \in R <=> Slice!Has(Slice!R, 8)
      /\ Value(R) = Slice!R
  <2>1. CASE inst.func \in {"SUBR", "NOTRS", "EXOR"}
    <3>1. R = Positions \ BitsOf(Slice!Rmux) /\ Slice!R = 15 - Slice!Rmux
      BY <1>2, <2>1
    <3>2. \A k \in Positions : k \in R <=> k \notin BitsOf(Slice!Rmux)
      BY <3>1
    <3>3. /\ 0 \in R <=> ~Slice!Has(Slice!Rmux, 1)
          /\ 1 \in R <=> ~Slice!Has(Slice!Rmux, 2)
          /\ 2 \in R <=> ~Slice!Has(Slice!Rmux, 4)
          /\ 3 \in R <=> ~Slice!Has(Slice!Rmux, 8)
      BY <1>1, <3>2, BitsOfNibble DEF Positions
    <3>4. /\ Slice!Has(Slice!R, 1) <=> ~Slice!Has(Slice!Rmux, 1)
          /\ Slice!Has(Slice!R, 2) <=> ~Slice!Has(Slice!Rmux, 2)
          /\ Slice!Has(Slice!R, 4) <=> ~Slice!Has(Slice!Rmux, 4)
          /\ Slice!Has(Slice!R, 8) <=> ~Slice!Has(Slice!Rmux, 8)
      BY <1>1, <3>1, BitsOfNibble
    <3>5. Value(R) = Slice!R
      BY <1>1, <3>1, BitsOfNibble
    <3>. QED  BY <3>3, <3>4, <3>5
  <2>2. CASE ~(inst.func \in {"SUBR", "NOTRS", "EXOR"})
    <3>1. R = BitsOf(Slice!Rmux) /\ Slice!R = Slice!Rmux
      BY <1>2, <2>2
    <3>. QED  BY <1>1, <3>1, BitsOfNibble
  <2>. QED  BY <2>1, <2>2
<1>6. /\ 0 \in S <=> Slice!Has(Slice!S, 1)
      /\ 1 \in S <=> Slice!Has(Slice!S, 2)
      /\ 2 \in S <=> Slice!Has(Slice!S, 4)
      /\ 3 \in S <=> Slice!Has(Slice!S, 8)
      /\ Value(S) = Slice!S
  <2>1. CASE inst.func = "SUBS"
    <3>1. S = Positions \ BitsOf(Slice!Smux) /\ Slice!S = 15 - Slice!Smux
      BY <1>3, <2>1
    <3>2. \A k \in Positions : k \in S <=> k \notin BitsOf(Slice!Smux)
      BY <3>1
    <3>3. /\ 0 \in S <=> ~Slice!Has(Slice!Smux, 1)
          /\ 1 \in S <=> ~Slice!Has(Slice!Smux, 2)
          /\ 2 \in S <=> ~Slice!Has(Slice!Smux, 4)
          /\ 3 \in S <=> ~Slice!Has(Slice!Smux, 8)
      BY <1>1, <3>2, BitsOfNibble DEF Positions
    <3>4. /\ Slice!Has(Slice!S, 1) <=> ~Slice!Has(Slice!Smux, 1)
          /\ Slice!Has(Slice!S, 2) <=> ~Slice!Has(Slice!Smux, 2)
          /\ Slice!Has(Slice!S, 4) <=> ~Slice!Has(Slice!Smux, 4)
          /\ Slice!Has(Slice!S, 8) <=> ~Slice!Has(Slice!Smux, 8)
      BY <1>1, <3>1, BitsOfNibble
    <3>5. Value(S) = Slice!S
      BY <1>1, <3>1, BitsOfNibble
    <3>. QED  BY <3>3, <3>4, <3>5
  <2>2. CASE ~(inst.func = "SUBS")
    <3>1. S = BitsOf(Slice!Smux) /\ Slice!S = Slice!Smux
      BY <1>3, <2>2
    <3>. QED  BY <1>1, <3>1, BitsOfNibble
  <2>. QED  BY <2>1, <2>2
<1>. QED  BY <1>4, <1>5, <1>6

(* The bits that propagate and those that generate a carry.                *)
LEMMA GatesAgree ==
  ASSUME Selected_
  PROVE  /\ 0 \in P <=> Slice!P(1)
         /\ 1 \in P <=> Slice!P(2)
         /\ 2 \in P <=> Slice!P(4)
         /\ 3 \in P <=> Slice!P(8)
         /\ 0 \in G <=> Slice!G(1)
         /\ 1 \in G <=> Slice!G(2)
         /\ 2 \in G <=> Slice!G(4)
         /\ 3 \in G <=> Slice!G(8)
         /\ P \subseteq Positions /\ G \subseteq Positions
<1>1. /\ \A k : k \in P <=> k \in R \/ k \in S
      /\ \A k : k \in G <=> k \in R /\ k \in S
      /\ P \subseteq Positions /\ G \subseteq Positions
  BY OperandsAgree DEF P, G
<1>. QED  BY <1>1, OperandsAgree DEF Slice!P, Slice!G

(* The carry into bit k, when f gives the carries below.                   *)
Gate(f, k) == IF k = 0 THEN in.Cin = 1 ELSE (k - 1) \in G \/ ((k - 1) \in P /\ f[k - 1])

(* The carry of the core, defined on 0 .. 4 by recursion, is a function    *)
(* with that equation.                                                     *)
LEMMA CarryUnfolds ==
  \A k \in 0 .. 4 : Carry[k] = Gate(Carry, k)
<1> DEFINE c1 == 0 \in G \/ (0 \in P /\ in.Cin = 1)
           c2 == 1 \in G \/ (1 \in P /\ c1)
           c3 == 2 \in G \/ (2 \in P /\ c2)
           c4 == 3 \in G \/ (3 \in P /\ c3)
           cs  == [k \in 0 .. 4 |-> IF k = 0 THEN in.Cin = 1 ELSE IF k = 1 THEN c1
                                   ELSE IF k = 2 THEN c2 ELSE IF k = 3 THEN c3 ELSE c4]
<1>1. /\ cs[0] = (in.Cin = 1) /\ cs[1] = c1 /\ cs[2] = c2 /\ cs[3] = c3 /\ cs[4] = c4
      /\ cs = [k \in 0 .. 4 |-> cs[k]]
  OBVIOUS
<1> HIDE DEF cs
<1>2. ASSUME NEW k \in 0 .. 4 PROVE cs[k] = Gate(cs, k)
  <2>1. CASE k = 0
    BY <1>1, <2>1 DEF Gate
  <2>2. CASE k = 1
    <3>1. Gate(cs, 1) = (0 \in G \/ (0 \in P /\ cs[0]))
      BY DEF Gate
    <3>. QED  BY <1>1, <2>2, <3>1
  <2>3. CASE k = 2
    <3>1. Gate(cs, 2) = (1 \in G \/ (1 \in P /\ cs[1]))
      BY DEF Gate
    <3>. QED  BY <1>1, <2>3, <3>1
  <2>4. CASE k = 3
    <3>1. Gate(cs, 3) = (2 \in G \/ (2 \in P /\ cs[2]))
      BY DEF Gate
    <3>. QED  BY <1>1, <2>4, <3>1
  <2>5. CASE k = 4
    <3>1. Gate(cs, 4) = (3 \in G \/ (3 \in P /\ cs[3]))
      BY DEF Gate
    <3>. QED  BY <1>1, <2>5, <3>1
  <2>. QED  BY <2>1, <2>2, <2>3, <2>4, <2>5
<1>3. cs = [k \in 0 .. 4 |-> Gate(cs, k)]
  BY <1>1, <1>2
<1>4. \E f : f = [k \in 0 .. 4 |->
        IF k = 0 THEN in.Cin = 1 ELSE (k - 1) \in G \/ ((k - 1) \in P /\ f[k - 1])]
  BY <1>3 DEF Gate
<1>5. Carry = [k \in 0 .. 4 |->
        IF k = 0 THEN in.Cin = 1 ELSE (k - 1) \in G \/ ((k - 1) \in P /\ Carry[k - 1])]
  BY <1>4, Zenon DEF Carry
<1>6. Carry = [k \in 0 .. 4 |-> Gate(Carry, k)]
  BY <1>5 DEF Gate
<1>. QED  BY <1>6

(* The carries of the core are those of the gates of the slice.            *)
LEMMA CarriesAgree ==
  ASSUME Selected_
  PROVE  /\ Carry[3] <=> Slice!C3
         /\ Carry[4] <=> Slice!C4
         /\ Carry[3] \in BOOLEAN /\ Carry[4] \in BOOLEAN
<1>1. /\ Carry[0] = Gate(Carry, 0) /\ Carry[1] = Gate(Carry, 1)
      /\ Carry[2] = Gate(Carry, 2) /\ Carry[3] = Gate(Carry, 3)
      /\ Carry[4] = Gate(Carry, 4)
  BY CarryUnfolds
<1>2. /\ Gate(Carry, 0) = (in.Cin = 1)
      /\ Gate(Carry, 1) = (0 \in G \/ (0 \in P /\ Carry[0]))
      /\ Gate(Carry, 2) = (1 \in G \/ (1 \in P /\ Carry[1]))
      /\ Gate(Carry, 3) = (2 \in G \/ (2 \in P /\ Carry[2]))
      /\ Gate(Carry, 4) = (3 \in G \/ (3 \in P /\ Carry[3]))
  BY DEF Gate
<1>. QED  BY <1>1, <1>2, GatesAgree DEF Slice!C1, Slice!C2, Slice!C3, Slice!C4

(* The bits of a nibble put together from its bits.                        *)
LEMMA HasOfJoin ==
  ASSUME NEW b \in BOOLEAN, NEW h \in BOOLEAN, NEW d \in BOOLEAN, NEW e \in BOOLEAN
  PROVE  /\ Slice!Has(Slice!Join(b, h, d, e), 1) <=> b
         /\ Slice!Has(Slice!Join(b, h, d, e), 2) <=> h
         /\ Slice!Has(Slice!Join(b, h, d, e), 4) <=> d
         /\ Slice!Has(Slice!Join(b, h, d, e), 8) <=> e
BY DEF Slice!Has, Slice!Join, Slice!AsBit

(* am2901_function_decode, in either file: the result.                     *)
LEMMA ResultAgrees ==
  ASSUME Selected_
  PROVE  Result = Slice!Function
<1>1. Value(R) = Slice!R /\ Value(S) = Slice!S /\ inst.func \in Functions
  BY OperandsAgree DEF Selected_
<1>2. Value(P) = Slice!Or(Slice!R, Slice!S)
  BY GatesAgree DEF Value, AsBit, Slice!Or, Slice!Join, Slice!AsBit, Slice!P
<1>3. Value(G) = Slice!And(Slice!R, Slice!S)
  BY GatesAgree DEF Value, AsBit, Slice!And, Slice!Join, Slice!AsBit, Slice!G
<1>4. Value(G \cup (Positions \ P))
        = Slice!Or(Slice!And(Slice!R, Slice!S),
                   Slice!And(Slice!Not(Slice!R), Slice!Not(Slice!S)))
  <2>1. /\ \A w \in {1, 2, 4, 8} :
             Slice!Has(Slice!And(Slice!R, Slice!S), w)
               <=> Slice!Has(Slice!R, w) /\ Slice!Has(Slice!S, w)
        /\ \A w \in {1, 2, 4, 8} :
             Slice!Has(Slice!And(Slice!Not(Slice!R), Slice!Not(Slice!S)), w)
               <=> Slice!Has(Slice!Not(Slice!R), w) /\ Slice!Has(Slice!Not(Slice!S), w)
    BY HasOfJoin DEF Slice!And
  <2>2. \A w \in {1, 2, 4, 8} :
          /\ Slice!Has(Slice!Not(Slice!R), w) <=> ~Slice!Has(Slice!R, w)
          /\ Slice!Has(Slice!Not(Slice!S), w) <=> ~Slice!Has(Slice!S, w)
    BY OperandsAgree, BitsOfNibble DEF Slice!Not
  <2>3. \A k \in Positions : k \in G \cup (Positions \ P) <=> k \in G \/ k \notin P
    OBVIOUS
  <2>. QED  BY <2>1, <2>2, <2>3, GatesAgree DEF Value, AsBit, Slice!Or, Slice!Join,
            Slice!AsBit, Slice!G, Slice!P, Positions
<1>. QED  BY <1>1, <1>2, <1>3, <1>4 DEF Result, Arithmetic, Functions,
          Slice!Function, Slice!Arithmetic

(* The carry out.                                                          *)
LEMMA CarryOutAgrees ==
  ASSUME Selected_
  PROVE  CarryOut <=> Slice!CarryOut
<1>1. inst.func \in Functions /\ in.Cin \in {0, 1}
  BY DEF Selected_
<1>2. P # Positions <=> ~Slice!Pall
  BY GatesAgree DEF Slice!Pall, Positions
<1>3. G # {} <=> Slice!Gany
  BY GatesAgree DEF Slice!Gany, Positions
<1>4. ExG <=> Slice!ExG
  BY GatesAgree DEF ExG, GeneratesFrom, Slice!ExG, Slice!Generates, Slice!Pall, Positions
<1>5. 0 \in G <=> Slice!G(1)
  BY GatesAgree
<1>6. Carry[4] <=> Slice!C4
  BY CarriesAgree
<1>. QED  BY <1>1, <1>2, <1>3, <1>4, <1>5, <1>6 DEF CarryOut, Slice!CarryOut,
          Arithmetic, Slice!Arithmetic, Functions

(* The overflow.                                                           *)
LEMMA OverflowAgrees ==
  ASSUME Selected_
  PROVE  Overflow <=> Slice!Overflow
<1>1. inst.func \in Functions /\ in.Cin \in {0, 1}
  BY DEF Selected_
<1>2. Ex(2) <=> Slice!Ex2
  BY GatesAgree DEF Ex, Slice!Ex2
<1>3. Ex(3) <=> Slice!Ex3
  BY GatesAgree DEF Ex, Slice!Ex3
<1>4. (Carry[3] # Carry[4]) <=> (Slice!C3 # Slice!C4)
  <2>1. (Carry[3] # Carry[4]) <=> ~(Carry[3] <=> Carry[4])
    BY CarriesAgree
  <2>2. (Slice!C3 # Slice!C4) <=> ~(Slice!C3 <=> Slice!C4)
    BY DEF Slice!C3, Slice!C4
  <2>. QED  BY <2>1, <2>2, CarriesAgree
<1>5. (Ex(2) # Ex(3)) <=> (Slice!Ex2 # Slice!Ex3)
  <2>1. (Ex(2) # Ex(3)) <=> ~(Ex(2) <=> Ex(3))
    BY DEF Ex
  <2>2. (Slice!Ex2 # Slice!Ex3) <=> ~(Slice!Ex2 <=> Slice!Ex3)
    BY DEF Slice!Ex2, Slice!Ex3
  <2>. QED  BY <1>2, <1>3, <2>1, <2>2
<1>. QED  BY <1>1, <1>4, <1>5, CarryOutAgrees DEF Overflow, Slice!Overflow,
          Arithmetic, Slice!Arithmetic, Functions

(* What goes to a lookahead generator.                                     *)
LEMMA LookaheadsAgree ==
  ASSUME Selected_
  PROVE  /\ Lookahead.P_ = Slice!AsBit(Slice!Propagate_)
         /\ Lookahead.G_ = Slice!AsBit(Slice!Generate_)
<1>1. inst.func \in Functions
  BY DEF Selected_
<1>2. P # Positions <=> ~Slice!Pall
  BY GatesAgree DEF Slice!Pall, Positions
<1>3. G # {} <=> Slice!Gany
  BY GatesAgree DEF Slice!Gany, Positions
<1>4. P = Positions <=> Slice!Pall
  BY <1>2
<1>5. ExG <=> Slice!ExG
  BY GatesAgree DEF ExG, GeneratesFrom, Slice!ExG, Slice!Generates, Slice!Pall, Positions
<1>6. (\A k \in Positions : ~GeneratesFrom(k))
        <=> ~(Slice!Generates \/ (Slice!P(8) /\ Slice!P(4) /\ Slice!P(2) /\ Slice!G(1)))
  BY GatesAgree DEF GeneratesFrom, Slice!Generates, Positions
<1>. QED  BY <1>1, <1>2, <1>3, <1>4, <1>5, <1>6 DEF Lookahead, Slice!Propagate_,
          Slice!Generate_, AsBit, Slice!AsBit, Arithmetic, Slice!Arithmetic, Functions

(* All of it in one formula, for the state after a step as well.           *)
LEMMA DecodersAgree ==
  Selected_ => /\ Result = Slice!Function
               /\ CarryOut <=> Slice!CarryOut
               /\ Overflow <=> Slice!Overflow
               /\ Lookahead.P_ = Slice!AsBit(Slice!Propagate_)
               /\ Lookahead.G_ = Slice!AsBit(Slice!Generate_)
BY ResultAgrees, CarryOutAgrees, OverflowAgrees, LookaheadsAgree

(* The rows of the table differ, so that a row names its destination, and  *)
(* what a row says of the shifters is what the slice asks of the name.     *)
LEMMA RowNamesDestination ==
  ASSUME NEW d \in Chosen
  PROVE  /\ Row_(destinations[d]) = d
         /\ destinations[d].RAM_WE = 1 <=> Slice!RAM_EN(d)
         /\ destinations[d].Q_WE = 1 <=> Slice!Q_EN(d)
         /\ destinations[d].RAM0 = "O" <=> Slice!ShiftsDown(d)
         /\ destinations[d].Q0 = "O" <=> Slice!ShiftsDown(d)
         /\ destinations[d].RAM3 = "O" <=> Slice!ShiftsUp(d)
         /\ destinations[d].Q3 = "O" <=> Slice!ShiftsUp(d)
         /\ \A v, l, m, f :
              Shifter(destinations[d].RAM, v, l, m, f) = Slice!Shifted(v, d, l, m, f)
         /\ \A v, l, m, f : Slice!Q_EN(d) =>
              Shifter(destinations[d].Q, v, l, m, f) = Slice!Shifted(v, d, l, m, f)
<1>1. Row_(destinations[d]) = d
  <2>1. DOMAIN destinations = Chosen
    BY DEF destinations, Chosen
  <2>2. \A e \in Chosen : destinations[e] = destinations[d] => e = d
    BY DEF destinations, Chosen, Row
  <2>. QED  BY <2>1, <2>2 DEF Row_
<1>2. /\ destinations[d].RAM_WE = 1 <=> Slice!RAM_EN(d)
      /\ destinations[d].Q_WE = 1 <=> Slice!Q_EN(d)
      /\ destinations[d].RAM0 = "O" <=> Slice!ShiftsDown(d)
      /\ destinations[d].Q0 = "O" <=> Slice!ShiftsDown(d)
      /\ destinations[d].RAM3 = "O" <=> Slice!ShiftsUp(d)
      /\ destinations[d].Q3 = "O" <=> Slice!ShiftsUp(d)
  BY DEF destinations, Chosen, Row, Slice!RAM_EN, Slice!Q_EN, Slice!ShiftsDown,
     Slice!ShiftsUp, Slice!Destinations
<1>3. /\ destinations[d].RAM = IF Slice!ShiftsDown(d) THEN "D"
                               ELSE IF Slice!ShiftsUp(d) THEN "U" ELSE "N"
      /\ Slice!Q_EN(d) => destinations[d].Q = destinations[d].RAM
  BY DEF destinations, Chosen, Row, Slice!Q_EN, Slice!ShiftsDown, Slice!ShiftsUp
<1>. QED  BY <1>1, <1>2, <1>3 DEF Shifter, Slice!Shifted

(* The pins of the shifters, driven at the end of every clock state.       *)
LEMMA PinsAgree ==
  ASSUME update_shifter, NEW d \in Chosen, dst' = destinations[d]
  PROVE  Slice!DrivePins
<1>1. Row_(dst)' = d
  BY RowNamesDestination
<1>2. /\ Q0' = IF Slice!ShiftsDown(d) THEN Q' % 2 ELSE Q0
      /\ Q3' = IF Slice!ShiftsUp(d) THEN Q' \div 8 ELSE Q3
      /\ RAM0' = IF Slice!ShiftsDown(d) THEN F' % 2 ELSE RAM0
      /\ RAM3' = IF Slice!ShiftsUp(d) THEN F' \div 8 ELSE RAM3
  BY RowNamesDestination DEF update_shifter, Drive
<1>. QED  BY <1>1, <1>2 DEF Slice!DrivePins, Slice!ShiftsDown, Slice!ShiftsUp

(* In the state LO the core decodes its function from the multiplexers it  *)
(* has just set, and finds what the slice finds from the instruction.      *)
LEMMA FunctionAgrees ==
  ASSUME TypeOK, CoreUpdate, clk = "LO"
  PROVE  /\ F' = Slice!Function
         /\ flags'.Cout = Slice!AsBit(Slice!CarryOut)
         /\ flags'.OVR = Slice!AsBit(Slice!Overflow)
         /\ look'.P_ = Slice!AsBit(Slice!Propagate_)
         /\ look'.G_ = Slice!AsBit(Slice!Generate_)
<1>1. UNCHANGED <<inst, in, A, B, Q>>
  BY DEF CoreUpdate, setup_L
<1>2. /\ inst.src \in Operands /\ inst.func \in Functions
      /\ in.D \in 0 .. 15 /\ in.Cin \in {0, 1}
  BY DecodeType DEF TypeOK, Nibble, Bit
<1>3. Selected_'
  BY <1>1, <1>2 DEF CoreUpdate, setup_L, source_operand_decode, Selected_, TypeOK, Nibble
<1>4. /\ Result' = Slice!Function'
      /\ CarryOut' <=> Slice!CarryOut'
      /\ Overflow' <=> Slice!Overflow'
      /\ Lookahead'.P_ = Slice!AsBit(Slice!Propagate_)'
      /\ Lookahead'.G_ = Slice!AsBit(Slice!Generate_)'
  <2>1. (Selected_ => /\ Result = Slice!Function
                      /\ CarryOut <=> Slice!CarryOut
                      /\ Overflow <=> Slice!Overflow
                      /\ Lookahead.P_ = Slice!AsBit(Slice!Propagate_)
                      /\ Lookahead.G_ = Slice!AsBit(Slice!Generate_))'
    BY DecodersAgree, PTL
  <2>. QED  BY <1>3, <2>1
<1>5. /\ Slice!R' = Slice!R /\ Slice!S' = Slice!S
  BY <1>1 DEF Slice!R, Slice!S, Slice!Rmux, Slice!Smux
<1>6. /\ Slice!Function' = Slice!Function
      /\ Slice!CarryOut' <=> Slice!CarryOut
      /\ Slice!Overflow' <=> Slice!Overflow
      /\ Slice!Propagate_' <=> Slice!Propagate_
      /\ Slice!Generate_' <=> Slice!Generate_
  <2>1. \A w : (Slice!P(w)' <=> Slice!P(w)) /\ (Slice!G(w)' <=> Slice!G(w))
    BY <1>5 DEF Slice!P, Slice!G
  <2>2. (Slice!C3' <=> Slice!C3) /\ (Slice!C4' <=> Slice!C4)
    BY <1>1, <2>1 DEF Slice!C1, Slice!C2, Slice!C3, Slice!C4
  <2>3. /\ Slice!Pall' <=> Slice!Pall
        /\ Slice!Gany' <=> Slice!Gany
        /\ Slice!ExG' <=> Slice!ExG
        /\ Slice!Generates' <=> Slice!Generates
    BY <2>1 DEF Slice!Pall, Slice!Gany, Slice!ExG, Slice!Generates
  <2>4. (Slice!Ex2' <=> Slice!Ex2) /\ (Slice!Ex3' <=> Slice!Ex3)
    BY <1>1, <2>1 DEF Slice!Ex2, Slice!Ex3
  <2>5. Slice!Function' = Slice!Function
    BY <1>1, <1>5 DEF Slice!Function
  <2>6. Slice!CarryOut' <=> Slice!CarryOut
    BY <1>1, <1>2, <2>1, <2>2, <2>3 DEF Slice!CarryOut, Functions, Slice!Arithmetic
  <2>7. Slice!Overflow' <=> Slice!Overflow
    <3>1. (Slice!C3' # Slice!C4') <=> (Slice!C3 # Slice!C4)
      BY <2>2 DEF Slice!C3, Slice!C4
    <3>2. (Slice!Ex2' # Slice!Ex3') <=> (Slice!Ex2 # Slice!Ex3)
      BY <2>4 DEF Slice!Ex2, Slice!Ex3
    <3>. QED  BY <1>1, <1>2, <2>6, <3>1, <3>2
              DEF Slice!Overflow, Functions, Slice!Arithmetic
  <2>8. Slice!Propagate_' <=> Slice!Propagate_
    BY <1>1, <1>2, <2>3 DEF Slice!Propagate_, Functions, Slice!Arithmetic
  <2>9. Slice!Generate_' <=> Slice!Generate_
    BY <1>1, <1>2, <2>1, <2>3 DEF Slice!Generate_, Functions, Slice!Arithmetic
  <2>. QED  BY <2>5, <2>6, <2>7, <2>8, <2>9
<1>7. F' \in Nibble /\ update_outputs
  BY RegistersType DEF CoreUpdate
<1>8. flags'.Cout = AsBit(CarryOut)' /\ flags'.OVR = AsBit(Overflow)'
  BY <1>7, FlagsFollow
<1>9. F' = Result' /\ look' = Lookahead'
  BY DEF CoreUpdate, setup_L, function_decode
<1>. QED  BY <1>4, <1>6, <1>8, <1>9 DEF AsBit, Slice!AsBit

(* A clock state of the core is a clock state of the slice.                *)
LEMMA CoreStepIsSliceStep ==
  ASSUME TypeOK, CoreUpdate
  PROVE  Slice!Update
<1>1. PICK d \in Chosen : dst = destinations[d]
  BY DEF TypeOK, RowsOfTable
<1>2. PICK e \in Chosen : dst' = destinations[e]
  BY RegistersType DEF RowsOfTable
<1>3. Row_(dst) = d /\ Row_(dst)' = e
  BY <1>1, <1>2, RowNamesDestination
<1>4. Slice!DrivePins
  BY <1>2, PinsAgree DEF CoreUpdate
<1>5. UNCHANGED <<inst, in>> /\ update_outputs
  BY DEF CoreUpdate
<1>6. F' \in Nibble
  BY RegistersType
<1>7. clk # "LO" => UNCHANGED <<flags.Cout, flags.OVR>>
  BY <1>5, <1>6, FlagsFollow
<1>8. CASE clk = "HL"
  <2>1. Slice!clock_state_edge_HL
    BY <1>3, <1>7, <1>8 DEF CoreUpdate, edge_HL, Slice!clock_state_edge_HL
  <2>. QED  BY <1>4, <1>8, <2>1 DEF Slice!Update
<1>9. CASE clk = "LO"
  <2>1. RAM' = IF Slice!RAM_EN(d)
               THEN [RAM EXCEPT ![inst.rB] = Slice!Shifted(F', d, RAM0, RAM3, F')] ELSE RAM
    BY <1>1, <1>9, RowNamesDestination DEF CoreUpdate, setup_L, update_RAM
  <2>2. UNCHANGED <<A, B, Q, dst>>
    BY <1>9 DEF CoreUpdate, setup_L
  <2>3. /\ F' = Slice!Function
        /\ flags'.Cout = Slice!AsBit(Slice!CarryOut)
        /\ flags'.OVR = Slice!AsBit(Slice!Overflow)
        /\ look'.P_ = Slice!AsBit(Slice!Propagate_)
        /\ look'.G_ = Slice!AsBit(Slice!Generate_)
    BY <1>9, FunctionAgrees
  <2>4. Slice!clock_state_setup_L
    BY <1>3, <2>1, <2>2, <2>3 DEF Slice!clock_state_setup_L
  <2>. QED  BY <1>4, <1>9, <2>4 DEF Slice!Update
<1>10. CASE clk = "LH"
  <2>1. Q' = IF Slice!Q_EN(d) THEN Slice!Shifted(Q, d, Q0, Q3, F) ELSE Q
    BY <1>1, <1>10, RowNamesDestination DEF CoreUpdate, edge_LH
  <2>2. Slice!clock_state_edge_LH
    BY <1>3, <1>7, <1>10, <2>1 DEF CoreUpdate, edge_LH, Slice!clock_state_edge_LH
  <2>. QED  BY <1>4, <1>10, <2>2 DEF Slice!Update
<1>11. CASE clk = "HI"
  <2>1. inst.dest \in Chosen
    BY DecodeType DEF TypeOK
  <2>2. Row_(dst)' = inst.dest
    BY <1>11, <2>1, RowNamesDestination DEF CoreUpdate, setup_H
  <2>3. Slice!clock_state_setup_H
    BY <1>7, <1>11, <2>2 DEF CoreUpdate, setup_H, Slice!clock_state_setup_H
  <2>. QED  BY <1>4, <1>11, <2>3 DEF Slice!Update
<1>. QED  BY <1>8, <1>9, <1>10, <1>11 DEF TypeOK, Clocks

(* Each clock state of the library core does to registers, lines and       *)
(* carries what am2901_update of ALU_am2901.c does in that state.          *)
THEOREM CoreImplementsSlice == Spec => CoreIsSlice
<1>1. ASSUME MicrowordInv, [Next]_vars, clk' # clk PROVE Slice!Update
  <2>1. AluStep
    BY <1>1 DEF Next, Fetch, ClockB, BusReset, Outside, LatchFollows, vars
  <2>. QED  BY <1>1, <2>1, CoreStepIsSliceStep DEF MicrowordInv, AluStep
<1>2. MicrowordInv /\ [Next]_vars => [clk' # clk => Slice!Update]_vars
  BY <1>1
<1>. QED  BY <1>2, MicrowordCorrect, PTL DEF Spec, CoreIsSlice

(***************************************************************************)
(* The ROM headers.                                                        *)
(***************************************************************************)
(* With one file in a chunk, a read that failed leaves a trace: on the     *)
(* input of rom2include, on the file that romcat reads, or in its status.  *)
ReportInv ==
  /\ i \in Nat /\ failures \in Nat
  /\ stride = 1 /\ failures > 0 => ierr \/ cpc = "failed" \/ (cpc = "read" /\ 0 \in err)
  /\ ipc # "read" => ipc = IF ierr THEN "failed" ELSE "done"

(* The only file of a chunk is the one to read next.                       *)
LEMMA OneFile ==
  ASSUME ReportInv, stride = 1
  PROVE  f_i = 0
<1>1. \A k \in Nat : k % 1 = 0
  OBVIOUS
<1>. QED  BY <1>1 DEF ReportInv, f_i

LEMMA CatKeepsReport ==
  ASSUME ReportInv, Cat
  PROVE  ReportInv'
<1>1. ierr' = ierr /\ ipc' = ipc /\ stride' = stride
  BY DEF Cat, include, CatStep, Open, OpenFails, Finish,
         ReadByte, ReadError, ChunkEnds
<1>2. (i + 1) % IModulus \in Nat
  BY RomAssumption DEF ReportInv
<1>3. i' \in Nat
  BY <1>2 DEF ReportInv, Cat, CatStep, Open, OpenFails, Finish,
         ReadByte, ReadError, ChunkEnds, Put
<1>4. CASE Open
  BY <1>1, <1>3, <1>4 DEF ReportInv, Open
<1>5. CASE OpenFails
  BY <1>1, <1>3, <1>5 DEF ReportInv, OpenFails
<1>6. CASE Finish
  BY <1>1, <1>3, <1>6 DEF ReportInv, Finish
<1>7. CASE ReadByte
  BY <1>1, <1>3, <1>7 DEF ReportInv, ReadByte
<1>8. CASE ReadError
  BY <1>1, <1>3, <1>8, OneFile DEF ReportInv, ReadError
<1>9. CASE ChunkEnds
  BY <1>1, <1>3, <1>9, OneFile DEF ReportInv, ChunkEnds
<1>. QED  BY <1>4, <1>5, <1>6, <1>7, <1>8, <1>9 DEF Cat, CatStep

LEMMA IncludeKeepsReport ==
  ASSUME ReportInv, Include
  PROVE  ReportInv'
<1>1. UNCHANGED <<i, stride, cpc, err>>
  BY DEF Include, cat
<1>2. CASE TakeByte
  BY <1>1, <1>2 DEF ReportInv, TakeByte
<1>3. CASE TakeError
  BY <1>1, <1>3 DEF ReportInv, TakeError
<1>4. CASE Done
  BY <1>1, <1>4 DEF ReportInv, Done
<1>. QED  BY <1>2, <1>3, <1>4 DEF Include, IncludeStep

(* An error while reading a ROM image that is a chunk of its own reaches   *)
(* the exit status of romcat, or that of rom2include when it was the pipe  *)
(* that failed: for all the images that romcat reads, of any length, any   *)
(* word size, any pipe and any number of errors.                           *)
THEOREM ReadErrorsAreReported ==
  RomSpec => []ErrorIsReported
<1>1. RomInit => ReportInv
  BY DEF RomInit, CatInit, IncludeInit, ReportInv
<1>2. ReportInv /\ [RomNext]_romVars => ReportInv'
  <2>1. ASSUME ReportInv, UNCHANGED romVars PROVE ReportInv'
    BY <2>1 DEF ReportInv, romVars, cat, include
  <2>. QED  BY <2>1, CatKeepsReport, IncludeKeepsReport DEF RomNext
<1>3. ReportInv => ErrorIsReported
  BY DEF ReportInv, ErrorIsReported
<1>. QED  BY <1>1, <1>2, <1>3, PTL DEF RomSpec

(***************************************************************************)
(* What the files hold.                                                    *)
(***************************************************************************)
RomByte == (Nat \X Nat) \cup {FF}

FilesType == files \in Seq(Nat \cup {Missing}) /\ stride \in 1 .. 8

Ends(k)   == Min({ Chunk(k)[f] * stride + f - 1 : f \in 1 .. stride })
Before(k) == FlattenSeq([j \in 1 .. k |-> Rows(j - 1)])
WholeTo(k) == k \in 0 .. chunks /\ \A j \in 0 .. k - 1 : Whole(j)

(* The chunks lie within the files named.                                  *)
LEMMA ChunksType ==
  ASSUME FilesType
  PROVE  chunks \in Nat /\ chunks * stride <= Len(files)
<1>1. named \in Nat /\ named <= Len(files)
  <2>1. Len(files) \in Nat /\ FileModulus \in Nat \ {0}
    BY RomAssumption DEF FilesType
  <2>2. PICK d \in Nat, x \in 0 .. FileModulus - 1 :
          Len(files) = d * FileModulus + x /\ x = Len(files) % FileModulus
    BY <2>1, ModIs
  <2>3. d * FileModulus \in Nat
    BY <2>1
  <2>. QED  BY <2>1, <2>2, <2>3 DEF named
<1>2. stride \in {1, 2, 3, 4, 5, 6, 7, 8}
  BY DEF FilesType
<1>3. chunks \in Nat /\ chunks * stride <= named
  BY <1>1, <1>2 DEF chunks
<1>4. Len(files) \in Nat
  BY DEF FilesType
<1>. QED  BY <1>1, <1>2, <1>3, <1>4

(* Fewer files than the count can hold are all read.                       *)
LEMMA AllNamed ==
  ASSUME FilesType, InRange
  PROVE  chunks = Len(files) \div stride
<1>1. Len(files) \in Nat /\ FileModulus \in Nat \ {0} /\ Len(files) < FileModulus
  BY RomAssumption DEF FilesType, InRange
<1>2. Len(files) % FileModulus = Len(files)
  BY <1>1
<1>. QED  BY <1>2 DEF chunks, named

(* The files of a chunk.                                                   *)
LEMMA ChunkIs ==
  ASSUME FilesType, NEW k \in Nat, k < chunks, NEW f \in 1 .. stride
  PROVE  /\ k * stride + f \in 1 .. Len(files)
         /\ Chunk(k)[f] = files[k * stride + f]
         /\ Chunk(k)[f] \in Nat \cup {Missing}
<1>1. PICK m \in Nat : m = chunks /\ m * stride <= Len(files) /\ k < m
  BY ChunksType
<1>2. Len(files) \in Nat /\ files \in Seq(Nat \cup {Missing})
  BY DEF FilesType
<1>3. stride \in {1, 2, 3, 4, 5, 6, 7, 8}
  BY DEF FilesType
<1>4. /\ k * stride + f \in 1 .. Len(files)
      /\ k * stride + 1 \in Nat /\ (k + 1) * stride \in Nat
      /\ k * stride + 1 >= 1 /\ (k + 1) * stride <= Len(files)
      /\ (k + 1) * stride - (k * stride + 1) + 1 = stride
      /\ (k * stride + 1) + f - 1 = k * stride + f
  BY <1>1, <1>2, <1>3
<1>5. Chunk(k)[f] = files[k * stride + f]
  <2>1. PICK a \in Nat, b \in Nat : a = k * stride + 1 /\ b = (k + 1) * stride
    BY <1>4
  <2>2. f \in 1 .. b - a + 1 /\ a + f - 1 = k * stride + f /\ a >= 1 /\ b <= Len(files)
    BY <1>4, <2>1
  <2>3. a \in Nat \ {0} /\ b \in 0 .. Len(files)
    BY <1>2, <2>1, <2>2
  <2>4. SubSeq(files, a, b)[f] = files[a + f - 1]
    BY <1>2, <2>2, <2>3, PartIs
  <2>. QED  BY <2>1, <2>2, <2>4 DEF Chunk
<1>. QED  BY <1>2, <1>4, <1>5

(* A chunk that is there ends where the first of its files does.           *)
LEMMA EndsIs ==
  ASSUME FilesType, NEW k \in Nat, k < chunks, Whole(k)
  PROVE  /\ Ends(k) \in Nat
         /\ \A f \in 1 .. stride : Chunk(k)[f] \in Nat
         /\ \A f \in 1 .. stride : Ends(k) <= Chunk(k)[f] * stride + f - 1
         /\ \E f \in 1 .. stride : Ends(k) = Chunk(k)[f] * stride + f - 1
<1>. DEFINE U == { Chunk(k)[f] * stride + f - 1 : f \in 1 .. stride }
<1>1. \A f \in 1 .. stride : Chunk(k)[f] \in Nat
  BY ChunkIs DEF Whole
<1>2. stride \in {1, 2, 3, 4, 5, 6, 7, 8}
  BY DEF FilesType
<1>3. \A f \in 1 .. stride : Chunk(k)[f] * stride + f - 1 \in Nat
  <2>1. ASSUME NEW f \in 1 .. stride, NEW l \in Nat PROVE l * stride + f - 1 \in Nat
    BY <1>2
  <2>. QED  BY <1>1, <2>1
<1>4. U \subseteq Nat /\ U # {}
  BY <1>2, <1>3
<1>5. Min(U) \in U /\ \A x \in U : Min(U) <= x
  BY <1>4, LeastIs
<1>6. Ends(k) = Min(U)
  BY DEF Ends
<1>7. Ends(k) \in Nat
  <2>. HIDE DEF U
  <2>. QED  BY <1>4, <1>5, <1>6
<1>8. \A f \in 1 .. stride : Ends(k) <= Chunk(k)[f] * stride + f - 1
  BY <1>5, <1>6
<1>. QED  BY <1>1, <1>5, <1>6, <1>7, <1>8

(* The rows of a chunk, byte by byte.                                      *)
LEMMA RowsIs ==
  ASSUME FilesType, NEW k \in Nat, k < chunks, Whole(k)
  PROVE  /\ Rows(k) \in Seq(RomByte) /\ Len(Rows(k)) = Ends(k)
         /\ \A b \in 1 .. Ends(k) :
              Rows(k)[b] = <<k * stride + ((b - 1) % stride), (b - 1) \div stride>>
<1>1. Rows(k) = [b \in 1 .. Ends(k) |->
                   <<k * stride + ((b - 1) % stride), (b - 1) \div stride>>]
  BY DEF Rows, Ends
<1>2. Ends(k) \in Nat
  BY EndsIs
<1>3. ASSUME NEW b \in 1 .. Ends(k)
      PROVE  <<k * stride + ((b - 1) % stride), (b - 1) \div stride>> \in RomByte
  <2>1. stride \in {1, 2, 3, 4, 5, 6, 7, 8} /\ b - 1 \in Nat
    BY <1>2 DEF FilesType
  <2>2. k * stride + ((b - 1) % stride) \in Nat
    BY <2>1
  <2>3. (b - 1) \div stride \in Nat
    BY <2>1
  <2>. QED  BY <2>2, <2>3 DEF RomByte
<1>4. Rows(k) \in [1 .. Ends(k) -> RomByte]
  BY <1>1, <1>3
<1>5. Rows(k) \in Seq(RomByte) /\ Len(Rows(k)) = Ends(k)
  BY <1>2, <1>4
<1>. QED  BY <1>1, <1>5

(***************************************************************************)
(* What was printed before a chunk.                                        *)
(***************************************************************************)
(* Chunks that are all there are made of bytes.                            *)
LEMMA WholeToType ==
  ASSUME FilesType, NEW k, WholeTo(k)
  PROVE  /\ k \in Nat /\ k <= chunks
         /\ \A j \in Nat : j < k => Whole(j) /\ Rows(j) \in Seq(RomByte)
         /\ [j \in 1 .. k |-> Rows(j - 1)] \in Seq(Seq(RomByte))
         /\ Before(k) \in Seq(RomByte)
<1>1. k \in Nat /\ k <= chunks /\ chunks \in Nat
  BY ChunksType DEF WholeTo
<1>2. \A j \in Nat : j < k => Whole(j)
  BY <1>1 DEF WholeTo
<1>3. \A j \in Nat : j < k => Rows(j) \in Seq(RomByte)
  BY <1>1, <1>2, RowsIs
<1>4. \A j \in 1 .. k : Rows(j - 1) \in Seq(RomByte)
  BY <1>1, <1>3
<1>5. [j \in 1 .. k |-> Rows(j - 1)] \in Seq(Seq(RomByte))
  BY <1>1, <1>4
<1>. QED  BY <1>1, <1>2, <1>3, <1>5, FlattenType DEF Before

(* Nothing stands before the first chunk.                                  *)
LEMMA BeforeFirst == Before(0) = <<>>
<1>1. [j \in 1 .. 0 |-> Rows(j - 1)] = <<>>
  OBVIOUS
<1>. QED  BY <1>1, FlattenEmpty, Zenon DEF Before

(* The rows of a chunk stand before the next one.                          *)
LEMMA BeforeNext ==
  ASSUME FilesType, NEW k, WholeTo(k), k < chunks, Whole(k)
  PROVE  WholeTo(k + 1) /\ Before(k + 1) = Before(k) \o Rows(k)
<1>1. k \in Nat /\ chunks \in Nat /\ Rows(k) \in Seq(RomByte)
  BY WholeToType, ChunksType, RowsIs
<1>2. WholeTo(k + 1)
  <2>1. \A j \in 0 .. (k + 1) - 1 : j = k \/ j \in 0 .. k - 1
    BY <1>1
  <2>. QED  BY <1>1, <2>1 DEF WholeTo
<1>. DEFINE s == [j \in 1 .. k |-> Rows(j - 1)]
            t == [j \in 1 .. k + 1 |-> Rows(j - 1)]
<1>3. s \in Seq(Seq(RomByte)) /\ t \in Seq(Seq(RomByte))
  BY <1>2, WholeToType
<1>4. t = Append(s, Rows(k))
  <2>1. Len(s) = k /\ Len(t) = k + 1
    BY <1>1
  <2>2. \A j \in 1 .. k : t[j] = s[j]
    BY <1>1
  <2>3. t[k + 1] = Rows(k)
    BY <1>1
  <2>. HIDE DEF s, t
  <2>. QED  BY <1>1, <1>3, <2>1, <2>2, <2>3, AppendIs
<1>5. FlattenSeq(t) = FlattenSeq(s) \o Rows(k)
  <2>. HIDE DEF s, t
  <2>. QED  BY <1>1, <1>3, <1>4, FlattenAppend
<1>. QED  BY <1>2, <1>5 DEF Before

(* It is the beginning of what is printed before any later chunk.          *)
LEMMA BeforeGrows ==
  ASSUME FilesType, NEW k, NEW m, WholeTo(k), WholeTo(m), k <= m
  PROVE  \E t \in Seq(RomByte) : Before(m) = Before(k) \o t
<1>. DEFINE T == { d \in Nat : k + d <= m =>
                     \E t \in Seq(RomByte) : Before(k + d) = Before(k) \o t }
<1>1. k \in Nat /\ m \in Nat /\ m <= chunks /\ chunks \in Nat /\ Before(k) \in Seq(RomByte)
  BY WholeToType, ChunksType
<1>2. 0 \in T
  <2>1. k + 0 = k /\ <<>> \in Seq(RomByte) /\ Before(k) = Before(k) \o <<>>
    BY <1>1
  <2>. QED  BY <2>1
<1>3. ASSUME NEW d \in Nat, d \in T PROVE d + 1 \in T
  <2>1. SUFFICES ASSUME k + (d + 1) <= m
                 PROVE  \E t \in Seq(RomByte) : Before(k + (d + 1)) = Before(k) \o t
    OBVIOUS
  <2>2. k + d \in Nat /\ k + d < m /\ k + d < chunks /\ k + (d + 1) = (k + d) + 1
    BY <1>1, <2>1
  <2>3. PICK t \in Seq(RomByte) : Before(k + d) = Before(k) \o t
    BY <1>3, <2>2, <1>1
  <2>4. \A j \in Nat : j < m => Whole(j) /\ Rows(j) \in Seq(RomByte)
    BY WholeToType
  <2>5. WholeTo(k + d)
    BY <1>1, <2>2, <2>4 DEF WholeTo
  <2>6. Before(k + (d + 1)) = Before(k + d) \o Rows(k + d)
    BY <2>2, <2>4, <2>5, BeforeNext
  <2>7. (Before(k) \o t) \o Rows(k + d) = Before(k) \o (t \o Rows(k + d))
    <3>1. Rows(k + d) \in Seq(RomByte)
      BY <2>2, <2>4
    <3>. QED  BY <1>1, <3>1, ConcatAssociative
  <2>8. t \o Rows(k + d) \in Seq(RomByte)
    BY <2>2, <2>4
  <2>. QED  BY <2>3, <2>6, <2>7, <2>8
<1>4. \A d \in Nat : d \in T
  <2>. HIDE DEF T
  <2>. QED  BY <1>2, <1>3, Induction
<1>5. PICK d \in Nat : k + d = m
  BY <1>1
<1>6. k + d <= m
  BY <1>1, <1>5
<1>. QED  BY <1>4, <1>5, <1>6

(* The chunks there are before a file is missing, or before the end.       *)
LEMMA OpenedIs ==
  ASSUME FilesType, InRange, NEW k, WholeTo(k), k = chunks \/ ~Whole(k)
  PROVE  Opened = 0 .. k - 1 /\ Bytes = Before(k)
<1>1. k \in Nat /\ k <= chunks /\ chunks \in Nat /\ \A j \in Nat : j < k => Whole(j)
  BY WholeToType, ChunksType
<1>2. Opened = { j \in 0 .. chunks - 1 : \A l \in 0 .. j : Whole(l) }
  BY AllNamed, Zenon DEF Opened
<1>3. Opened = 0 .. k - 1
  <2>1. ASSUME NEW j \in Opened PROVE j \in 0 .. k - 1
    <3>1. j \in 0 .. chunks - 1 /\ \A l \in 0 .. j : Whole(l)
      BY <1>2
    <3>2. k \in 0 .. j => FALSE
      BY <1>1, <3>1
    <3>. QED  BY <1>1, <3>1, <3>2
  <2>2. ASSUME NEW j \in 0 .. k - 1 PROVE j \in Opened
    <3>1. j \in 0 .. chunks - 1 /\ \A l \in 0 .. j : l \in Nat /\ l < k
      BY <1>1
    <3>. QED  BY <1>2, <1>1, <3>1
  <2>. QED  BY <2>1, <2>2
<1>4. Cardinality(Opened) = k
  <2>1. k = 0 => 0 .. k - 1 = {}
    OBVIOUS
  <2>2. k # 0 => Cardinality(0 .. k - 1) = (k - 1) - 0 + 1
    BY <1>1, FS_Interval
  <2>3. (k - 1) - 0 + 1 = k
    BY <1>1
  <2>. QED  BY <1>3, <2>1, <2>2, <2>3, FS_EmptySet
<1>. QED  BY <1>3, <1>4 DEF Bytes, Before

(* There is a number of chunks that were opened.                           *)
LEMMA OpenedExists ==
  ASSUME FilesType, InRange
  PROVE  \E k \in Nat : /\ WholeTo(k) /\ Opened = 0 .. k - 1 /\ Bytes = Before(k)
                        /\ k = chunks \/ ~Whole(k)
<1>. DEFINE U == { k \in Nat : k <= chunks /\ (k = chunks \/ ~Whole(k)) }
<1>1. chunks \in Nat
  BY ChunksType
<1>2. U \subseteq Nat /\ U # {}
  BY <1>1
<1>3. PICK k \in U : \A x \in U : k <= x
  <2>. HIDE DEF U
  <2>. QED  BY <1>2, LeastIs
<1>4. \A j \in 0 .. k - 1 : Whole(j)
  BY <1>1, <1>3
<1>5. WholeTo(k)
  BY <1>1, <1>3, <1>4 DEF WholeTo
<1>. QED  BY <1>3, <1>5, OpenedIs

(* Chunks of files of equal length are made of whole rows.                 *)
LEMMA EvenEnds ==
  ASSUME FilesType, NEW k \in Nat, k < chunks, Whole(k), Even(k)
  PROVE  Chunk(k)[1] \in Nat /\ Ends(k) = Chunk(k)[1] * stride
<1>1. stride \in {1, 2, 3, 4, 5, 6, 7, 8} /\ 1 \in 1 .. stride
  BY DEF FilesType
<1>2. PICK l \in Nat : l = Chunk(k)[1] /\ \A f \in 1 .. stride : Chunk(k)[f] = l
  BY <1>1, EndsIs DEF Even
<1>3. /\ Ends(k) \in Nat /\ Ends(k) <= l * stride + 1 - 1
      /\ \E f \in 1 .. stride : Ends(k) = l * stride + f - 1
  BY <1>1, <1>2, EndsIs
<1>4. Ends(k) = l * stride
  <2>1. PICK m \in Nat : m = l * stride
    BY <1>1
  <2>. QED  BY <1>3, <2>1
<1>. QED  BY <1>2, <1>4

(* So is all that comes before a chunk.                                    *)
LEMMA EvenBefore ==
  ASSUME FilesType, InRange, NEW k, WholeTo(k), k < chunks
  PROVE  \E r \in Nat : Len(Before(k)) = r * stride
<1>. DEFINE T == { d \in Nat : d <= k => \E r \in Nat : Len(Before(d)) = r * stride }
<1>1. k \in Nat /\ chunks \in Nat /\ \A j \in Nat : j < k => Whole(j)
  BY WholeToType, ChunksType
<1>2. stride \in {1, 2, 3, 4, 5, 6, 7, 8}
  BY DEF FilesType
<1>3. 0 \in T
  <2>1. Len(Before(0)) = 0 * stride
    BY <1>2, BeforeFirst
  <2>. QED  BY <2>1
<1>4. ASSUME NEW d \in Nat, d \in T PROVE d + 1 \in T
  <2>1. SUFFICES ASSUME d + 1 <= k PROVE \E r \in Nat : Len(Before(d + 1)) = r * stride
    OBVIOUS
  <2>2. d < k /\ d < chunks /\ d + 1 < chunks /\ Whole(d)
    BY <1>1, <2>1
  <2>3. WholeTo(d)
    BY <1>1, <2>2 DEF WholeTo
  <2>4. d \in Opened
    <3>1. d \in 0 .. chunks - 1 /\ \A l \in 0 .. d : l \in Nat /\ l < k
      BY <1>1, <2>2
    <3>. QED  BY <1>1, <3>1, AllNamed DEF Opened
  <2>5. Even(d)
    BY <2>2, <2>4, AllNamed DEF InRange
  <2>6. Chunk(d)[1] \in Nat /\ Ends(d) = Chunk(d)[1] * stride
    BY <2>2, <2>5, EvenEnds
  <2>7. PICK r \in Nat : Len(Before(d)) = r * stride
    BY <1>4, <2>2, <1>1
  <2>8. Len(Before(d + 1)) = Len(Before(d)) + Ends(d)
    <3>1. Before(d) \in Seq(RomByte) /\ Rows(d) \in Seq(RomByte) /\ Len(Rows(d)) = Ends(d)
      BY <2>2, <2>3, WholeToType, RowsIs
    <3>2. Before(d + 1) = Before(d) \o Rows(d)
      BY <2>2, <2>3, BeforeNext
    <3>. QED  BY <3>1, <3>2
  <2>9. PICK l \in Nat : l = Chunk(d)[1]
    BY <2>6
  <2>10. Len(Before(d + 1)) = (r + l) * stride
    BY <1>2, <2>6, <2>7, <2>8, <2>9
  <2>. QED  BY <2>10
<1>5. \A d \in Nat : d \in T
  <2>. HIDE DEF T
  <2>. QED  BY <1>3, <1>4, Induction
<1>. QED  BY <1>1, <1>5

(* The next byte of a chunk, and where its bytes end.                      *)
LEMMA NextByte ==
  ASSUME FilesType, NEW k \in Nat, k < chunks, Whole(k),
         NEW q \in Nat, NEW f \in 0 .. stride - 1, q * stride + f <= Ends(k)
  PROVE  /\ q # Chunk(k)[f + 1] =>
              /\ q * stride + f + 1 <= Ends(k)
              /\ Rows(k)[q * stride + f + 1] = <<stride * k + f, q>>
         /\ q = Chunk(k)[f + 1] => q * stride + f = Ends(k)
<1>1. stride \in {1, 2, 3, 4, 5, 6, 7, 8} /\ f + 1 \in 1 .. stride
  BY DEF FilesType
<1>2. PICK l \in Nat : l = Chunk(k)[f + 1]
  BY <1>1, EndsIs
<1>3. PICK e \in Nat : e = Ends(k) /\ e <= l * stride + (f + 1) - 1
  BY <1>1, <1>2, EndsIs
<1>4. PICK g \in 1 .. stride : e = Chunk(k)[g] * stride + g - 1
  BY <1>3, EndsIs
<1>5. PICK m \in Nat : m = Chunk(k)[g] /\ e = m * stride + g - 1
  BY <1>4, EndsIs
<1>6. q = l => q * stride + f = e
  BY <1>1, <1>3
<1>7. ASSUME q # l PROVE q * stride + f + 1 <= e
  <2>1. q < l
    BY <1>1, <1>3, <1>7
  <2>2. q * stride + f # e
    <3>1. ASSUME q * stride + f = m * stride + g - 1 PROVE q = m /\ f + 1 = g
      BY <1>1, <3>1
    <3>2. ASSUME q = m, f + 1 = g PROVE FALSE
      BY <1>2, <1>5, <1>7, <3>2
    <3>. QED  BY <1>5, <3>1, <3>2
  <2>. QED  BY <1>1, <1>3, <2>2
<1>8. ASSUME q # l PROVE Rows(k)[q * stride + f + 1] = <<stride * k + f, q>>
  <2>1. PICK b \in Nat : b = q * stride + f + 1
    BY <1>1
  <2>2. b \in 1 .. Ends(k)
    BY <1>1, <1>3, <1>7, <1>8, <2>1
  <2>3. (b - 1) % stride = f /\ (b - 1) \div stride = q
    BY <1>1, <2>1
  <2>4. k * stride + f = stride * k + f
    BY <1>1
  <2>. QED  BY <2>1, <2>2, <2>3, <2>4, RowsIs
<1>. QED  BY <1>2, <1>3, <1>6, <1>7, <1>8

(***************************************************************************)
(* What has been sent.                                                     *)
(***************************************************************************)
Sent == Printed \o pipe

Reading(q, f) ==
  /\ q * stride + f <= Ends(c)
  /\ i = (Len(Before(c)) + (q * stride + f)) % IModulus
  /\ pos = [g \in 0 .. stride - 1 |-> IF g < f THEN q + 1 ELSE q]
  /\ Sent = Before(c) \o SubSeq(Rows(c), 1, q * stride + f)

CatRows ==
  /\ WholeTo(c)
  /\ cpc = "open" => i = Len(Before(c)) % IModulus /\ Sent = Before(c)
  /\ cpc = "read" => /\ c < chunks /\ Whole(c) /\ err = {}
                     /\ \E q \in Nat, f \in 0 .. stride - 1 : Reading(q, f)
  /\ cpc = "done" => Sent = Bytes
  /\ cpc = "failed" => \E k \in 0 .. Len(Bytes) : Sent = SubSeq(Bytes, 1, k)

(* A comma stands before each word but those the wrapped count begins with. *)
Commas == commas = { k \in 1 .. Begun : (k - 1) % IModulus # 0 }

Words ==
  /\ \A k \in 1 .. Len(array) - 1 : Len(array[k]) = ws
  /\ Commas
  /\ ipc = "read" =>
       /\ \A k \in 1 .. Len(array) : Len(array[k]) = ws
       /\ Len(word) < ws /\ Len(FlattenSeq(array)) = ws * Len(array)
       /\ n = Len(array) % IModulus
  /\ ipc # "read" =>
       /\ word = <<>> /\ pipe = <<>> /\ cpc \in {"done", "failed"}
       /\ n = (Len(FlattenSeq(array)) \div ws) % IModulus
       /\ Len(array) <= Len(FlattenSeq(array)) \div ws + 1

Typed ==
  /\ pipe \in Seq(RomByte) /\ word \in Seq(RomByte) /\ array \in Seq(Seq(RomByte))
  /\ cpc \in {"open", "read", "done", "failed"}

RowsInv ==
  /\ FilesType /\ ws \in 1 .. 8 /\ failures \in Nat
  /\ failures = 0 /\ InRange => Typed /\ CatRows /\ Words

(* The files are those the programs were started with.                     *)
LEMMA FilesStay ==
  ASSUME UNCHANGED <<files, stride>>
  PROVE  /\ chunks' = chunks /\ Bytes' = Bytes /\ FilesType' = FilesType
         /\ ws' = ws => InRange' = InRange
         /\ \A k : /\ Rows(k)' = Rows(k) /\ Before(k)' = Before(k) /\ Ends(k)' = Ends(k)
                   /\ WholeTo(k)' = WholeTo(k) /\ Whole(k)' = Whole(k)
<1>1. chunks' = chunks
  BY DEF chunks, named
<1>2. \A k : Chunk(k)' = Chunk(k)
  BY DEF Chunk
<1>3. \A k : Whole(k)' = Whole(k) /\ Even(k)' = Even(k)
  BY <1>2, Zenon DEF Whole, Even
<1>4. \A k : Ends(k)' = Ends(k)
  BY <1>2, Zenon DEF Ends
<1>5. \A k : Rows(k)' = Rows(k)
  BY <1>2, Zenon DEF Rows
<1>6. \A k : Before(k)' = Before(k)
  BY <1>5, Zenon DEF Before
<1>7. \A k : WholeTo(k)' = WholeTo(k)
  BY <1>1, <1>3, Zenon DEF WholeTo
<1>8. Opened' = Opened
  BY <1>3, Zenon DEF Opened
<1>9. Bytes' = Bytes
  BY <1>5, <1>8, Zenon DEF Bytes
<1>10. ASSUME ws' = ws PROVE InRange' = InRange
  BY <1>3, <1>8, <1>9, <1>10, Zenon DEF InRange
<1>11. FilesType' = FilesType
  BY DEF FilesType
<1>. QED  BY <1>1, <1>3, <1>4, <1>5, <1>6, <1>7, <1>9, <1>10, <1>11

(* What was sent is made of bytes.                                         *)
LEMMA SentType ==
  ASSUME Typed
  PROVE  /\ FlattenSeq(array) \in Seq(RomByte)
         /\ Printed \in Seq(RomByte) /\ Sent \in Seq(RomByte)
<1>1. FlattenSeq(array) \in Seq(RomByte)
  BY FlattenType DEF Typed
<1>2. Printed \in Seq(RomByte)
  BY <1>1 DEF Typed, Printed
<1>. QED  BY <1>1, <1>2 DEF Typed, Sent

(* A chunk that can be opened is whole.                                    *)
LEMMA WholeIsPresent ==
  ASSUME FilesType, c \in Nat, c < chunks
  PROVE  Whole(c) <=> \A f \in 0 .. stride - 1 : ~IsMissing(f)
<1>1. stride \in {1, 2, 3, 4, 5, 6, 7, 8}
  BY DEF FilesType
<1>2. \A f \in 1 .. stride : f - 1 \in 0 .. stride - 1
  BY <1>1
<1>3. \A f \in 0 .. stride - 1 : f + 1 \in 1 .. stride /\ (f + 1) - 1 = f
  BY <1>1
<1>4. ASSUME NEW f \in 1 .. stride PROVE Chunk(c)[f] = Missing <=> IsMissing(f - 1)
  <2>1. fnum(f - 1) + 1 = c * stride + f
    BY <1>1 DEF fnum
  <2>. QED  BY <2>1, ChunkIs DEF IsMissing
<1>. QED  BY <1>2, <1>3, <1>4 DEF Whole

(* The file that i names is the one the row asks for.                      *)
LEMMA FileIsAskedFor ==
  ASSUME FilesType, InRange, CatRows, cpc = "read",
         NEW q \in Nat, NEW f \in 0 .. stride - 1, Reading(q, f)
  PROVE  f_i = f /\ pos[f_i] = q /\ fnum(f) = stride * c + f
         /\ (AtEOF <=> q = Chunk(c)[f + 1])
<1>1. stride \in {1, 2, 3, 4, 5, 6, 7, 8} /\ IModulus \in Nat \ {0}
  BY RomAssumption DEF FilesType
<1>2. c \in Nat /\ c < chunks /\ Whole(c) /\ WholeTo(c) /\ Before(c) \in Seq(RomByte)
  BY WholeToType DEF CatRows
<1>3. Ends(c) \in Nat /\ Rows(c) \in Seq(RomByte) /\ Len(Rows(c)) = Ends(c)
  BY <1>2, EndsIs, RowsIs
<1>4. PICK r \in Nat : Len(Before(c)) = r * stride
  BY <1>2, EvenBefore
<1>5. Len(Before(c)) + Ends(c) <= Len(Bytes)
  <2>1. PICK m \in Nat : WholeTo(m) /\ Bytes = Before(m) /\ (m = chunks \/ ~Whole(m))
    BY OpenedExists
  <2>2. WholeTo(c + 1) /\ Before(c + 1) = Before(c) \o Rows(c)
    BY <1>2, BeforeNext
  <2>3. c + 1 <= m
    <3>1. \A j \in Nat : j < c + 1 => Whole(j)
      BY <2>2, WholeToType
    <3>. QED  BY <1>2, <2>1, <3>1
  <2>4. PICK t \in Seq(RomByte) : Before(m) = Before(c + 1) \o t
    BY <2>1, <2>2, <2>3, BeforeGrows
  <2>. QED  BY <1>2, <1>3, <2>1, <2>2, <2>4
<1>6. PICK m \in Nat : m = q * stride + f
  BY <1>1
<1>7. f_i = f
  <2>1. PICK l \in Nat : l = Len(Before(c)) + m /\ l = r * stride + (q * stride + f)
    BY <1>2, <1>4, <1>6
  <2>2. l <= Len(Bytes)
    BY <1>2, <1>3, <1>5, <1>6, <2>1 DEF Reading
  <2>3. l < IModulus \/ IModulus % stride = 0
    <3>1. Len(Bytes) \in Nat
      BY OpenedExists, WholeToType
    <3>. QED  BY <1>1, <2>2, <3>1 DEF InRange
  <2>4. (l % IModulus) % stride = f
    <3>1. PICK z \in 1 .. 8 : z = stride
      BY DEF FilesType
    <3>2. PICK u \in Nat : u = r + q
      OBVIOUS
    <3>3. l = u * z + f
      BY <1>1, <2>1, <3>1, <3>2
    <3>4. f \in 0 .. z - 1
      BY <3>1
    <3>5. l < IModulus \/ IModulus % z = 0
      BY <2>3, <3>1
    <3>6. IModulus \in Nat \ {0}
      BY <1>1
    <3>7. (l % IModulus) % z = f
      BY <3>3, <3>4, <3>5, <3>6, SlotIs, Zenon
    <3>. QED  BY <3>1, <3>7
  <2>. QED  BY <1>6, <2>1, <2>4 DEF Reading, f_i
<1>8. pos[f] = q
  <2>1. ~(f < f)
    BY <1>1
  <2>. QED  BY <2>1, Zenon DEF Reading
<1>9. fnum(f) + 1 = c * stride + (f + 1) /\ f + 1 \in 1 .. stride /\ fnum(f) = stride * c + f
  BY <1>1, <1>2 DEF fnum
<1>10. files[fnum(f) + 1] = Chunk(c)[f + 1]
  BY <1>2, <1>9, ChunkIs
<1>. QED  BY <1>7, <1>8, <1>9, <1>10 DEF AtEOF

(***************************************************************************)
(* Every step of romcat.                                                   *)
(***************************************************************************)
(* What was sent is as it was.                                             *)
LEMMA SentStays ==
  ASSUME UNCHANGED <<pipe, word, array>>, Typed
  PROVE  Sent' = Sent /\ (cpc' \in {"open", "read", "done", "failed"} => Typed')
BY DEF Sent, Printed, Typed

(* A chunk begins with the first byte of its first file.                   *)
LEMMA OpenKeepsRows ==
  ASSUME FilesType, Typed, CatRows, Open, UNCHANGED include
  PROVE  Typed' /\ CatRows'
<1>1. UNCHANGED <<files, stride, c, i, pipe, word, array>> /\ cpc = "open" /\ cpc' = "read" /\ err' = {}
  BY DEF Open, include
<1>2. Typed' /\ Sent' = Sent
  BY <1>1, SentStays
<1>3. /\ c \in Nat /\ c < chunks /\ Whole(c) /\ WholeTo(c) /\ Before(c) \in Seq(RomByte)
      /\ i = Len(Before(c)) % IModulus /\ Sent = Before(c)
  BY <1>1, WholeToType, WholeIsPresent DEF CatRows, Open
<1>4. stride \in {1, 2, 3, 4, 5, 6, 7, 8}
  BY DEF FilesType
<1>5. 0 * stride + 0 = 0 /\ 0 \in 0 .. stride - 1
  BY <1>4
<1>6. Ends(c) \in Nat /\ Rows(c) \in Seq(RomByte)
  BY <1>3, EndsIs, RowsIs
<1>7. Reading(0, 0)'
  <2>1. 0 * stride + 0 <= Ends(c)
    BY <1>5, <1>6
  <2>2. i = (Len(Before(c)) + (0 * stride + 0)) % IModulus
    BY <1>3, <1>5
  <2>3. pos' = [g \in 0 .. stride - 1 |-> IF g < 0 THEN 0 + 1 ELSE 0]
    <3>1. \A g \in 0 .. stride - 1 : (IF g < 0 THEN 0 + 1 ELSE 0) = 0
      OBVIOUS
    <3>. QED  BY <3>1, Zenon DEF Open
  <2>4. Sent = Before(c) \o SubSeq(Rows(c), 1, 0 * stride + 0)
    <3>1. SubSeq(Rows(c), 1, 0) = <<>>
      BY <1>6
    <3>. QED  BY <1>3, <1>5, <3>1
  <2>. QED  BY <1>1, <1>2, <2>1, <2>2, <2>3, <2>4, FilesStay DEF Reading
<1>8. CatRows'
  BY <1>1, <1>3, <1>5, <1>7, FilesStay DEF CatRows
<1>. QED  BY <1>2, <1>8

(* What a missing file leaves is a beginning.                              *)
LEMMA OpenFailsKeepsRows ==
  ASSUME FilesType, InRange, Typed, CatRows, OpenFails, UNCHANGED include
  PROVE  Typed' /\ CatRows'
<1>1. /\ UNCHANGED <<files, stride, c, word, array>> /\ cpc = "open" /\ cpc' = "failed"
      /\ pipe' = pipe \/ \E k \in 0 .. Len(pipe) : pipe' = SubSeq(pipe, 1, k)
  BY DEF OpenFails, include
<1>2. Printed \in Seq(RomByte) /\ pipe \in Seq(RomByte) /\ Sent \in Seq(RomByte)
  BY SentType DEF Typed
<1>3. PICK k \in 0 .. Len(pipe) : pipe' = SubSeq(pipe, 1, k)
  <2>1. pipe = SubSeq(pipe, 1, Len(pipe)) /\ Len(pipe) \in 0 .. Len(pipe)
    BY <1>2
  <2>. QED  BY <1>1, <2>1
<1>4. WholeTo(c) /\ Sent = Bytes
  <2>1. c \in Nat /\ WholeTo(c) /\ Sent = Before(c)
    BY <1>1, WholeToType DEF CatRows
  <2>2. ~Whole(c)
    BY <2>1, WholeIsPresent DEF OpenFails
  <2>. QED  BY <2>1, <2>2, OpenedIs
<1>5. Sent' = SubSeq(Bytes, 1, Len(Printed) + k) /\ Len(Printed) + k \in 0 .. Len(Bytes)
  <2>1. Sent' = Printed \o SubSeq(pipe, 1, k)
    BY <1>1, <1>3 DEF Sent, Printed
  <2>2. Printed \o SubSeq(pipe, 1, k) = SubSeq(Printed \o pipe, 1, Len(Printed) + k)
    BY <1>2, Beginning
  <2>3. Len(Printed) + k \in 0 .. Len(Printed \o pipe)
    BY <1>2
  <2>. QED  BY <1>4, <2>1, <2>2, <2>3 DEF Sent
<1>6. Typed'
  <2>1. pipe' \in Seq(RomByte)
    BY <1>2, <1>3
  <2>. QED  BY <1>1, <2>1 DEF Typed
<1>7. CatRows'
  BY <1>1, <1>4, <1>5, FilesStay DEF CatRows
<1>. QED  BY <1>6, <1>7

(* All chunks were printed.                                                *)
LEMMA FinishKeepsRows ==
  ASSUME FilesType, InRange, Typed, CatRows, Finish, UNCHANGED include
  PROVE  Typed' /\ CatRows'
<1>1. /\ UNCHANGED <<files, stride, c, pipe, word, array>>
      /\ cpc = "open" /\ cpc' = "done" /\ c >= chunks
  BY DEF Finish, include
<1>2. Typed' /\ Sent' = Sent
  BY <1>1, SentStays
<1>3. WholeTo(c) /\ Sent = Before(c) /\ c = chunks
  <2>1. WholeTo(c) /\ Sent = Before(c)
    BY <1>1 DEF CatRows
  <2>2. c \in Nat /\ c <= chunks /\ chunks \in Nat
    BY <2>1, WholeToType, ChunksType
  <2>. QED  BY <1>1, <2>1, <2>2
<1>4. Sent = Bytes
  BY <1>3, OpenedIs
<1>5. CatRows'
  BY <1>1, <1>2, <1>3, <1>4, FilesStay DEF CatRows
<1>. QED  BY <1>2, <1>5

(* One byte further in its row, or on to the next row.                     *)
LEMMA ReadByteKeepsRows ==
  ASSUME FilesType, InRange, Typed, CatRows, ReadByte, UNCHANGED include
  PROVE  Typed' /\ CatRows'
<1>1. UNCHANGED <<files, stride, c, err, word, array, cpc>> /\ cpc = "read"
  BY DEF ReadByte, include
<1>2. /\ c \in Nat /\ c < chunks /\ Whole(c) /\ WholeTo(c) /\ err = {}
      /\ Before(c) \in Seq(RomByte)
  BY <1>1, WholeToType DEF CatRows
<1>3. Ends(c) \in Nat /\ Rows(c) \in Seq(RomByte) /\ Len(Rows(c)) = Ends(c)
  BY <1>2, EndsIs, RowsIs
<1>4. PICK q \in Nat, f \in 0 .. stride - 1 : Reading(q, f)
  BY <1>1 DEF CatRows
<1>5. f_i = f /\ pos[f_i] = q /\ fnum(f) = stride * c + f /\ q # Chunk(c)[f + 1]
  BY <1>1, <1>4, FileIsAskedFor DEF ReadByte
<1>6. /\ pipe' = Append(pipe, <<stride * c + f, q>>) /\ i' = (i + 1) % IModulus
      /\ pos' = [pos EXCEPT ![f] = @ + 1]
  BY <1>5 DEF ReadByte, Put
<1>7. stride \in {1, 2, 3, 4, 5, 6, 7, 8} /\ IModulus \in Nat \ {0}
  BY RomAssumption DEF FilesType
<1>8. PICK m \in Nat : m = q * stride + f
  BY <1>4, <1>7
<1>9. m + 1 <= Len(Rows(c)) /\ Rows(c)[m + 1] = <<stride * c + f, q>>
  <2>1. q * stride + f <= Ends(c)
    BY <1>4 DEF Reading
  <2>. QED  BY <1>2, <1>3, <1>4, <1>5, <1>8, <2>1, NextByte
<1>10. Sent' = Before(c) \o SubSeq(Rows(c), 1, m + 1)
  <2>1. <<stride * c + f, q>> \in RomByte
    BY <1>2, <1>4, <1>7 DEF RomByte
  <2>2. Sent' = Append(Sent, <<stride * c + f, q>>)
    <3>1. Printed' = Printed
      BY <1>1 DEF Printed
    <3>. QED  BY <1>6, <2>1, <3>1, SentType, AppendToConcat DEF Sent, Typed
  <2>3. Sent = Before(c) \o SubSeq(Rows(c), 1, m)
    BY <1>4, <1>8 DEF Reading
  <2>. QED  BY <1>2, <1>3, <1>9, <2>2, <2>3, NextOfPart
<1>11. Typed'
  <2>1. <<stride * c + f, q>> \in RomByte
    BY <1>2, <1>4, <1>7 DEF RomByte
  <2>2. pipe' \in Seq(RomByte)
    BY <1>6, <2>1 DEF Typed
  <2>. QED  BY <1>1, <2>2 DEF Typed
<1>12. i' = (Len(Before(c)) + (m + 1)) % IModulus
  <2>1. PICK l \in Nat : l = Len(Before(c)) + m
    BY <1>2
  <2>2. i = l % IModulus
    BY <1>4, <1>8, <2>1 DEF Reading
  <2>3. ((l % IModulus) + 1) % IModulus = (l + 1) % IModulus
    BY <1>7, ModNext
  <2>4. l + 1 = Len(Before(c)) + (m + 1)
    BY <1>2, <2>1
  <2>. QED  BY <1>6, <2>2, <2>3, <2>4
<1>13. PICK q2 \in Nat, f2 \in 0 .. stride - 1 :
         /\ q2 * stride + f2 = m + 1
         /\ \A g \in 0 .. stride - 1 :
              (IF g < f2 THEN q2 + 1 ELSE q2)
                = IF g = f THEN q + 1 ELSE IF g < f THEN q + 1 ELSE q
  <2>1. CASE f + 1 < stride
    <3>1. f + 1 \in 0 .. stride - 1 /\ q * stride + (f + 1) = m + 1
      BY <1>7, <1>8, <2>1
    <3>2. \A g \in 0 .. stride - 1 :
            (IF g < f + 1 THEN q + 1 ELSE q)
              = IF g = f THEN q + 1 ELSE IF g < f THEN q + 1 ELSE q
      BY <2>1
    <3>. QED  BY <3>1, <3>2
  <2>2. CASE f + 1 = stride
    <3>1. 0 \in 0 .. stride - 1 /\ q + 1 \in Nat /\ (q + 1) * stride + 0 = m + 1
      BY <1>7, <1>8, <2>2
    <3>2. \A g \in 0 .. stride - 1 :
            (IF g < 0 THEN (q + 1) + 1 ELSE q + 1)
              = IF g = f THEN q + 1 ELSE IF g < f THEN q + 1 ELSE q
      BY <2>2
    <3>. QED  BY <3>1, <3>2
  <2>. QED  BY <1>7, <2>1, <2>2
<1>14. pos' = [g \in 0 .. stride - 1 |-> IF g < f2 THEN q2 + 1 ELSE q2]
  <2>1. pos = [g \in 0 .. stride - 1 |-> IF g < f THEN q + 1 ELSE q]
    BY <1>4 DEF Reading
  <2>2. pos' = [g \in 0 .. stride - 1 |->
                  IF g = f THEN q + 1 ELSE IF g < f THEN q + 1 ELSE q]
    <3>1. pos[f] = q
      BY <1>5
    <3>. QED  BY <1>6, <2>1, <3>1
  <2>. QED  BY <1>13, <2>2, Zenon
<1>15. Reading(q2, f2)'
  <2>1. q2 * stride + f2 <= Ends(c)
    BY <1>3, <1>9, <1>13
  <2>2. i' = (Len(Before(c)) + (q2 * stride + f2)) % IModulus
    BY <1>12, <1>13
  <2>3. Sent' = Before(c) \o SubSeq(Rows(c), 1, q2 * stride + f2)
    BY <1>10, <1>13
  <2>. QED  BY <1>1, <1>14, <2>1, <2>2, <2>3, FilesStay DEF Reading
<1>16. CatRows'
  BY <1>1, <1>2, <1>13, <1>15, FilesStay DEF CatRows
<1>. QED  BY <1>11, <1>16

(* The file that ends is where the rows do.                                *)
LEMMA ChunkEndsKeepsRows ==
  ASSUME FilesType, InRange, Typed, CatRows, ChunkEnds, UNCHANGED include
  PROVE  Typed' /\ CatRows'
<1>1. UNCHANGED <<files, stride, i, pipe, word, array>> /\ cpc = "read"
  BY DEF ChunkEnds, include
<1>2. /\ c \in Nat /\ c < chunks /\ Whole(c) /\ WholeTo(c) /\ err = {}
      /\ Before(c) \in Seq(RomByte)
  BY <1>1, WholeToType DEF CatRows
<1>3. Ends(c) \in Nat /\ Rows(c) \in Seq(RomByte) /\ Len(Rows(c)) = Ends(c)
  BY <1>2, EndsIs, RowsIs
<1>4. PICK q \in Nat, f \in 0 .. stride - 1 : Reading(q, f)
  BY <1>1 DEF CatRows
<1>5. c' = c + 1 /\ cpc' = "open" /\ q = Chunk(c)[f + 1]
  BY <1>1, <1>2, <1>4, FileIsAskedFor DEF ChunkEnds
<1>6. Typed' /\ Sent' = Sent
  BY <1>1, <1>5, SentStays
<1>7. q * stride + f = Ends(c)
  <2>1. q * stride + f <= Ends(c)
    BY <1>4 DEF Reading
  <2>. QED  BY <1>2, <1>4, <1>5, <2>1, NextByte
<1>8. WholeTo(c + 1) /\ Before(c + 1) = Before(c) \o Rows(c)
  BY <1>2, BeforeNext
<1>9. Sent = Before(c + 1)
  <2>1. SubSeq(Rows(c), 1, Ends(c)) = Rows(c)
    BY <1>3
  <2>2. Sent = Before(c) \o SubSeq(Rows(c), 1, q * stride + f)
    BY <1>4 DEF Reading
  <2>. QED  BY <1>7, <1>8, <2>1, <2>2
<1>10. i = Len(Before(c + 1)) % IModulus
  <2>1. Len(Before(c + 1)) = Len(Before(c)) + Ends(c)
    BY <1>2, <1>3, <1>8
  <2>. QED  BY <1>4, <1>7, <2>1 DEF Reading
<1>11. CatRows'
  BY <1>1, <1>5, <1>6, <1>8, <1>9, <1>10, FilesStay DEF CatRows
<1>. QED  BY <1>6, <1>11

(* It does not run once rom2include has seen the end of its output.        *)
LEMMA CatKeepsWords ==
  ASSUME Words, CatStep, UNCHANGED include
  PROVE  Words'
<1>1. cpc \in {"open", "read"} /\ UNCHANGED <<ws, word, array, commas, n, ipc>>
  BY DEF CatStep, Open, OpenFails, Finish, ReadByte, ReadError, ChunkEnds, include
<1>2. ipc = "read"
  BY <1>1 DEF Words
<1>3. Commas' = Commas
  BY <1>1 DEF Commas, Begun
<1>. QED  BY <1>1, <1>2, <1>3 DEF Words

(* So the bytes stay in order while romcat runs,                           *)
LEMMA CatKeepsRows ==
  ASSUME RowsInv, Cat
  PROVE  RowsInv'
<1>1. UNCHANGED <<files, stride>> /\ UNCHANGED include /\ failures' \in Nat
      /\ (failures' = 0 => failures = 0 /\ ~ReadError)
  BY DEF RowsInv, Cat, CatStep, Open, OpenFails, Finish, ReadByte, ReadError, ChunkEnds, Put
<1>2. ws' = ws
  BY <1>1 DEF include
<1>3. ASSUME failures' = 0, InRange' PROVE Typed' /\ CatRows' /\ Words'
  <2>1. InRange /\ failures = 0 /\ ~ReadError
    BY <1>1, <1>2, <1>3, FilesStay
  <2>2. Typed /\ CatRows /\ Words /\ FilesType
    BY <2>1 DEF RowsInv
  <2>3. CASE Open
    BY <1>1, <2>2, <2>3, OpenKeepsRows, CatKeepsWords DEF CatStep
  <2>4. CASE OpenFails
    BY <1>1, <2>1, <2>2, <2>4, OpenFailsKeepsRows, CatKeepsWords DEF CatStep
  <2>5. CASE Finish
    BY <1>1, <2>1, <2>2, <2>5, FinishKeepsRows, CatKeepsWords DEF CatStep
  <2>6. CASE ReadByte
    BY <1>1, <2>1, <2>2, <2>6, ReadByteKeepsRows, CatKeepsWords DEF CatStep
  <2>7. CASE ChunkEnds
    BY <1>1, <2>1, <2>2, <2>7, ChunkEndsKeepsRows, CatKeepsWords DEF CatStep
  <2>. QED  BY <2>1, <2>3, <2>4, <2>5, <2>6, <2>7 DEF Cat, CatStep
<1>. QED  BY <1>1, <1>2, <1>3, FilesStay DEF RowsInv

(***************************************************************************)
(* Every step of rom2include.                                              *)
(***************************************************************************)
LEMMA CatRowsStay ==
  ASSUME CatRows, UNCHANGED cat, Sent' = Sent
  PROVE  CatRows'
<1>1. UNCHANGED <<files, stride, c, i, pos, err, cpc>>
  BY DEF cat
<1>2. ASSUME NEW q \in Nat, NEW f \in 0 .. stride - 1, Reading(q, f) PROVE Reading(q, f)'
  BY <1>1, <1>2, FilesStay DEF Reading
<1>. QED  BY <1>1, <1>2, FilesStay DEF CatRows

(* The first byte of a word brings the comma, no other does.               *)
LEMMA PrintKeepsCommas ==
  ASSUME NEW b \in RomByte, array \in Seq(Seq(RomByte)), word \in Seq(RomByte),
         n = Len(array) % IModulus, Commas, PrintByte(b)
  PROVE  Commas'
<1>1. PICK l \in Nat, e \in Nat : l = Len(array) /\ e = l + 1
  OBVIOUS
<1>2. Append(word, b) \in Seq(RomByte) /\ Append(word, b) # <<>>
  OBVIOUS
<1>3. Begun' = e
  <2>1. CASE Len(word) + 1 < ws
    BY <1>1, <1>2, <2>1 DEF PrintByte, Begun
  <2>2. CASE ~(Len(word) + 1 < ws)
    <3>1. array' = Append(array, Append(word, b)) /\ word' = <<>>
      BY <2>2 DEF PrintByte
    <3>2. Len(array') = e
      BY <1>1, <1>2, <3>1
    <3>. QED  BY <1>1, <3>1, <3>2 DEF Begun
  <2>. QED  BY <2>1, <2>2
<1>4. CASE word = <<>>
  <2>1. Begun = l
    BY <1>1, <1>4 DEF Begun
  <2>2. commas = { k \in 1 .. l : (k - 1) % IModulus # 0 }
    BY <2>1 DEF Commas
  <2>3. commas' = IF l % IModulus # 0 THEN commas \cup {e} ELSE commas
    BY <1>1, <1>4 DEF PrintByte
  <2>4. commas' = { k \in 1 .. e : (k - 1) % IModulus # 0 }
    <3>1. \A k : k \in 1 .. e <=> k \in 1 .. l \/ k = e
      BY <1>1
    <3>2. ASSUME NEW k
          PROVE  k \in commas' <=> k \in 1 .. e /\ (k - 1) % IModulus # 0
      <4>1. CASE k = e
        <5>1. k \notin 1 .. l
          BY <1>1, <4>1
        <5>2. k \notin commas
          BY <2>2, <5>1, Zenon
        <5>3. k - 1 = l /\ k \in 1 .. e
          BY <1>1, <4>1
        <5>. QED  BY <2>3, <4>1, <5>2, <5>3, Zenon
      <4>2. CASE k # e
        BY <2>2, <2>3, <3>1, <4>2, Zenon
      <4>. QED  BY <4>1, <4>2
    <3>. QED  BY <3>2
  <2>. QED  BY <1>3, <2>4 DEF Commas
<1>5. CASE word # <<>>
  <2>1. Begun = e /\ commas' = commas
    BY <1>1, <1>5 DEF Begun, PrintByte
  <2>. QED  BY <1>3, <2>1 DEF Commas
<1>. QED  BY <1>4, <1>5

(* The bytes taken and those waiting are the same in every step.           *)
LEMMA TakeByteKeepsRows ==
  ASSUME ws \in 1 .. 8, Typed, CatRows, Words, TakeByte, UNCHANGED cat
  PROVE  Typed' /\ CatRows' /\ Words'
<1>1. PICK b \in RomByte, rest \in Seq(RomByte) :
        b = Head(pipe) /\ rest = Tail(pipe) /\ pipe = <<b>> \o rest
  <2>1. pipe \in Seq(RomByte) /\ pipe # <<>>
    BY DEF Typed, TakeByte
  <2>2. Head(pipe) \in RomByte /\ Tail(pipe) \in Seq(RomByte) /\ pipe = <<Head(pipe)>> \o Tail(pipe)
    BY <2>1, HeadTailProperties
  <2>. QED  BY <2>2
<1>2. /\ UNCHANGED <<ws, ipc, cpc>> /\ ipc = "read" /\ pipe' = rest /\ PrintByte(b)
  BY <1>1 DEF TakeByte, cat
<1>3. /\ FlattenSeq(array) \in Seq(RomByte) /\ array \in Seq(Seq(RomByte))
      /\ word \in Seq(RomByte) /\ IModulus \in Nat \ {0}
      /\ Len(word) < ws /\ Len(FlattenSeq(array)) = ws * Len(array)
      /\ n = Len(array) % IModulus /\ \A k \in 1 .. Len(array) : Len(array[k]) = ws
      /\ Commas
  BY <1>2, SentType, RomAssumption DEF Words, Typed
<1>4. PICK longer \in Seq(RomByte) : longer = Append(word, b) /\ Len(longer) = Len(word) + 1
  <2>1. word \in Seq(RomByte)
    BY <1>3
  <2>2. Append(word, b) \in Seq(RomByte) /\ Len(Append(word, b)) = Len(word) + 1
    BY <1>1, <2>1, AppendProperties
  <2>. QED  BY <2>2
<1>5. FlattenSeq(Append(array, longer)) = FlattenSeq(array) \o longer
  BY <1>3, FlattenAppend
<1>6. FlattenSeq(array) \o longer = Append(FlattenSeq(array) \o word, b)
  BY <1>3, <1>4, AppendToConcat
<1>7. Commas'
  BY <1>1, <1>2, <1>3, PrintKeepsCommas
<1>8. CASE Len(word) + 1 < ws
  <2>1. word' = longer /\ UNCHANGED <<array, n>>
    BY <1>2, <1>4, <1>8 DEF PrintByte
  <2>2. Printed' = Append(Printed, b)
    BY <1>6, <2>1 DEF Printed
  <2>3. Typed' /\ Words'
    BY <1>2, <1>3, <1>4, <1>8, <1>7, <2>1 DEF Typed, Words
  <2>4. Sent' = Sent
    BY <1>1, <1>2, <2>2, SentType, AppendThenConcat DEF Sent
  <2>. QED  BY <2>3, <2>4, CatRowsStay
<1>9. CASE ~(Len(word) + 1 < ws)
  <2>1. word' = <<>> /\ array' = Append(array, longer) /\ n' = (n + 1) % IModulus
    BY <1>2, <1>4, <1>9 DEF PrintByte
  <2>2. FlattenSeq(array') = FlattenSeq(array) \o longer
    BY <1>5, <2>1
  <2>3. Printed' = Append(Printed, b)
    <3>1. FlattenSeq(array) \o longer \in Seq(RomByte)
      BY <1>3, <1>4
    <3>2. (FlattenSeq(array) \o longer) \o <<>> = FlattenSeq(array) \o longer
      BY <3>1
    <3>3. Printed' = FlattenSeq(array') \o <<>>
      BY <2>1 DEF Printed
    <3>. QED  BY <1>6, <2>2, <3>2, <3>3 DEF Printed
  <2>4. Sent' = Sent
    BY <1>1, <1>2, <2>3, SentType, AppendThenConcat DEF Sent
  <2>5. array' \in Seq(Seq(RomByte)) /\ Len(array') = Len(array) + 1
    BY <1>3, <1>4, <2>1
  <2>6. Typed'
    BY <1>1, <1>2, <2>1, <2>5 DEF Typed
  <2>7. Len(longer) = ws
    BY <1>3, <1>4, <1>9
  <2>8. \A k \in 1 .. Len(array') : Len(array'[k]) = ws
    <3>1. \A k \in 1 .. Len(array) : array'[k] = array[k]
      BY <1>3, <1>4, <2>1
    <3>2. array'[Len(array) + 1] = longer
      BY <1>3, <1>4, <2>1
    <3>3. \A k \in 1 .. Len(array') : k \in 1 .. Len(array) \/ k = Len(array) + 1
      BY <1>3, <2>5
    <3>. QED  BY <1>3, <2>7, <3>1, <3>2, <3>3
  <2>9. Len(FlattenSeq(array')) = ws * Len(array')
    <3>1. Len(FlattenSeq(array) \o longer) = Len(FlattenSeq(array)) + Len(longer)
      BY <1>3, <1>4, ConcatLength
    <3>2. PICK l \in Nat : l = Len(array)
      BY <1>3
    <3>3. ws * (l + 1) = ws * l + ws
      <4>1. ws \in {1, 2, 3, 4, 5, 6, 7, 8}
        OBVIOUS
      <4>. QED  BY <3>2, <4>1
    <3>. QED  BY <1>3, <2>2, <2>5, <2>7, <3>1, <3>2, <3>3
  <2>10. n' = Len(array') % IModulus
    <3>1. ((Len(array) % IModulus) + 1) % IModulus = (Len(array) + 1) % IModulus
      <4>1. Len(array) \in Nat
        BY <1>3
      <4>. QED  BY <1>3, <4>1, ModNext
    <3>. QED  BY <1>3, <2>1, <2>5, <3>1
  <2>11. Words'
    <3>1. \A k \in 1 .. Len(array') - 1 : Len(array'[k]) = ws
      BY <2>5, <2>8
    <3>2. Len(word') < ws
      BY <2>1
    <3>. QED  BY <1>2, <1>7, <2>8, <2>9, <2>10, <3>1, <3>2 DEF Words
  <2>12. CatRows'
    BY <2>4, CatRowsStay
  <2>. QED  BY <2>6, <2>11, <2>12, Zenon
<1>. QED  BY <1>8, <1>9

(* The last word may be cut short.                                         *)
LEMMA DoneKeepsRows ==
  ASSUME ws \in 1 .. 8, Typed, CatRows, Words, Done, UNCHANGED cat
  PROVE  Typed' /\ CatRows' /\ Words'
<1>1. /\ UNCHANGED <<pipe, ws, commas, n, cpc>> /\ ipc = "read" /\ ipc' # "read" /\ pipe = <<>>
      /\ cpc \in {"done", "failed"} /\ word' = <<>>
      /\ array' = IF word = <<>> THEN array ELSE Append(array, word)
  BY DEF Done, cat
<1>2. /\ FlattenSeq(array) \in Seq(RomByte) /\ array \in Seq(Seq(RomByte))
      /\ word \in Seq(RomByte)
      /\ Len(word) < ws /\ Len(FlattenSeq(array)) = ws * Len(array)
      /\ n = Len(array) % IModulus /\ \A k \in 1 .. Len(array) : Len(array[k]) = ws
  BY <1>1, SentType DEF Words, Typed
<1>3. FlattenSeq(array') = Printed
  <2>1. CASE word = <<>>
    <3>1. FlattenSeq(array) \o <<>> = FlattenSeq(array)
      BY <1>2
    <3>. QED  BY <1>1, <2>1, <3>1 DEF Printed
  <2>2. CASE word # <<>>
    <3>1. FlattenSeq(Append(array, word)) = FlattenSeq(array) \o word
      BY <1>2, FlattenAppend
    <3>. QED  BY <1>1, <2>2, <3>1 DEF Printed
  <2>. QED  BY <2>1, <2>2
<1>4. Sent' = Sent
  <2>1. Printed \in Seq(RomByte)
    BY SentType
  <2>2. Printed' = Printed
    <3>1. Printed \o <<>> = Printed
      BY <2>1
    <3>. QED  BY <1>1, <1>3, <3>1 DEF Printed
  <2>. QED  BY <1>1, <2>2 DEF Sent
<1>5. array' \in Seq(Seq(RomByte)) /\ Len(array') <= Len(array) + 1
      /\ \A k \in 1 .. Len(array) : array'[k] = array[k]
  BY <1>1, <1>2
<1>6. Typed'
  BY <1>1, <1>5 DEF Typed
<1>7. \A k \in 1 .. Len(array') - 1 : Len(array'[k]) = ws
  <2>1. \A k \in 1 .. Len(array') - 1 : k \in 1 .. Len(array)
    BY <1>2, <1>5
  <2>. QED  BY <1>2, <1>5, <2>1
<1>8. Len(FlattenSeq(array')) \div ws = Len(array)
  <2>1. PICK l \in Nat, r \in Nat : l = Len(array) /\ r = Len(word) /\ r < ws
    BY <1>2
  <2>2. Len(FlattenSeq(array')) = ws * l + r
    <3>1. Len(FlattenSeq(array) \o word) = Len(FlattenSeq(array)) + Len(word)
      BY <1>2, ConcatLength
    <3>. QED  BY <1>2, <1>3, <2>1, <3>1 DEF Printed
  <2>3. ws \in {1, 2, 3, 4, 5, 6, 7, 8}
    OBVIOUS
  <2>4. (ws * l + r) \div ws = l
    BY <2>1, <2>3
  <2>. QED  BY <2>1, <2>2, <2>4
<1>9. Commas'
  <2>1. Begun' = Begun
    <3>1. word # <<>> => Len(Append(array, word)) = Len(array) + 1
      BY <1>2
    <3>. QED  BY <1>1, <3>1 DEF Begun
  <2>. QED  BY <1>1, <2>1 DEF Words, Commas
<1>10. Words'
  BY <1>1, <1>2, <1>5, <1>7, <1>8, <1>9 DEF Words
<1>. QED  BY <1>4, <1>6, <1>10, CatRowsStay

(* and while rom2include does.                                             *)
LEMMA IncludeKeepsRows ==
  ASSUME RowsInv, Include
  PROVE  RowsInv'
<1>1. UNCHANGED <<files, stride>> /\ UNCHANGED cat /\ failures' \in Nat /\ ws' = ws
      /\ (failures' = 0 => failures = 0 /\ ~TakeError)
  BY DEF RowsInv, Include, IncludeStep, TakeByte, TakeError, Done, cat
<1>2. ASSUME failures' = 0, InRange' PROVE Typed' /\ CatRows' /\ Words'
  <2>1. InRange /\ failures = 0 /\ ~TakeError
    BY <1>1, <1>2, FilesStay
  <2>2. Typed /\ CatRows /\ Words /\ ws \in 1 .. 8
    BY <2>1 DEF RowsInv
  <2>3. CASE TakeByte
    BY <1>1, <2>2, <2>3, TakeByteKeepsRows
  <2>4. CASE Done
    BY <1>1, <2>2, <2>4, DoneKeepsRows
  <2>. QED  BY <2>1, <2>3, <2>4 DEF Include, IncludeStep
<1>. QED  BY <1>1, <1>2, FilesStay DEF RowsInv

(* The words are a beginning of what was sent, and this of the bytes.      *)
LEMMA RowsInvHolds ==
  ASSUME RowsInv
  PROVE  WordsAreRows
<1>1. SUFFICES ASSUME failures = 0, InRange
      PROVE  /\ Len(Printed) <= Len(Bytes) /\ Printed = SubSeq(Bytes, 1, Len(Printed))
             /\ \A k \in 1 .. Len(array) - 1 : Len(array[k]) = ws
             /\ commas = 2 .. Begun
             /\ cpc = "done" /\ ipc = "done" => Printed = Bytes /\ n = Len(Bytes) \div ws
  BY DEF WordsAreRows
<1>2. Typed /\ CatRows /\ Words /\ FilesType
  BY <1>1 DEF RowsInv
<1>3. Printed \in Seq(RomByte) /\ Sent \in Seq(RomByte) /\ pipe \in Seq(RomByte)
  BY <1>2, SentType DEF Typed
<1>4. PICK m \in Nat : WholeTo(m) /\ Bytes = Before(m) /\ (m = chunks \/ ~Whole(m))
  BY <1>1, <1>2, OpenedExists
<1>5. Bytes \in Seq(RomByte)
  BY <1>2, <1>4, WholeToType
<1>6. WholeTo(c) /\ c \in Nat /\ c <= chunks /\ chunks \in Nat /\ Before(c) \in Seq(RomByte)
  BY <1>2, WholeToType, ChunksType DEF CatRows
<1>7. \E k \in 0 .. Len(Bytes) : Sent = SubSeq(Bytes, 1, k)
  <2>1. CASE cpc = "open"
    <3>1. c <= m
      <4>1. \A j \in Nat : j < c => Whole(j)
        BY <1>2, <1>6, WholeToType
      <4>. QED  BY <1>4, <1>6, <4>1
    <3>2. PICK t \in Seq(RomByte) : Bytes = Before(c) \o t
      BY <1>2, <1>4, <1>6, <3>1, BeforeGrows
    <3>3. Sent = Before(c)
      BY <1>2, <2>1 DEF CatRows
    <3>. QED  BY <1>6, <3>2, <3>3, ConcatBegins
  <2>2. CASE cpc = "read"
    <3>1. c < chunks /\ Whole(c)
      BY <1>2, <2>2 DEF CatRows
    <3>2. WholeTo(c + 1) /\ Before(c + 1) = Before(c) \o Rows(c)
      BY <1>2, <1>6, <3>1, BeforeNext
    <3>3. c + 1 <= m
      <4>1. \A j \in Nat : j < c + 1 => Whole(j)
        BY <1>2, <3>2, WholeToType
      <4>. QED  BY <1>4, <1>6, <3>1, <4>1
    <3>4. PICK t \in Seq(RomByte) : Bytes = Before(c + 1) \o t
      BY <1>2, <1>4, <3>2, <3>3, BeforeGrows
    <3>5. PICK q \in Nat, f \in 0 .. stride - 1 : Reading(q, f)
      BY <1>2, <2>2 DEF CatRows
    <3>6. Rows(c) \in Seq(RomByte) /\ Len(Rows(c)) = Ends(c)
      BY <1>2, <1>6, <3>1, RowsIs
    <3>7. PICK b \in 0 .. Len(Rows(c)) : b = q * stride + f /\ Sent = Before(c) \o SubSeq(Rows(c), 1, b)
      <4>1. stride \in {1, 2, 3, 4, 5, 6, 7, 8}
        BY <1>2 DEF FilesType
      <4>2. PICK b \in Nat : b = q * stride + f
        BY <3>5, <4>1
      <4>3. b <= Ends(c) /\ Sent = Before(c) \o SubSeq(Rows(c), 1, b)
        BY <3>5, <4>2 DEF Reading
      <4>4. b \in 0 .. Len(Rows(c))
        BY <3>6, <4>2, <4>3
      <4>. QED  BY <4>2, <4>3, <4>4
    <3>8. Sent = SubSeq(Before(c + 1), 1, Len(Before(c)) + b)
      <4>1. Before(c) \o SubSeq(Rows(c), 1, b)
              = SubSeq(Before(c) \o Rows(c), 1, Len(Before(c)) + b)
        BY <1>6, <3>6, <3>7, Beginning
      <4>. QED  BY <3>2, <3>7, <4>1
    <3>9. Len(Before(c)) + b \in 0 .. Len(Before(c + 1)) /\ Before(c + 1) \in Seq(RomByte)
      <4>1. Len(Before(c) \o Rows(c)) = Len(Before(c)) + Len(Rows(c))
        BY <1>6, <3>6, ConcatLength
      <4>2. Before(c) \o Rows(c) \in Seq(RomByte)
        BY <1>6, <3>6
      <4>3. PICK k \in Nat, l \in Nat : k = Len(Before(c)) /\ l = Len(Rows(c))
        BY <1>6, <3>6
      <4>4. k + b \in 0 .. k + l
        BY <3>7, <4>3
      <4>. QED  BY <3>2, <4>1, <4>2, <4>3, <4>4
    <3>. QED  BY <3>4, <3>8, <3>9, PartOfBeginning
  <2>3. CASE cpc = "done"
    <3>1. Sent = Bytes
      BY <1>2, <2>3 DEF CatRows
    <3>2. Bytes = SubSeq(Bytes, 1, Len(Bytes)) /\ Len(Bytes) \in 0 .. Len(Bytes)
      BY <1>5
    <3>. QED  BY <3>1, <3>2
  <2>4. CASE cpc = "failed"
    BY <1>2, <2>4 DEF CatRows
  <2>. QED  BY <1>2, <2>1, <2>2, <2>3, <2>4 DEF Typed
<1>8. Len(Printed) <= Len(Bytes) /\ Printed = SubSeq(Bytes, 1, Len(Printed))
  <2>1. PICK k \in 0 .. Len(Bytes) : Sent = SubSeq(Bytes, 1, k)
    BY <1>7
  <2>. QED  BY <1>3, <1>5, <2>1, FirstOfBeginning DEF Sent
<1>9. Len(Bytes) \div ws \in Nat /\ Len(Bytes) \div ws < IModulus /\ IModulus \in Nat \ {0}
  <2>1. ws \in {1, 2, 3, 4, 5, 6, 7, 8} /\ Len(Bytes) \in Nat
    BY <1>1, <1>5 DEF RowsInv
  <2>. QED  BY <1>1, <2>1, RomAssumption DEF InRange
<1>10. ASSUME cpc = "done", ipc = "done"
      PROVE  Printed = Bytes /\ n = Len(Bytes) \div ws
  <2>1. /\ Sent = Bytes /\ pipe = <<>> /\ word = <<>>
        /\ n = (Len(FlattenSeq(array)) \div ws) % IModulus
    BY <1>2, <1>10 DEF CatRows, Words
  <2>2. Printed \o <<>> = Printed /\ FlattenSeq(array) \o <<>> = FlattenSeq(array)
    BY <1>2, <1>3, SentType
  <2>3. Printed = Bytes
    BY <2>1, <2>2 DEF Sent
  <2>4. FlattenSeq(array) = Bytes
    BY <2>1, <2>2, <2>3 DEF Printed
  <2>5. (Len(Bytes) \div ws) % IModulus = Len(Bytes) \div ws
    BY <1>9
  <2>. QED  BY <2>1, <2>3, <2>4, <2>5
<1>11. \A k \in 1 .. Len(array) - 1 : Len(array[k]) = ws
  BY <1>2 DEF Words
<1>12. commas = 2 .. Begun
  <2>1. PICK b \in Nat : b = Begun /\ b <= Len(Bytes) \div ws + 1
    <3>1. PICK z \in {1, 2, 3, 4, 5, 6, 7, 8} : z = ws
      BY <1>1 DEF RowsInv
    <3>2. PICK l \in Nat, x \in Nat, a \in Nat :
            /\ l = Len(Bytes) /\ x = Len(FlattenSeq(array)) /\ a = Len(array)
            /\ x + Len(word) = Len(Printed) /\ x <= l
      <4>1. /\ FlattenSeq(array) \in Seq(RomByte) /\ word \in Seq(RomByte)
            /\ array \in Seq(Seq(RomByte))
        BY <1>2, SentType DEF Typed
      <4>2. Len(Printed) = Len(FlattenSeq(array)) + Len(word)
        BY <4>1, ConcatLength DEF Printed
      <4>. QED  BY <1>5, <1>8, <4>1, <4>2
    <3>3. l \div z \in Nat
      BY <3>1, <3>2
    <3>4. CASE ipc = "read"
      <4>1. x = z * a
        BY <1>2, <3>1, <3>2, <3>4 DEF Words
      <4>2. a <= l \div z
        BY <3>1, <3>2, <4>1
      <4>3. Begun \in Nat /\ Begun <= a + 1
        BY <3>2 DEF Begun
      <4>. QED  BY <3>1, <3>2, <3>3, <4>2, <4>3
    <3>5. CASE ipc # "read"
      <4>1. word = <<>> /\ a <= x \div z + 1
        BY <1>2, <3>1, <3>2, <3>5 DEF Words
      <4>2. x \div z <= l \div z
        BY <3>1, <3>2
      <4>3. Begun = a
        BY <3>2, <4>1 DEF Begun
      <4>. QED  BY <3>1, <3>2, <3>3, <4>1, <4>2, <4>3
    <3>. QED  BY <3>4, <3>5
  <2>2. \A k \in 2 .. b : (k - 1) % IModulus = k - 1
    BY <1>9, <2>1
  <2>3. 0 % IModulus = 0
    BY <1>9
  <2>4. commas = { k \in 1 .. b : (k - 1) % IModulus # 0 }
    BY <1>2, <2>1 DEF Words, Commas
  <2>. QED  BY <2>1, <2>2, <2>3, <2>4
<1>. QED  BY <1>8, <1>10, <1>11, <1>12

(* For ROM images of any length, fewer than 256 and up to eight to a       *)
(* chunk, that make fewer than 65536 whole words of up to eight bytes, and *)
(* any pipe: as long as no read fails the header holds their bytes row by  *)
(* row through romcat, the pipe and rom2include, with a comma between any  *)
(* two words, and ROMSIZE is the number of the whole ones, if no file ends *)
(* early in a chunk that another follows and the count of bytes does not   *)
(* wrap within a row.                                                      *)
THEOREM WordsCorrect ==
  RomSpec => []WordsAreRows
<1>1. RomInit => RowsInv
  <2>1. SUFFICES ASSUME RomInit PROVE RowsInv
    OBVIOUS
  <2>2. files \in Seq(Nat \cup {Missing}) /\ stride \in 1 .. 8 /\ ws \in 1 .. 8
    BY <2>1, RomAssumption DEF RomInit
  <2>3. FilesType
    BY <2>2 DEF FilesType
  <2>4. /\ pipe = <<>> /\ word = <<>> /\ array = <<>> /\ failures = 0 /\ c = 0 /\ i = 0
        /\ n = 0 /\ cpc = "open" /\ ipc = "read"
    BY <2>1 DEF RomInit, CatInit, IncludeInit
  <2>5. /\ <<>> \in Seq(RomByte) /\ <<>> \in Seq(Seq(RomByte)) /\ Len(<<>>) = 0
        /\ <<>> \o <<>> = <<>>
    OBVIOUS
  <2>6. Typed
    BY <2>4, <2>5 DEF Typed
  <2>7. FlattenSeq(array) = <<>> /\ Sent = <<>>
    BY <2>4, <2>5, FlattenEmpty DEF Sent, Printed
  <2>8. 0 % IModulus = 0
    BY RomAssumption
  <2>9. WholeTo(c)
    BY <2>3, <2>4, ChunksType DEF WholeTo
  <2>10. i = Len(Before(c)) % IModulus /\ Sent = Before(c)
    BY <2>4, <2>5, <2>7, <2>8, BeforeFirst
  <2>11. CatRows
    BY <2>4, <2>9, <2>10 DEF CatRows
  <2>12. Words
    <3>1. Len(FlattenSeq(array)) = ws * Len(array) /\ n = Len(array) % IModulus
      BY <2>2, <2>4, <2>5, <2>7, <2>8
    <3>2. Commas
      BY <2>1, <2>4, <2>5 DEF IncludeInit, RomInit, Commas, Begun
    <3>. QED  BY <2>2, <2>4, <2>5, <3>1, <3>2 DEF Words
  <2>. QED  BY <2>2, <2>3, <2>4, <2>6, <2>11, <2>12 DEF RowsInv
<1>2. RowsInv /\ [RomNext]_romVars => RowsInv'
  <2>1. ASSUME RowsInv, UNCHANGED romVars PROVE RowsInv'
    <3>1. UNCHANGED <<files, stride, failures, ws, pipe, word, array, commas, n, ipc, cpc>>
          /\ UNCHANGED cat
      BY <2>1 DEF romVars, cat, include
    <3>2. Sent' = Sent /\ (Typed => Typed') /\ (Words => Words')
      BY <3>1 DEF Sent, Printed, Typed, Words, Commas, Begun
    <3>3. CatRows => CatRows'
      BY <3>1, <3>2, CatRowsStay
    <3>. QED  BY <2>1, <3>1, <3>2, <3>3, FilesStay DEF RowsInv
  <2>. QED  BY <2>1, CatKeepsRows, IncludeKeepsRows DEF RomNext
<1>. QED  BY <1>1, <1>2, RowsInvHolds, PTL DEF RomSpec
=============================================================================
