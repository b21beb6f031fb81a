----------------------------- MODULE Cpu6Microword -----------------------------
(***************************************************************************)
(* A microinstruction of the CPU6: 64 bits, written as the set of the bits *)
(* that are one.  uI_decode takes the ALU instruction out of them, and the *)
(* tables of cpu6_ICs.h say which chips listen to which of the same bits:  *)
(* decoders, multiplexers and one addressable latch around the ALU of      *)
(* Am2901Core.  Bit numbers are octal, as in the source.                   *)
(*                                                                         *)
(* What a chip does with its pins is that of its type, named in the        *)
(* comments of the tables (74LS138, 74LS139, 74LS151, 74LS153, 74LS253,    *)
(* 74LS259); the clock and the reset line come from outside.               *)
(***************************************************************************)
EXTENDS Am2901Core, Sequences

CONSTANTS
  uCode,           \* the microinstructions
  Inputs,          \* what the ALU may find on its input pins
  Unset,           \* what the outputs of the ALU may hold at first
  MaxWords         \* bound on the microinstructions run

VARIABLES
  uIW,             \* the microinstruction
  UF11,            \* the eight bits of the addressable latch
  sig,             \* lines from outside the tables
  words            \* microinstructions begun

vars == <<clk, inst, in, lines, internal, outputs, uIW, UF11, sig, words>>

ASSUME MicrowordAssumption ==
  /\ Reg = 0 .. 15
  /\ uCode \subseteq SUBSET (0 .. 63)
  /\ Inputs \subseteq [Cin : Bit, D : Nibble, OE_ : Bit]
  /\ Unset \subseteq Bit
  /\ MaxWords \in Nat

(***************************************************************************)
(* uI_decode.                                                              *)
(***************************************************************************)
BITRANGE(w, s, n) == Value({ k \in 0 .. n - 1 : s + k \in w })

Destination == <<"QREG", "NOP", "RAMA", "RAMF", "RAMQD", "RAMD", "RAMQU", "RAMU">>
Function    == <<"ADD", "SUBR", "SUBS", "OR", "AND", "NOTRS", "EXOR", "EXNOR">>
Source      == <<"AQ", "AB", "ZQ", "ZB", "ZA", "DA", "DQ", "DZ">>

(* Faulty variants stand before the definition they vary.                  *)
uI_decode_Dec50(w) ==              \* a bit number taken for a decimal one
  [ rA   |-> BITRANGE(w, \o57, 4),
    rB   |-> BITRANGE(w, \o53, 4),
    dest |-> Destination[BITRANGE(w, 50, 3) + 1],
    func |-> Function[BITRANGE(w, \o45, 3) + 1],
    src  |-> Source[BITRANGE(w, \o42, 3) + 1] ]

uI_decode(w) ==
  [ rA   |-> BITRANGE(w, \o57, 4),
    rB   |-> BITRANGE(w, \o53, 4),
    dest |-> Destination[BITRANGE(w, \o50, 3) + 1],
    func |-> Function[BITRANGE(w, \o45, 3) + 1],
    src  |-> Source[BITRANGE(w, \o42, 3) + 1] ]

(***************************************************************************)
(* Pins.  An entry that names no source has SRC_SIG and SIG_LO, both 0.    *)
(***************************************************************************)
Bit_(b)   == [src |-> "uIW", at |-> b]
Tied(v)   == [src |-> "force", at |-> v]
Line(s)   == [src |-> "sig", at |-> s]
Unlisted  == Tied(0)
LO(pin)   == [pin |-> pin, active |-> 0]
HI(pin)   == [pin |-> pin, active |-> 1]

Level(pin) ==
  CASE pin.src = "uIW"   -> AsBit(pin.at \in uIW)
    [] pin.src = "force" -> pin.at
    [] pin.src = "sig"   -> sig[pin.at]

IC(en, sel, choice) == [en |-> en, sel |-> sel, choice |-> choice]

(***************************************************************************)
(* The chips: enables, address pins and what the addresses choose.         *)
(***************************************************************************)
UD2A == IC(<<LO(Bit_(\o3))>>, <<Bit_(\o0), Bit_(\o1)>>,
  <<"NSWAPR", "RF", "IAB_MSB", "IAB_LSB">>)

UD3 == IC(<<LO(Tied(0)), LO(Tied(0)), HI(Bit_(\o3))>>,
  <<Bit_(\o0), Bit_(\o1), Bit_(\o2)>>,
  <<"SYS_ABUS_EXT", "COND_LSN", "SYS_DBUS", "IL", "COND_MSN", "uC_CONST">>)

UE6 == IC(<<LO(Tied(0)), LO(Tied(0)), HI(Tied(1))>>,
  <<Bit_(\o4), Bit_(\o5), Bit_(\o6)>>,
  <<"idle", "RR", "RIR", "UD9", "PTBAR", "WAR2MAR", "SEQ_AR", "M12">>)

UK11_Ungated == IC(<<LO(Tied(0)), LO(Tied(0)), HI(Tied(1))>>,
  <<Bit_(\o7), Bit_(\o10), Bit_(\o11)>>,
  <<"RF", "UL13A", "UM13", "UF11", "O4", "O5", "WAR_LSB", "SysDB">>)

UK11 == IC(<<LO(Line("ClockB1_")), LO(Line("ClockB1_")), HI(Tied(1))>>,
  <<Bit_(\o7), Bit_(\o10), Bit_(\o11)>>,
  <<"RF", "UL13A", "UM13", "UF11", "O4", "O5", "WAR_LSB", "SysDB">>)

(* The enables tied to ground are listed as active high.                   *)
UH11 == IC(<<HI(Tied(0)), HI(Tied(0)), HI(Tied(1))>>,
  <<Bit_(\o12), Bit_(\o13), Bit_(\o14)>>,
  <<"O0", "RDIN", "WTIN", "WAR_MSB", "O4", "O5", "MAPROM", "NSWAPR">>)

UE7 == IC(<<LO(Tied(0)), LO(Tied(0)), HI(Line("BUS_RESET_NEXT_"))>>,
  <<Bit_(\o15), Bit_(\o16), Tied(0)>>,
  <<"O0", "E8A", "FLR", "MESS">>)

(* The sources of the shifter going down, of it going up, and the carry's. *)
UH6a == IC(<<LO(Bit_(\o51))>>, <<Bit_(\o63), Bit_(\o64)>>,
  <<"SIGN", "LO", "Q0", "Cout">>)
UH6b == IC(<<HI(Bit_(\o51))>>, <<Bit_(\o63), Bit_(\o64)>>,
  <<"RAM7", "LO", "SIGN", "Cout">>)
UF6a == IC(<<LO(Tied(0))>>, <<Bit_(\o63), Bit_(\o64)>>,
  <<"LO", "HI", "Cout", "I3">>)

(* The conditions.                                                         *)
UJ12a == IC(<<LO(Unlisted)>>, <<Bit_(\o20), Bit_(\o21)>>,
  <<"I0", "FLR_SIGN", "I2", "FLR_SIGN">>)
UJ12b == IC(<<LO(Unlisted)>>, <<Bit_(\o20), Bit_(\o21)>>,
  <<"I0", "FLR_ZERO", "I2", "I3">>)
UK9 == IC(<<LO(Bit_(\o57))>>, <<Bit_(\o20), Bit_(\o21), Bit_(\o22)>>,
  <<"I0", "I1", "I2", "I3", "I4", "I5", "I6", "I7">>)
UJ11 == IC(<<LO(Bit_(\o22))>>, <<Bit_(\o23), Bit_(\o24), Line("FLR_SIGN")>>,
  <<"I0", "I1", "I2", "I3", "I4", "I5", "I6", "I7">>)
UJ13a == IC(<<LO(Bit_(\o41))>>, <<Bit_(\o20), Bit_(\o21)>>,
  <<"I0", "HalfCarry", "I2", "I3">>)
UJ13b == IC(<<LO(Bit_(\o41))>>, <<Bit_(\o20), Bit_(\o21)>>,
  <<"Zero", "I1", "UB12A", "I3">>)
UK13a == IC(<<LO(Bit_(\o41))>>, <<Bit_(\o22), Bit_(\o23)>>,
  <<"UM12", "UF13.0", "UF13.1", "I3">>)
UK13b == IC(<<LO(Bit_(\o41))>>, <<Bit_(\o22), Bit_(\o23)>>,
  <<"I0", "UF13.4", "UF13.3", "UK10D">>)
UJ10_DecimalAsOctal == IC(<<LO(Bit_(\o21))>>, <<Bit_(\o22), Bit_(\o23), Unlisted>>,
  <<"UM12", "INV", "Link", "I3", "R-Bus", "RAM7", "RAM0", "Q0">>)

UJ10 == IC(<<LO(Bit_(\o25))>>, <<Bit_(\o26), Bit_(\o27), Unlisted>>,
  <<"UM12", "INV", "Link", "I3", "R-Bus", "RAM7", "RAM0", "Q0">>)

ICs == [ UD2A |-> UD2A, UD3 |-> UD3, UE6 |-> UE6, UK11 |-> UK11, UH11 |-> UH11,
         UE7 |-> UE7, UH6a |-> UH6a, UH6b |-> UH6b, UF6a |-> UF6a,
         UJ12a |-> UJ12a, UJ12b |-> UJ12b, UK9 |-> UK9, UJ11 |-> UJ11,
         UJ13a |-> UJ13a, UJ13b |-> UJ13b, UK13a |-> UK13a, UK13b |-> UK13b,
         UJ10 |-> UJ10 ]

(* The chip types: an enabled chip passes on the choice that its address   *)
(* pins, lowest first, make.                                               *)
Enabled(ic)  == \A k \in DOMAIN ic.en : Level(ic.en[k].pin) = ic.en[k].active
Selected(ic) == Value({ k \in 0 .. Len(ic.sel) - 1 : Level(ic.sel[k + 1]) = 1 })
Choice(ic)   == IF Enabled(ic) /\ Selected(ic) < Len(ic.choice)
                THEN ic.choice[Selected(ic) + 1] ELSE "none"

(* The line of the ALU that a chip's list of outputs gives it.  The text   *)
(* beside UH6b's says Q0; the line is RAM7, UH6a's as well.                *)
Feeds == [ UH6a |-> "RAM7", UH6b |-> "RAM7", UF6a |-> "Cin" ]

Drivers(line) ==
  { chip \in DOMAIN Feeds : Feeds[chip] = line /\ Choice(ICs[chip]) # "none" }

(***************************************************************************)
(* The latch UF11: D goes to the bit addressed while K11.3 is low, and the *)
(* bus reset clears all bits.                                              *)
(***************************************************************************)
Cleared == [k \in 0 .. 7 |-> 0]

Latched ==
  IF sig.BUSRESET_ = 0 THEN Cleared
  ELSE IF Choice(UK11) = "UF11"
  THEN [UF11 EXCEPT ![Value({ k \in 0 .. 2 : \o54 + k \in uIW })] = Level(Bit_(\o53))]
  ELSE UF11

(***************************************************************************)
(* Steps.                                                                  *)
(***************************************************************************)
Init ==
  /\ CoreInit /\ clk = "LO"
  /\ uIW \in uCode /\ inst = uI_decode(uIW) /\ in \in Inputs
  /\ \E b \in Unset : /\ flags = [Cout |-> b, OVR |-> b, FZ |-> b, F3 |-> b]
                      /\ look = [P_ |-> b, G_ |-> b] /\ Y = 15 * b
                      /\ sig = [ClockB1_ |-> 1, BUSRESET_ |-> 1,
                                BUS_RESET_NEXT_ |-> 1, FLR_SIGN |-> b]
  /\ UF11 = Cleared
  /\ words = 1

NextClock(c) == CASE c = "LO" -> "LH" [] c = "LH" -> "HI"
                  [] c = "HI" -> "HL" [] c = "HL" -> "LO"

(* A clock state of the ALU, and the clock line's move to the next.        *)
AluStep ==
  /\ CoreUpdate
  /\ clk' = NextClock(clk)
  /\ UNCHANGED <<uIW, UF11, sig, words>>

(* The next microinstruction, on the pins before the destination decodes.  *)
Fetch ==
  /\ clk = "HI" /\ words < MaxWords /\ sig.ClockB1_ = 1
  /\ uIW' \in uCode /\ inst' = uI_decode(uIW') /\ in' \in Inputs
  /\ words' = words + 1
  /\ UNCHANGED <<clk, lines, internal, outputs, UF11, sig>>

(* The other clock and the reset line move when the latch has settled.     *)
Outside(moved) ==
  /\ clk = "LO" /\ UF11 = Latched
  /\ sig' = moved
  /\ UNCHANGED <<clk, inst, in, lines, internal, outputs, uIW, UF11, words>>

ClockB   == Outside([sig EXCEPT !.ClockB1_ = 1 - @])
BusReset == Outside([sig EXCEPT !.BUSRESET_ = 1 - @, !.BUS_RESET_NEXT_ = 1 - @])

LatchFollows ==
  /\ UF11 # Latched /\ UF11' = Latched
  /\ UNCHANGED <<clk, inst, in, lines, internal, outputs, uIW, sig, words>>

Next == AluStep \/ Fetch \/ ClockB \/ BusReset \/ LatchFollows

Spec == Init /\ [][Next]_vars

(***************************************************************************)
(* Properties.                                                             *)
(***************************************************************************)
(* Who drives the shifters' lines, by the tables, once a destination has   *)
(* been decoded.  Going down the ALU takes a bit in at RAM7, and UH6a      *)
(* alone drives it.  Going up it takes one in at Q0, which nobody drives,  *)
(* and puts one out at RAM7, against which UH6b drives: the listed output, *)
(* not the text beside it.  The direction comes out of uI_decode and       *)
(* am2901_destinations; the multiplexers look at one bit of the word.      *)
ShiftersAreDriven ==
  dst = destinations[inst.dest] =>
    /\ dst.RAM3 = "I" => Drivers("RAM7") = {"UH6a"}
    /\ dst.Q0 = "I"   => /\ Drivers("Q0") = {} /\ dst.RAM3 = "O"
                         /\ Drivers("RAM7") = {"UH6b"}

(* The latch changes under the other clock only, in a word that chooses    *)
(* K11.3, and then in the bit that the same word names as register B:      *)
(* uI_decode's rB is the latch's address and data.                         *)
LatchKeepsItsBits ==
  [][UF11' # UF11 /\ sig.BUSRESET_ = 1 =>
       /\ sig.ClockB1_ = 0 /\ BITRANGE(uIW, 7, 3) = 3
       /\ UF11' = [UF11 EXCEPT ![inst.rB \div 2] = inst.rB % 2]]_vars

(* The bits that the comment above each chip's tables names, in decimal.   *)
(* The comments of UJ13 and UK13 name other address bits (025:024 and      *)
(* 027:026) than their tables, whose bits are taken for these.             *)
Commented ==
  [ UD2A |-> {0, 1, 3}, UD3 |-> 0 .. 3, UE6 |-> 4 .. 6, UK11 |-> 7 .. 9,
    UH11 |-> 10 .. 12, UE7 |-> {13, 14}, UH6a |-> {41, 51, 52},
    UH6b |-> {41, 51, 52}, UF6a |-> {51, 52}, UJ12a |-> {16, 17},
    UJ12b |-> {16, 17}, UK9 |-> {47, 16, 17, 18}, UJ11 |-> 18 .. 20,
    UJ13a |-> {33, 16, 17}, UJ13b |-> {33, 16, 17},
    UK13a |-> {33, 18, 19}, UK13b |-> {33, 18, 19}, UJ10 |-> 21 .. 23 ]

(* Whether a chip is enabled and what its address pins select depends on   *)
(* the bits named, and on no other bit of the word: two words that agree   *)
(* there make it select alike.                                             *)
ListensAsCommented ==
  [][uIW' # uIW => \A chip \in DOMAIN Commented :
       uIW' \cap Commented[chip] = uIW \cap Commented[chip] =>
         /\ Enabled(ICs[chip])' <=> Enabled(ICs[chip])
         /\ Selected(ICs[chip])' = Selected(ICs[chip])]_vars

(* The library core is the slice of ALU_am2901.c: each of its clock states *)
(* does to registers, lines and carries what am2901_update does.  The zero *)
(* flag is not compared: here it is a flag, there an open collector.       *)
Row_(d) == CHOOSE name \in DOMAIN destinations : destinations[name] = d
Slice == INSTANCE Am2901 WITH
  D <- in.D, Cn <- in.Cin, Co <- flags.Cout, FZ <- 0,
  look <- [P_ |-> look.P_, G_ |-> look.G_, OVR |-> flags.OVR],
  dest <- Row_(dst)
CoreIsSlice == [][clk' # clk => Slice!Update]_vars

(* Once a function has been decoded, the flags and Y are those of the      *)
(* result that the core holds, in every clock state.                       *)
OutputsAreCurrent ==
  words > 1 =>
    /\ flags.FZ = 1 <=> F = 0
    /\ flags.F3 = F \div 8
    /\ in.OE_ = 0 /\ clk # "HI" => Y = (IF dst.Y = "A" THEN A ELSE F)
=============================================================================
