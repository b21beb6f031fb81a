----------------------------- MODULE Am2901Chain -----------------------------
(***************************************************************************)
(* Two Am2901 slices as one ALU of eight bits, wired and driven as by      *)
(* am2901_main: alu0 holds the low nibble; the carry and the shift lines   *)
(* RAM3 and Q3 between the slices are shared; both zero flags pull one     *)
(* line.  For each instruction the driver sets the pins, updates both      *)
(* slices, and then four times advances the clock and updates both, alu0   *)
(* before alu1.  The clock line itself (clock_init, clock_advance) is not  *)
(* in the repository: from LO it goes to LH, HI, HL and LO again.          *)
(***************************************************************************)
EXTENDS Integers

CONSTANTS
  Reg,             \* register addresses
  Program,         \* the instructions, with a byte of data and a carry in
  Length,          \* how many instructions the driver runs (its own run 4)
  Leftover         \* what the lines nobody initialises may hold

Line == {"RAM0", "RAM3", "RAM7", "Q0", "Q3", "Q7", "C0", "C4", "FC", "FZ",
         "P_0", "G_0", "OVR0", "P_1", "G_1", "FV"}

VARIABLES
  clk, inst,
  RAM0, RAM3, RAM7, Q0, Q3, Q7,       \* shift lines, from low to high
  C0, C4, FC,                         \* carries, from low to high
  FZ,                                 \* the zero line
  RAMl, Al, Bl, Ql, Fl, destl, lookl, \* alu0
  RAMh, Ah, Bh, Qh, Fh, desth, lookh, \* alu1
  turn,            \* what the driver does next
  advanced,        \* clock_advance calls since the pins were set
  run              \* instructions begun

alu0 == INSTANCE Am2901 WITH
  D <- inst.D % 16, Cn <- C0, Co <- C4, look <- lookl,
  RAM <- RAMl, A <- Al, B <- Bl, Q <- Ql, F <- Fl, dest <- destl

alu1 == INSTANCE Am2901 WITH
  D <- inst.D \div 16, Cn <- C4, Co <- FC, look <- lookh,
  RAM0 <- RAM3, RAM3 <- RAM7, Q0 <- Q3, Q3 <- Q7,
  RAM <- RAMh, A <- Ah, B <- Bh, Q <- Qh, F <- Fh, dest <- desth

low    == <<RAMl, Al, Bl, Ql, Fl, destl, lookl>>
high   == <<RAMh, Ah, Bh, Qh, Fh, desth, lookh>>
lines  == <<RAM0, RAM3, RAM7, Q0, Q3, Q7, C0, C4, FC, FZ>>
driver == <<turn, advanced, run, clk, inst>>
vars   == <<low, high, lines, driver>>

Bit  == {0, 1}
Byte == 0 .. 255
Instruction ==
  [ src : alu0!Sources, func : alu0!Functions8, dest : alu0!Destinations,
    rA : Reg, rB : Reg, D : Byte, Cin : Bit ]

ASSUME ChainAssumption ==
  /\ Program \subseteq Instruction
  /\ Length \in Nat
  /\ Leftover \subseteq [Line -> Bit]

Init ==
  /\ alu0!InitSlice /\ alu1!InitSlice
  /\ \E l \in Leftover :
       /\ RAM0 = l["RAM0"] /\ RAM3 = l["RAM3"] /\ RAM7 = l["RAM7"]
       /\ Q0 = l["Q0"] /\ Q3 = l["Q3"] /\ Q7 = l["Q7"]
       /\ C0 = l["C0"] /\ C4 = l["C4"] /\ FC = l["FC"] /\ FZ = l["FZ"]
       /\ lookl = [P_ |-> l["P_0"], G_ |-> l["G_0"], OVR |-> l["OVR0"]]
       /\ lookh = [P_ |-> l["P_1"], G_ |-> l["G_1"], OVR |-> l["FV"]]
  /\ clk = "LO" /\ inst \in Program
  /\ turn = "set" /\ advanced = 0 /\ run = 0

NextState(c) == CASE c = "LO" -> "LH" [] c = "LH" -> "HI"
                  [] c = "HI" -> "HL" [] c = "HL" -> "LO"

(* Pull up the zero line and put an instruction on the pins.               *)
SetPins ==
  /\ turn = "set" /\ run < Length
  /\ inst' \in Program
  /\ C0' = inst'.Cin /\ FZ' = 1
  /\ turn' = "alu0" /\ advanced' = 0 /\ run' = run + 1
  /\ UNCHANGED <<low, high, clk, RAM0, RAM3, RAM7, Q0, Q3, Q7, C4, FC>>

UpdateLow ==
  /\ turn = "alu0"
  /\ alu0!Update
  /\ turn' = "alu1"
  /\ UNCHANGED <<high, RAM7, Q7, C0, FC, advanced, run, clk, inst>>

UpdateHigh ==
  /\ turn = "alu1"
  /\ alu1!Update
  /\ turn' = IF advanced < 4 THEN "clock" ELSE "set"
  /\ UNCHANGED <<low, RAM0, Q0, C0, C4, advanced, run, clk, inst>>

Advance ==
  /\ turn = "clock"
  /\ clk' = NextState(clk)
  /\ advanced' = advanced + 1 /\ turn' = "alu0"
  /\ UNCHANGED <<low, high, lines, run, inst>>

Next == SetPins \/ UpdateLow \/ UpdateHigh \/ Advance

Spec == Init /\ [][Next]_vars

(***************************************************************************)
(* Properties.                                                             *)
(***************************************************************************)
TypeOK ==
  /\ alu0!SliceTypeOK /\ alu1!SliceTypeOK
  /\ C0 \in Bit
  /\ clk \in {"LO", "LH", "HI", "HL"} /\ inst \in Program
  /\ turn \in {"set", "alu0", "alu1", "clock"}
  /\ advanced \in 0 .. 4 /\ run \in 0 .. Length

(* The operands and the result, as bytes.  R and S after the complement    *)
(* that some functions ask for are alu0!R + 16 * alu1!R, and so on.        *)
ByteR == alu0!Rmux + 16 * alu1!Rmux
ByteS == alu0!Smux + 16 * alu1!Smux
ByteF == Fl + 16 * Fh

(* alu1 completes what alu0 began in the same state of the clock.          *)
Completes(c) == turn = "alu1" /\ clk = c /\ turn' # turn
Begins(c)    == turn = "alu0" /\ clk = c /\ turn' # turn

(* Through the carry C4 two slices add and subtract bytes, and FC is the   *)
(* ninth bit (am2901_function_decode, after am2901_main's wiring).         *)
SumIsExact ==
  [][Completes("LO") /\ inst.func \in alu0!Arithmetic =>
       ByteF' + 256 * FC' = (alu0!R + 16 * alu1!R) + (alu0!S + 16 * alu1!S) + C0]_vars

(* Every function computes on bytes what its symbol in the table           *)
(* am2901_function_symbol says.                                            *)
Weights == {1, 2, 4, 8, 16, 32, 64, 128}
MeansSymbol(func, r, s, c, f) ==
  LET has(n, w) == (n \div w) % 2 = 1
  IN CASE func = "ADD"   -> f = (r + s + c) % 256
       [] func = "SUBR"  -> f = (s - r - 1 + c) % 256
       [] func = "SUBS"  -> f = (r - s - 1 + c) % 256
       [] func = "OR"    -> \A w \in Weights : has(f, w) <=> has(r, w) \/ has(s, w)
       [] func = "AND"   -> \A w \in Weights : has(f, w) <=> has(r, w) /\ has(s, w)
       [] func = "NOTRS" -> \A w \in Weights : has(f, w) <=> ~has(r, w) /\ has(s, w)
       [] func = "EXOR"  -> \A w \in Weights : has(f, w) <=> (has(r, w) # has(s, w))
       [] func = "EXNOR" -> \A w \in Weights : has(f, w) <=> (has(r, w) = has(s, w))
FunctionsAsNamed ==
  [][Completes("LO") => MeansSymbol(inst.func, ByteR, ByteS, C0, ByteF')]_vars

(* A lookahead generator fed with P_ and G_ of both slices finds the carry *)
(* that has rippled through them.                                          *)
LookaheadAgrees ==
  [][Completes("LO") /\ inst.func \in alu0!Arithmetic =>
       (FC' = 1 <=> \/ lookh'.G_ = 0
                    \/ lookh'.P_ = 0 /\ lookl'.G_ = 0
                    \/ lookh'.P_ = 0 /\ lookl'.P_ = 0 /\ C0 = 1)]_vars

(* "RAMU, F*2->B": the bit that leaves alu0 enters alu1 in the same state  *)
(* of the clock.  "RAMQD, Q/2->Q": the bit that leaves alu1 waits on Q3    *)
(* for alu0.                                                               *)
ShiftsCross ==
  [][/\ Completes("LO") /\ desth \in {"RAMQU", "RAMU"} =>
          RAMl'[inst.rB] + 16 * RAMh'[inst.rB] = (2 * ByteF' + RAM0) % 256
     /\ Begins("LH") /\ destl = "RAMQD" => Ql' = ((Ql + 16 * Qh) \div 2) % 16]_vars

(* When an instruction is over and the zero line is still up, the result   *)
(* is zero.                                                                *)
ZeroFlagIsSound ==
  turn = "set" /\ run > 0 /\ FZ = 1 => ByteF = 0

(* An instruction that stores its result has stored it in both slices.     *)
ResultIsStored ==
  turn = "set" /\ run > 0 /\ inst.dest \in {"RAMA", "RAMF"} =>
    RAMl[inst.rB] + 16 * RAMh[inst.rB] = ByteF
=============================================================================
