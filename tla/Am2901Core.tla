------------------------------ MODULE Am2901Core ------------------------------
(***************************************************************************)
(* The second version of the Am2901 slice, ALU_am2901_core.c: the slice as *)
(* a library of functions on one structure.  The functions are called as   *)
(* ALU_am2901_device.c calls them in the four states of the clock, that    *)
(* file being the only one that says in which order they belong.           *)
(*                                                                         *)
(* Unlike Am2901, the multiplexers are state: they hold the letters of the *)
(* tables am2901_source_operands and am2901_destinations until the next    *)
(* instruction is decoded.  Nibbles are read as sets of bit positions.     *)
(***************************************************************************)
EXTENDS Integers

CONSTANT Reg                 \* the register addresses, 0 .. 15

Bit       == {0, 1}
Nibble    == 0 .. 15
Positions == 0 .. 3

VARIABLES
  clk,                       \* the state of the clock line
  inst,                      \* the instruction: src, func, dest, rA, rB
  in,                        \* the input pins: Cin, D, OE_
  RAM0, RAM3, Q0, Q3,        \* the tristate lines of the two shifters
  RAM, A, B, Q, F,           \* registers, latches and result
  Rmux, Smux, dst,           \* what the multiplexers were set to
  flags, look, Y             \* the outputs: [Cout, OVR, FZ, F3], [P_, G_]

lines    == <<RAM0, RAM3, Q0, Q3>>
internal == <<RAM, A, B, Q, F, Rmux, Smux, dst>>
outputs  == <<flags, look, Y>>

(***************************************************************************)
(* The tables of the header, by the mnemonics of their rows.               *)
(***************************************************************************)
source_operands ==
  [ AQ |-> <<"A", "Q">>, AB |-> <<"A", "B">>, ZQ |-> <<"0", "Q">>,
    ZB |-> <<"0", "B">>, ZA |-> <<"0", "A">>, DA |-> <<"D", "A">>,
    DQ |-> <<"D", "Q">>, DZ |-> <<"D", "0">> ]

Row(y, ram_we, ram, ram0, ram3, q_we, q, q0, q3) ==
  [ Y |-> y, RAM_WE |-> ram_we, RAM |-> ram, RAM0 |-> ram0, RAM3 |-> ram3,
    Q_WE |-> q_we, Q |-> q, Q0 |-> q0, Q3 |-> q3 ]

destinations ==
  [ QREG  |-> Row("F", 0, "N", "Z", "Z", 1, "N", "Z", "Z"),
    NOP   |-> Row("F", 0, "N", "Z", "Z", 0, "N", "Z", "Z"),
    RAMA  |-> Row("A", 1, "N", "Z", "Z", 0, "N", "Z", "Z"),
    RAMF  |-> Row("F", 1, "N", "Z", "Z", 0, "N", "Z", "Z"),
    RAMQD |-> Row("F", 1, "D", "O", "I", 1, "D", "O", "I"),
    RAMD  |-> Row("F", 1, "D", "O", "I", 0, "D", "O", "Z"),
    RAMQU |-> Row("F", 1, "U", "I", "O", 1, "U", "I", "O"),
    RAMU  |-> Row("F", 1, "U", "I", "O", 0, "U", "Z", "O") ]

(***************************************************************************)
(* am2901_core_init and am2901_shifter_init.  The flags and Y belong to    *)
(* the caller and are cleared by neither.                                  *)
(***************************************************************************)
CoreInit ==
  /\ RAM = [r \in Reg |-> 0] /\ A = 0 /\ B = 0 /\ Q = 0 /\ F = 0
  /\ Rmux = "A" /\ Smux = "A"
  /\ dst = destinations.NOP
  /\ RAM0 = 0 /\ RAM3 = 0 /\ Q0 = 0 /\ Q3 = 0

(***************************************************************************)
(* Reading the multiplexers.                                               *)
(***************************************************************************)
ReadMux(mux) == CASE mux = "0" -> 0  [] mux = "D" -> in.D
                  [] mux = "A" -> A  [] mux = "B" -> B  [] mux = "Q" -> Q

(* One shifter: n moved down or up with the bit of a line, or F loaded.    *)
Shifter(mux, n, lsb, msb, f) ==
  CASE mux = "D" -> n \div 2 + 8 * msb
    [] mux = "N" -> f
    [] mux = "U" -> (2 * n + lsb) % 16

(***************************************************************************)
(* am2901_function_decode on the sets of bits R and S.                     *)
(***************************************************************************)
BitsOf(n)  == { k \in Positions : (n \div 2 ^ k) % 2 = 1 }
AsBit(b)   == IF b THEN 1 ELSE 0
Value(bits) == AsBit(0 \in bits) + 2 * AsBit(1 \in bits)
               + 4 * AsBit(2 \in bits) + 8 * AsBit(3 \in bits)

Arithmetic == {"ADD", "SUBR", "SUBS"}

Operand(r, complementing) ==
  IF inst.func \in complementing THEN Positions \ BitsOf(r) ELSE BitsOf(r)
R == Operand(ReadMux(Rmux), {"SUBR", "NOTRS", "EXOR"})
S == Operand(ReadMux(Smux), {"SUBS"})
P == R \cup S
G == R \cap S
Carry[k \in 0 .. 4] ==
  IF k = 0 THEN in.Cin = 1 ELSE (k - 1) \in G \/ ((k - 1) \in P /\ Carry[k - 1])

(* Bit k generates and every bit above it, up to 3, propagates.            *)
GeneratesFrom(k) == k \in G /\ \A j \in k + 1 .. 3 : j \in P
ExG == Positions \subseteq P \/ \E k \in 1 .. 3 : GeneratesFrom(k)
Ex(n) == \/ \E k \in 0 .. n : k \notin P /\ \A j \in k + 1 .. n : j \notin G
         \/ in.Cin = 1 /\ \A j \in 0 .. n : j \notin G

Result ==
  CASE inst.func \in Arithmetic        -> (Value(R) + Value(S) + in.Cin) % 16
    [] inst.func = "OR"                -> Value(P)
    [] inst.func \in {"AND", "NOTRS"}  -> Value(G)
    [] inst.func \in {"EXOR", "EXNOR"} -> Value(G \cup (Positions \ P))

CarryOut ==
  CASE inst.func \in Arithmetic        -> Carry[4]
    [] inst.func = "OR"                -> P # Positions \/ in.Cin = 1
    [] inst.func \in {"AND", "NOTRS"}  -> G # {} \/ in.Cin = 1
    [] inst.func \in {"EXOR", "EXNOR"} -> ~(ExG /\ (0 \in G \/ in.Cin = 0))

Overflow ==
  CASE inst.func \in Arithmetic        -> Carry[3] # Carry[4]
    [] inst.func \in {"OR", "AND", "NOTRS"} -> CarryOut
    [] inst.func \in {"EXOR", "EXNOR"} -> Ex(2) # Ex(3)

Lookahead ==
  LET row(p, g) == [P_ |-> AsBit(p), G_ |-> AsBit(g)]
  IN CASE inst.func \in Arithmetic        ->
            row(P # Positions, \A k \in Positions : ~GeneratesFrom(k))
       [] inst.func = "OR"                -> row(FALSE, P = Positions)
       [] inst.func \in {"AND", "NOTRS"}  -> row(FALSE, G = {})
       [] inst.func \in {"EXOR", "EXNOR"} -> row(G # {}, ExG)

FlagsOf(f) == [ Cout |-> AsBit(CarryOut), OVR |-> AsBit(Overflow),
                FZ |-> AsBit(f = 0), F3 |-> f \div 8 ]

(***************************************************************************)
(* The functions of the library, and the clock states that call them.      *)
(* setup_L sets the multiplexers before the function reads them, so the    *)
(* function is that of the multiplexers after the step.                    *)
(***************************************************************************)
edge_HL ==                         \* am2901_latch_AB
  /\ A' = RAM[inst.rA] /\ B' = RAM[inst.rB]
  /\ UNCHANGED <<RAM, Q, F, Rmux, Smux, dst, look>>

source_operand_decode ==
  /\ Rmux' = source_operands[inst.src][1]
  /\ Smux' = source_operands[inst.src][2]

function_decode_Stale ==           \* the multiplexers of the cycle before
  /\ F' = Result
  /\ look' = Lookahead

function_decode ==
  /\ F' = Result'
  /\ look' = Lookahead'

update_RAM ==
  RAM' = IF dst.RAM_WE = 1
         THEN [RAM EXCEPT ![inst.rB] = Shifter(dst.RAM, F', RAM0, RAM3, F')]
         ELSE RAM

setup_L ==
  /\ UNCHANGED <<A, B, Q, dst>>
  /\ source_operand_decode /\ function_decode /\ update_RAM

edge_LH ==                         \* am2901_update_Q
  /\ Q' = IF dst.Q_WE = 1 THEN Shifter(dst.Q, Q, Q0, Q3, F) ELSE Q
  /\ UNCHANGED <<RAM, A, B, F, Rmux, Smux, dst, look>>

setup_H ==                         \* am2901_destination_decode
  /\ dst' = destinations[inst.dest]
  /\ UNCHANGED <<RAM, A, B, Q, F, Rmux, Smux, look>>

Drive(dir, line, bit) == IF dir = "O" THEN bit ELSE line

update_shifter ==
  /\ Q0'   = Drive(dst'.Q0, Q0, Q' % 2)
  /\ Q3'   = Drive(dst'.Q3, Q3, Q' \div 8)
  /\ RAM0' = Drive(dst'.RAM0, RAM0, F' % 2)
  /\ RAM3' = Drive(dst'.RAM3, RAM3, F' \div 8)

update_outputs_Late ==             \* Y follows the result of the state before
  /\ flags' = [ (IF clk = "LO" THEN FlagsOf(F)' ELSE flags)
                EXCEPT !.FZ = IF F' # 0 THEN 0 ELSE @, !.F3 = F' \div 8 ]
  /\ Y' = IF in.OE_ = 1 THEN Y ELSE IF dst'.Y = "A" THEN A' ELSE F

(* function_decode has set the flags in the state LO.                      *)
update_outputs ==
  /\ flags' = [ (IF clk = "LO" THEN FlagsOf(F)' ELSE flags)
                EXCEPT !.FZ = IF F' # 0 THEN 0 ELSE @, !.F3 = F' \div 8 ]
  /\ Y' = IF in.OE_ = 1 THEN Y ELSE IF dst'.Y = "A" THEN A' ELSE F'

CoreUpdate ==
  /\ UNCHANGED <<inst, in>>
  /\ CASE clk = "HL" -> edge_HL
       [] clk = "LO" -> setup_L
       [] clk = "LH" -> edge_LH
       [] clk = "HI" -> setup_H
  /\ update_shifter /\ update_outputs
=============================================================================
