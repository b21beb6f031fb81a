----------------------------- MODULE Cpu6Machine -----------------------------
(***************************************************************************)
(* CPU6_eval_op, the instruction-set emulator: one call after the other,   *)
(* with any operation code or with the one that CPU6_run_next_instruction  *)
(* fetches.  The registers of the sixteen interrupt levels are the first   *)
(* 256 bytes of memory; the bus behind them answers 0 to every read and    *)
(* drops every write.                                                      *)
(*                                                                         *)
(* The dispatch compares op & 0xf0 with group numbers 0 .. 0xf: only the   *)
(* control group, whose number is 0, is ever found.                        *)
(***************************************************************************)
EXTENDS Integers, FiniteSets

CONSTANTS
  Ops,             \* operation codes the emulator is called with
  Images,          \* initial contents of the register file
  Counters,        \* initial program counters
  MaxCalls         \* bound on the calls

Byte    == 0 .. 255
Word    == 0 .. 65535
Address == Word
Flags   == {"F", "L", "M", "V"}

ASSUME MachineAssumption ==
  /\ Ops \subseteq Byte
  /\ Images \subseteq [Byte -> Byte]
  /\ Counters \subseteq Address
  /\ MaxCalls \in Nat

VARIABLES
  run, PC, flags, RF, IE, LV, MAP,
  op,              \* the argument of the last call
  ret,             \* what it returned
  calls

machine == <<run, flags, RF, IE, LV, MAP>>
vars == <<machine, PC, op, ret, calls>>

Init ==
  /\ run = 1 /\ IE = 0 /\ MAP = 0
  /\ PC \in Counters /\ flags \in SUBSET {"F", "L"} /\ RF \in Images
  /\ LV \in {0, 1}
  /\ op = 1 /\ ret = 0 /\ calls = 0

(***************************************************************************)
(* Memory, and the registers in it.  A level may be any byte: registers of *)
(* a level beyond 15 lie outside the register file.                        *)
(***************************************************************************)
X == 4
S == 10
C == 12

Read(rf, a)      == IF a \in Byte THEN rf[a] ELSE 0
Write(rf, a, v)  == IF a \in Byte THEN [rf EXCEPT ![a] = v] ELSE rf
ReadWord(rf, a)  == 256 * Read(rf, a) + Read(rf, (a + 1) % 65536)
WriteWord(rf, a, v) == Write(Write(rf, a, v \div 256), (a + 1) % 65536, v % 256)

ILREG(r) == 16 * LV + r

(* CPU6_stack_pop_byte: the pointer moves before the byte is read.         *)
Pop(rf) ==
  LET sp == ReadWord(rf, ILREG(S))
      moved == WriteWord(rf, ILREG(S), (sp + 1) % 65536)
  IN [rf |-> moved, val |-> Read(moved, sp)]

PopWord(rf) ==
  LET msb == Pop(rf)
      lsb == Pop(msb.rf)
  IN [rf |-> lsb.rf, val |-> 256 * msb.val + lsb.val]

(***************************************************************************)
(* The control group.                                                      *)
(***************************************************************************)
Halt == run' = 0 /\ UNCHANGED <<flags, RF, IE, LV, MAP>>

SetFlags(f)    == flags' = flags \cup f /\ UNCHANGED <<run, RF, IE, LV, MAP>>
ClearFlags(f)  == flags' = flags \ f    /\ UNCHANGED <<run, RF, IE, LV, MAP>>
ToggleFlags(f) ==
  flags' = (flags \ f) \cup (f \ flags) /\ UNCHANGED <<run, RF, IE, LV, MAP>>

SetIE(v) == IE' = v /\ UNCHANGED <<run, flags, RF, LV, MAP>>

TransferPCtoX(pc) ==
  RF' = WriteWord(RF, ILREG(X), pc) /\ UNCHANGED <<run, flags, IE, LV, MAP>>

ReturnSub ==
  LET link == PopWord(RF)
  IN /\ RF' = WriteWord(link.rf, ILREG(X), link.val)
     /\ UNCHANGED <<run, flags, IE, LV, MAP>>

FlagsValue ==
    (IF "F" \in flags THEN 1 ELSE 0) + (IF "L" \in flags THEN 2 ELSE 0)
  + (IF "M" \in flags THEN 4 ELSE 0) + (IF "V" \in flags THEN 8 ELSE 0)

(* | on bytes.                                                             *)
Or(a, b) ==
  LET at(w) == IF (a \div w) % 2 = 1 \/ (b \div w) % 2 = 1 THEN w ELSE 0
  IN at(1) + at(2) + at(4) + at(8) + at(16) + at(32) + at(64) + at(128)

(* CPU6_return_int(m, 'M').  MAP may be wider than the nibble it is or'ed  *)
(* into.                                                                   *)
ReturnModified ==
  LET regC == ReadWord(RF, ILREG(C))
      msb  == 16 * FlagsValue + ((regC \div 256) % 16)
      level == (regC % 256) \div 16
      lsb  == Or(16 * level, MAP)
  IN /\ RF' = WriteWord(RF, ILREG(C), 256 * msb + lsb)
     /\ LV' = level
     /\ UNCHANGED <<run, flags, IE, MAP>>

ReturnStackLevelFirst ==                 \* the level set before X
  LET unk == Pop(RF)
      x   == PopWord(unk.rf)
      lv  == Pop(x.rf)
      map == Pop(lv.rf)
  IN /\ RF' = WriteWord(map.rf, 16 * lv.val + X, x.val)
     /\ LV' = lv.val /\ MAP' = map.val
     /\ UNCHANGED <<run, flags, IE>>

ReturnStackSwapped ==                    \* map before level
  LET unk == Pop(RF)
      x   == PopWord(unk.rf)
      map == Pop(x.rf)
      lv  == Pop(map.rf)
  IN /\ RF' = WriteWord(lv.rf, ILREG(X), x.val)
     /\ LV' = lv.val /\ MAP' = map.val
     /\ UNCHANGED <<run, flags, IE>>

(* CPU6_return_int(m, 'S'): X is set while the old level is current.       *)
ReturnStack ==
  LET unk == Pop(RF)
      x   == PopWord(unk.rf)
      lv  == Pop(x.rf)
      map == Pop(lv.rf)
  IN /\ RF' = WriteWord(map.rf, ILREG(X), x.val)
     /\ LV' = lv.val /\ MAP' = map.val
     /\ UNCHANGED <<run, flags, IE>>

(* The operations that leave the program counter alone.  0xa passes 0      *)
(* where CPU6_return_int has a case '0'; 0xc is not implemented and 0xe    *)
(* does not wait.                                                          *)
InSequence(o, pc) ==
  \/ o = 0  /\ Halt
  \/ o \in {1, 10, 12, 14} /\ UNCHANGED machine
  \/ o = 2  /\ SetFlags({"F"})
  \/ o = 3  /\ ClearFlags({"F"})
  \/ o = 4  /\ SetIE(1)
  \/ o = 5  /\ SetIE(0)
  \/ o = 6  /\ SetFlags({"L"})
  \/ o = 7  /\ ClearFlags({"L"})
  \/ o = 8  /\ ToggleFlags({"F"})
  \/ o = 11 /\ ReturnModified
  \/ o = 13 /\ TransferPCtoX(pc)
  \/ o = 15 /\ ReturnStack

Control(o, pc) ==
  \/ InSequence(o, pc) /\ PC' = pc
  \/ o = 9 /\ PC' = ReadWord(RF, ILREG(X)) /\ ReturnSub

(* Codes caught before the main switch; 0x46 and 0x47 end in functions     *)
(* without a return statement.                                             *)
Special(o) == (o > 15 /\ o % 16 \in {6, 7}) \/ o = 120

(* pc is the program counter behind the operation code.                    *)
eval_op(o, pc) ==
  /\ calls < MaxCalls /\ calls' = calls + 1
  /\ op' = o
  /\ \/ Special(o)
        /\ ret' \in (IF o \in {70, 71} THEN {0, -1} ELSE {-1})
        /\ PC' = pc /\ UNCHANGED machine
     \/ o > 15 /\ ~Special(o) /\ ret' = 0 /\ PC' = pc /\ UNCHANGED machine
     \/ o <= 15 /\ ret' = 0 /\ Control(o, pc)

(* The operands of codes that the dispatch does not find are the next      *)
(* codes to be fetched.                                                    *)
run_next_instruction == eval_op(Read(RF, PC), (PC + 1) % 65536)

Next == (\E o \in Ops : eval_op(o, PC)) \/ run_next_instruction

Spec == Init /\ [][Next]_vars

(***************************************************************************)
(* Properties.                                                             *)
(***************************************************************************)
(* An instruction writes only registers of the level it started in, also   *)
(* when it is the one that leaves the level.                               *)
BanksKeepApart ==
  [][\A a \in Byte : RF'[a] # RF[a] => a \div 16 = LV]_vars

(* The stack is a frame in memory: what a return takes is found at fixed   *)
(* places above the stack pointer, and the pointer ends behind it - in     *)
(* every level with registers, also when the frame wraps at the end of     *)
(* memory or covers the pointer, which is found moved behind the byte that *)
(* is read.                                                                *)
SP == ReadWord(RF, ILREG(S))
At(n) ==
  LET place == (SP + n) % 65536
      moved == (place + 1) % 65536
  IN IF place = ILREG(S) THEN moved \div 256
     ELSE IF place = ILREG(S) + 1 THEN moved % 256 ELSE Read(RF, place)
Taken(n) == ReadWord(RF', ILREG(S)) = (SP + n) % 65536

FrameIsTaken ==
  [][/\ op' = 9 /\ LV < 16 =>
          /\ Taken(2)
          /\ PC' = ReadWord(RF, ILREG(X))
          /\ ReadWord(RF', ILREG(X)) = 256 * At(0) + At(1)
     /\ op' = 15 /\ LV < 16 =>
          /\ Taken(5)
          /\ ReadWord(RF', ILREG(X)) = 256 * At(1) + At(2)
          /\ LV' = At(3) /\ MAP' = At(4)]_vars
=============================================================================
