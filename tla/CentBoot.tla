------------------------------- MODULE CentBoot -------------------------------
(***************************************************************************)
(* centboot.c: from the words in sector 14 to the boot directory, and      *)
(* along it to its terminator, through one static buffer.  Words have 16   *)
(* bits; a word is also the set of the positions of its ones.              *)
(***************************************************************************)
EXTENDS DiskFile

VARIABLES
  file, block,     \* the file opened, and its block_size in slots
  bpc,             \* "header", "start", "search", "done" or "failed"
  sector, buffer,  \* the variable of main, the static buffer
  offset,          \* name_offset, in slots
  listed           \* the names printed

SectorsPerTrack == 16
Magic           == 15537                    \* 0x3cb1

BitsOf(w)  == { k \in 0 .. 15 : (w \div 2 ^ k) % 2 = 1 }
Bit(s, k)  == IF k \in s THEN 1 ELSE 0
Four(s, k) == Bit(s, k) + 2 * (Bit(s, k + 1) + 2 * (Bit(s, k + 2) + 2 * Bit(s, k + 3)))
Number[s \in SUBSET (0 .. 15)] ==
  Four(s, 0) + 16 * (Four(s, 4) + 16 * (Four(s, 8) + 16 * Four(s, 12)))
Value(s)   == Number[s]
Xor(v, w)  == Value(SymDiff(BitsOf(v), BitsOf(w)))

make_key(seed) ==
  LET AX      == 65535 - seed
      rotated == AX \div 2 + (AX % 2) * 32768
  IN Xor(Xor(60, 177) * 256 + 177, rotated)

calc_boot_dir_start(encrypted, code) ==
  LET AX == Xor(encrypted, (encrypted * 256) % 65536)
  IN ((code + Xor(Magic, AX)) * SectorsPerTrack) % 65536

BootInit ==
  /\ bpc = "header" /\ sector = 0 /\ offset = 1 /\ listed = <<>>
  /\ buffer = [k \in 1 .. Pitch |-> Zeros]

(* readSector: the buffer keeps what a short read does not reach.          *)
readSector(n, then) ==
  LET data == Block(file, block, n)
  IN IF data = <<>>
     THEN bpc' = "failed" /\ UNCHANGED buffer
     ELSE bpc' = then /\ buffer' = Overwrite(buffer, data)

ReadHeader ==
  /\ bpc = "header"
  /\ readSector(14, "start")
  /\ UNCHANGED <<sector, offset, listed>>

ReadStart ==
  /\ bpc = "start"
  /\ sector' = calc_boot_dir_start(buffer[1].encrypted, make_key(buffer[1].seed))
  /\ readSector(sector', "search")
  /\ UNCHANGED <<offset, listed>>

(* findBootFiles: the entries before the terminator, or all of the sector; *)
(* is_text looks at the first name of the buffer for each of them.         *)
FoundAllToBlock ==                 \* the padding is searched as well
  LET ends == { k \in offset + 1 .. block : IsEnd(buffer[k]) }
  IN SubSeq(buffer, offset + 1, IF ends = {} THEN block ELSE Min(ends) - 1)

Terminators == { k \in offset + 1 .. Slots : IsEnd(buffer[k]) }
FoundAll    == SubSeq(buffer, offset + 1,
                 IF Terminators = {} THEN Slots ELSE Min(Terminators) - 1)
Found       == IF IsText(buffer[1]) THEN FoundAll ELSE <<>>

SearchSkipsFirst ==                \* name_offset is not cleared
  /\ bpc = "search"
  /\ listed' = listed \o Found
  /\ IF Terminators # {}
     THEN bpc' = "done" /\ UNCHANGED <<sector, buffer, offset>>
     ELSE /\ sector' = sector + 1
          /\ offset' = offset
          /\ readSector(sector', "search")

SearchInPlace ==                   \* the sector is not advanced
  /\ bpc = "search"
  /\ listed' = listed
  /\ IF Terminators # {}
     THEN bpc' = "done" /\ UNCHANGED <<sector, buffer, offset>>
     ELSE /\ sector' = sector
          /\ offset' = 0
          /\ readSector(sector', "search")

(* A round of main's loop.                                                 *)
Search ==
  /\ bpc = "search"
  /\ listed' = listed \o Found
  /\ IF Terminators # {}
     THEN bpc' = "done" /\ UNCHANGED <<sector, buffer, offset>>
     ELSE /\ sector' = sector + 1
          /\ offset' = 0
          /\ readSector(sector', "search")

BootStep == ReadHeader \/ ReadStart \/ Search
BootOver == bpc \in {"done", "failed"}
=============================================================================
