------------------------------- MODULE DiskTools -------------------------------
(***************************************************************************)
(* The small disk tools together, as their user runs them: a dump is       *)
(* repacked into an image, and a listing tool reads the dump with its CCDP *)
(* option and then the image without it.                                   *)
(***************************************************************************)
EXTENDS Repack

CONSTANTS
  Dumps,           \* the dumps
  Counts,          \* block counts that a user may give to repack
  Firsts,          \* sectors at which a user may start centfs-ls
  DirentSlots, LinkSlot, CountModulus

ASSUME DumpsAssumption == Dumps \subseteq Seq(Contents) \ {<<>>}

ASSUME ToolsAssumption ==
  /\ Counts \subseteq Nat /\ Firsts \subseteq Word /\ MaxRefused \in Nat /\ StdioBuffer \in Nat
  /\ LinkSlot \in 1 .. DirentSlots /\ DirentSlots \in 1 .. Slots
  /\ CountModulus \in Nat \ {0}

(* n counts to 2^32: sectors have numbers of 16 bits, and a small instance *)
(* has dumps short enough.                                                 *)
ASSUME CountAssumption ==
  CountModulus > 65536 \/ \A d \in Dumps : Len(d) < CountModulus

VARIABLES
  bpc, sector, buffer, offset, listed,     \* centboot
  lpc, nsec, n, seen,                      \* centfs-ls
  tool, first,                             \* which of them is run, and its argument
  on,                                      \* the file it reads: "dump" or "image"
  outcome                                  \* how it ended on each

boot  == <<bpc, sector, buffer, offset, listed>>
ls    == <<lpc, nsec, n, seen>>
tools == <<boot, ls>>
vars == <<repack, tools, tool, first, on, outcome>>

File == IF on = "dump" THEN dump ELSE image
Size == IF on = "dump" THEN Pitch ELSE Slots

Boot == INSTANCE CentBoot WITH file <- File, block <- Size
Ls   == INSTANCE CentfsLs WITH file <- File, block <- Size

Init ==
  /\ dump \in Dumps /\ count \in Counts /\ RepackInit
  /\ tool \in {"centboot", "centfs-ls"}
  /\ first \in IF tool = "centboot" THEN {0} ELSE Firsts
  /\ on = "dump" /\ outcome = <<>>
  /\ Boot!BootInit /\ Ls!LsInit(first)

Over    == IF tool = "centboot" THEN Boot!BootOver ELSE Ls!LsOver
Outcome == IF tool = "centboot" THEN <<bpc, listed>> ELSE <<lpc, n, seen>>

Copy ==
  /\ RepackStep
  /\ UNCHANGED <<tools, tool, first, on, outcome>>

List ==
  /\ rpc = "done" /\ Len(outcome) < 2
  /\ \/ tool = "centboot" /\ Boot!BootStep /\ UNCHANGED ls
     \/ tool = "centfs-ls" /\ Ls!ReadDirent /\ UNCHANGED boot
  /\ UNCHANGED <<repack, tool, first, on, outcome>>

Restart ==
  /\ bpc' = "header" /\ sector' = 0 /\ offset' = 1 /\ listed' = <<>>
  /\ buffer' = [k \in 1 .. Pitch |-> Zeros]
  /\ lpc' = "walk" /\ nsec' = first /\ n' = 0 /\ seen' = {}

(* The tool has ended on a file; it starts anew on the next.               *)
NextFile ==
  /\ rpc = "done" /\ Over /\ Len(outcome) < 2
  /\ outcome' = Append(outcome, Outcome)
  /\ IF on = "dump"
     THEN on' = "image" /\ Restart
     ELSE UNCHANGED <<tools, on>>
  /\ UNCHANGED <<repack, tool, first>>

Next == Copy \/ List \/ NextFile

Spec == Init /\ [][Next]_vars /\ WF_vars(Next)

(***************************************************************************)
(* Properties.                                                             *)
(***************************************************************************)
(* repack: while no write fails, each block stands in the image in its     *)
(* place, its 400 bytes alone; a last block cut short is filled up with    *)
(* the bytes of the block before.  Of a copy with failures no slot is      *)
(* false, none stands before one that it followed, and no more are missing *)
(* than the blocks refused and what stdio held back then.  The bad marks   *)
(* counted are those that the dump has.                                    *)
Wanted(b, k) ==
  IF b * Pitch + k <= Len(dump) THEN dump[b * Pitch + k]
  ELSE IF b = 0 THEN Zeros ELSE dump[(b - 1) * Pitch + k]

Place(p) == from[p][1] * Slots + from[p][2]

MarkedBad(b) ==
  b * Pitch + Slots + 1 <= Len(dump) /\ ~IsFF(dump[b * Pitch + Slots + 1])

BlocksInPlace ==
  /\ refused = 0 =>
       /\ Len(image) = i * Slots
       /\ \A b \in 0 .. i - 1, k \in 1 .. Slots : image[b * Slots + k] = Wanted(b, k)
  /\ Len(from) = Len(image)
  /\ \A p \in 1 .. Len(image) : image[p] = Wanted(from[p][1], from[p][2])
  /\ \A p \in 1 .. Len(image) - 1 : Place(p) < Place(p + 1)
  /\ i * Slots <= Len(image) + refused * (Slots + StdioBuffer)
  /\ bad = Cardinality({ b \in 0 .. i - 1 : MarkedBad(b) })

(* The bootloader's own computation, instruction by instruction, from the  *)
(* listings in centboot.c: not, rotate without carry, xor; then xor, add   *)
(* and a shift by four.                                                    *)
Rotated(bits)     == { k - 1 : k \in bits \ {0} } \cup (IF 0 \in bits THEN {15} ELSE {})
Upwards(bits, by) == { k + by : k \in { j \in bits : j + by < 16 } }

DiskCode(seed) ==
  LET AX == Rotated(0 .. 15 \ Boot!BitsOf(seed))
      BX == Boot!BitsOf(Boot!Magic)
  IN SymDiff(SymDiff(BX, Upwards(BX, 8)), AX)

BootSector(encrypted, seed) ==
  LET AX == Boot!BitsOf(encrypted)
      BX == SymDiff(Boot!BitsOf(Boot!Magic), SymDiff(AX, Upwards(AX, 8)))
      Sum == (Boot!Value(DiskCode(seed)) + Boot!Value(BX)) % 65536
  IN Boot!Value(Upwards(Boot!BitsOf(Sum), 4))

Header == File[14 * Size + 1]
Start  == BootSector(Header.encrypted, Header.seed)

(* Entries by their position in the directory, counted over sectors.       *)
At(q)   == File[(q \div Slots) * Size + (q % Slots) + 1]
Reached == IF bpc = "done" THEN sector ELSE sector - 1
Listed  == { q \in Start * Slots + 1 .. Reached * Slots + Slots - 1 :
               /\ IsText(At(q - (q % Slots)))
               /\ \A p \in Start * Slots + 1 .. q : ~IsEnd(At(p)) }

(* What centboot has listed are the entries behind the volume's, up to the *)
(* terminator and in the order of the file, of those sectors that begin    *)
(* with a name; and it stops at the terminator only.  A sector cut short   *)
(* is shown with what the buffer held, and is left out here.               *)
ListsBootDirectory ==
  /\ bpc \in {"search", "done"} /\ sector * Size + Slots <= Len(File) =>
       /\ Len(listed) = Cardinality(Listed)
       /\ \A q \in Listed : listed[Cardinality({ p \in Listed : p <= q })] = At(q)
       /\ bpc = "done" => \E q \in Start * Slots + 1 .. sector * Slots + Slots - 1 :
                            IsEnd(At(q)) /\ q \div Slots = sector

(* centfs-ls ends at an end of the chain, having counted each archive of   *)
(* it once; and it fails only where the chain leaves the file.             *)
LinkOf(s) == File[s * Size + LinkSlot].link
Sectors   == { e[1] : e \in seen }

ListsChain ==
  /\ lpc = "done" =>
       /\ first \in Sectors /\ n = Cardinality(Sectors)
       /\ \A s \in Sectors : LinkOf(s) \in Sectors \cup Ls!LastArchives
       /\ \A s \in Sectors \ {first} : \E p \in Sectors : LinkOf(p) = s
  /\ lpc = "failed" =>
       /\ nsec # first => nsec \notin Ls!LastArchives
       /\ nsec * Size + DirentSlots > Len(File)

(* What a tool finds on the image is what it finds on the dump, if no      *)
(* write failed and no block was cut short; and if the copy ended early,   *)
(* still no listing that ends well is a wrong one.                         *)
WholeDump == Len(dump) % Pitch = 0 \/ Len(dump) % Pitch >= Slots
Copied    == i * Pitch >= Len(dump)

RepackedAlike ==
  Len(outcome) = 2 /\ WholeDump /\ refused = 0 /\ (Copied \/ outcome[2][1] = "done")
    => outcome[1] = outcome[2]

(* Where the chain in the dump is after k sectors; it stays at its end.    *)
Chain ==
  LET next[k \in 0 .. Len(dump)] ==
        IF k = 0 THEN first
        ELSE LET s == next[k - 1]
             IN IF k > 1 /\ s \in Ls!LastArchives THEN s
                ELSE IF s * Pitch + DirentSlots > Len(dump) THEN 0
                ELSE dump[s * Pitch + LinkSlot].link
  IN next
Ends == Chain[Len(dump) \div Pitch + 1] \in Ls!LastArchives

(* Both tools come to an end on both files: centboot always, whatever the  *)
(* copy has lost; centfs-ls when the chain does, on the dump, and on the   *)
(* image if no write failed and the bytes that fill up a last block cut    *)
(* short cannot close the chain in a circle.                               *)
MayCircle ==
  /\ tool = "centfs-ls"
  /\ Ends => on = "image" /\ (refused > 0 \/ ~WholeDump)

ToolsSettle == <>(Len(outcome) = 2 \/ MayCircle)
=============================================================================
