# A verification development for centdeux

centdeux is a collection of C programs about Centurion minicomputers: tools that
read disk images of their file system, emulators of the chips of the CPU6
processor board and of its instruction set, and small tools for ROM images and
dumps.  This directory holds TLA+ specifications of the parts with logic of
their own, TLC configurations that check them on small instances, and TLAPS
proofs of the properties that matter most.

    tlc -workers 2 -config ExtractRelative.cfg MCCentfsExtract
    tlapm CentfsExtractProofs.tla

## The system

| part | source | state it keeps | what it does |
|---|---|---|---|
| image device | `Storage/centfs/tools/centfs-extract.c` 19-183 | FILE, sector size, `dev->state`, `sec->state` | opens an image, guesses the distance between sectors, reads a sector |
| allocation-list walk and file copy | same, 270-339 | `next_dalent`, `fsec.number`, the output | follows extents and links, copies the sectors of a file |
| directory search | same, 363-419, 541-634, 835-841 | one `centfs_dirent_t` per level of recursion | finds files by a dotted pattern, lists or extracts them |
| pattern matching | same, 463-524 | `mi`, `fi` | compares a name with one part of the pattern |
| microprogram sequencer | `common/ICs/am2909/am2909.c` | `uPC`, `AR`, `SP`, `STK`, pins | one clock edge of an Am2909 or Am2911 slice |
| ALU slices | `common/ICs/am2901/ALU_am2901.c` | RAM, Q, latches, lines between slices | four clock states of an Am2901 slice; a driver wires two of them into a byte |
| ALU core library | `common/ICs/am2901/ALU_am2901_core.c`, `ALU_am2901_device.c` | one structure: registers, multiplexer settings, flags, outputs | the second version of the slice, as functions that a device calls in each clock state |
| microcode emulator | `CPU6/uCode/uCemu/`, `CPU6/uCode/include/cpu6_ICs.h` | the microinstruction | loads the microcode, decodes its ALU fields; tables tell which chip listens to which bits of the word |
| emulator arithmetic | `CPU6/ISA/ISAemu/CPU6-ALU-C.c` | none (result and flags) | one ALU operation on a byte or a word, with L, M, F, V |
| emulator dispatch | `CPU6/ISA/ISAemu/CPU6-ISAemu.c` | PC, level, map, flags, memory | fetches and executes one CPU6 instruction; registers are the first 256 bytes of memory, 16 for each interrupt level |
| archive lister | `Storage/centfs/tools/centfs-ls.c` | `nsec`, `n` | follows the chain of mini-volumes on an image |
| boot directory lister | `Storage/centfs/tools/centboot.c` | a static sector buffer, `sector` | computes the disk key, searches the boot directory |
| dump repacker | `Storage/tools/dump-tools/repack_ccdp_dump.c` | a static buffer, counts | turns a dump with 512 bytes per sector into an image with 400 |
| ROM tools | `tools/ROM-tools/romcat.c`, `rom2include.c` | the count `i`, file positions | interleave ROM images; print bytes as the words of a C header |
| bit library | `common/ginsumatic/` | none | slices, merges, sign-extends bit fields |
| drafts and small filters | `ISAemu-test-machine.c`, `libcentfs/`, `common-cents.c`, `stripMSB.c`, `hawk-CHS-hexdump.c` | none | see "Not modelled" |

Each program is a single thread that reads its input, and most of them run
alone.  Two interactions are between programs: the Makefiles pipe `romcat` into
`rom2include`, two processes that wait for each other on one pipe; and a dump is
repacked into an image that the listing tools read afterwards, as they read the
dump itself.  The other interactions are inside a program.  In `centfs-extract`
the callbacks walk allocation lists through the dirent that the search has filled
in, the search recurses into libraries through the same walk, and all of them
share one device, whose failure nearly nobody checks.  In the chip models the
interaction is through pins: several slices form one register by their carry
lines and shift lines, which are shared variables that each slice reads and
drives when its turn comes, so the order in which the driver updates them is part
of the behaviour; in the CPU6 the microinstruction reaches the ALU through
`uI_decode` and the chips around it through tables, and both must read the same
bits.  In the emulator it is through memory: registers, the stack and the stack
pointer are the same bytes, seen through the level in force.

What is hard here is not concurrency but the rest: results that are ignored, so
that an error is followed by more steps on memory that was never filled;
formats whose links may lead anywhere; loops that end only because the disk is
well formed; counters of 16 and 32 bits; a state machine in hardware whose
order of updates within one clock edge matters.  `PROJECT.json` lists these
hazards line by line with the property that watches each, or, where the code does
go wrong or nothing can be claimed, with a note that says so.

### What makes each part correct

* **walk and copy**: what is written is the file, block by block and all of it,
  as long as the device works; after a failure nothing written counts as the
  file; no entry comes from beyond its sector; the walk ends.
* **search**: exactly the files the pattern asks for, once each, in order; a
  failure spoils one file at most; the recursion uses up the pattern; it ends,
  even in a directory without an end.
* **device**: every read that succeeds is of the sector asked for, and sectors
  that were not dumped are reported.
* **matching**: no name that a glob would not match, and every name it would
  match where the algorithm, which never backtracks, can decide that.
* **sequencer**: the circular buffer is a stack of return addresses; the carry
  loses nothing.
* **ALU slices**: a chain computes on bytes what the function's symbol says, with
  its carries, also for a lookahead generator; what an instruction stores is its
  result; bits that cross between slices arrive; a zero line that is up tells
  the truth.
* **core library**: in every clock state it does what the first version does; its
  flags and outputs are those of the result it holds.
* **microword**: which multiplexer drives a shifter's line follows the direction the
  ALU decodes; chips listen to the bits named for them and to no others; the latch
  changes in the bit addressed and when it is told to.
* **emulator arithmetic**: sums, differences and shifts are exact together with
  the flags that carry their ninth bit.
* **emulator dispatch**: registers of one level are not disturbed by another; a
  return takes its frame where the stack pointer is, and nothing else, also when the
  pointer is part of that frame.
* **dump repacker**: each block lands in its place, complete, and a tool finds on
  the image what it finds on the dump; after a write that failed nothing in the image
  is false or out of order; the bad blocks are counted.
* **boot directory lister**: it searches where the bootloader would, lists each
  entry up to the terminator once and in order, and stops there.
* **archive lister**: each archive of the chain is counted once, to its end.
* **ROM tools**: the header holds the bytes of the ROMs row by row, with a comma
  between any two words and their number behind them; a read error is reported;
  neither program waits for ever.

## The modules

| module | models |
|---|---|
| `CentfsFormat` | list entries, links and extents: the arithmetic of `centfs_read_alist_dalent` |
| `CentfsDevice` | the device as its callers see it: open or failed, one operation |
| `CentfsWalk` | the walk and copy loops, one action from one `read_sector` to the next |
| `CentfsExtract` | the specification of extracting one file, what a well-formed list is, the properties |
| `FileCopy` | abstract: blocks are written in order; the device may break the copy |
| `CentfsExtractProofs` | theorems about `CentfsExtract`, and about `CentfsFind`, which walks the same lists |
| `CentfsFind` | `centfs_dir_find`, on top of `CentfsWalk` |
| `CentfsImage` | byte positions: detection of the sector size and `centfs_image_read_sector` |
| `CentfsMatch` | `centfs_fnmatch`, one action for each kind of round of its loop |
| `CentfsPartsProofs` | theorems about `CentfsMatch` and about `CentfsImage` |
| `Am2909` | one clock edge of the sequencer |
| `Am2909Calls` | the sequencer with a history of calls that have not returned |
| `ReturnStack` | abstract: the last `Depth` addresses pushed, rotating |
| `Am2909Proofs` | theorems about `Am2909` and `Am2909Calls` |
| `Am2901` | one ALU slice: what `am2901_update` does in each clock state |
| `Am2901Chain` | two instances of it, wired and driven as by `am2901_main` |
| `Am2901Proofs` | theorems about `Am2901Chain`: types, sums, the zero line, lookahead, the register file, the functions, shifts |
| `Am2901Core` | the second version of the slice: core functions, in the order of the device's clock states |
| `Cpu6Microword` | `uI_decode` and the chip tables of `cpu6_ICs.h`, around `Am2901Core` |
| `Cpu6MicrowordProofs` | theorems about `Cpu6Microword` and the core in it, and about `RomTools`, which make the ROM headers |
| `Cpu6Alu` | the operations of `CPU6-ALU-C.c` on one register, and the flags |
| `Cpu6Machine` | `CPU6_eval_op`: what its dispatch reaches, and `CPU6_run_next_instruction` |
| `Cpu6MachineProofs` | theorems about `Cpu6Machine` and `Cpu6Alu` |
| `DiskFile` | files of sectors, and what `fread` finds of a block |
| `Repack` | `repack_ccdp_dump`, one action for a round of its loop |
| `CentBoot` | `centboot`: the disk key and the search |
| `CentfsLs` | `centfs-ls`: the chain |
| `DiskTools` | the three together: repack, then a tool on the dump and on the image |
| `DiskToolsProofs` | theorems about the image that repack makes, the chain, the boot directory and the tools on dump and image |
| `RomCat`, `Rom2Include` | the two programs, an action for each byte |
| `RomTools` | both, joined by a pipe |
| `SequenceLemmas` | lemmas about remainders, sequences and `FlattenSeq` |
| `MC*` | the instances TLC checks |

`CentfsFormat` and `CentfsDevice` are extended by `CentfsWalk`, and that by both
`CentfsExtract` (one file) and `CentfsFind` (the whole command): the actions
`FollowLink`, `TakeExtent`, `EndOfList` and `CopyBlock` are the same definitions
in both.  `CentfsImage` stands below `CentfsDevice`: `ReadsSectorAsked` is what
allows the callers to see a sector number where the code computes a position.
`Cpu6Microword` extends `Am2901Core` and instantiates `Am2901` over the same
variables: `CoreIsSlice` is the second version refining the first, clock state by
clock state.  `DiskTools` extends `Repack` and instantiates `CentBoot` and `CentfsLs`
with the dump or with the image as their file; `RomTools` composes two processes as
the interleaving of their steps.

### How state and actions correspond to the code

*Walk.*  `pc` is "dalent" before the read in `centfs_read_alist_dalent`,
"block" before the read in the inner loop of `centfs_dirent_read_file`.
`next` is `next_dalent`; byte offsets are multiples of three and are counted in
entries.  `num` is `fsec.number`, `last` the bound of the inner loop, `out` the
blocks given to `fwrite`, a block being named by the number of its sector.  A
failed read sets `dev` to "IOERROR"; an entry or a block used after that is any
member of `StackEntries`, or `Junk`.  Using the closed FILE again either fails
again or ends the program (`Crash`).

*Search.*  `dirs` is the stack of calls of `centfs_dir_find`, a frame holding
`base_sector`, `header.alist_sector_start`, `file_idx` and what is left of
`match`.  `rec` is `dirent->file`, `cur` the pointers and attributes
derived from it.  `ReadHeader`, `ReadDirent`, `ReadAttr` are the three reads;
`SkipRecord`, `FoundLibrary`, `FoundFile`, `IndexWrapped` the branches of the
loop body; `EnterLibrary` the recursive call with the list walk in its
argument; `Walk`, `PrintExtent`, `FileDone` the callbacks of `extract` and
`list -i`.  A pattern part is the set of names it matches, which
`CentfsMatch` examines by itself.  `command` is what `main` made of the
subcommand and the options -a and -i.

*Image.*  An image is its layout (pitch, sectors, those not dumped, and how
many bytes of 0xff the second sector starts with); only the bytes that steer
the program exist.

*Matching.*  A name is a sequence of ten bytes (three for TLC) padded with
spaces; bytes past it are whatever follows in the directory record.  What the
algorithm is held to, `Glob`, is no second algorithm: a part matches a name when its
positions can be laid along the name, a character on its equal and a star over any
number of bytes.

*Sequencer.*  The macros `I_`, `S_` and `oS_` are not in the repository;
they are read as the code uses them: a field of the device, the value of a pin,
and that value or a default.  A clock edge is one action with the pins
as its parameter, so a later assignment that reads an earlier one
(`AR` through the latch, `uPC` into the carry) reads it here too.

*ALU slices.*  `Am2901` is one slice, its pins parameters; `Am2901Chain`
instantiates it twice and binds `C4`, `RAM3`, `Q3` and `FZ` of both slices to one
variable each.  `UpdateLow` and `UpdateHigh` are the two calls of
`am2901_update`, `SetPins` the pull-up and the pins of an instruction, `Advance`
the external `clock_advance`.  `destl` and `desth` are RAM_EN, Q_EN and the
direction of the shift, decoded in the high state and used in all the others.
The lines are locals of the driver without an initial value: `Leftover`.

*Core library.*  `Am2901Core` keeps the multiplexer settings as state, as the
structure does: what a clock state uses may have been set by an earlier one.
`CoreUpdate` is one pass of `am2901_device_update` in the state of `clk`.

*Microword.*  A microinstruction is the set of its bits that are one, numbered in
octal as in the source.  An `IC` of `cpu6_ICs.h` becomes its enables, address pins
and choices; what a 74LS138, 139, 151, 153, 253 or 259 does with them is the
chip's own behaviour, named in the tables' comments.  `Feeds` is the ALU's line that
the list of outputs (`_out`) of UH6a, UH6b and UF6a names; `Drivers` are the chips that
drive a line with the word on the pins.  A pin that a table does not
list has the value 0 of C, which means "tied low".  `Fetch` puts the next word on
the pins, `AluStep` is one clock state of the core; `ClockB` and `BusReset` move
lines that no table drives.

*Emulator arithmetic.*  `Step` is the plain C `+` of an operation, on an `int`;
the carry is found afterwards, by `AddCarry`'s comparison of the truncated
result with the operand.  Shifts by a negative count are undefined in C and give
any result (`UndefinedShift`).  `Load` puts any value in the register, as the
emulator's instructions without arithmetic do.

*Emulator dispatch.*  `RF` is the register file, the first 256 bytes of memory;
memory beyond it reads 0 and drops writes, as `CPU6_MEM_read_byte` and
`CPU6_MEM_write_byte` do.  `ILREG(r)` is the address of a register in the level in
force.  A pop moves the pointer before it reads.  The main switch compares
`op & 0xf0` with group numbers 0, 1, 2...: only the control group is found
(`Control`) besides the codes refused before the switch (`Special`).
`run_next_instruction` is `CPU6_run_next_instruction` (848-854), which fetches from
the same memory; `Next` offers also any operation code of `Ops`, as other callers of
`CPU6_eval_op` may.  `nibble_t` and `octal_t` (`types-common.h`) are plain bytes, so a
popped level or map keeps its eight bits.

*Disk tools.*  A file is a sequence of slots of 16 bytes, the size of a directory
entry; of a slot only the bytes exist that steer a program (`Slot`).  A sector is
`Slots` of them, with padding `Pitch`.  `CopyBlock` is a round of `repack`'s loop.  The
image is what stdio was given and has not dropped: a write is `Accepted`, or `Refused`
by the device in the course of it, and then stdio drops the end of what it holds back, of
this block and of those before, from any place on; the code notices neither.  That
place is taken to lie between two slots.  A write in the buffer may still be refused at
the end, by `fclose` or `exit`, whose result nobody looks at: that is part of `RepackEnds`,
which is any `fread` that returns 0.  `Search` is a round of `centboot`'s loop with
`findBootFiles` and the next `readSector`, through one static buffer that a short
read overwrites in part.  The user's part is `NextFile`: the tool on the dump with its
CCDP option, then on the image.

*ROM tools.*  A byte is the pair of its file and its offset, so that an order of
bytes is seen for what it is.  `ReadByte` and `ReadError` are a call of `fgetc` with the
`printf` behind it; they wait while the pipe is full, as `TakeByte` waits while it is
empty.  `commas` are the initialisers that a comma stands before: `rom2include` leaves it
out where its count is 0.  `named` is the number of files as `romcat` keeps it, in a
byte.  `ChunkEnds` asks `ferror` of the file that ended the chunk.  `OpenFails` closes files
through stale pointers, as the code does: it may lose what was not flushed.

## The runs

| run | instance | shows |
|---|---|---|
| `extract_relative` | 8 entries over two list sectors, extents of two sectors, links forwards, back and within a sector, slots 131/132 at the end of a sector | the copy is faithful, fetches stay inside, `FileCopy` is implemented, the walk ends |
| `find_volume` | root directory over two sectors, five libraries (one nested, one without extents, one without an end), seven patterns, `extract`, `list -a` and `list -i`, a device that may fail at any read; the volume is also written down as directories of files (`MCVolume`), which `VolumeAssumption` compares with its bytes | exactly the right files; a failure spoils one at most; depth; the search ends |
| `image_read` | 19 layouts, two values of `-s`, six sector numbers | the right sector is read, bad ones are flagged |
| `image_long_run` | the same | a long run gives sector size 1 |
| `match_parts` | names of three characters over three letters, all patterns of up to four | agreement with the meaning of a glob |
| `sequencer_calls` | a slice of two bits, all kinds of pins | stack, return addresses, carry |
| `alu_chain` | two registers, 17 instructions, every program of three, lines low or high at first | functions, carries, lookahead, stores, shifts, zero line |
| `cpu6_alu` | a byte, six operands, five counts, every register value and flag that they reach | exact sums, differences, shifts, rotations, with their flags |
| `machine_control` | two register files with programs, 22 operation codes and the fetched ones, up to four calls | levels stay apart, frames are taken, the one over the pointer too |
| `microword` | 43 words: an idle one, others that differ from it in one bit, and ALU instructions with all destinations, functions and operands; three after another | shifters are driven as the tables say, chips listen as commented, the latch keeps its bits, the core is the slice, outputs are current |
| `disk_tools` | nine dumps of three to nineteen sectors, whole and cut short; boot directories at 16, 0 and beyond the file; chains that end and chains that come round; one write that fails, with any part of it and of the buffer lost | blocks in place, bad ones counted, the boot directory of the bootloader, the chain, dump and image alike, both tools end |
| `rom_tools` | up to four images of up to two bytes and some of up to ten, several chunks, ten files of which the count keeps two, strides and word sizes 1 to 3, a missing file, one read that fails | words are rows, with their commas and their number; the error is reported, both programs end |

### Bounds

* Walk: a chain of 8 entries has two of each kind of step and returns to a
  sector already visited, so every transition between kinds occurs;
  `MaxJunk` bounds only the writes after the device has failed (without it a
  walk over stack contents need not end).  `StackEntries` holds one entry of each
  kind.  The proofs cover every chain.
* Search: two sectors of directory make `file_idx` cross a sector boundary;
  three parts of pattern make the recursion two deep; patterns that match
  several libraries make it return and go on.  `NoSector` stands for
  (uint32_t)-1: any number outside the image does, as nothing is computed with it.  `file_idx` wraps at 30 instead of 65536: 30 is more than the 28 records that the root directory needs,
  so no sound search wraps, and less than the two sectors of the library without
  an end, so the search there does.
* Image: pitches of 400, 512, 640, 768 and 1024 bytes, runs of 0xff that stop
  before 512, at it, and never; the positions wrap at `PosModulus` = 2^18 instead
  of 2^32 because TLC's integers have 32 bits.
* Matching: four characters of pattern hold two stars with a character after
  each; three of name hold a repeated one.  The byte after the name is in or
  outside the alphabet of patterns.
* Sequencer: addresses of two bits; pins that cannot influence each other are
  held (`MCPorts`).  The proofs cover every slice width and every set of pins.
* ALU slices: three instructions let a result depend on the destination decoded
  and the operands latched before it, and let a third see what both left; the
  proofs cover every program of every length.
* Emulator arithmetic: bytes (`W` = 8; the word operations are the same macros
  with 16); counts to one beyond the width; operands 0, 1, 85, 127, 128, 255.
* Emulator dispatch: four calls reach a level whose frame returns to a level
  that does not exist; one register file has ordinary frames, the other a stack
  pointer on its own frame and one at the end of memory.  The proofs cover every
  register file, operation code and number of calls.
* Microword: each bit that a table names outside the ALU's fields is set alone in some
  word, and the ALU instructions vary their own bits and the two of the shifter, so
  each chip sees words that differ in one bit only, its own or another's.  Three words let a multiplexer
  setting outlive the word that made it.  Inputs are two settings of the pins.
* Disk tools: `Slots` = 3 and `Pitch` = 4 instead of 25 and 32: an entry at the
  beginning, inside and at the end of a sector, and one slot of padding, which carries
  the mark of a bad sector.  `DirentSlots` = 2 leaves room for a dirent cut short.
  `CountModulus` = 80 stands for 2^32: it is larger than the 76 slots of the longest of
  these dumps (`CountAssumption`), as 2^32 is larger than the 65536 sectors a link can
  name; a chain that comes round counts past it.  `StdioBuffer` = 4 slots that stdio may
  hold back are more than a block, so that a refused write takes a part of the block, all
  of it, or some of the block before with it.  `MaxRefused` = 1 write fails.
* ROM tools: `IModulus` = 9 instead of 65536: neither is a multiple of every stride
  (65536 is not one of 7, 9 not one of 2), so the wrap in the middle of a row
  occurs, and at its end (stride 3).  `FileModulus` = 8 instead of 256, with ten files
  named.  `PipeSize` = 2 makes both programs wait.
  `MaxErrors` = 1 read fails, in either program.

### Fairness

Each program is one thread, and the calls it makes into the C library return.
`WF_vars(Step)` says no more than that the program is not stopped for ever
between two steps.  `CopySettles` and `SearchSettles` rest on it, and on lists that are well
formed: a cycle of links is followed for ever, in the code as in the model.
`ToolsSettle` of `DiskTools` rests on `WF_vars(Next)` in the same way, for commands run one
after another; `centboot` always ends, and `MayCircle` leaves out the cases in which
`centfs-ls` may follow a circle for ever: a chain in the dump that has no end, and an
image behind a refused write or with a block that was cut short.  The ROM tools are two processes that the operating system runs in
turn, each of which goes on when the pipe lets it: `WF_vars(Cat)` and `WF_vars(Include)`.
Their failing reads are bounded, because a disk that fails at every read keeps
`romcat` printing 0xff for ever.  The sequencer, the slices and the microword are driven from
outside, the emulator by its caller: of them only safety is claimed.

### What the violation says

`image_long_run`: the loop that measures the run of 0xff leaves `i` at 0x401, not
0x400, so the branch meant for it is missed and `i % 0x100` = 1 becomes the sector
size.

### Other disagreements met in the source

These were found while translating; no run is spent on them.  The models do what
the code does, and the properties are stated so as not to claim otherwise.

* `centfs-extract` ends a directory at a zero byte (396); `centfs-ls.c:22` and
  `centboot.c:130` end it at the word 0x848d.  Records behind that word are read.
* `centfs-extract` counts list links from the base sector of the directory with
  a 16-bit complement; `centfs-ls.c:30` counts them from the start of the disk
  map.  Only the first ten characters of a pattern get the high bit that names
  carry (839).
* `centfs-extract` takes a link to a sector a multiple of 256 from the base for the end
  of the list (291), as its second byte is 0xff: the format, as the code reads it, cannot
  express such a link.
* `centboot`: `is_text` ignores its offset and tests the first name of the sector
  each time (104).
* `repack_ccdp_dump`, and the tools that follow its example, compare the results of
  `fread` and `fwrite` with -1, which they never return.  Behind a write that failed
  all that follows stands in the wrong place.  A last block cut short is written
  whole, filled with the block before: `centfs-ls` may follow a link in it for ever on an
  image whose dump had none.
* `romcat`: the read error of a file that does not end the chunk is neither reported
  nor seen in the exit code (86); the 16-bit `i` is not reset between chunks, and
  65536 is no multiple of 7; of more than 255 files only the remainder modulo 256 is
  read (42); when a file is missing the ones behind it are closed
  through stale or unset pointers (62); a stride or a word size of 0 divides by zero.
* `rom2include`: ROMSIZE is a remainder from 65536 words on, and as the comma is left out
  wherever the count is 0 (73) the header does not compile then.
* `ALU_am2901.c`: RAM shifted down takes the bit of the result before, because
  the driver updates `alu0` while RAM3 still holds it (469; the table at `ALU_am2901.h:35`
  says "F/2->B"); Q shifted up loses the bit between the slices, because `alu0`
  shifts before it drives Q3 (189, 207); an instruction with destination NOP or
  QREG may write RAM, because the first update uses the destination of the
  instruction before (183); the zero line may be pulled down by a first update
  with stale operands (212).
* `cpu6_ICs.h`: the select pins of UJ13 and UK13 are bits 020, 021 and 022, 023 in the
  tables (823, 894) and 025:024 and 027:026 in the comments (818, 891); the grounded
  enables of UH11 are listed as active high (344), so the chip never chooses;
  the third select of UJ10 is not listed, so half its inputs are never chosen; the output of
  UH6b is RAM7 in the table (562) and Q0 in the text beside it.  By the tables, then,
  nobody drives Q0 when the ALU shifts up and takes a bit in there, and at RAM7 the
  multiplexer drives against the ALU.
* `CPU6-ALU-C.c`: "Set M (sign)" uses the mask `0x1<<8`, one bit beyond the byte, so M
  is never set (67); increment adds `v2`, which is 0 for the accumulator (51); F
  and the carry of RLC look at bit 31 (8, 43), and RLC puts the link in before it
  shifts by the whole count (43).
* `CPU6-ISAemu.c`: no branch is ever found, because `op & 0xf0` is compared with 1
  (626; `ISA_insts.tsv:22` says "Branch if Link (Carry) Flag Set"); CL toggles F, not L
  (696); RI passes 0 where the switch has the character '0', and does nothing (699);
  the return from the stack leaves PC running on behind the operation code (no line
  of 292-302 sets it), while `ISA_insts.tsv:19` lists PC among what it changes;
  MAP is or'ed in unmasked (287), and the context saved by RIM has not the layout
  declared in `CPU6-ISA.h:154`.
* `ginsumatic`: `mouthful_to_bytes` shifts `b6` by 58 (142); the parity table 0x5995 is
  not the one its comment describes (`ginsumatic.h:28`); `bitblend` tests `pos & 0x3`
  (283, 305) and its loop for several fields does not end (303); `out` is read before
  it is set (168, 188).

## What is proved

`CentfsExtractProofs`, for every well-formed chain of list entries
(`WalkAssumption`, `SourceAssumption`, `ChainAssumption`, `ContentAssumption`:
what `CentfsExtract` says of the bytes on the disk), of any length:

* `TypeCorrect`, `CopyIsFaithful`, `FetchesInsideSector`: the three invariants
  of `extract_relative`.
* `Refinement`: `Spec` implements `FileCopy`.

`FaithfulCopy` alone is not inductive: it does not say where in the chain the
walk is.  `Located` does: before a fetch, `next` is some entry of the chain
and as many blocks are written as precede it (`Mark`); within an extent, `num`
is as far into it as `out` has grown.  Then the three kinds of entries preserve
it by the definition of a well-formed chain, and a failed read makes it
vacuous, because everything is claimed only of a device that works.
`IInv == TypeOK /\ Located /\ FaithfulCopy` is proved invariant
(`Invariance`), and the refinement follows step by step: a link is a stutter,
a block a `Copy`, the end a `Finish`, a failure a `Break`, all after it a
`Garble`.

The same module extends `CentfsFind`, which shares the walk: for every set of patterns
and every failing read (`FindAssumption`, `WalkAssumption`), and with a proof that does
not use `VolumeAssumption`, so for every volume, well-formed or not:

* `SearchFollowsPattern` (`DepthFollowsPattern`).  `SearchIInv` adds that a call about
  to enter a library has more than one part of its pattern left, because links may be
  followed between that decision and the call, and the types of what the decoder
  reads: a sector number comes from a header, from an extent behind any number of
  links, or is the -1 of a library without extents.  Nothing else is assumed of the
  volume: even with libraries that contain themselves `centfs_dir_find` calls itself
  no deeper than the pattern has parts.

And for every well-formed volume (`VolumeAssumption`, which says of the records, headers
and list entries on the disk which files they describe; TLC checks that the run's volume is one):

* `SearchFindsAll` (`SearchIsExact`) and `DamageStaysLast` (`DamageIsLast`).  What should be
  found, `Expected`, is defined from the files of each directory, without the calls,
  the index or the list walk: part by part, the last part selecting files, any other
  what the parts behind it find in the libraries it selects.

Neither property is inductive: they speak of what is written, not of the calls that
are to write the rest.  `FindIInv` says, as long as the device works (`Exact`), that the
search OWES the rest: `written`, followed by what is `Left` for the calls, is `Expected`.
What is left for a call that has returned into its k-th directory is the rest of that
directory, from the record behind the library it was in, then what is left for its
caller (`Behind`); a call that has yet to read its header owes all of its directory.
A record that does not match gives nothing (`OwesSkip`), a file gives itself
(`OwesFile`), a library what its own call will give (`OwesEnter`), a call at the
end of its directory returns to one that owes as much (`OwesReturn`).  `Placed` is
`Located` again, for the file the innermost call is at: in its list or in an extent,
and as much of its blocks copied.  Once a read has failed, `Spoilt` takes the place of
`Exact`: the search goes on in the callers, whose every read fails too, so nothing but
the file whose record was read before that is still added, under its own name.  That the recursive function
`Expected` is made from exists for every pattern (`TablesExist`) is proved by induction
over its parts.

`Am2909Proofs`, for every width (`SliceAssumption`) and every set of pins:

* `TypeCorrect`, `CarryCorrect`: registers stay in range, `uPC` and `Co` together
  are the exact sum.
* `StackRefinement`: read from `SP` downwards the buffer is `ReturnStack`.
  Nothing but `TypeOK` is needed for it.
* `ReturnsCorrect`: needs more than the top of the stack: `CallsInv` says that
  ALL the calls under way are the upper part of the stack, because a return
  uncovers the one below.

`Am2901Proofs`, for every program (`ChainAssumption`) and whatever the lines
held at first:

* `TypeCorrect`: needs `ClockInv`, that the driver advances the clock only while
  it has done so fewer than four times.
* `SumCorrect`: `CarryIsFifthBit` shows, for all nibbles, that the gates written
  out in `am2901_function_decode` are the carry of the sum, position by position.
  `SumInv` carries the result of `alu0` and C4 over to the moment `alu1` is
  updated: the operands of `alu0` must not have changed meanwhile.
* `ZeroFlagCorrect`: needs `ZeroInv`: at every turn of the driver, a slice already
  updated in this state of the clock, with a result other than zero, has pulled the
  line down, and nothing but the next instruction's pull-up raises it again.

* `FunctionsCorrect` (`FunctionsAsNamed`): needs `FunctionInv`, that until `alu1` has
  been updated `alu0` holds the function of operands that have not changed.  The
  arithmetic functions follow from `SumCorrect` and from what the complement of both
  nibbles makes of a byte (`Complements`, `SumMeans`); the logical ones bit by bit
  (`BitsOfJoin`, `BitsOfNot`, `BitsOfByte`).
* `LookaheadCorrect` (`LookaheadAgrees`): needs `LookInv`, that `alu0`'s outputs still
  tell the carry that `alu1` is about to add.
* `StoreCorrect` (`ResultIsStored`): needs `StoreInv`, that the driver's place in its loop
  tells the state of the clock, so that both slices hold the instruction's own
  destination from the high state on, and that the last update has stored.
* `ShiftsCorrect` (`ShiftsCross`): needs `ShiftInv`, that the two slices hold the same
  destination except between `alu0`'s update and `alu1`'s in the high state, that
  the bit of Q moved down waits on Q3, and that what `alu0` has moved up waits on RAM3
  for `alu1` in the same state of the clock.

`Cpu6MicrowordProofs`, for every set of microwords and inputs (`MicrowordAssumption`):

* `MicrowordOutputsAreCurrent` (`OutputsAreCurrent`): needs `OutputsInv`, that the outputs
  follow from the structure as the last clock state left it.
* `ShiftersDrivenAsListed` (`ShiftersAreDriven`): the destination decoded from the word and the two
  multiplexers that look at one bit of it agree; it needs the types of the decoded
  fields, and that the destination in force is the one of the word on the pins.  It says what the
  tables do, the disagreement about Q0 included.
* `LatchKeepsOtherBits` (`LatchKeepsItsBits`) and `ChipsListenAsCommented`
  (`ListensAsCommented`), chip by chip: whether a chip is enabled and what its address pins select is a function
  of the bits that its comment names; of those that its table names for UJ13 and UK13,
  where the two disagree.
* `CoreImplementsSlice` (`CoreIsSlice`): the library core implements the first version
  of the slice, clock state by clock state, for every word and not for the 43 of
  the run.

It extends `RomTools` as well, for ROM images of every length, every pipe and number of
errors, up to eight images to a chunk and words of up to eight bytes (`RomAssumption`):

* `ReadErrorsAreReported` (`ErrorIsReported`): needs `ReportInv`, where the trace of a
  failed read is at any time: on rom2include's input; on the file that romcat is
  reading, which with one file in a chunk is the one whose end it will look at; or in
  romcat's status.
* `WordsCorrect` (`WordsAreRows`), for fewer files and whole words than the programs'
  counters can hold.  The invariant `RowsInv` is about everything sent so far, `Sent`, wherever it
  is by now (in a word printed, in the word begun, or in the pipe): while a chunk is
  read it is all rows of the chunks before (`Before`) and those of this chunk up to row
  `q` and file `f`, the files before `f` are one byte further than the others, and the
  count `i` is the length of all that modulo its width.  From the count the program takes the
  file it reads next, and `FileIsAskedFor` shows that it is `f`: what stands before a chunk is
  whole rows (`EvenBefore`), and a remainder of them is too if the modulus is (`SlotIs`).
  `NextByte` shows that the first file to end is where the rows end.  A comma stands before
  every initialiser whose count is not 0 (`Commas`), which within the limits are all but
  the first, and the files that `romcat` counts are all of them (`AllNamed`).  The bounds of
  `InRange` are needed: a count that only just comes to a modulus which is no multiple of the
  stride starts again with the first file, whose end is then not seen in time.

`CentfsPartsProofs`, for names of every length, every alphabet and every pattern
(`MatchAssumption`):

* `AcceptsOnlyMatches` (`NoFalseMatch`) and `RefusesNoMatch` (`NoMissedMatch`).  The
  invariant speaks of alignments: `Placed`, that what has been consumed of the pattern can
  be laid along what has been consumed of the name; `Forced`, that where the algorithm
  can decide, every alignment of the whole part puts the current position where the
  program is, or, behind a star, not before it; and `Refused`, that there is none once it has
  said no.  `fnlen` and `length` are defined by what they find, the last byte that is no
  space and the first Nul: that these exist is the well-ordering of the numbers
  (`NatLessThanWellFounded` and the library's theorem on minimal elements).
* `MatchTypeCorrect`.

`DiskToolsProofs`, for every dump, block count, number of refused writes, buffer and size
of sectors (`DumpsAssumption`, `ToolsAssumption`, `SectorAssumption`, `CountAssumption`):

* `BlocksCorrect` (`BlocksInPlace`): needs `RepackInv`, which adds what the static buffer
  holds: the last block read, and behind a short one the tail of the block before.
  Where a slot of the image comes from (`from`) is part of the state, and `RepackInv`
  says that these places ascend and lie before the block the copy is at; a
  refused write takes an end away, of which the bound on what stdio holds back says how
  long it can be.
* `ChainCorrect` (`ListsChain`): needs `ChainInv`, that each sector visited names another
  visited one or the one to come (`Followed`), and that the count is that of the sectors
  visited until one comes for the second time, after which no link can lead to a last
  archive any more (`Counted`).
* `BootDirectoryCorrect` (`ListsBootDirectory`): needs `BootInv`, that the static buffer
  shows the sector being searched as far as the file has it (behind a short read it
  still holds an earlier one), that the entries of the sectors searched so far are
  listed in the order of the file (`InOrder`), and that none of them is a terminator.
  The sector where the search starts is a matter of arithmetic: `KeyIsDiskCode` and
  `StartIsBootSector` show that `make_key` and `calc_boot_dir_start`, which add, divide
  and multiply, give what the bootloader's instructions give, which the module states
  as operations on sets of digits.  They rest on lemmas about words: a word has the
  digits of its value and is told from another by them (`BitsOfValue`, `SameDigits`), and
  complement, rotation and the shifts by four and eight move digits (`BitsOfComplement`,
  `BitsOfRotated`, `BitsMovedUp4`, `BitsMovedUp8`).
* `RepackCorrect` (`RepackedAlike`): the two runs of a tool are compared step by step.
  `Move` is a step of either tool along the dump's whole sectors, without buffer or block
  size; `BootAlike` and `LsAlike` show that each round on either file is such a step, or
  fails where the image was cut off.  Since runs have no bound and the state does not
  count steps, `AlikeInv` says "this state leads to that end" with sets closed under
  `Move` (`Reaches`): on the dump the tool has come from the beginning to where it is; on
  the image it is on the way to the end that it had on the dump.  `Reaches` speaks of
  all sets, so TLC cannot evaluate this invariant; it checks `RepackedAlike` itself.

The same module extends `CentfsImage`, for every layout, option, request and width of
positions (`ImageAssumption`):

* `ImageTypeCorrect`, `ReadsCorrect` (`ReadsSectorAsked`).  The property says where a read
  stands; the inductive invariant says how the distance between sectors came about:
  `Scanned`, that while the loop runs `i` lies within the run of 0xff that the layout
  has, and `SizeKnown`, that a size found, or told, is the layout's pitch.

`Cpu6MachineProofs`, for every register file, set of operation codes and number of
calls (`MachineAssumption`):

* `TypeCorrect`: levels beyond 15 and frames across the end of memory leave
  registers and memory in their widths.
* `BanksCorrect` (`BanksKeepApart`) and `FrameCorrect` (`FrameIsTaken`) rest on `TypeOK` alone
  and on lemmas about memory: a word written is two cells (`WriteTwo`), the registers
  of a level are cells of that level (`RegisterCells`), `Keeps` composes, and a pop
  takes the byte its moved pointer leads to, which is a byte of the moved pointer
  itself where it stands there, and leaves all cells but the pointer alone (`PopStep`).  Five such pops are the return from the stack.

It extends `Cpu6Alu` as well, for bytes and for words, every operand and every count the
emulator can pass (`AluAssumption`; the run has bytes and boundary operands):

* `AluArithmeticCorrect` (`ArithmeticIsExact`) rests on `AluTypeOK` and on what a
  remainder is of a number that is off by one modulus at most (`Wraps`).
* `AluShiftsCorrect` (`ShiftsAreExact`), for ASR by less than the width and RRC by one
  place: a shift's two factors make up the modulus
  (`PowersOfModulus`), so the sign bits that `ASR` joins to the register are what the
  division of a negative number has less than that of its unsigned form
  (`PowerDivides`).

Model-checked only are:

* liveness (`CopySettles`, `SearchSettles`, `ToolsSettle` of both compositions): the
  prover has neither ENABLED nor fairness.

Every other property of a run is stated by a theorem.  Proved but not evaluated by TLC is
`FindIInv` itself: it chooses a function (`Tables`) and asks for a sequence of
remainders, which TLC cannot enumerate; `SearchIsExact` and `DamageIsLast`, which follow
from it, are checked by `find_volume`.

Induction enters these proofs in three forms: over the steps of a behaviour, as the
choice of a least element of a set of numbers, and, from that, over the numbers as
members of a set (`Induction` of `SequenceLemmas`).  The last one unfolds `FlattenSeq`, which
joins the sequences of a sequence by a function defined recursively: such a function
exists for every length (`FlattensExists`), it is the only one (`FlattensUnique`), so one
sequence more is joined behind the others (`FlattenAppend`).

## Not modelled

* Output: names, dates, columns, usage; option parsing beyond the choice of
  command, -a and -i.  `main` returns 0 whatever happened.
* `centfs_dir_list`, `centfs_FILE_*`, the wrappers of `libcentfs`: no callers.
* The conversion of the pattern to Centurion characters (`cents_nadd_0x80` on
  its first ten characters only): patterns here are what it leaves.
* Of the ALU slices, the outputs Y and F3 of the first version, which copy other
  state; the core's are modelled.
* Of the emulator, what its dispatch cannot reach: memory and register operands,
  branches, loads and stores (lines 332-357 and 430-605).  They are drafts: no input
  executes them, so no behaviour of the program is lost.
* `ISAemu-test-machine.c` does not compile against this emulator.  `clockline.h` and
  `logic-common.h`, which the slices include, are not in the repository: the clock
  comes from outside.
* `ginsumatic`: only its macro `BITRANGE` is used (by `uI_decode`).  The functions
  have no caller and no document says what they should return, so there is nothing
  to state beyond the errors above.
* `common-cents.c`, `stripMSB.c` and `hawk-CHS-hexdump.c` map or print one byte after
  the other, without state.
* Generated headers, ROM images, disassemblies and notes are data.

## Plan

Done: the modules and proofs above.  What would come next:

1. The operand decoding of the emulator, once its dispatch reaches it.
2. The microprogram: sequencer, ROM and ALU in one machine, once the repository wires them.

Liveness stays with TLC: proving it would need ENABLED and fairness.
