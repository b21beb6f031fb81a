---------------------------- MODULE MCCentfsFind ----------------------------
(***************************************************************************)
(* A volume with a root directory of two sectors and libraries.  The       *)
(* root's header names its allocation list (sector 20), so its extents are *)
(* absolute; the libraries have none, so theirs are relative.  Root holds  *)
(* a file over two list sectors (A), a library whose list starts with a    *)
(* pointer (L), a directory file (D), a library without extents (E), a     *)
(* library (M) and a file (B) recorded in the second sector, and fillers   *)
(* that no pattern matches.  Library L holds another one, N.  Library W,   *)
(* the last record of root, has no end: its two sectors are full, and      *)
(* file_idx (modulo 30: more than root needs, less than two sectors) comes *)
(* round to the header.                                                    *)
(***************************************************************************)
EXTENDS CentfsFind

Root == 16

Pointer(base, sector, slot) ==
  LET w == 65535 - (sector - base) IN <<w \div 256, w % 256, slot>>
EndMark == <<255, 255, 0>>
Ext(a)  == <<0, a \div 256, a % 256>>
Attr(increment) == <<0, increment, 0>>
Unused == <<0, 0, 0>>

Slots(f) == [k \in 0 .. 132 |-> IF k \in DOMAIN f THEN f[k] ELSE Unused]

MCAList ==
  20 :> Slots(1  :> Attr(1) @@ 2  :> Ext(40) @@ 3 :> Pointer(Root, 21, 5)     \* A
           @@ 11 :> Attr(0) @@ 12 :> Pointer(Root, 21, 0)                     \* L
           @@ 21 :> Attr(0) @@ 22 :> Ext(46) @@ 23 :> EndMark                 \* D
           @@ 31 :> Attr(0) @@ 32 :> EndMark                                  \* E
           @@ 41 :> Attr(0) @@ 42 :> Ext(48) @@ 43 :> EndMark)                \* B
  @@ 21 :> Slots(0 :> Ext(60) @@ 1 :> EndMark                                 \* L
              @@ 5 :> Ext(44) @@ 6 :> EndMark                                 \* A
              @@ 21 :> Attr(0) @@ 22 :> Ext(70) @@ 23 :> EndMark)             \* M
  @@ 62 :> Slots(1  :> Attr(1) @@ 2 :> Ext(5) @@ 3 :> EndMark                 \* L.A
              @@ 11 :> Attr(0) @@ 12 :> Ext(8) @@ 13 :> EndMark               \* L.C
              @@ 21 :> Attr(0) @@ 22 :> Ext(20) @@ 23 :> EndMark)             \* L.N
  @@ 94 :> Slots(1  :> Attr(0) @@ 2 :> Ext(90) @@ 3 :> EndMark)               \* W
  @@ 71 :> Slots(1  :> Attr(0) @@ 2 :> Ext(2) @@ 3 :> EndMark)                \* M.C
  @@ 81 :> Slots(1  :> Attr(0) @@ 2 :> Ext(4) @@ 3 :> EndMark)                \* L.N.C

Record(name, type, offset, entry) ==
  [name |-> name, type |-> type, offset |-> offset, entry |-> entry]

MCNoName == "none"
Records(f) ==
  [k \in 0 .. 24 |-> IF k \in DOMAIN f THEN f[k] ELSE Record(MCNoName, "FILE", 0, 0)]

MCDirents ==
  16 :> [k \in 0 .. 24 |->
           CASE k = 1 -> Record("A", "FILE", 0, 0)
             [] k = 2 -> Record("L", "LIB",  0, 10)
             [] k = 3 -> Record("D", "DIR",  0, 20)
             [] k = 4 -> Record("E", "LIB",  0, 30)
             [] OTHER -> Record("filler", "FILE", 0, 20)]
  @@ 17 :> Records(0 :> Record("M", "LIB", 1, 20) @@ 1 :> Record("B", "FILE", 0, 40)
              @@ 2 :> Record("W", "LIB", 74, 0))
  @@ 60 :> Records(0 :> Record("lib", "FILE", 0, 0)
              @@ 1 :> Record("A", "FILE", 2, 0) @@ 2 :> Record("C", "FILE", 2, 10)
              @@ 3 :> Record("N", "LIB", 2, 20))
  @@ 70 :> Records(0 :> Record("lib", "FILE", 0, 0) @@ 1 :> Record("C", "FILE", 1, 0))
  @@ 90 :> [k \in 0 .. 24 |-> Record("filler", "FILE", 4, 0)]
  @@ 91 :> [k \in 0 .. 24 |-> Record("filler", "FILE", 4, 0)]
  @@ 80 :> Records(0 :> Record("lib", "FILE", 0, 0) @@ 1 :> Record("C", "FILE", 1, 0))

MCHeader  == 16 :> 20 @@ 60 :> 0 @@ 70 :> 0 @@ 80 :> 0 @@ 90 :> 0
MCSectors == DOMAIN MCDirents \union DOMAIN MCAList
             \union {40, 41, 44, 45, 46, 48, 65, 66, 68, 72, 84}

MCStackEntries == {EndMark, Ext(40)}

(* The same, as its author would describe it.                              *)
VFile(name, type, size, extents, chain) ==
  [name |-> name, type |-> type, size |-> size, extents |-> extents, chain |-> chain]
Link(sector, slot, ahead) == [at |-> [sector |-> sector, slot |-> slot], ahead |-> ahead]

(* A file with one extent and its list in two slots.                       *)
Plain(name, type, size, extent, sector, slot) ==
  VFile(name, type, size, <<extent>>, <<Link(sector, slot, 0), Link(sector, slot + 1, 1)>>)

MCVolume ==
  16 :> << VFile("A", "FILE", 2, <<40, 44>>,
                 <<Link(20, 2, 0), Link(20, 3, 1), Link(21, 5, 1), Link(21, 6, 2)>>),
           VFile("L", "LIB", 1, <<60>>, <<Link(20, 12, 0), Link(21, 0, 0), Link(21, 1, 1)>>),
           Plain("D", "DIR", 1, 46, 20, 22),
           VFile("E", "LIB", 1, <<>>, <<Link(20, 32, 0)>>) >>
        \o [k \in 1 .. 20 |-> Plain("filler", "FILE", 1, 46, 20, 22)]
        \o << Plain("M", "LIB", 1, 70, 21, 22), Plain("B", "FILE", 1, 48, 20, 42),
              Plain("W", "LIB", 1, 90, 94, 2) >>
  @@ 60 :> << Plain("A", "FILE", 2, 65, 62, 2), Plain("C", "FILE", 1, 68, 62, 12),
              Plain("N", "LIB", 1, 80, 62, 22) >>
  @@ 70 :> << Plain("C", "FILE", 1, 72, 71, 2) >>
  @@ 80 :> << Plain("C", "FILE", 1, 84, 81, 2) >>
  @@ 90 :> [k \in 1 .. 29 |-> Plain("filler", "FILE", 1, 180, 94, 2)]

MCCommands == { [callback |-> "extract", all |-> FALSE],
                [callback |-> "list", all |-> TRUE],
                [callback |-> "index", all |-> FALSE] }

Names == {"A", "B", "C", "D", "E", "L", "M", "N", "W"}
MCPatterns == { <<Names>>, <<{"B", "C"}>>, <<{"L", "M", "A"}, Names>>,
                <<{"M"}, {"C"}>>, <<{"W", "M"}, Names>>, <<{"E", "M"}, Names>>, <<{"L", "M"}, {"N", "C"}, Names>> }
=============================================================================
