---------------------------- MODULE CentfsFormat ----------------------------
(***************************************************************************)
(* The on-disk records of the Centurion file system, as centfs-extract     *)
(* decodes them.  Only the bytes that steer the program are kept: the      *)
(* 3-byte entries of an allocation list.  A byte offset into such a list   *)
(* is always a multiple of three, so it is counted in entries ("slots").   *)
(***************************************************************************)
EXTENDS Naturals

(* A sector has 400 bytes: 25 directory records of 16 bytes, or 133 whole  *)
(* entries of 3 bytes (byte 399 belongs to none).                          *)
SlotsPerSector   == 133
DirentsPerSector == 25

Byte     == 0 .. 255
WordMax  == 65535
Word     == 0 .. WordMax
Entry    == [1 .. 3 -> Byte]
Position == [sector : Nat, slot : Nat]

BE_WORD(e)   == 256 * e[1] + e[2]
BE_3BYTES(e) == 256 * BE_WORD(e) + e[3]

(* Bit 7 of the first byte separates pointers from extents; a pointer      *)
(* whose second byte is 0xff ends the list.                                *)
IsPointer(e) == e[1] >= 128
IsEnd(e)     == IsPointer(e) /\ e[2] = 255

(* Where a pointer leads (the complement of its word, counted from the     *)
(* base sector of the directory), and the first sector of an extent.  A    *)
(* file f carries the base sector of its directory, and whether that       *)
(* directory's header names an allocation list: then extents are absolute. *)
LinkTarget(f, e) == [sector |-> f.base + (WordMax - BE_WORD(e)), slot |-> e[3]]
Extent(f, e)     == BE_3BYTES(e) + (IF f.absolute THEN 0 ELSE f.base)
FollowingSlot(p) == [p EXCEPT !.slot = @ + 1]
=============================================================================
