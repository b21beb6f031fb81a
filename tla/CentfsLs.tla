------------------------------- MODULE CentfsLs -------------------------------
(***************************************************************************)
(* centfs-ls.c: along the chain of "mini-volumes", each headed by a        *)
(* dirent of 64 bytes that names the sector of the next.                   *)
(***************************************************************************)
EXTENDS DiskFile

CONSTANTS
  DirentSlots,     \* slots that fread wants, 4
  LinkSlot,        \* the slot of next_sector, the third
  CountModulus     \* n has 32 bits

VARIABLES
  file, block,     \* the file opened, and sector_size in slots
  lpc,             \* "walk", "done" or "failed"
  nsec,            \* the sector of the next dirent
  n,               \* dirents read
  seen             \* the sectors they came from, and their names

LsInit(first) == lpc = "walk" /\ nsec = first /\ n = 0 /\ seen = {}

LastArchives == {0, 65535}

(* Faulty variants stand before the definition they vary.                  *)
ReadDirentZeroOnly ==              \* 0xffff is taken for a sector
  LET dirent == Block(file, block, nsec)
  IN /\ lpc = "walk"
     /\ IF Len(dirent) < DirentSlots
        THEN lpc' = "failed" /\ UNCHANGED <<nsec, n, seen>>
        ELSE /\ n' = (n + 1) % CountModulus
             /\ seen' = seen \cup {<<nsec, dirent[LinkSlot].name>>}
             /\ nsec' = dirent[LinkSlot].link
             /\ lpc' = IF nsec' = 0 THEN "done" ELSE "walk"

(* A round of the loop.  fread asks for one dirent, so that a part of one  *)
(* counts for nothing, and feof is never true behind a whole one.          *)
ReadDirent ==
  LET dirent == Block(file, block, nsec)
  IN /\ lpc = "walk"
     /\ IF Len(dirent) < DirentSlots
        THEN lpc' = "failed" /\ UNCHANGED <<nsec, n, seen>>
        ELSE /\ n' = (n + 1) % CountModulus
             /\ seen' = seen \cup {<<nsec, dirent[LinkSlot].name>>}
             /\ nsec' = dirent[LinkSlot].link
             /\ lpc' = IF nsec' \in LastArchives THEN "done" ELSE "walk"

LsOver == lpc \in {"done", "failed"}
=============================================================================
