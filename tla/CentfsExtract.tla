--------------------------- MODULE CentfsExtract ----------------------------
(***************************************************************************)
(* Extracting one file of an image: `centfs-extract IMAGE extract NAME'    *)
(* from the moment the directory entry has been read.                      *)
(***************************************************************************)
EXTENDS CentfsWalk

CONSTANTS
  Source,      \* the file: a member of File
  Chain,       \* the list entries of the file in order, its end last
  Mark,        \* Mark[i]: blocks that precede the i-th entry of Chain
  Content      \* the blocks of the file

vars == walkVars

Init == WalkInit(Source) /\ pc = "dalent"

Terminated == pc \in {"walked", "crashed"} /\ UNCHANGED vars

Step ==
  \/ FollowLink(Source)
  \/ TakeExtent(Source)
  \/ EndOfList
  \/ CopyBlock
  \/ Crash

Next == Step \/ Terminated

(* One thread of control, whose calls return: it is never stopped for ever *)
(* between two of them.                                                    *)
Spec == Init /\ [][Next]_vars /\ WF_vars(Step)

(***************************************************************************)
(* A well-formed list, said of the bytes on the disk.                      *)
(***************************************************************************)
EntryOf(i) == AList[Chain[i].sector][Chain[i].slot]

ASSUME SourceAssumption == Source \in File

ASSUME ChainAssumption ==
  /\ Chain \in Seq(Position) /\ Chain # <<>>
  /\ Chain[1] = Source.start
  /\ \A i \in DOMAIN Chain : OnList(Chain[i])
  /\ \A i \in DOMAIN Chain :
       /\ IsEnd(EntryOf(i)) <=> i = Len(Chain)
       /\ i < Len(Chain) =>
            Chain[i + 1] = IF IsPointer(EntryOf(i))
                           THEN LinkTarget(Source, EntryOf(i))
                           ELSE FollowingSlot(Chain[i])

ASSUME ContentAssumption ==
  /\ Content \in Seq(Nat)
  /\ Mark \in [DOMAIN Chain -> 0 .. Len(Content)]
  /\ Mark[1] = 0
  /\ Mark[Len(Chain)] = Len(Content)
  /\ \A i \in DOMAIN Chain :
       i < Len(Chain) =>
         IF IsPointer(EntryOf(i))
         THEN Mark[i + 1] = Mark[i]
         ELSE /\ Mark[i + 1] = Mark[i] + Source.blk
              /\ \A j \in 0 .. Source.blk - 1 :
                   Content[Mark[i] + j + 1] = Extent(Source, EntryOf(i)) + j

(***************************************************************************)
(* Properties.                                                             *)
(***************************************************************************)
TypeOK ==
  /\ WalkTypeOK
  /\ pc \in {"dalent", "block", "walked", "crashed"}

(* As long as the device works, what centfs_dirent_read_file has written   *)
(* is an initial part of the file, and all of it once the walk has ended.  *)
FaithfulCopy ==
  dev = "OPEN" =>
    /\ Len(out) <= Len(Content)
    /\ \A n \in DOMAIN out : out[n] = Content[n]
    /\ pc = "walked" => Len(out) = Len(Content)

(* centfs_read_alist_dalent takes no entry from beyond the sector buffer:  *)
(* nothing in it checks next->byte, only the list keeps it inside.         *)
InsideSector == pc = "dalent" /\ dev = "OPEN" => OnList(next)

(* The walk with its links, its buffers and its unchecked reads implements *)
(* the copy that FileCopy describes.                                       *)
phase == CASE dev # "OPEN"   -> "broken"
           [] dev = "OPEN" /\ pc = "walked" -> "complete"
           [] OTHER          -> "copying"

Abstract == INSTANCE FileCopy WITH phase <- phase
ImplementsFileCopy == Abstract!Spec

(* On a well-formed list the two loops of centfs_read_alist_dalent and     *)
(* centfs_dirent_read_file come to their end, or the device fails.         *)
CopySettles == <>(pc = "walked" \/ dev # "OPEN")

(* The inductive invariant: while the device works, the walk stands at an  *)
(* entry of the chain, or inside the extent that the entry names, and as   *)
(* many blocks are written as precede that place in the file.              *)
Located ==
  dev = "OPEN" =>
    /\ pc = "dalent" =>
         \E i \in DOMAIN Chain : next = Chain[i] /\ Len(out) = Mark[i]
    /\ pc = "block" =>
         \E i \in DOMAIN Chain : \E j \in 0 .. Source.blk - 1 :
           /\ i < Len(Chain) /\ ~IsPointer(EntryOf(i))
           /\ next = Chain[i + 1]
           /\ Len(out) = Mark[i] + j
           /\ num = Extent(Source, EntryOf(i)) + j
           /\ last = Extent(Source, EntryOf(i)) + Source.blk

IInv == TypeOK /\ Located /\ FaithfulCopy
=============================================================================
