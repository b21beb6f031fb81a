-------------------------- MODULE MCCentfsExtract ---------------------------
(***************************************************************************)
(* A file laid out over two allocation-list sectors of a directory whose   *)
(* base sector is 16, with extents of two sectors each:                    *)
(*                                                                         *)
(*   sector 20: slots 131, 132 hold an extent and the pointer into ...     *)
(*   sector 17: slots 0 .. 3 hold an extent, a pointer to the same sector, *)
(*              (slot 2 unused) and the extent before ...; its last slot   *)
(*              belongs to another file                                    *)
(*   sector 20: slots 0, 1: an extent and the end.                         *)
(*                                                                         *)
(* The extents and the chain are written down here as the disk's author    *)
(* would; ASSUMEs of CentfsExtract compare them with the decoded bytes.    *)
(* The disk map of this directory starts at sector MCMapStart.             *)
(***************************************************************************)
EXTENDS CentfsExtract, SequencesExt

CONSTANTS MCAbsolute, MCBlk

MCBase     == 16
MCMapStart == 20

(* Encoding: the bytes the decoder must understand.                        *)
Pointer(sector, slot) ==
  LET w == 65535 - (sector - MCBase) IN <<w \div 256, w % 256, slot>>
EndMark == <<255, 255, 0>>
Ext(n) == LET a == n - (IF MCAbsolute THEN 0 ELSE MCBase)
          IN <<a \div 65536, (a \div 256) % 256, a % 256>>
Unused == <<0, 0, 0>>

Fill(f) == [k \in 0 .. 132 |-> IF k \in DOMAIN f THEN f[k] ELSE Unused]

MCAList ==
  20 :> Fill(131 :> Ext(40) @@ 132 :> Pointer(17, 0)
             @@ 0 :> Ext(30) @@ 1 :> EndMark)
  @@ 17 :> Fill(0 :> Ext(50) @@ 1 :> Pointer(17, 3) @@ 3 :> Ext(300)
                @@ 4 :> Pointer(20, 0) @@ 132 :> Pointer(20, 9))

MCChain ==
  << [sector |-> 20, slot |-> 131], [sector |-> 20, slot |-> 132],
     [sector |-> 17, slot |-> 0],   [sector |-> 17, slot |-> 1],
     [sector |-> 17, slot |-> 3],   [sector |-> 17, slot |-> 4],
     [sector |-> 20, slot |-> 0],   [sector |-> 20, slot |-> 1] >>

MCExtents == <<40, 50, 300, 30>>
MCContent == FlattenSeq([k \in 1 .. 4 |-> [j \in 1 .. MCBlk |-> MCExtents[k] + j - 1]])
MCMark    == <<0, MCBlk, MCBlk, 2 * MCBlk, 2 * MCBlk, 3 * MCBlk, 3 * MCBlk, 4 * MCBlk>>

MCSource == [base |-> MCBase, absolute |-> MCAbsolute,
             start |-> MCChain[1], blk |-> MCBlk]

(* The sectors behind the extents exist, and belong to other files.        *)
MCSectors == {17, 20} \union ToSet(MCContent) \union {n + 1 : n \in ToSet(MCContent)}

(* Left over on the stack: an end mark, a pointer and an extent.           *)
MCStackEntries == {EndMark, Pointer(17, 3), Ext(50)}
=============================================================================
