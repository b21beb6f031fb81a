-------------------------------- MODULE Repack --------------------------------
(***************************************************************************)
(* repack_ccdp_dump.c: a CCDP dump, 512 bytes for each sector, becomes an  *)
(* image of sectors of 400 bytes.  image is what was given to stdio and    *)
(* not dropped by it; from tells of each slot its block and place there.   *)
(***************************************************************************)
EXTENDS DiskFile

CONSTANTS
  StdioBuffer,     \* slots that stdio may hold back
  MaxRefused       \* bound on the writes that fail

VARIABLES
  dump, image,     \* the input and the output file
  from,            \* history: where the slots of the image come from
  count,           \* how many blocks the caller asked for
  rbuf,            \* the static buffer
  i, bad,          \* blocks done, and those among them with a bad mark
  flushed,         \* slots of the image that no failure can drop any more
  refused,         \* writes that failed
  rpc              \* "copy" or "done"

output == <<image, from, flushed, refused>>
repack == <<dump, output, count, rbuf, i, bad, rpc>>

RepackInit ==
  /\ image = <<>> /\ from = <<>> /\ rbuf = [k \in 1 .. Pitch |-> Zeros]
  /\ i = 0 /\ bad = 0 /\ flushed = 0 /\ refused = 0 /\ rpc = "copy"

Read == Block(dump, Pitch, i)

Accepted(all, places) ==
  image' = all /\ from' = places /\ UNCHANGED <<flushed, refused>>

(* A write to the device fails: stdio drops what it could not write, of    *)
(* this block and of what it held back of those before.                    *)
Refused(all, places) ==
  /\ refused < MaxRefused /\ refused' = refused + 1
  /\ \E k \in flushed .. Len(all) - 1 :
       /\ Len(image) - k <= StdioBuffer
       /\ image' = SubSeq(all, 1, k) /\ from' = SubSeq(places, 1, k) /\ flushed' = k

(* An error of fread looks like the end of the file: it returns 0 as well. *)
(* The last write is fclose's or exit's, and nobody asks how it went.      *)
RepackEnds ==
  /\ rpc = "copy" /\ rpc' = "done"
  /\ Accepted(image, from) \/ Refused(image, from)
  /\ UNCHANGED <<dump, count, rbuf, i, bad>>

IsBad(b, buffer) == b > Slots /\ ~IsFF(buffer[Slots + 1])

(* Block i behind what there is.                                           *)
Behind(block)  == image \o block
Places(block)  == from \o [k \in 1 .. Len(block) |-> <<i, k>>]

(* Faulty variants stand before the definition they vary.                  *)
CopyBlockAsRead ==                 \* as many bytes as were read
  /\ rpc = "copy" /\ i < count /\ Read # <<>>
  /\ rbuf' = Overwrite(rbuf, Read)
  /\ bad' = IF IsBad(Len(Read), rbuf') THEN bad + 1 ELSE bad
  /\ \/ Accepted(Behind(Read), Places(Read))
     \/ Refused(Behind(Read), Places(Read))
  /\ i' = i + 1
  /\ UNCHANGED <<dump, count, rpc>>

(* One round of the loop.  fwrite returns 0 when it fails, and only -1 is  *)
(* looked for: the loop goes on.                                           *)
CopyBlock ==
  LET block == SubSeq(rbuf', 1, Slots)
  IN /\ rpc = "copy" /\ i < count /\ Read # <<>>
     /\ rbuf' = Overwrite(rbuf, Read)
     /\ bad' = IF IsBad(Len(Read), rbuf') THEN bad + 1 ELSE bad
     /\ \/ Accepted(Behind(block), Places(block))
        \/ Refused(Behind(block), Places(block))
     /\ i' = i + 1
     /\ UNCHANGED <<dump, count, rpc>>

RepackStep == RepackEnds \/ CopyBlock
=============================================================================
