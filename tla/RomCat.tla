-------------------------------- MODULE RomCat --------------------------------
(***************************************************************************)
(* romcat.c: one byte in turn from each of `stride' ROM images, which make *)
(* up a chunk, and one chunk of images after the other.  A byte is known   *)
(* by the file it comes from and its offset there.                         *)
(***************************************************************************)
EXTENDS Naturals, Sequences, FiniteSets, FiniteSetsExt

CONSTANTS
  IModulus,        \* 2^16 in the code: i is a uint16_t
  FileModulus,     \* 2^8: so is the number of files a uint8_t
  PipeSize,        \* bytes on their way to the reader of the output
  MaxErrors,       \* bound on the reads that fail
  Missing,         \* in place of its length: a file that cannot be opened
  FF               \* fgetc's EOF, printed with %c

VARIABLES
  files,           \* the lengths of the files named, in order
  stride,
  c, i,            \* the chunk, and the count of bytes, which goes on over chunks
  pos, err,        \* of the chunk's files: their positions, and those with ferror set
  pipe,            \* what was printed and not yet read
  failures,        \* reads that failed, of both programs
  cpc              \* "open", "read", "done" or "failed"

cat == <<files, stride, c, i, pos, err, cpc>>

CatInit ==
  /\ c = 0 /\ i = 0 /\ pos = [f \in 0 .. stride - 1 |-> 0] /\ err = {}
  /\ pipe = <<>> /\ cpc = "open"

fnum(f) == stride * c + f
f_i     == i % stride
named   == Len(files) % FileModulus        \* files of the code
chunks  == named \div stride
IsMissing(f) == files[fnum(f) + 1] = Missing
AtEOF   == pos[f_i] = files[fnum(f_i) + 1]

Open ==
  /\ cpc = "open" /\ c < chunks /\ \A f \in 0 .. stride - 1 : ~IsMissing(f)
  /\ pos' = [f \in 0 .. stride - 1 |-> 0] /\ err' = {} /\ cpc' = "read"
  /\ UNCHANGED <<files, stride, c, i, pipe, failures>>

(* The files behind the one missing are closed as well, through pointers   *)
(* that are stale or were never set: the program may die there and lose    *)
(* what it had not yet flushed.                                            *)
OpenFails ==
  /\ cpc = "open" /\ c < chunks /\ \E f \in 0 .. stride - 1 : IsMissing(f)
  /\ cpc' = "failed"
  /\ \/ UNCHANGED pipe
     \/ /\ \E f \in 0 .. stride - 2 : IsMissing(f)
        /\ \E k \in 0 .. Len(pipe) : pipe' = SubSeq(pipe, 1, k)
  /\ UNCHANGED <<files, stride, c, i, pos, err, failures>>

Finish ==
  /\ cpc = "open" /\ c >= chunks /\ cpc' = "done"
  /\ UNCHANGED <<files, stride, c, i, pos, err, pipe, failures>>

Put(b) == Len(pipe) < PipeSize /\ pipe' = Append(pipe, b) /\ i' = (i + 1) % IModulus

ReadByte ==
  /\ cpc = "read" /\ ~AtEOF
  /\ Put(<<fnum(f_i), pos[f_i]>>) /\ pos' = [pos EXCEPT ![f_i] = @ + 1]
  /\ UNCHANGED <<files, stride, c, err, failures, cpc>>

(* A read that fails is no end of file: its EOF is printed like a byte.    *)
ReadError ==
  /\ cpc = "read" /\ failures < MaxErrors
  /\ Put(FF) /\ err' = err \cup {f_i} /\ failures' = failures + 1
  /\ UNCHANGED <<files, stride, c, pos, cpc>>

(* Faulty variants stand before the definition they vary.                  *)
ChunkEndsUnchecked ==              \* without ferror
  /\ cpc = "read" /\ AtEOF /\ c' = c + 1 /\ cpc' = "open"
  /\ UNCHANGED <<files, stride, i, pos, err, pipe, failures>>

ChunkEndsPrinted ==                \* the end is looked for after printing
  /\ cpc = "read" /\ AtEOF /\ Put(FF)
  /\ IF f_i \in err THEN cpc' = "failed" /\ c' = c ELSE cpc' = "open" /\ c' = c + 1
  /\ UNCHANGED <<files, stride, pos, err, failures>>

ChunkEndsBreaksSwitch ==           \* a break that leaves an inner block only
  /\ cpc = "read" /\ AtEOF
  /\ UNCHANGED <<cat, pipe, failures>>

(* The first file that ends ends the chunk; ferror is asked of it alone.   *)
ChunkEnds ==
  /\ cpc = "read" /\ AtEOF
  /\ IF f_i \in err THEN cpc' = "failed" /\ c' = c ELSE cpc' = "open" /\ c' = c + 1
  /\ UNCHANGED <<files, stride, i, pos, err, pipe, failures>>

CatStep == Open \/ OpenFails \/ Finish \/ ReadByte \/ ReadError \/ ChunkEnds
=============================================================================
