---------------------------- MODULE CentfsImage ----------------------------
(***************************************************************************)
(* Byte positions in a disk image: centfs_image_device_init, which guesses *)
(* the distance from one sector to the next by the run of 0xff bytes after *)
(* the first sector, and centfs_image_read_sector, which relies on it.     *)
(* CentfsDevice is what the rest of the program sees of this.              *)
(*                                                                         *)
(* An image is described by its layout: sectors of 400 bytes, each padded  *)
(* with 0xff to `pitch' bytes.  The padding of a sector that could not be  *)
(* dumped (in bad) starts with a zero byte.  The data of sector 1 happens  *)
(* to start with `lead' bytes of 0xff.                                     *)
(***************************************************************************)
EXTENDS Naturals

CONSTANTS
  Images,        \* the layouts considered
  Options,       \* values of -s; 0 when the option is missing
  Requests,      \* the sector numbers asked for
  PosModulus     \* 2^32: positions are computed in 32 bits (scaled down)

SectorBytes == 400
Longest     == 1024         \* 0x400

Layout == [pitch : Nat \ {0}, sectors : Nat, bad : SUBSET Nat, lead : 0 .. SectorBytes - 1]

ASSUME ImageAssumption ==
  /\ Images \subseteq Layout
  /\ \A l \in Images : l.pitch >= SectorBytes /\ (l.pitch = SectorBytes => l.bad = {})
  /\ Options \subseteq Nat /\ Requests \subseteq Nat
  /\ PosModulus \in Nat \ {0}

VARIABLES
  image,         \* the layout of the image
  option,        \* sector_size as given by the user
  pc,
  i,             \* bytes scanned
  size,          \* img->sector_size
  req,           \* sec->number
  pos,           \* where sec->data was read from
  state          \* sec->state

imageVars == <<image, option, pc, i, size, req, pos, state>>

Length == image.pitch * image.sectors

(* The bytes that steer the program, when they lie inside the image.       *)
IsFF(k) ==
  LET n == k \div image.pitch
      b == k % image.pitch
  IN IF b < SectorBytes THEN n = 1 /\ b < image.lead
                        ELSE ~(n \in image.bad /\ b = SectorBytes)
IsFlagged(k) == k % image.pitch = SectorBytes /\ k \div image.pitch \in image.bad

ImageInit ==
  /\ image \in Images
  /\ option \in Options
  /\ pc = "open"
  /\ i = 0 /\ size = 0
  /\ req = 0 /\ pos = 0 /\ state = "UNREAD"

Open ==
  /\ pc = "open"
  /\ \/ pc' = "failed" /\ UNCHANGED size               \* fopen fails
     \/ option = 0 /\ pc' = "scan" /\ UNCHANGED size
     \/ option # 0 /\ pc' = "ready" /\ size' = option
  /\ UNCHANGED <<image, option, i, req, pos, state>>

(* The loop of centfs_image_detect_sector_size.                            *)
ScanByte ==
  /\ pc = "scan"
  /\ i < Longest + 1 /\ i < Length
  /\ i < SectorBytes \/ IsFF(i)
  /\ i' = i + 1
  /\ UNCHANGED <<image, option, pc, size, req, pos, state>>

(* The end of the image, or an I/O error at any byte.                      *)
ScanFails ==
  /\ pc = "scan"
  /\ i < Longest + 1
  /\ pc' = "failed"
  /\ UNCHANGED <<image, option, i, size, req, pos, state>>

DetectedShort(n) == IF n <= 512 THEN SectorBytes
                    ELSE IF n % 256 # 0 THEN n % 256 ELSE n

Detected(n) == IF n < 512 THEN SectorBytes
               ELSE IF n % 256 # 0 THEN n % 256 ELSE n

(* The run is over: at a byte that is not 0xff, or after 0x401 bytes.      *)
ScanEnds ==
  /\ pc = "scan"
  /\ \/ i = Longest + 1
     \/ i >= SectorBytes /\ i < Length /\ ~IsFF(i)
  /\ size' = Detected(i)
  /\ pc' = "ready"
  /\ UNCHANGED <<image, option, i, req, pos, state>>

(* centfs_image_read_sector reads the data of the sector, and when sectors *)
(* are padded one byte more, which tells whether the sector was dumped.    *)
(* An I/O error may strike at any time, and closes the file.               *)
ReadSector(n) ==
  LET p     == (n * size) % PosModulus
      extra == p + SectorBytes
  IN
  /\ pc = "ready"
  /\ req' = n
  /\ \/ /\ p + SectorBytes <= Length
        /\ size > SectorBytes => extra < Length
        /\ pos' = p
        /\ state' = IF size > SectorBytes /\ IsFlagged(extra)
                    THEN "READ_ERROR" ELSE "READ_VALID"
        /\ UNCHANGED pc
     \/ pc' = "failed" /\ UNCHANGED <<pos, state>>
  /\ UNCHANGED <<image, option, i, size>>

ImageTerminated == pc = "failed" /\ UNCHANGED imageVars

ImageNext ==
  \/ Open \/ ScanByte \/ ScanFails \/ ScanEnds
  \/ \E n \in Requests : ReadSector(n)
  \/ ImageTerminated

ImageSpec == ImageInit /\ [][ImageNext]_imageVars

(***************************************************************************)
(* Properties.                                                             *)
(***************************************************************************)
ImageTypeOK ==
  /\ image \in Images /\ option \in Options
  /\ pc \in {"open", "scan", "ready", "failed"}
  /\ i \in 0 .. Longest + 1
  /\ size \in Nat
  /\ req \in Requests \union {0} /\ pos \in 0 .. PosModulus - 1
  /\ state \in {"UNREAD", "READ_VALID", "READ_ERROR"}

(* Layouts that centfs_image_detect_sector_size can recognise: multiples   *)
(* of 0x100 up to 0x400, when the first sector was dumped and the second   *)
(* does not start with 0xff; or no padding, and few bytes of 0xff.         *)
Recognisable ==
  IF image.pitch = SectorBytes
  THEN image.lead < 512 - SectorBytes
  ELSE /\ image.pitch \in {512, 768, 1024}
       /\ 0 \notin image.bad
       /\ image.lead = 0

PitchKnown == IF option = 0 THEN Recognisable ELSE option = image.pitch

(* The number of bytes computed for a sector did not wrap around.          *)
Fits == req * size < PosModulus

(* With the distance guessed from a recognisable layout, or told by the    *)
(* user, every read that succeeds is of the sector asked for, inside the   *)
(* volume, and is reported as a read error exactly when the dump marks     *)
(* that sector bad: CentfsDevice rests on it.                              *)
ReadsSectorAsked ==
  pc = "ready" /\ state # "UNREAD" /\ PitchKnown /\ Fits =>
    /\ pos = req * image.pitch /\ req < image.sectors
    /\ state = "READ_ERROR" <=> req \in image.bad

(* centfs_image_detect_sector_size says of a run that goes beyond 0x400    *)
(* bytes that it assumes sectors of 0x400 bytes.                           *)
LongRunMeansLongest ==
  pc = "ready" /\ option = 0 /\ i > Longest => size = Longest
=============================================================================
