---------------------------- MODULE DiskToolsProofs ----------------------------
(***************************************************************************)
(* The image that repack makes, for every dump, block count and pattern of *)
(* failed writes; and what centfs-ls and centboot find on either file.     *)
(***************************************************************************)
EXTENDS DiskTools, FiniteSetTheorems, SequenceTheorems, WellFoundedInduction, TLAPS

(***************************************************************************)
(* Arithmetic of blocks.                                                   *)
(***************************************************************************)
(* The next block begins a block further on.                              *)
LEMMA NextBlock ==
  ASSUME NEW a \in Int, NEW c \in Int
  PROVE  (a + 1) * c = a * c + c
OBVIOUS

(* An earlier block ends before a later one begins.                        *)
LEMMA EarlierBlock ==
  ASSUME NEW a \in Nat, NEW b \in Nat, NEW c \in Nat, a < b
  PROVE  a * c + c <= b * c
<1>1. PICK d \in Nat : b = (a + 1) + d
  <2>1. b - a - 1 \in Nat /\ b = (a + 1) + (b - a - 1)
    OBVIOUS
  <2> QED BY <2>1
<1>2. b * c = a * c + c + d * c
  BY <1>1
<1>3. d * c \in Nat
  OBVIOUS
<1>4. a * c \in Nat
  OBVIOUS
<1> QED BY <1>2, <1>3, <1>4

(* A product is not less than a factor.                                    *)
LEMMA AtLeastFactor ==
  ASSUME NEW a \in Nat, NEW c \in Nat, 0 < c
  PROVE  a <= a * c
<1>1. PICK d \in Nat : c = d + 1
  <2>1. c - 1 \in Nat /\ c = (c - 1) + 1
    OBVIOUS
  <2> QED BY <2>1
<1>2. a * c = a * d + a
  BY <1>1
<1>3. a * d \in Nat
  BY <1>1
<1> QED BY <1>2, <1>3

(* The end of a block that fread is asked for, or the end of the file.      *)
LEMMA MinOfTwo ==
  ASSUME NEW a \in Int, NEW b \in Int
  PROVE  Min({a, b}) = IF a <= b THEN a ELSE b
BY DEF Min

(***************************************************************************)
(* What fread finds.                                                       *)
(***************************************************************************)
(* A block that is not empty begins inside the file, and ends with it.      *)
LEMMA BlockContents ==
  ASSUME NEW S, NEW file \in Seq(S), NEW size \in Nat, NEW at \in Nat,
         Block(file, size, at) # <<>>
  PROVE  /\ at * size < Len(file)
         /\ Block(file, size, at) \in Seq(S)
         /\ \A k \in 1 .. size :
              k <= Len(Block(file, size, at)) <=> at * size + k <= Len(file)
         /\ \A k \in 1 .. Len(Block(file, size, at)) :
              Block(file, size, at)[k] = file[at * size + k]
<1> DEFINE base == at * size
           m == Min({Len(file), (at + 1) * size})
<1>1. base \in Nat /\ Len(file) \in Nat /\ base + size \in Nat
  BY LenProperties
<1>2. (at + 1) * size = base + size
  BY NextBlock
<1>3. m = IF Len(file) <= base + size THEN Len(file) ELSE base + size
  <2> HIDE DEF base
  <2>1. Min({Len(file), base + size}) =
          IF Len(file) <= base + size THEN Len(file) ELSE base + size
    BY <1>1, MinOfTwo
  <2> QED BY <1>2, <2>1, Zenon
<1>4. Block(file, size, at) = SubSeq(file, base + 1, m)
  BY DEF Block
<1> HIDE DEF base, m
<1>5. base + 1 <= m
  BY <1>1, <1>3, <1>4, SubSeqEmpty
<1>6. \A k \in base + 1 .. m : file[k] \in S
  BY <1>1, <1>3, ElementOfSeq
<1>7. base + 1 \in Int /\ m \in Int /\ m - (base + 1) + 1 = m - base
  BY <1>1, <1>3
<1>8. /\ SubSeq(file, base + 1, m) \in Seq(S)
      /\ Len(SubSeq(file, base + 1, m)) = m - (base + 1) + 1
      /\ \A k \in 1 .. m - (base + 1) + 1 :
           SubSeq(file, base + 1, m)[k] = file[(base + 1) + k - 1]
  BY <1>5, <1>6, <1>7, SubSeqProperties
<1>9. \A k \in 1 .. m - base : SubSeq(file, base + 1, m)[k] = file[base + k]
  <2> SUFFICES ASSUME NEW k \in 1 .. m - base
               PROVE  SubSeq(file, base + 1, m)[k] = file[base + k]
    OBVIOUS
  <2>1. (base + 1) + k - 1 = base + k
    BY <1>1
  <2>2. k \in 1 .. m - (base + 1) + 1
    BY <1>7
  <2>3. SubSeq(file, base + 1, m)[k] = file[(base + 1) + k - 1]
    BY <1>8, <2>2
  <2> QED BY <2>1, <2>3
<1>10. base < Len(file) /\ \A k \in 1 .. size : k <= m - base <=> base + k <= Len(file)
  BY <1>1, <1>3, <1>5
<1> QED BY <1>4, <1>7, <1>8, <1>9, <1>10 DEF base

(* An empty block begins where the file has ended.                         *)
LEMMA BlockInside ==
  ASSUME NEW S, NEW file \in Seq(S), NEW size \in Nat, NEW at \in Nat, 0 < size,
         Block(file, size, at) = <<>>
  PROVE  Len(file) <= at * size
<1> DEFINE base == at * size
           m == Min({Len(file), (at + 1) * size})
<1>1. base \in Nat /\ Len(file) \in Nat /\ base + size \in Nat
  BY LenProperties
<1>2. (at + 1) * size = base + size
  BY NextBlock
<1>3. m = IF Len(file) <= base + size THEN Len(file) ELSE base + size
  <2> HIDE DEF base
  <2>1. Min({Len(file), base + size}) =
          IF Len(file) <= base + size THEN Len(file) ELSE base + size
    BY <1>1, MinOfTwo
  <2> QED BY <1>2, <2>1, Zenon
<1>4. SubSeq(file, base + 1, m) = <<>>
  BY DEF Block
<1> HIDE DEF base, m
<1>5. SUFFICES ASSUME ~(Len(file) <= base) PROVE FALSE
  BY DEF base
<1>6. base + 1 <= m /\ base + 1 \in Int /\ m \in Int /\ m - (base + 1) + 1 > 0
  BY <1>1, <1>3, <1>5
<1>7. \A k \in base + 1 .. m : file[k] \in S
  BY <1>1, <1>3, ElementOfSeq
<1>8. Len(SubSeq(file, base + 1, m)) = m - (base + 1) + 1
  BY <1>6, <1>7, SubSeqProperties
<1>9. Len(SubSeq(file, base + 1, m)) = 0
  BY <1>4, EmptySeq
<1> QED BY <1>6, <1>8, <1>9

(***************************************************************************)
(* The invariant: besides the property, what the static buffer holds.      *)
(***************************************************************************)
(* What a slot of a file or of the buffer can be.                          *)
Stored == Contents \cup {Zeros}

(* Slot k of the buffer once block b has been read into it.                *)
Holds(b, k) ==
  IF b < 0 THEN Zeros
  ELSE IF b * Pitch + k <= Len(dump) THEN dump[b * Pitch + k]
  ELSE IF b = 0 THEN Zeros ELSE dump[(b - 1) * Pitch + k]

(* The image and its history, of what the first j blocks left: each slot   *)
(* is one of theirs, and comes behind those that went before it.           *)
Faithful(img, places, j) ==
  /\ img \in Seq(Stored) /\ places \in Seq(Nat \X Nat)
  /\ Len(places) = Len(img) /\ Len(img) <= j * Slots
  /\ \A p \in 1 .. Len(img) :
       /\ places[p][1] \in 0 .. j - 1 /\ places[p][2] \in 1 .. Slots
       /\ img[p] = Holds(places[p][1], places[p][2])
  /\ \A p \in 1 .. Len(img) - 1 :
       places[p][1] * Slots + places[p][2] < places[p + 1][1] * Slots + places[p + 1][2]

(* Block b in the image, at its place.                                     *)
InPlace(b) == \A k \in 1 .. Slots : image[b * Slots + k] = Holds(b, k)

(* Blocks with a bad mark among the first j.                               *)
Marked(j) == { b \in 0 .. j - 1 : MarkedBad(b) }

RepackInv ==
  /\ dump \in Seq(Stored) /\ i \in Nat /\ rbuf \in [1 .. Pitch -> Stored]
  /\ i > 0 => (i - 1) * Pitch < Len(dump)
  /\ \A k \in 1 .. Pitch : rbuf[k] = Holds(i - 1, k)
  /\ Faithful(image, from, i)
  /\ flushed \in 0 .. Len(image) /\ refused \in Nat
  /\ i * Slots <= Len(image) + refused * (Slots + StdioBuffer)
  /\ refused = 0 => Len(image) = i * Slots /\ \A b \in 0 .. i - 1 : InPlace(b)
  /\ bad = Cardinality(Marked(i))

(* Nothing read yet: the buffer is zero and the image empty.                *)
LEMMA RepackStarts == Init => RepackInv
<1> SUFFICES ASSUME Init PROVE RepackInv
  OBVIOUS
<1>1. dump \in Seq(Stored) /\ i = 0 /\ image = <<>> /\ from = <<>>
      /\ rbuf = [k \in 1 .. Pitch |-> Zeros] /\ flushed = 0 /\ refused = 0 /\ bad = 0
  <2>1. dump \in Dumps
    BY DEF Init
  <2>2. Dumps \subseteq Seq(Contents)
    BY DumpsAssumption
  <2>3. dump \in Seq(Contents)
    BY <2>1, <2>2
  <2>4. dump \in Seq(Stored)
    BY <2>3, SeqMonotonic DEF Stored
  <2> QED BY <2>4 DEF Init, RepackInit
<1>2. Zeros \in Stored
  BY DEF Stored
<1>3. /\ Len(image) = 0 /\ image \in Seq(Stored)
      /\ Len(from) = 0 /\ from \in Seq(Nat \X Nat)
  BY <1>1, EmptySeq
<1>4. ASSUME NEW k \in 1 .. Pitch PROVE rbuf[k] = Holds(i - 1, k)
  <2>1. rbuf[k] = Zeros
    BY <1>1
  <2>2. i - 1 < 0
    BY <1>1
  <2> QED BY <2>1, <2>2 DEF Holds
<1>5. 0 .. i - 1 = {} /\ i * Slots = 0 /\ refused * (Slots + StdioBuffer) = 0
  <2>1. Slots \in Int /\ Slots + StdioBuffer \in Int
    BY SectorAssumption, ToolsAssumption
  <2>2. \A c \in Int : 0 * c = 0
    OBVIOUS
  <2> QED BY <1>1, <2>1, <2>2
<1>6. Faithful(image, from, i)
  BY <1>3, <1>5 DEF Faithful
<1>7. bad = Cardinality(Marked(i))
  <2>1. Marked(i) = {}
    BY <1>5 DEF Marked
  <2> QED BY <1>1, <2>1, FS_EmptySet
<1>8. rbuf \in [1 .. Pitch -> Stored]
  BY <1>1, <1>2
<1>9. ~(i > 0) /\ i \in Nat
  BY <1>1
<1>10. \A b \in 0 .. i - 1 : InPlace(b)
  BY <1>5
<1>11. flushed \in 0 .. Len(image) /\ refused \in Nat
  BY <1>1, <1>3
<1>12. i * Slots <= Len(image) + refused * (Slots + StdioBuffer) /\ Len(image) = i * Slots
  BY <1>3, <1>5
<1> QED BY <1>1, <1>4, <1>6, <1>7, <1>8, <1>9, <1>10, <1>11, <1>12 DEF RepackInv

(* A block read: the buffer holds it, filled up from the one before.       *)
LEMMA BufferFilled ==
  ASSUME RepackInv, Read # <<>>, rbuf' = Overwrite(rbuf, Read), dump' = dump
  PROVE  /\ rbuf' \in [1 .. Pitch -> Stored]
         /\ i * Pitch < Len(dump)
         /\ \A k \in 1 .. Pitch : rbuf'[k] = Holds(i, k)
<1>1. /\ dump \in Seq(Stored) /\ i \in Nat /\ Pitch \in Nat
      /\ rbuf \in [1 .. Pitch -> Stored] /\ Len(dump) \in Nat
  BY SectorAssumption, LenProperties DEF RepackInv
<1>2. /\ i * Pitch < Len(dump)
      /\ Read \in Seq(Stored)
      /\ \A k \in 1 .. Pitch : k <= Len(Read) <=> i * Pitch + k <= Len(dump)
      /\ \A k \in 1 .. Len(Read) : Read[k] = dump[i * Pitch + k]
  BY <1>1, BlockContents DEF Read
<1>3. Len(Read) \in Nat /\ \A k \in 1 .. Len(Read) : Read[k] \in Stored
  BY <1>2, LenProperties, ElementOfSeq
<1>4. rbuf' = [k \in 1 .. Pitch |-> IF k <= Len(Read) THEN Read[k] ELSE rbuf[k]]
  BY <1>1 DEF Overwrite
<1>5. rbuf' \in [1 .. Pitch -> Stored]
  BY <1>1, <1>3, <1>4
<1>6. ASSUME NEW k \in 1 .. Pitch PROVE rbuf'[k] = Holds(i, k)
  <2>1. CASE k <= Len(Read)
    BY <1>1, <1>2, <1>4, <2>1 DEF Holds
  <2>2. CASE ~(k <= Len(Read))
    <3>1. ~(i * Pitch + k <= Len(dump)) /\ rbuf'[k] = Holds(i - 1, k)
      BY <1>2, <1>4, <2>2 DEF RepackInv
    <3>2. CASE i = 0
      BY <3>1, <3>2 DEF Holds
    <3>3. CASE i > 0
      <4>1. i * Pitch = (i - 1) * Pitch + Pitch
        <5>1. i - 1 \in Int /\ (i - 1) + 1 = i
          BY <1>1
        <5> QED BY <1>1, <5>1, NextBlock
      <4>2. (i - 1) * Pitch \in Int
        BY <1>1
      <4>3. (i - 1) * Pitch + k <= Len(dump)
        BY <1>1, <1>2, <4>1, <4>2
      <4> QED BY <1>1, <3>1, <3>3, <4>3 DEF Holds
    <3> QED BY <1>1, <3>2, <3>3
  <2> QED BY <2>1, <2>2
<1> QED BY <1>2, <1>5, <1>6

(* The part of the buffer that fwrite is given.                            *)
LEMMA Written ==
  ASSUME rbuf' \in [1 .. Pitch -> Stored]
  PROVE  /\ SubSeq(rbuf', 1, Slots) \in Seq(Stored)
         /\ Len(SubSeq(rbuf', 1, Slots)) = Slots
         /\ \A k \in 1 .. Slots : SubSeq(rbuf', 1, Slots)[k] = rbuf'[k]
<1>1. Slots \in Nat \ {0} /\ Pitch \in Nat /\ Slots < Pitch
  BY SectorAssumption
<1>2. \A k \in 1 .. Slots : rbuf'[k] \in Stored
  BY <1>1
<1>3. 1 \in Int /\ Slots \in Int /\ 1 <= Slots /\ Slots - 1 + 1 = Slots
  BY <1>1
<1>4. /\ SubSeq(rbuf', 1, Slots) \in Seq(Stored)
      /\ Len(SubSeq(rbuf', 1, Slots)) = Slots - 1 + 1
      /\ \A k \in 1 .. Slots - 1 + 1 : SubSeq(rbuf', 1, Slots)[k] = rbuf'[1 + k - 1]
  BY <1>2, <1>3, SubSeqProperties
<1>5. \A k \in 1 .. Slots : 1 + k - 1 = k
  BY <1>1
<1> QED BY <1>3, <1>4, <1>5

(* A list with an end dropped is one of the same kind.                     *)
LEMMA Begins ==
  ASSUME NEW S, NEW s \in Seq(S), NEW k \in 0 .. Len(s)
  PROVE  /\ SubSeq(s, 1, k) \in Seq(S) /\ Len(SubSeq(s, 1, k)) = k
         /\ \A p \in 1 .. k : SubSeq(s, 1, k)[p] = s[p]
<1>1. Len(s) \in Nat /\ k \in Int /\ 1 \in Int
  BY LenProperties
<1>2. \A p \in 1 .. k : s[p] \in S
  BY <1>1, ElementOfSeq
<1>3. /\ SubSeq(s, 1, k) \in Seq(S)
      /\ Len(SubSeq(s, 1, k)) = IF 1 <= k THEN k - 1 + 1 ELSE 0
      /\ \A p \in 1 .. k - 1 + 1 : SubSeq(s, 1, k)[p] = s[1 + p - 1]
  BY <1>1, <1>2, SubSeqProperties
<1>4. (IF 1 <= k THEN k - 1 + 1 ELSE 0) = k /\ k - 1 + 1 = k
  BY <1>1
<1>5. \A p \in 1 .. k : 1 + p - 1 = p
  OBVIOUS
<1> QED BY <1>3, <1>4, <1>5

(* What a failed write leaves of a faithful image is one.                  *)
LEMMA FaithfulCut ==
  ASSUME NEW img, NEW places, NEW j \in Nat, Faithful(img, places, j), NEW k \in 0 .. Len(img)
  PROVE  /\ Faithful(SubSeq(img, 1, k), SubSeq(places, 1, k), j)
         /\ Len(SubSeq(img, 1, k)) = k
<1>1. /\ img \in Seq(Stored) /\ places \in Seq(Nat \X Nat)
      /\ Len(places) = Len(img) /\ Len(img) <= j * Slots
  BY DEF Faithful
<1>2. Len(img) \in Nat /\ j * Slots \in Nat
  BY <1>1, LenProperties, SectorAssumption
<1>3. /\ SubSeq(img, 1, k) \in Seq(Stored) /\ Len(SubSeq(img, 1, k)) = k
      /\ \A p \in 1 .. k : SubSeq(img, 1, k)[p] = img[p]
  BY <1>1, Begins
<1>4. /\ SubSeq(places, 1, k) \in Seq(Nat \X Nat) /\ Len(SubSeq(places, 1, k)) = k
      /\ \A p \in 1 .. k : SubSeq(places, 1, k)[p] = places[p]
  BY <1>1, Begins
<1>5. k <= j * Slots /\ k \in Nat
  BY <1>1, <1>2
<1>6. ASSUME NEW p \in 1 .. k
      PROVE  /\ SubSeq(places, 1, k)[p][1] \in 0 .. j - 1
             /\ SubSeq(places, 1, k)[p][2] \in 1 .. Slots
             /\ SubSeq(img, 1, k)[p] =
                  Holds(SubSeq(places, 1, k)[p][1], SubSeq(places, 1, k)[p][2])
  <2>1. p \in 1 .. Len(img)
    BY <1>2
  <2>2. SubSeq(places, 1, k)[p] = places[p] /\ SubSeq(img, 1, k)[p] = img[p]
    BY <1>3, <1>4
  <2>3. /\ places[p][1] \in 0 .. j - 1 /\ places[p][2] \in 1 .. Slots
        /\ img[p] = Holds(places[p][1], places[p][2])
    BY <2>1 DEF Faithful
  <2> QED BY <2>2, <2>3
<1>7. ASSUME NEW p \in 1 .. k - 1
      PROVE  SubSeq(places, 1, k)[p][1] * Slots + SubSeq(places, 1, k)[p][2]
             < SubSeq(places, 1, k)[p + 1][1] * Slots + SubSeq(places, 1, k)[p + 1][2]
  <2>1. p \in 1 .. Len(img) - 1 /\ p \in 1 .. k /\ p + 1 \in 1 .. k
    BY <1>2
  <2>2. SubSeq(places, 1, k)[p] = places[p] /\ SubSeq(places, 1, k)[p + 1] = places[p + 1]
    BY <1>4, <2>1
  <2>3. places[p][1] * Slots + places[p][2] < places[p + 1][1] * Slots + places[p + 1][2]
    BY <2>1 DEF Faithful
  <2> QED BY <2>2, <2>3
<1> QED BY <1>3, <1>4, <1>5, <1>6, <1>7 DEF Faithful

(* A block behind a faithful image.                                        *)
LEMMA FaithfulLonger ==
  ASSUME RepackInv, NEW block \in Seq(Stored), Len(block) = Slots,
         \A k \in 1 .. Slots : block[k] = Holds(i, k)
  PROVE  /\ Faithful(Behind(block), Places(block), i + 1)
         /\ Len(Behind(block)) = Len(image) + Slots
         /\ \A p \in 1 .. Len(image) : Behind(block)[p] = image[p]
         /\ \A k \in 1 .. Slots : Behind(block)[Len(image) + k] = Holds(i, k)
<1> DEFINE own == [k \in 1 .. Slots |-> <<i, k>>]
<1>1. /\ image \in Seq(Stored) /\ from \in Seq(Nat \X Nat) /\ i \in Nat
      /\ Len(from) = Len(image) /\ Len(image) <= i * Slots
      /\ Slots \in Nat /\ Slots > 0 /\ i * Slots \in Nat
  BY SectorAssumption DEF RepackInv, Faithful
<1>2. Len(image) \in Nat
  BY <1>1, LenProperties
<1>3. own \in Seq(Nat \X Nat) /\ Len(own) = Slots
  <2>1. own \in [1 .. Slots -> Nat \X Nat]
    BY <1>1
  <2> QED BY <1>1, <2>1
<1>4. \A k \in 1 .. Slots : own[k] = <<i, k>>
  OBVIOUS
<1>5. Behind(block) = image \o block /\ Places(block) = from \o own
  BY DEF Behind, Places
<1> HIDE DEF own
<1>6. /\ Behind(block) \in Seq(Stored)
      /\ Len(Behind(block)) = Len(image) + Slots
      /\ \A p \in 1 .. Len(image) + Slots :
           Behind(block)[p] = IF p <= Len(image) THEN image[p] ELSE block[p - Len(image)]
  <2>1. image \in Seq(Stored)
    BY <1>1
  <2>2. /\ image \o block \in Seq(Stored)
        /\ Len(image \o block) = Len(image) + Len(block)
        /\ \A p \in 1 .. Len(image) + Len(block) :
             (image \o block)[p] = IF p <= Len(image) THEN image[p] ELSE block[p - Len(image)]
    BY <2>1, ConcatProperties
  <2> QED BY <1>5, <2>2
<1>7. /\ Places(block) \in Seq(Nat \X Nat)
      /\ Len(Places(block)) = Len(image) + Slots
      /\ \A p \in 1 .. Len(image) + Slots :
           Places(block)[p] = IF p <= Len(image) THEN from[p] ELSE own[p - Len(image)]
  <2>1. from \in Seq(Nat \X Nat)
    BY <1>1
  <2>2. /\ from \o own \in Seq(Nat \X Nat)
        /\ Len(from \o own) = Len(from) + Len(own)
        /\ \A p \in 1 .. Len(from) + Len(own) :
             (from \o own)[p] = IF p <= Len(from) THEN from[p] ELSE own[p - Len(from)]
    BY <1>3, <2>1, ConcatProperties
  <2>3. Len(from) = Len(image)
    BY <1>1
  <2> QED BY <1>3, <1>5, <2>2, <2>3
<1>8. (i + 1) * Slots = i * Slots + Slots
  BY <1>1, NextBlock
<1>9. ASSUME NEW p \in 1 .. Len(image)
      PROVE  Behind(block)[p] = image[p] /\ Places(block)[p] = from[p]
  <2>1. p \in 1 .. Len(image) + Slots /\ p <= Len(image)
    BY <1>1, <1>2
  <2> QED BY <1>6, <1>7, <2>1
<1>10. ASSUME NEW k \in 1 .. Slots
       PROVE  /\ Behind(block)[Len(image) + k] = Holds(i, k)
              /\ Places(block)[Len(image) + k] = <<i, k>>
  <2>1. /\ Len(image) + k \in 1 .. Len(image) + Slots
        /\ ~(Len(image) + k <= Len(image)) /\ (Len(image) + k) - Len(image) = k
    BY <1>1, <1>2
  <2> QED BY <1>4, <1>6, <1>7, <2>1
<1>11. ASSUME NEW p \in 1 .. Len(image) + Slots, ~(p <= Len(image))
       PROVE  p - Len(image) \in 1 .. Slots /\ p = Len(image) + (p - Len(image))
  BY <1>1, <1>2, <1>11
<1>12. ASSUME NEW p \in 1 .. Len(image) + Slots
       PROVE  /\ Places(block)[p][1] \in 0 .. (i + 1) - 1
              /\ Places(block)[p][2] \in 1 .. Slots
              /\ Behind(block)[p] = Holds(Places(block)[p][1], Places(block)[p][2])
  <2>1. CASE p <= Len(image)
    <3>1. p \in 1 .. Len(image)
      BY <1>2, <2>1
    <3>2. /\ from[p][1] \in 0 .. i - 1 /\ from[p][2] \in 1 .. Slots
          /\ image[p] = Holds(from[p][1], from[p][2])
      BY <3>1 DEF RepackInv, Faithful
    <3>3. from[p][1] \in 0 .. (i + 1) - 1
      BY <1>1, <3>2
    <3> QED BY <1>9, <3>1, <3>2, <3>3
  <2>2. CASE ~(p <= Len(image))
    <3>1. PICK k \in 1 .. Slots : p = Len(image) + k
      BY <1>11, <2>2
    <3>2. Behind(block)[p] = Holds(i, k) /\ Places(block)[p] = <<i, k>>
      BY <1>10, <3>1
    <3>3. i \in 0 .. (i + 1) - 1
      BY <1>1
    <3> QED BY <3>2, <3>3
  <2> QED BY <2>1, <2>2
<1>13. ASSUME NEW p \in 1 .. Len(image) + Slots - 1
       PROVE  Places(block)[p][1] * Slots + Places(block)[p][2]
              < Places(block)[p + 1][1] * Slots + Places(block)[p + 1][2]
  <2>1. CASE p + 1 <= Len(image)
    <3>1. p \in 1 .. Len(image) - 1 /\ p \in 1 .. Len(image) /\ p + 1 \in 1 .. Len(image)
      BY <1>2, <2>1
    <3>2. from[p][1] * Slots + from[p][2] < from[p + 1][1] * Slots + from[p + 1][2]
      BY <3>1 DEF RepackInv, Faithful
    <3> QED BY <1>9, <3>1, <3>2
  <2>2. CASE p = Len(image)
    <3>1. p \in 1 .. Len(image) /\ 1 \in 1 .. Slots
      BY <1>1, <1>2, <2>2
    <3>2. Places(block)[p] = from[p]
      BY <1>9, <3>1
    <3>3. Places(block)[p + 1] = <<i, 1>>
      BY <1>10, <2>2, <3>1
    <3>4. from[p][1] \in 0 .. i - 1 /\ from[p][2] \in 1 .. Slots
      BY <3>1 DEF RepackInv, Faithful
    <3>5. from[p][1] \in Nat /\ from[p][1] < i /\ from[p][2] \in Nat /\ from[p][2] <= Slots
      BY <1>1, <3>4
    <3>6. from[p][1] * Slots + Slots <= i * Slots
      BY <1>1, <3>5, EarlierBlock
    <3>7. from[p][1] * Slots \in Nat
      BY <1>1, <3>5
    <3>8. from[p][1] * Slots + from[p][2] < i * Slots + 1
      <4>1. \A a, b, c, d \in Nat : a + c <= d /\ b <= c => a + b < d + 1
        OBVIOUS
      <4> QED BY <1>1, <3>5, <3>6, <3>7, <4>1
    <3> QED BY <3>2, <3>3, <3>8
  <2>3. CASE ~(p <= Len(image))
    <3>1. PICK k \in 1 .. Slots : p = Len(image) + k
      BY <1>2, <1>11, <2>3
    <3>2. k + 1 \in 1 .. Slots /\ p + 1 = Len(image) + (k + 1)
      BY <1>1, <1>2, <3>1
    <3>3. Places(block)[p] = <<i, k>> /\ Places(block)[p + 1] = <<i, k + 1>>
      BY <1>10, <3>1, <3>2
    <3>4. i * Slots + k < i * Slots + (k + 1)
      BY <1>1
    <3> QED BY <3>3, <3>4
  <2> QED BY <1>2, <2>1, <2>2, <2>3
<1>14. Len(image) + Slots <= (i + 1) * Slots
  BY <1>1, <1>2, <1>8
<1>15. Faithful(Behind(block), Places(block), i + 1)
  <2>1. /\ Len(Places(block)) = Len(Behind(block)) /\ Len(Behind(block)) <= (i + 1) * Slots
        /\ Behind(block) \in Seq(Stored) /\ Places(block) \in Seq(Nat \X Nat)
    BY <1>6, <1>7, <1>14
  <2>2. \A p \in 1 .. Len(Behind(block)) :
          /\ Places(block)[p][1] \in 0 .. (i + 1) - 1
          /\ Places(block)[p][2] \in 1 .. Slots
          /\ Behind(block)[p] = Holds(Places(block)[p][1], Places(block)[p][2])
    BY <1>6, <1>12
  <2>3. \A p \in 1 .. Len(Behind(block)) - 1 :
          Places(block)[p][1] * Slots + Places(block)[p][2]
          < Places(block)[p + 1][1] * Slots + Places(block)[p + 1][2]
    BY <1>6, <1>13
  <2> HIDE DEF Behind, Places
  <2> QED BY <2>1, <2>2, <2>3 DEF Faithful
<1> QED BY <1>6, <1>9, <1>10, <1>15

(* One block more to look for a bad mark in.                               *)
LEMMA MarksCounted ==
  ASSUME NEW j \in Nat
  PROVE  Cardinality(Marked(j + 1)) =
           IF MarkedBad(j) THEN Cardinality(Marked(j)) + 1 ELSE Cardinality(Marked(j))
<1>1. IsFiniteSet(Marked(j))
  <2>1. 0 \in Int /\ j - 1 \in Int
    OBVIOUS
  <2>2. IsFiniteSet(0 .. j - 1)
    BY <2>1, FS_Interval
  <2>3. Marked(j) \in SUBSET (0 .. j - 1)
    BY DEF Marked
  <2> QED BY <2>2, <2>3, FS_Subset
<1>2. j \notin Marked(j)
  BY DEF Marked
<1>3. \A b : b \in 0 .. j + 1 - 1 <=> b \in 0 .. j - 1 \/ b = j
  OBVIOUS
<1>4. Marked(j + 1) = IF MarkedBad(j) THEN Marked(j) \cup {j} ELSE Marked(j)
  <2>1. \A b : b \in Marked(j + 1) <=> (b \in 0 .. j - 1 \/ b = j) /\ MarkedBad(b)
    BY <1>3, SMT DEF Marked
  <2>2. \A b : b \in Marked(j) <=> b \in 0 .. j - 1 /\ MarkedBad(b)
    BY Zenon DEF Marked
  <2>3. CASE MarkedBad(j)
    <3>1. \A b : b \in Marked(j + 1) <=> b \in Marked(j) \cup {j}
      BY <2>1, <2>2, <2>3
    <3> QED BY <2>3, <3>1
  <2>4. CASE ~MarkedBad(j)
    <3>1. \A b : b \in Marked(j + 1) <=> b \in Marked(j)
      BY <2>1, <2>2, <2>4
    <3> QED BY <2>4, <3>1
  <2> QED BY <2>3, <2>4
<1> QED BY <1>1, <1>2, <1>4, FS_AddElement

(* The mark that the loop looks at is that of the dump.                    *)
LEMMA MarkSeen ==
  ASSUME RepackInv, Read # <<>>, rbuf' = Overwrite(rbuf, Read), dump' = dump
  PROVE  IsBad(Len(Read), rbuf') <=> MarkedBad(i)
<1>1. /\ dump \in Seq(Stored) /\ i \in Nat /\ Pitch \in Nat /\ Slots \in Nat
      /\ Slots + 1 \in 1 .. Pitch
  BY SectorAssumption DEF RepackInv
<1>2. /\ Read \in Seq(Stored)
      /\ \A k \in 1 .. Pitch : k <= Len(Read) <=> i * Pitch + k <= Len(dump)
  BY <1>1, BlockContents DEF Read
<1>3. Len(Read) \in Nat
  BY <1>2, LenProperties
<1>4. Len(Read) > Slots <=> i * Pitch + (Slots + 1) <= Len(dump)
  <2>1. Slots + 1 <= Len(Read) <=> i * Pitch + (Slots + 1) <= Len(dump)
    BY <1>1, <1>2
  <2> QED BY <1>1, <1>3, <2>1
<1>5. i * Pitch + Slots + 1 = i * Pitch + (Slots + 1)
  BY <1>1
<1>6. rbuf'[Slots + 1] = Holds(i, Slots + 1)
  BY <1>1, BufferFilled
<1>7. CASE i * Pitch + (Slots + 1) <= Len(dump)
  <2>1. Holds(i, Slots + 1) = dump[i * Pitch + (Slots + 1)]
    BY <1>1, <1>7 DEF Holds
  <2> QED BY <1>4, <1>5, <1>6, <1>7, <2>1 DEF IsBad, MarkedBad
<1>8. CASE ~(i * Pitch + (Slots + 1) <= Len(dump))
  BY <1>4, <1>5, <1>8 DEF IsBad, MarkedBad
<1> QED BY <1>7, <1>8

(* A write that fails costs a block at most and what was held back.        *)
LEMMA LossBounded ==
  ASSUME NEW length \in Nat, NEW r \in Nat, NEW c \in Nat, NEW kept \in Nat, NEW given \in Nat,
         c = Slots + StdioBuffer, given <= length + r * c, length - kept <= StdioBuffer
  PROVE  given + Slots <= kept + (r + 1) * c
<1>1. Slots \in Nat /\ StdioBuffer \in Nat
  BY SectorAssumption, ToolsAssumption
<1>2. (r + 1) * c = r * c + c /\ r * c \in Nat
  BY NextBlock
<1> QED BY <1>1, <1>2

(* What the round leaves of the image, whether the write was refused or    *)
(* not, of what would be there if not.                                     *)
LEMMA WriteEnds ==
  ASSUME RepackInv, NEW all, NEW places, NEW j \in Nat, Faithful(all, places, j),
         Len(all) \in Len(image) .. Len(image) + Slots, j * Slots = i * Slots + (Len(all) - Len(image)),
         Accepted(all, places) \/ Refused(all, places), dump' = dump, i' = j
  PROVE  /\ Faithful(image, from, i)'
         /\ flushed' \in 0 .. Len(image') /\ refused' \in Nat
         /\ i' * Slots <= Len(image') + refused' * (Slots + StdioBuffer)
         /\ refused' = 0 => image' = all /\ refused = 0
<1>1. /\ Len(image) \in Nat /\ Len(all) \in Nat /\ flushed \in 0 .. Len(image) /\ refused \in Nat
      /\ i * Slots \in Nat /\ Slots \in Nat /\ StdioBuffer \in Nat
      /\ i * Slots <= Len(image) + refused * (Slots + StdioBuffer)
  <2>1. image \in Seq(Stored) /\ i \in Nat /\ Slots \in Nat
    BY SectorAssumption DEF RepackInv, Faithful
  <2>2. Len(image) \in Nat /\ i * Slots \in Nat
    BY <2>1, LenProperties
  <2>3. Len(all) \in Nat
    BY LenProperties DEF Faithful
  <2> QED BY <2>1, <2>2, <2>3, ToolsAssumption DEF RepackInv
<1>2. \A img, plc : Faithful(img, plc, j) /\ image' = img /\ from' = plc
                      => Faithful(image, from, i)'
  BY DEF Faithful, Holds
<1>3. Slots + StdioBuffer \in Nat /\ refused * (Slots + StdioBuffer) \in Nat
  BY <1>1
<1>4. CASE Accepted(all, places)
  <2>1. image' = all /\ from' = places /\ flushed' = flushed /\ refused' = refused
    BY <1>4 DEF Accepted
  <2>2. flushed' \in 0 .. Len(image')
    BY <1>1, <2>1
  <2>3. i' * Slots <= Len(image') + refused' * (Slots + StdioBuffer)
    BY <1>1, <1>3, <2>1
  <2> QED BY <1>1, <1>2, <2>1, <2>2, <2>3
<1>5. CASE Refused(all, places)
  <2>1. PICK k \in flushed .. Len(all) - 1 :
          /\ Len(image) - k <= StdioBuffer
          /\ image' = SubSeq(all, 1, k) /\ from' = SubSeq(places, 1, k) /\ flushed' = k
    BY <1>5 DEF Refused
  <2>2. refused' = refused + 1
    BY <1>5 DEF Refused
  <2>3. k \in 0 .. Len(all) /\ k \in Nat
    BY <1>1, <2>1
  <2>4. Faithful(SubSeq(all, 1, k), SubSeq(places, 1, k), j) /\ Len(SubSeq(all, 1, k)) = k
    BY <2>3, FaithfulCut
  <2>5. i * Slots + Slots <= k + (refused + 1) * (Slots + StdioBuffer)
    BY <1>1, <1>3, <2>1, <2>3, LossBounded
  <2>6. flushed' \in 0 .. Len(image') /\ refused' \in Nat /\ refused' # 0
    BY <1>1, <2>1, <2>2, <2>3, <2>4
  <2>7. (refused + 1) * (Slots + StdioBuffer) \in Nat
    BY <1>1, <1>3
  <2>8. i' * Slots <= Len(image') + refused' * (Slots + StdioBuffer)
    BY <1>1, <2>1, <2>2, <2>3, <2>4, <2>5, <2>7
  <2> QED BY <1>2, <2>1, <2>4, <2>6, <2>8
<1> QED BY <1>4, <1>5

(* A round of the loop.                                                    *)
LEMMA CopyKeeps ==
  ASSUME RepackInv, CopyBlock
  PROVE  RepackInv'
<1> DEFINE block == SubSeq(rbuf', 1, Slots)
<1>1. /\ Read # <<>> /\ rbuf' = Overwrite(rbuf, Read) /\ dump' = dump /\ i' = i + 1
      /\ bad' = IF IsBad(Len(Read), rbuf') THEN bad + 1 ELSE bad
      /\ Accepted(Behind(block), Places(block)) \/ Refused(Behind(block), Places(block))
  BY DEF CopyBlock
<1>2. i \in Nat /\ Slots \in Nat /\ i * Slots \in Nat /\ dump \in Seq(Stored) /\ Len(image) \in Nat
  BY SectorAssumption, LenProperties DEF RepackInv, Faithful
<1>3. /\ rbuf' \in [1 .. Pitch -> Stored]
      /\ i * Pitch < Len(dump)
      /\ \A k \in 1 .. Pitch : rbuf'[k] = Holds(i, k)
  BY <1>1, BufferFilled
<1>4. /\ block \in Seq(Stored) /\ Len(block) = Slots
      /\ \A k \in 1 .. Slots : block[k] = rbuf'[k]
  BY <1>3, Written
<1>5. \A k \in 1 .. Slots : k \in 1 .. Pitch
  BY SectorAssumption
<1> HIDE DEF block
<1>6. /\ Faithful(Behind(block), Places(block), i + 1)
      /\ Len(Behind(block)) = Len(image) + Slots
      /\ \A p \in 1 .. Len(image) : Behind(block)[p] = image[p]
      /\ \A k \in 1 .. Slots : Behind(block)[Len(image) + k] = Holds(i, k)
  BY <1>3, <1>4, <1>5, FaithfulLonger
<1>7. (i + 1) * Slots = i * Slots + Slots
  BY <1>2, NextBlock
<1>8. /\ Faithful(image, from, i)'
      /\ flushed' \in 0 .. Len(image') /\ refused' \in Nat
      /\ i' * Slots <= Len(image') + refused' * (Slots + StdioBuffer)
      /\ refused' = 0 => image' = Behind(block) /\ refused = 0
  <2>1. i + 1 \in Nat /\ Len(Behind(block)) \in Len(image) .. Len(image) + Slots
        /\ (i + 1) * Slots = i * Slots + (Len(Behind(block)) - Len(image))
    BY <1>2, <1>6, <1>7
  <2> QED BY <1>1, <1>6, <2>1, WriteEnds
<1>9. ASSUME refused' = 0
      PROVE  Len(image') = i' * Slots /\ \A b \in 0 .. i' - 1 : InPlace(b)'
  <2>1. image' = Behind(block) /\ Len(image) = i * Slots /\ \A b \in 0 .. i - 1 : InPlace(b)
    BY <1>8, <1>9 DEF RepackInv
  <2>2. Len(image') = i' * Slots
    BY <1>1, <1>6, <1>7, <2>1
  <2>3. ASSUME NEW b \in 0 .. i' - 1, NEW k \in 1 .. Slots
        PROVE  image'[b * Slots + k] = Holds(b, k)
    <3>1. CASE b = i
      BY <1>6, <2>1, <3>1
    <3>2. CASE b # i
      <4>1. b \in Nat /\ b < i /\ b \in 0 .. i - 1
        BY <1>1, <1>2, <3>2
      <4>2. b * Slots + Slots <= i * Slots
        BY <1>2, <4>1, EarlierBlock
      <4>3. b * Slots \in Nat
        BY <1>2, <4>1
      <4>4. b * Slots + k \in 1 .. Len(image)
        BY <1>2, <2>1, <4>2, <4>3
      <4>5. image[b * Slots + k] = Holds(b, k)
        BY <2>1, <4>1 DEF InPlace
      <4> QED BY <1>6, <2>1, <4>4, <4>5
    <3> QED BY <3>1, <3>2
  <2>4. \A b, k : Holds(b, k)' = Holds(b, k)
    BY <1>1 DEF Holds
  <2> QED BY <2>2, <2>3, <2>4 DEF InPlace
<1>10. bad' = Cardinality(Marked(i))'
  <2>1. bad = Cardinality(Marked(i))
    BY DEF RepackInv
  <2>2. Cardinality(Marked(i + 1)) = bad'
    BY <1>1, <1>2, <2>1, MarkSeen, MarksCounted
  <2>3. Marked(i)' = Marked(i + 1)
    BY <1>1 DEF Marked, MarkedBad
  <2> QED BY <2>2, <2>3
<1>11. /\ i' \in Nat
       /\ i' > 0 => (i' - 1) * Pitch < Len(dump')
       /\ \A k \in 1 .. Pitch : rbuf'[k] = Holds(i - 1, k)'
  <2>1. i' - 1 = i /\ i' \in Nat
    BY <1>1, <1>2
  <2>2. \A k : Holds(i - 1, k)' = Holds(i, k)
    BY <1>1, <2>1 DEF Holds
  <2> QED BY <1>1, <1>3, <2>1, <2>2
<1> QED BY <1>1, <1>2, <1>3, <1>8, <1>9, <1>10, <1>11 DEF RepackInv

(* The end of the copy, where the last write may fail as well.             *)
LEMMA EndKeeps ==
  ASSUME RepackInv, RepackEnds
  PROVE  RepackInv'
<1>1. /\ dump' = dump /\ rbuf' = rbuf /\ i' = i /\ bad' = bad
      /\ Accepted(image, from) \/ Refused(image, from)
  BY DEF RepackEnds
<1>2. i \in Nat /\ Slots \in Nat /\ i * Slots \in Nat /\ Len(image) \in Nat
  BY SectorAssumption, LenProperties DEF RepackInv, Faithful
<1>3. /\ Faithful(image, from, i)'
      /\ flushed' \in 0 .. Len(image') /\ refused' \in Nat
      /\ i' * Slots <= Len(image') + refused' * (Slots + StdioBuffer)
      /\ refused' = 0 => image' = image /\ refused = 0
  <2>1. Faithful(image, from, i)
    BY DEF RepackInv
  <2>2. Len(image) \in Len(image) .. Len(image) + Slots
        /\ i * Slots = i * Slots + (Len(image) - Len(image))
    BY <1>2
  <2> QED BY <1>1, <1>2, <2>1, <2>2, WriteEnds
<1>4. refused' = 0 => Len(image') = i' * Slots /\ \A b \in 0 .. i' - 1 : InPlace(b)'
  BY <1>1, <1>3 DEF RepackInv, InPlace, Holds
<1>5. bad' = Cardinality(Marked(i))'
  BY <1>1 DEF RepackInv, Marked, MarkedBad
<1>6. /\ dump' \in Seq(Stored) /\ i' \in Nat /\ rbuf' \in [1 .. Pitch -> Stored]
      /\ i' > 0 => (i' - 1) * Pitch < Len(dump')
      /\ \A k \in 1 .. Pitch : rbuf'[k] = Holds(i - 1, k)'
  BY <1>1 DEF RepackInv, Holds
<1> QED BY <1>3, <1>4, <1>5, <1>6 DEF RepackInv

(* Every step of repack keeps the invariant, and the listing tools leave   *)
(* what it speaks of alone.                                                *)
LEMMA RepackSteps == RepackInv /\ [Next]_vars => RepackInv'
<1> SUFFICES ASSUME RepackInv, [Next]_vars PROVE RepackInv'
  OBVIOUS
<1>1. CASE UNCHANGED repack
  BY <1>1 DEF RepackInv, Faithful, InPlace, Holds, Marked, MarkedBad, repack, output
<1>2. CASE Copy
  BY <1>2, CopyKeeps, EndKeeps DEF Copy, RepackStep
<1>3. CASE List \/ NextFile \/ UNCHANGED vars
  BY <1>1, <1>3 DEF List, NextFile, vars
<1> QED BY <1>2, <1>3 DEF Next

(* repack writes each block behind those before it, with its own 400 bytes, *)
(* and counts the bad marks, for every dump and count.  However many writes *)
(* are refused, and wherever stdio drops slots for that, what the image has *)
(* are slots of the dump in the order of the dump, no more are missing than *)
(* each refusal explains, and without one none is.  Nothing that the        *)
(* listing tools do later changes it.                                       *)
THEOREM BlocksCorrect == Spec => []BlocksInPlace
<1>1. RepackInv => BlocksInPlace
  <2> SUFFICES ASSUME RepackInv PROVE BlocksInPlace
    OBVIOUS
  <2>1. ASSUME NEW b \in Nat, NEW k PROVE Wanted(b, k) = Holds(b, k)
    BY <2>1 DEF Wanted, Holds
  <2>2. i \in Nat
    BY DEF RepackInv
  <2>3. refused = 0 =>
          /\ Len(image) = i * Slots
          /\ \A b \in 0 .. i - 1, k \in 1 .. Slots : image[b * Slots + k] = Wanted(b, k)
    BY <2>1, <2>2 DEF RepackInv, InPlace
  <2>4. \A p \in 1 .. Len(image) : image[p] = Wanted(from[p][1], from[p][2])
    BY <2>1, <2>2 DEF RepackInv, Faithful
  <2>5. \A p \in 1 .. Len(image) - 1 : Place(p) < Place(p + 1)
    BY DEF RepackInv, Faithful, Place
  <2> QED BY <2>3, <2>4, <2>5 DEF RepackInv, Faithful, BlocksInPlace, Marked
<1> QED BY <1>1, RepackStarts, RepackSteps, PTL DEF Spec

(***************************************************************************)
(* centfs-ls along its chain: what the file holds of it, what is counted,  *)
(* and that a chain which closes in a circle is never taken for ended.     *)
(***************************************************************************)
(* The dirent that heads sector s is inside the file.                      *)
Whole(s) == s * Size + DirentSlots <= Len(File)

Fresh == lpc = "walk" /\ nsec = first /\ n = 0 /\ seen = {}

(* Only a file that is complete is read.                                   *)
OnFile ==
  /\ dump \in Dumps /\ first \in Word
  /\ rpc \in {"copy", "done"} /\ on \in {"dump", "image"}
  /\ rpc = "copy" => on = "dump" /\ Fresh

(* Each sector visited names the next one visited, or the one to come.     *)
Followed ==
  /\ lpc \in {"walk", "done", "failed"} /\ nsec \in Word
  /\ \A s \in Sectors : s \in Word /\ Whole(s)
                        /\ LinkOf(s) \in Sectors \cup {nsec}
  /\ \A s \in Sectors \ {first} : \E p \in Sectors : LinkOf(p) = s
  /\ nsec # first => \E p \in Sectors : LinkOf(p) = nsec
  /\ Sectors # {} => first \in Sectors
  /\ Sectors = {} => nsec = first /\ n = 0

(* The count is right until the chain comes to a sector for the second     *)
(* time, and from there on it cannot end any more.                         *)
Counted ==
  /\ lpc \in {"walk", "failed"} => \A s \in Sectors : LinkOf(s) \notin Ls!LastArchives
  /\ lpc = "walk" => nsec \in Sectors \/ n = Cardinality(Sectors)
  /\ lpc = "done" => /\ nsec \in Ls!LastArchives /\ Sectors # {}
                     /\ n = Cardinality(Sectors)
  /\ lpc = "failed" => ~Whole(nsec)

ChainInv == OnFile /\ Followed /\ Counted

(* A walk that has not begun satisfies it on any file.                     *)
LEMMA FreshWalk ==
  ASSUME Fresh, first \in Word
  PROVE  Followed /\ Counted
<1>1. Sectors = {}
  BY DEF Fresh, Sectors
<1>2. Cardinality(Sectors) = 0
  BY <1>1, FS_EmptySet
<1> QED BY <1>1, <1>2 DEF Fresh, Followed, Counted

(* The same as a formula of the state, so that it holds of the next too.   *)
LEMMA FreshOnAny == Fresh /\ first \in Word => Followed /\ Counted
BY FreshWalk

(* Only what the walk is about can disturb it.                             *)
LEMMA ChainUnmoved ==
  ASSUME ChainInv, UNCHANGED <<dump, image, rpc, on, first, lpc, nsec, n, seen>>
  PROVE  ChainInv'
BY DEF ChainInv, OnFile, Fresh, Followed, Counted, Whole, File, Size, LinkOf, Sectors

(* The file that is read, and its sectors.                                 *)
LEMMA FileRead ==
  ASSUME RepackInv, OnFile
  PROVE  /\ File \in Seq(Stored) /\ Len(File) \in Nat /\ Len(dump) \in Nat
         /\ Size \in Nat /\ Slots <= Size
         /\ DirentSlots \in Nat /\ 0 < DirentSlots /\ DirentSlots <= Size
         /\ LinkSlot \in 1 .. DirentSlots
<1>1. File \in Seq(Stored) /\ dump \in Seq(Stored)
  BY DEF RepackInv, Faithful, OnFile, File
<1>2. Size \in Nat /\ Slots <= Size /\ Slots \in Nat
  BY SectorAssumption DEF Size
<1>3. LinkSlot \in 1 .. DirentSlots /\ DirentSlots \in 1 .. Slots
  BY ToolsAssumption
<1>4. DirentSlots \in Nat /\ 0 < DirentSlots /\ DirentSlots <= Size
  BY <1>2, <1>3
<1> QED BY <1>1, <1>2, <1>3, <1>4, LenProperties

(* A sector has a number.                                                  *)
LEMMA WordIsNat == ASSUME NEW x \in Word PROVE x \in Nat
BY SMTT(30) DEF Word

(* The link of a slot has 16 bits, a zero slot's too.                      *)
LEMMA LinksAreWords == ASSUME NEW x \in Stored PROVE x.link \in Word
<1>1. CASE x \in Contents
  BY <1>1 DEF Contents
<1>2. CASE x = Zeros
  <2>1. x.link = 0
    BY <1>2 DEF Zeros, Slot
  <2>2. 0 \in Word
    BY SMT DEF Word
  <2> QED BY <2>1, <2>2
<1> QED BY <1>1, <1>2 DEF Stored

(* The sectors of a list of dirents that grows by one.                     *)
LEMMA OneMore ==
  ASSUME NEW T, NEW a, NEW b
  PROVE  { e[1] : e \in T \cup {<<a, b>>} } = { e[1] : e \in T } \cup {a}
<1>1. <<a, b>>[1] = a
  OBVIOUS
<1> QED BY <1>1

(* centfs-ls and repack read blocks in the same way.                       *)
LEMMA SameBlock ==
  ASSUME NEW f, NEW z, NEW k
  PROVE  Ls!Block(f, z, k) = Block(f, z, k)
BY DEF Ls!Block, Block, Ls!Min, Min

(* fread gets a whole dirent exactly if the file reaches that far, and the *)
(* link in it is a number of 16 bits.                                      *)
LEMMA DirentRead ==
  ASSUME RepackInv, OnFile, NEW s \in Nat
  PROVE  /\ Len(Block(File, Size, s)) < DirentSlots <=> ~Whole(s)
         /\ Whole(s) => /\ Block(File, Size, s)[LinkSlot].link = LinkOf(s)
                        /\ LinkOf(s) \in Word
<1> DEFINE d == Block(File, Size, s)
<1>1. /\ File \in Seq(Stored) /\ Len(File) \in Nat
      /\ Size \in Nat /\ Slots <= Size
      /\ DirentSlots \in Nat /\ 0 < DirentSlots /\ DirentSlots <= Size
      /\ LinkSlot \in 1 .. DirentSlots
  BY FileRead
<1>2. s * Size \in Nat
  BY <1>1
<1>3. CASE d = <<>>
  <2>1. Len(d) < DirentSlots
    BY <1>1, <1>3
  <2>2. Len(File) <= s * Size
    BY <1>1, <1>3, BlockInside
  <2> HIDE DEF d
  <2> QED BY <1>1, <1>2, <2>1, <2>2 DEF Whole, d
<1>4. CASE d # <<>>
  <2>1. /\ d \in Seq(Stored)
        /\ \A k \in 1 .. Size : k <= Len(d) <=> s * Size + k <= Len(File)
        /\ \A k \in 1 .. Len(d) : d[k] = File[s * Size + k]
    BY <1>1, <1>4, BlockContents
  <2>2. Len(d) \in Nat
    BY <2>1, LenProperties
  <2>3. DirentSlots <= Len(d) <=> s * Size + DirentSlots <= Len(File)
    BY <1>1, <2>1
  <2>4. ASSUME Whole(s) PROVE d[LinkSlot].link = LinkOf(s) /\ LinkOf(s) \in Word
    <3>1. LinkSlot \in 1 .. Len(d)
      BY <1>1, <2>2, <2>3, <2>4 DEF Whole
    <3>2. d[LinkSlot] = File[s * Size + LinkSlot] /\ d[LinkSlot] \in Stored
      BY <2>1, <3>1, ElementOfSeq
    <3>3. d[LinkSlot].link \in Word
      BY <3>2, LinksAreWords
    <3> QED BY <3>2, <3>3 DEF LinkOf
  <2> HIDE DEF d
  <2> QED BY <1>1, <2>2, <2>3, <2>4 DEF Whole, d
<1> QED BY <1>3, <1>4

(* A sector with a dirent in the file has a number below the dump's length. *)
LEMMA SectorInDump ==
  ASSUME RepackInv, OnFile, NEW s \in Nat, Whole(s)
  PROVE  s < Len(dump)
<1>1. /\ Len(File) \in Nat /\ Len(dump) \in Nat /\ DirentSlots \in Nat /\ 0 < DirentSlots
      /\ Slots \in Nat /\ 0 < Slots /\ Pitch \in Nat /\ 0 < Pitch
  BY FileRead, SectorAssumption
<1>2. CASE on = "dump"
  <2>1. s * Pitch + DirentSlots <= Len(dump)
    BY <1>2 DEF Whole, File, Size
  <2>2. s <= s * Pitch
    BY <1>1, AtLeastFactor
  <2>3. s * Pitch \in Nat
    BY <1>1
  <2> QED BY <1>1, <2>1, <2>2, <2>3
<1>3. CASE on # "dump"
  <2>1. /\ i \in Nat /\ Len(image) <= i * Slots /\ Len(image) = Len(File)
        /\ i > 0 => (i - 1) * Pitch < Len(dump)
    BY <1>3 DEF RepackInv, Faithful, File
  <2>2. s * Slots \in Nat /\ i * Slots \in Nat
    BY <1>1, <2>1
  <2>3. s * Slots + DirentSlots <= Len(File)
    BY <1>3 DEF Whole, Size
  <2>4. s * Slots < i * Slots
    BY <1>1, <2>1, <2>2, <2>3
  <2>5. s < i
    <3>1. CASE i < s
      <4>1. i * Slots + Slots <= s * Slots
        BY <1>1, <2>1, <3>1, EarlierBlock
      <4> QED BY <1>1, <2>2, <2>4, <4>1
    <3>2. CASE i = s
      BY <2>2, <2>4, <3>2
    <3> QED BY <2>1, <3>1, <3>2
  <2>7. i - 1 \in Nat /\ i > 0 /\ s <= i - 1
    BY <2>1, <2>5
  <2>8. i - 1 <= (i - 1) * Pitch
    BY <1>1, <2>7, AtLeastFactor
  <2>9. (i - 1) * Pitch \in Nat
    BY <1>1, <2>7
  <2> QED BY <1>1, <2>1, <2>7, <2>8, <2>9
<1> QED BY <1>2, <1>3

(* So the sectors visited are few enough to be counted.                    *)
LEMMA FewSectors ==
  ASSUME RepackInv, OnFile, NEW S \in SUBSET (Word), \A s \in S : Whole(s)
  PROVE  IsFiniteSet(S) /\ Cardinality(S) \in Nat /\ Cardinality(S) < CountModulus
<1>1. CountModulus \in Nat /\ Len(dump) \in Nat
  BY ToolsAssumption, FileRead
<1>2. PICK w \in Nat : w = 65535
  BY SMT
<1>3. IsFiniteSet(S) /\ Cardinality(S) <= w + 1
  <2>1. Word = 0 .. w
    BY <1>2, SMTT(30) DEF Word
  <2>2. 0 \in Int /\ w \in Int
    BY <1>2, SMT
  <2> HIDE <1>2
  <2>3. /\ IsFiniteSet(0 .. w)
        /\ Cardinality(0 .. w) = IF 0 > w THEN 0 ELSE w - 0 + 1
    BY <2>2, FS_Interval
  <2>4. S \in SUBSET (0 .. w)
    BY <2>1
  <2>5. IsFiniteSet(S) /\ Cardinality(S) <= Cardinality(0 .. w)
    BY <2>3, <2>4, FS_Subset
  <2>6. Cardinality(0 .. w) = w + 1
    BY <2>2, <2>3
  <2> QED BY <2>5, <2>6
<1>4. Cardinality(S) \in Nat
  BY <1>3, FS_CardinalityType
<1>5. CASE CountModulus > 65536
  BY <1>1, <1>2, <1>3, <1>4, <1>5, SMT
<1>6. CASE Len(dump) < CountModulus
  <2>1. S \in SUBSET (0 .. Len(dump) - 1)
    <3>1. ASSUME NEW s \in S PROVE s \in 0 .. Len(dump) - 1
      <4>1. s \in Nat /\ Whole(s)
        BY WordIsNat
      <4>2. s < Len(dump)
        BY <4>1, SectorInDump
      <4> QED BY <1>1, <4>1, <4>2
    <3> QED BY <3>1
  <2>2. 0 \in Int /\ Len(dump) - 1 \in Int
    BY <1>1
  <2>3. /\ IsFiniteSet(0 .. Len(dump) - 1)
        /\ Cardinality(0 .. Len(dump) - 1) =
             IF 0 > Len(dump) - 1 THEN 0 ELSE Len(dump) - 1 - 0 + 1
    BY <2>2, FS_Interval
  <2>4. Cardinality(S) <= Cardinality(0 .. Len(dump) - 1)
    BY <2>1, <2>3, FS_Subset
  <2>5. Cardinality(0 .. Len(dump) - 1) <= Len(dump)
    BY <1>1, <2>3
  <2> QED BY <1>1, <1>3, <1>4, <1>6, <2>3, <2>4, <2>5
<1> QED BY <1>5, <1>6, CountAssumption, SMT DEF OnFile

(* A round that gets no whole dirent ends the walk where the file ends.    *)
LEMMA WalkFails ==
  ASSUME RepackInv, ChainInv, List, tool = "centfs-ls", Ls!ReadDirent, ~Whole(nsec)
  PROVE  ChainInv'
<1>1. UNCHANGED <<repack, tool, first, on>>
  BY DEF List
<1>2. nsec \in Nat
  BY WordIsNat DEF ChainInv, Followed
<1>3. Len(Block(File, Size, nsec)) < DirentSlots
  BY <1>2, DirentRead DEF ChainInv
<1>4. lpc = "walk" /\ lpc' = "failed" /\ UNCHANGED <<nsec, n, seen>>
  BY <1>3, SameBlock DEF Ls!ReadDirent
<1>5. UNCHANGED <<File, Size, Sectors>>
  BY <1>1, <1>4 DEF repack, output, File, Size, Sectors
<1>6. rpc = "done" /\ rpc' = "done"
  BY <1>1 DEF List, repack, output
<1>7. OnFile'
  BY <1>1, <1>6 DEF ChainInv, OnFile, repack, output
<1>8. Followed'
  BY <1>1, <1>4, <1>5 DEF ChainInv, Followed, Whole, LinkOf
<1>9. Counted'
  BY <1>1, <1>4, <1>5 DEF ChainInv, Counted, Whole, LinkOf
<1> QED BY <1>7, <1>8, <1>9 DEF ChainInv

(* A round that gets one counts it, unless the chain is closed.            *)
LEMMA WalkGoesOn ==
  ASSUME RepackInv, ChainInv, List, tool = "centfs-ls", Ls!ReadDirent, Whole(nsec)
  PROVE  ChainInv'
<1> DEFINE S == Sectors
           t == LinkOf(nsec)
<1>1. UNCHANGED <<repack, tool, first, on>>
  BY DEF List
<1>2. nsec \in Nat /\ nsec \in Word
  BY WordIsNat DEF ChainInv, Followed
<1>3. /\ ~(Len(Block(File, Size, nsec)) < DirentSlots)
      /\ Block(File, Size, nsec)[LinkSlot].link = t /\ t \in Word
  BY <1>2, DirentRead DEF ChainInv
<1>4. /\ lpc = "walk" /\ n' = (n + 1) % CountModulus /\ nsec' = t
      /\ seen' = seen \cup {<<nsec, Block(File, Size, nsec)[LinkSlot].name>>}
      /\ lpc' = IF nsec' \in Ls!LastArchives THEN "done" ELSE "walk"
  BY <1>3, SameBlock DEF Ls!ReadDirent
<1>5. Sectors' = S \cup {nsec}
  BY <1>4, OneMore DEF Sectors
<1>6. UNCHANGED <<File, Size>>
  BY <1>1 DEF repack, output, File, Size
<1>7. /\ \A s : LinkOf(s)' = LinkOf(s)
      /\ \A s : Whole(s)' <=> Whole(s)
  BY <1>6 DEF LinkOf, Whole
<1>8. OnFile'
  <2>1. rpc = "done" /\ rpc' = "done"
    BY <1>1 DEF List, repack, output
  <2> QED BY <1>1, <2>1 DEF ChainInv, OnFile, repack, output
<1>9. /\ \A s \in S : s \in Word /\ Whole(s) /\ LinkOf(s) \in S \cup {nsec}
      /\ \A s \in S \ {first} : \E p \in S : LinkOf(p) = s
      /\ nsec # first => \E p \in S : LinkOf(p) = nsec
      /\ S # {} => first \in S
      /\ S = {} => nsec = first /\ n = 0
      /\ \A s \in S : LinkOf(s) \notin Ls!LastArchives
      /\ nsec \in S \/ n = Cardinality(S)
  BY <1>4 DEF ChainInv, Followed, Counted
<1> HIDE DEF S, t
<1>10. first' = first /\ LinkOf(nsec) = t
  BY <1>1 DEF t
<1>11. Followed'
  <2>1. ASSUME NEW s \in S \cup {nsec}
        PROVE  s \in Word /\ Whole(s) /\ LinkOf(s) \in (S \cup {nsec}) \cup {t}
    BY <1>2, <1>9, <1>10
  <2>2. ASSUME NEW s \in (S \cup {nsec}) \ {first}
        PROVE  \E p \in S \cup {nsec} : LinkOf(p) = s
    BY <1>9
  <2>3. \E p \in S \cup {nsec} : LinkOf(p) = t
    BY <1>10
  <2>4. first \in S \cup {nsec}
    BY <1>9
  <2>5. lpc' \in {"walk", "done", "failed"}
    BY <1>4
  <2> QED BY <1>3, <1>4, <1>5, <1>7, <1>10, <2>1, <2>2, <2>3, <2>4, <2>5 DEF Followed
<1>12. CASE nsec \in S
  <2>1. Sectors' = S /\ t \notin Ls!LastArchives
    BY <1>5, <1>9, <1>10, <1>12
  <2>2. lpc' = "walk" /\ nsec' \in Sectors'
    BY <1>4, <1>9, <1>10, <1>12, <2>1
  <2>3. Counted'
    BY <1>7, <1>9, <2>1, <2>2 DEF Counted
  <2> QED BY <1>8, <1>11, <2>3 DEF ChainInv
<1>13. CASE nsec \notin S
  <2>1. S \cup {nsec} \in SUBSET (Word) /\ \A s \in S \cup {nsec} : Whole(s)
    BY <1>2, <1>9
  <2>2. S \in SUBSET (Word) /\ \A s \in S : Whole(s)
    BY <2>1
  <2>3. /\ IsFiniteSet(S) /\ Cardinality(S) \in Nat
        /\ Cardinality(S \cup {nsec}) < CountModulus
    BY <2>1, <2>2, FewSectors DEF ChainInv
  <2>4. Cardinality(S \cup {nsec}) = Cardinality(S) + 1
    BY <1>13, <2>3, FS_AddElement
  <2>5. n = Cardinality(S)
    BY <1>9, <1>13
  <2>6. n' = Cardinality(Sectors')
    <3>1. (Cardinality(S) + 1) % CountModulus = Cardinality(S) + 1
      <4>1. CountModulus \in Nat /\ Cardinality(S) + 1 < CountModulus
        BY <2>3, <2>4, ToolsAssumption
      <4> QED BY <2>3, <4>1
    <3> QED BY <1>4, <1>5, <2>4, <2>5, <3>1
  <2>7. ASSUME lpc' \in {"walk", "failed"}, NEW s \in S \cup {nsec}
        PROVE  LinkOf(s) \notin Ls!LastArchives
    <3>1. t \notin Ls!LastArchives
      BY <1>4, <2>7
    <3> QED BY <1>9, <1>10, <3>1
  <2>8. lpc' = "done" => nsec' \in Ls!LastArchives /\ Sectors' # {}
    BY <1>4, <1>5
  <2>9. lpc' # "failed"
    BY <1>4
  <2>10. Counted'
    BY <1>5, <1>7, <2>6, <2>7, <2>8, <2>9 DEF Counted
  <2> QED BY <1>8, <1>11, <2>10 DEF ChainInv
<1> QED BY <1>12, <1>13

(* Every step keeps the invariant.                                         *)
LEMMA ChainSteps == RepackInv /\ ChainInv /\ [Next]_vars => ChainInv'
<1> SUFFICES ASSUME RepackInv, ChainInv, [Next]_vars PROVE ChainInv'
  OBVIOUS
<1>1. CASE Copy
  <2>1. UNCHANGED <<ls, first, on>> /\ dump' = dump /\ rpc = "copy"
        /\ rpc' \in {"copy", "done"}
    BY <1>1 DEF Copy, RepackStep, RepackEnds, CopyBlock, tools
  <2>2. Fresh /\ on = "dump" /\ first \in Word
    BY <2>1 DEF ChainInv, OnFile
  <2>3. Fresh'
    BY <2>1, <2>2 DEF Fresh, ls
  <2>4. OnFile'
    BY <2>1, <2>2, <2>3 DEF ChainInv, OnFile
  <2>5. (Followed /\ Counted)'
    <3>1. (Fresh /\ first \in Word => Followed /\ Counted)'
      BY FreshOnAny, PTL
    <3> QED BY <2>1, <2>2, <2>3, <3>1
  <2> QED BY <2>4, <2>5 DEF ChainInv
<1>2. CASE List
  <2>1. CASE tool = "centboot" /\ UNCHANGED ls
    <3>1. UNCHANGED <<dump, image, rpc, on, first, lpc, nsec, n, seen>>
      BY <1>2, <2>1 DEF List, repack, output, ls
    <3> QED BY <3>1, ChainUnmoved
  <2>2. CASE tool = "centfs-ls" /\ Ls!ReadDirent
    BY <1>2, <2>2, WalkFails, WalkGoesOn
  <2> QED BY <1>2, <2>1, <2>2 DEF List
<1>3. CASE NextFile /\ on = "dump"
  <2>1. /\ Fresh' /\ on' = "image" /\ rpc = "done" /\ rpc' = "done"
        /\ first' = first /\ dump' = dump
    BY <1>3 DEF NextFile, Restart, Fresh, repack, output
  <2>2. OnFile' /\ first' \in Word
    BY <2>1 DEF ChainInv, OnFile
  <2>3. (Followed /\ Counted)'
    <3>1. (Fresh /\ first \in Word => Followed /\ Counted)'
      BY FreshOnAny, PTL
    <3> QED BY <2>1, <2>2, <3>1
  <2> QED BY <2>2, <2>3 DEF ChainInv
<1>4. CASE (NextFile /\ on # "dump") \/ UNCHANGED vars
  <2>1. UNCHANGED <<dump, image, rpc, on, first, lpc, nsec, n, seen>>
    BY <1>4 DEF NextFile, vars, repack, output, tools, ls
  <2> QED BY <2>1, ChainUnmoved
<1> QED BY <1>1, <1>2, <1>3, <1>4 DEF Next

(* Nothing visited yet.                                                    *)
LEMMA ChainStarts == Init => ChainInv
<1> SUFFICES ASSUME Init PROVE ChainInv
  OBVIOUS
<1>1. /\ dump \in Dumps /\ rpc = "copy" /\ on = "dump"
      /\ first = 0 \/ first \in Firsts
      /\ Fresh
  <2>1. first \in (IF tool = "centboot" THEN {0} ELSE Firsts) /\ Ls!LsInit(first)
    BY DEF Init
  <2> QED BY <2>1 DEF Init, RepackInit, Ls!LsInit, Fresh
<1>2. Firsts \subseteq Word
  BY ToolsAssumption
<1>3. first \in Word
  <2>1. 0 \in Word
    BY SMT DEF Word
  <2> QED BY <1>1, <1>2, <2>1
<1> QED BY <1>1, <1>3, FreshWalk DEF ChainInv, OnFile

(* centfs-ls on a dump or on its image, from any first sector: a listing   *)
(* that ends well has followed the links from the first to a last archive  *)
(* and counted each archive once; it fails only where a link leads out of  *)
(* the file.  So it goes round a circle for ever, as the code does, rather *)
(* than end with a wrong count.                                            *)
THEOREM ChainCorrect == Spec => []ListsChain
<1>1. RepackInv /\ ChainInv => ListsChain
  <2> SUFFICES ASSUME RepackInv, ChainInv PROVE ListsChain
    OBVIOUS
  <2>1. CASE lpc = "done"
    BY <2>1 DEF ChainInv, Followed, Counted, ListsChain
  <2>2. CASE lpc = "failed"
    <3>1. nsec # first => nsec \notin Ls!LastArchives
      BY <2>2 DEF ChainInv, Followed, Counted
    <3>2. nsec * Size + DirentSlots > Len(File)
      <4>1. nsec \in Nat
        BY WordIsNat DEF ChainInv, Followed
      <4>2. Size \in Nat /\ DirentSlots \in Nat /\ Len(File) \in Nat
        BY FileRead DEF ChainInv
      <4>3. nsec * Size \in Nat
        BY <4>1, <4>2
      <4>4. ~(nsec * Size + DirentSlots <= Len(File))
        BY <2>2 DEF ChainInv, Counted, Whole
      <4> QED BY <4>2, <4>3, <4>4
    <3> QED BY <2>2, <3>1, <3>2 DEF ListsChain
  <2>3. CASE lpc \notin {"done", "failed"}
    BY <2>3 DEF ListsChain
  <2> QED BY <2>1, <2>2, <2>3
<1> QED BY <1>1, ChainStarts, RepackStarts, RepackSteps, ChainSteps, PTL DEF Spec

(***************************************************************************)
(* Words of 16 bits: the arithmetic of centboot.c does to them what the    *)
(* bootloader's instructions do to their digits.                           *)
(***************************************************************************)
(* A word has 16 bits.                                                     *)
LEMMA WordBound == ASSUME NEW x \in Word PROVE x \in Nat /\ x <= 65535
BY SMTT(60) DEF Word

(* The digits of a word.                                                   *)
LEMMA BitsWhich ==
  ASSUME NEW w \in Nat
  PROVE  /\ Boot!BitsOf(w) \subseteq 0 .. 15
         /\ (0 \in Boot!BitsOf(w) <=> w % 2 = 1) /\ (1 \in Boot!BitsOf(w) <=> (w \div 2) % 2 = 1)
         /\ (2 \in Boot!BitsOf(w) <=> (w \div 4) % 2 = 1) /\ (3 \in Boot!BitsOf(w) <=> (w \div 8) % 2 = 1)
         /\ (4 \in Boot!BitsOf(w) <=> (w \div 16) % 2 = 1) /\ (5 \in Boot!BitsOf(w) <=> (w \div 32) % 2 = 1)
         /\ (6 \in Boot!BitsOf(w) <=> (w \div 64) % 2 = 1) /\ (7 \in Boot!BitsOf(w) <=> (w \div 128) % 2 = 1)
         /\ (8 \in Boot!BitsOf(w) <=> (w \div 256) % 2 = 1) /\ (9 \in Boot!BitsOf(w) <=> (w \div 512) % 2 = 1)
         /\ (10 \in Boot!BitsOf(w) <=> (w \div 1024) % 2 = 1) /\ (11 \in Boot!BitsOf(w) <=> (w \div 2048) % 2 = 1)
         /\ (12 \in Boot!BitsOf(w) <=> (w \div 4096) % 2 = 1) /\ (13 \in Boot!BitsOf(w) <=> (w \div 8192) % 2 = 1)
         /\ (14 \in Boot!BitsOf(w) <=> (w \div 16384) % 2 = 1) /\ (15 \in Boot!BitsOf(w) <=> (w \div 32768) % 2 = 1)
BY SMT DEF Boot!BitsOf

(* The lowest four digits, and what is above them.                          *)
Digits(w, b0, b1, b2, b3, r) ==
  /\ w \in Nat /\ r \in Nat
  /\ b0 \in {0, 1} /\ b1 \in {0, 1} /\ b2 \in {0, 1} /\ b3 \in {0, 1}
  /\ w = b0 + 2 * (b1 + 2 * (b2 + 2 * b3)) + 16 * r

LEMMA Quarter ==
  ASSUME NEW w, NEW b0, NEW b1, NEW b2, NEW b3, NEW r, Digits(w, b0, b1, b2, b3, r)
  PROVE  /\ w % 2 = b0 /\ (w \div 2) % 2 = b1
         /\ (w \div 4) % 2 = b2 /\ (w \div 8) % 2 = b3
<1> DEFINE q == b2 + 2 * (b3 + 2 * r)
           p == b1 + 2 * q
<1>1. b0 \in {0, 1} /\ b1 \in {0, 1} /\ b2 \in {0, 1} /\ b3 \in {0, 1} /\ r \in Nat /\ w \in Nat
  BY DEF Digits
<1>2. w = b0 + 2 * p /\ p \in Nat /\ q \in Nat /\ b3 + 2 * r \in Nat
  BY <1>1, SMT DEF Digits
<1>3. \A a \in {0, 1}, m \in Nat : (a + 2 * m) % 2 = a /\ (a + 2 * m) \div 2 = m
  BY SMT
<1>4. w % 2 = b0 /\ w \div 2 = p /\ p % 2 = b1 /\ p \div 2 = q /\ q % 2 = b2
      /\ q \div 2 = b3 + 2 * r /\ (b3 + 2 * r) % 2 = b3
  BY <1>1, <1>2, <1>3
<1>5. w \div 4 = (w \div 2) \div 2 /\ w \div 8 = ((w \div 2) \div 2) \div 2
  BY <1>1, SMT
<1> QED BY <1>4, <1>5

(* The number that a set of digits stands for has those digits.            *)
LEMMA BitsOfValue ==
  ASSUME NEW s \in SUBSET (0 .. 15)
  PROVE  Boot!Value(s) \in Nat /\ Boot!Value(s) <= 65535 /\ Boot!BitsOf(Boot!Value(s)) = s
<1> DEFINE w  == Boot!Value(s)
           r2 == Boot!Four(s, 8) + 16 * Boot!Four(s, 12)
           r1 == Boot!Four(s, 4) + 16 * r2
<1>1. \A k : Boot!Bit(s, k) \in {0, 1} /\ (Boot!Bit(s, k) = 1 <=> k \in s)
  BY DEF Boot!Bit
<1>2. /\ Boot!Four(s, 0) = Boot!Bit(s, 0) + 2 * (Boot!Bit(s, 1) + 2 * (Boot!Bit(s, 2) + 2 * Boot!Bit(s, 3)))
      /\ Boot!Four(s, 4) = Boot!Bit(s, 4) + 2 * (Boot!Bit(s, 5) + 2 * (Boot!Bit(s, 6) + 2 * Boot!Bit(s, 7)))
      /\ Boot!Four(s, 8) = Boot!Bit(s, 8) + 2 * (Boot!Bit(s, 9) + 2 * (Boot!Bit(s, 10) + 2 * Boot!Bit(s, 11)))
      /\ Boot!Four(s, 12) = Boot!Bit(s, 12) + 2 * (Boot!Bit(s, 13) + 2 * (Boot!Bit(s, 14) + 2 * Boot!Bit(s, 15)))
  BY SMT DEF Boot!Four
<1>3. /\ Boot!Four(s, 0) \in 0 .. 15
      /\ Boot!Four(s, 4) \in 0 .. 15
      /\ Boot!Four(s, 8) \in 0 .. 15
      /\ Boot!Four(s, 12) \in 0 .. 15
  BY <1>1, <1>2, SMT
<1>4. w = Boot!Four(s, 0) + 16 * r1
  <2>1. Boot!Value(s) =
          Boot!Four(s, 0) + 16 * (Boot!Four(s, 4)
            + 16 * (Boot!Four(s, 8) + 16 * Boot!Four(s, 12)))
    BY Zenon DEF Boot!Value, Boot!Number
  <2> QED BY <2>1
<1> HIDE DEF w
<1>5. /\ r2 \in 0 .. 255 /\ r1 \in 0 .. 4095 /\ w \in Nat /\ w <= 65535
      /\ w \div 16 = r1 /\ r1 \div 16 = r2 /\ r2 \div 16 = Boot!Four(s, 12)
  <2>1. r2 \in 0 .. 255 /\ r2 \div 16 = Boot!Four(s, 12)
    BY <1>3, SMT
  <2> HIDE DEF r2
  <2>2. r1 \in 0 .. 4095 /\ r1 \div 16 = r2
    <3>1. PICK a \in 0 .. 15 : a = Boot!Four(s, 4)
      BY <1>3
    <3>2. PICK c \in 0 .. 255 : c = r2
      BY <2>1
    <3>3. a + 16 * c \in Nat /\ a + 16 * c <= 4095 /\ (a + 16 * c) \div 16 = c
      BY SMT
    <3> QED BY <3>1, <3>2, <3>3, SMT
  <2> HIDE DEF r1
  <2>3. Boot!Four(s, 0) + 16 * r1 \in Nat /\ Boot!Four(s, 0) + 16 * r1 <= 65535
    BY <1>3, <2>2, SMT
  <2>4. (Boot!Four(s, 0) + 16 * r1) \div 16 = r1
    BY <1>3, <2>2, SMT
  <2> QED BY <1>4, <2>1, <2>2, <2>3, <2>4
<1> HIDE DEF r1, r2
<1>6. /\ w \in Nat /\ w <= 65535 /\ r1 \in Nat /\ r2 \in Nat /\ Boot!Four(s, 12) \in Nat
      /\ w \div 16 = r1 /\ w \div 256 = r2 /\ w \div 4096 = Boot!Four(s, 12)
  <2>1. w \in Nat /\ r1 \in Nat /\ r2 \in Nat /\ Boot!Four(s, 12) \in Nat
    BY <1>3, <1>5, SMT
  <2>2. w \div 256 = (w \div 16) \div 16 /\ w \div 4096 = ((w \div 16) \div 16) \div 16
    BY <2>1, SMT
  <2> QED BY <1>5, <2>1, <2>2
<1>7. /\ w % 2 = Boot!Bit(s, 0) /\ (w \div 2) % 2 = Boot!Bit(s, 1)
      /\ (w \div 4) % 2 = Boot!Bit(s, 2) /\ (w \div 8) % 2 = Boot!Bit(s, 3)
  <2>1. w = Boot!Bit(s, 0) + 2 * (Boot!Bit(s, 1) + 2 * (Boot!Bit(s, 2) + 2 * Boot!Bit(s, 3))) + 16 * r1
    BY <1>1, <1>2, <1>4, <1>6, SMT
  <2>2. w \in Nat
    BY <1>6, SMT
  <2>3. Boot!Bit(s, 0) \in {0, 1} /\ Boot!Bit(s, 1) \in {0, 1}
        /\ Boot!Bit(s, 2) \in {0, 1} /\ Boot!Bit(s, 3) \in {0, 1}
    BY <1>1
  <2>4. r1 \in Nat
    BY <1>6
  <2>5. Digits(w, Boot!Bit(s, 0), Boot!Bit(s, 1), Boot!Bit(s, 2), Boot!Bit(s, 3), r1)
    BY <2>1, <2>2, <2>3, <2>4 DEF Digits
  <2> QED BY <2>5, Quarter
<1>8. /\ (w \div 16) % 2 = Boot!Bit(s, 4) /\ ((w \div 16) \div 2) % 2 = Boot!Bit(s, 5)
      /\ ((w \div 16) \div 4) % 2 = Boot!Bit(s, 6) /\ ((w \div 16) \div 8) % 2 = Boot!Bit(s, 7)
  <2>1. (w \div 16) = Boot!Bit(s, 4) + 2 * (Boot!Bit(s, 5) + 2 * (Boot!Bit(s, 6) + 2 * Boot!Bit(s, 7))) + 16 * r2
    BY <1>1, <1>2, <1>4, <1>6, SMT DEF r1
  <2>2. (w \div 16) \in Nat
    BY <1>6, SMT
  <2>3. Boot!Bit(s, 4) \in {0, 1} /\ Boot!Bit(s, 5) \in {0, 1}
        /\ Boot!Bit(s, 6) \in {0, 1} /\ Boot!Bit(s, 7) \in {0, 1}
    BY <1>1
  <2>4. r2 \in Nat
    BY <1>6
  <2>5. Digits((w \div 16), Boot!Bit(s, 4), Boot!Bit(s, 5), Boot!Bit(s, 6), Boot!Bit(s, 7), r2)
    BY <2>1, <2>2, <2>3, <2>4 DEF Digits
  <2> QED BY <2>5, Quarter
<1>9. /\ (w \div 256) % 2 = Boot!Bit(s, 8) /\ ((w \div 256) \div 2) % 2 = Boot!Bit(s, 9)
      /\ ((w \div 256) \div 4) % 2 = Boot!Bit(s, 10) /\ ((w \div 256) \div 8) % 2 = Boot!Bit(s, 11)
  <2>1. (w \div 256) = Boot!Bit(s, 8) + 2 * (Boot!Bit(s, 9) + 2 * (Boot!Bit(s, 10) + 2 * Boot!Bit(s, 11))) + 16 * Boot!Four(s, 12)
    BY <1>1, <1>2, <1>4, <1>6, SMT DEF r2
  <2>2. (w \div 256) \in Nat
    BY <1>6, SMT
  <2>3. Boot!Bit(s, 8) \in {0, 1} /\ Boot!Bit(s, 9) \in {0, 1}
        /\ Boot!Bit(s, 10) \in {0, 1} /\ Boot!Bit(s, 11) \in {0, 1}
    BY <1>1
  <2>4. Boot!Four(s, 12) \in Nat
    BY <1>6
  <2>5. Digits((w \div 256), Boot!Bit(s, 8), Boot!Bit(s, 9), Boot!Bit(s, 10), Boot!Bit(s, 11), Boot!Four(s, 12))
    BY <2>1, <2>2, <2>3, <2>4 DEF Digits
  <2> QED BY <2>5, Quarter
<1>10. /\ (w \div 4096) % 2 = Boot!Bit(s, 12) /\ ((w \div 4096) \div 2) % 2 = Boot!Bit(s, 13)
      /\ ((w \div 4096) \div 4) % 2 = Boot!Bit(s, 14) /\ ((w \div 4096) \div 8) % 2 = Boot!Bit(s, 15)
  <2>1. (w \div 4096) = Boot!Bit(s, 12) + 2 * (Boot!Bit(s, 13) + 2 * (Boot!Bit(s, 14) + 2 * Boot!Bit(s, 15))) + 16 * 0
    BY <1>1, <1>2, <1>4, <1>6, SMT
  <2>2. (w \div 4096) \in Nat
    BY <1>6, SMT
  <2>3. Boot!Bit(s, 12) \in {0, 1} /\ Boot!Bit(s, 13) \in {0, 1}
        /\ Boot!Bit(s, 14) \in {0, 1} /\ Boot!Bit(s, 15) \in {0, 1}
    BY <1>1
  <2>4. 0 \in Nat
    BY <1>6
  <2>5. Digits((w \div 4096), Boot!Bit(s, 12), Boot!Bit(s, 13), Boot!Bit(s, 14), Boot!Bit(s, 15), 0)
    BY <2>1, <2>2, <2>3, <2>4 DEF Digits
  <2> QED BY <2>5, Quarter
<1>11. /\ w \div 32 = (w \div 16) \div 2
       /\ w \div 64 = (w \div 16) \div 4
       /\ w \div 128 = (w \div 16) \div 8
       /\ w \div 512 = (w \div 256) \div 2
       /\ w \div 1024 = (w \div 256) \div 4
       /\ w \div 2048 = (w \div 256) \div 8
       /\ w \div 8192 = (w \div 4096) \div 2
       /\ w \div 16384 = (w \div 4096) \div 4
       /\ w \div 32768 = (w \div 4096) \div 8
  BY <1>6, SMT
<1>12. /\ (0 \in Boot!BitsOf(w) <=> 0 \in s) /\ (1 \in Boot!BitsOf(w) <=> 1 \in s) /\ (2 \in Boot!BitsOf(w) <=> 2 \in s)
       /\ (3 \in Boot!BitsOf(w) <=> 3 \in s) /\ (4 \in Boot!BitsOf(w) <=> 4 \in s) /\ (5 \in Boot!BitsOf(w) <=> 5 \in s)
       /\ (6 \in Boot!BitsOf(w) <=> 6 \in s) /\ (7 \in Boot!BitsOf(w) <=> 7 \in s) /\ (8 \in Boot!BitsOf(w) <=> 8 \in s)
       /\ (9 \in Boot!BitsOf(w) <=> 9 \in s) /\ (10 \in Boot!BitsOf(w) <=> 10 \in s) /\ (11 \in Boot!BitsOf(w) <=> 11 \in s)
       /\ (12 \in Boot!BitsOf(w) <=> 12 \in s) /\ (13 \in Boot!BitsOf(w) <=> 13 \in s) /\ (14 \in Boot!BitsOf(w) <=> 14 \in s)
       /\ (15 \in Boot!BitsOf(w) <=> 15 \in s)
  <2>1. /\ w % 2 = Boot!Bit(s, 0) /\ (w \div 2) % 2 = Boot!Bit(s, 1)
        /\ (w \div 4) % 2 = Boot!Bit(s, 2) /\ (w \div 8) % 2 = Boot!Bit(s, 3)
        /\ (w \div 16) % 2 = Boot!Bit(s, 4) /\ (w \div 32) % 2 = Boot!Bit(s, 5)
        /\ (w \div 64) % 2 = Boot!Bit(s, 6) /\ (w \div 128) % 2 = Boot!Bit(s, 7)
        /\ (w \div 256) % 2 = Boot!Bit(s, 8) /\ (w \div 512) % 2 = Boot!Bit(s, 9)
        /\ (w \div 1024) % 2 = Boot!Bit(s, 10) /\ (w \div 2048) % 2 = Boot!Bit(s, 11)
        /\ (w \div 4096) % 2 = Boot!Bit(s, 12) /\ (w \div 8192) % 2 = Boot!Bit(s, 13)
        /\ (w \div 16384) % 2 = Boot!Bit(s, 14) /\ (w \div 32768) % 2 = Boot!Bit(s, 15)
    BY <1>7, <1>8, <1>9, <1>10, <1>11
  <2> QED BY <1>1, <1>6, <2>1, BitsWhich
<1>13. Boot!BitsOf(w) = s
  <2>1. Boot!BitsOf(w) \subseteq 0 .. 15
    BY <1>6, BitsWhich
  <2>2. \A k \in 0 .. 15 : k \in Boot!BitsOf(w) <=> k \in s
    BY <1>12, SMT
  <2> QED BY <2>1, <2>2
<1> QED BY <1>6, <1>13, SMT DEF w

(* A word is told from another by its digits.                              *)
LEMMA Halving ==
  ASSUME NEW w \in Nat
  PROVE
  /\ w = 2 * (w \div 2) + (w % 2)
  /\ w \div 2 = 2 * (w \div 4) + ((w \div 2) % 2)
  /\ w \div 4 = 2 * (w \div 8) + ((w \div 4) % 2)
  /\ w \div 8 = 2 * (w \div 16) + ((w \div 8) % 2)
  /\ w \div 16 = 2 * (w \div 32) + ((w \div 16) % 2)
  /\ w \div 32 = 2 * (w \div 64) + ((w \div 32) % 2)
  /\ w \div 64 = 2 * (w \div 128) + ((w \div 64) % 2)
  /\ w \div 128 = 2 * (w \div 256) + ((w \div 128) % 2)
  /\ w \div 256 = 2 * (w \div 512) + ((w \div 256) % 2)
  /\ w \div 512 = 2 * (w \div 1024) + ((w \div 512) % 2)
  /\ w \div 1024 = 2 * (w \div 2048) + ((w \div 1024) % 2)
  /\ w \div 2048 = 2 * (w \div 4096) + ((w \div 2048) % 2)
  /\ w \div 4096 = 2 * (w \div 8192) + ((w \div 4096) % 2)
  /\ w \div 8192 = 2 * (w \div 16384) + ((w \div 8192) % 2)
  /\ w \div 16384 = 2 * (w \div 32768) + ((w \div 16384) % 2)
  /\ w \div 32768 = 2 * (w \div 65536) + ((w \div 32768) % 2)
BY SMT

LEMMA SameDigits ==
  ASSUME NEW v \in Nat, NEW w \in Nat, v <= 65535, w <= 65535, Boot!BitsOf(v) = Boot!BitsOf(w)
  PROVE  v = w
<1>1. v \div 65536 = 0 /\ w \div 65536 = 0
  BY SMT
<1>2. \A x \in {0, 1}, y \in {0, 1} : (x = 1 <=> y = 1) => x = y
  OBVIOUS
<1>3. \A m \in Nat : m % 2 \in {0, 1}
  BY SMT
<1>4. /\ v \div 1 = v /\ w \div 1 = w
      /\ v \div 2 \in Nat /\ w \div 2 \in Nat
      /\ v \div 4 \in Nat /\ w \div 4 \in Nat
      /\ v \div 8 \in Nat /\ w \div 8 \in Nat
      /\ v \div 16 \in Nat /\ w \div 16 \in Nat
      /\ v \div 32 \in Nat /\ w \div 32 \in Nat
      /\ v \div 64 \in Nat /\ w \div 64 \in Nat
      /\ v \div 128 \in Nat /\ w \div 128 \in Nat
      /\ v \div 256 \in Nat /\ w \div 256 \in Nat
      /\ v \div 512 \in Nat /\ w \div 512 \in Nat
      /\ v \div 1024 \in Nat /\ w \div 1024 \in Nat
      /\ v \div 2048 \in Nat /\ w \div 2048 \in Nat
      /\ v \div 4096 \in Nat /\ w \div 4096 \in Nat
      /\ v \div 8192 \in Nat /\ w \div 8192 \in Nat
      /\ v \div 16384 \in Nat /\ w \div 16384 \in Nat
      /\ v \div 32768 \in Nat /\ w \div 32768 \in Nat
  BY SMT
<1>5. /\ v % 2 = w % 2
      /\ (v \div 2) % 2 = (w \div 2) % 2
      /\ (v \div 4) % 2 = (w \div 4) % 2
      /\ (v \div 8) % 2 = (w \div 8) % 2
      /\ (v \div 16) % 2 = (w \div 16) % 2
      /\ (v \div 32) % 2 = (w \div 32) % 2
      /\ (v \div 64) % 2 = (w \div 64) % 2
      /\ (v \div 128) % 2 = (w \div 128) % 2
      /\ (v \div 256) % 2 = (w \div 256) % 2
      /\ (v \div 512) % 2 = (w \div 512) % 2
      /\ (v \div 1024) % 2 = (w \div 1024) % 2
      /\ (v \div 2048) % 2 = (w \div 2048) % 2
      /\ (v \div 4096) % 2 = (w \div 4096) % 2
      /\ (v \div 8192) % 2 = (w \div 8192) % 2
      /\ (v \div 16384) % 2 = (w \div 16384) % 2
      /\ (v \div 32768) % 2 = (w \div 32768) % 2
  <2>1. /\ v % 2 = 1 <=> w % 2 = 1
        /\ (v \div 2) % 2 = 1 <=> (w \div 2) % 2 = 1
        /\ (v \div 4) % 2 = 1 <=> (w \div 4) % 2 = 1
        /\ (v \div 8) % 2 = 1 <=> (w \div 8) % 2 = 1
        /\ (v \div 16) % 2 = 1 <=> (w \div 16) % 2 = 1
        /\ (v \div 32) % 2 = 1 <=> (w \div 32) % 2 = 1
        /\ (v \div 64) % 2 = 1 <=> (w \div 64) % 2 = 1
        /\ (v \div 128) % 2 = 1 <=> (w \div 128) % 2 = 1
        /\ (v \div 256) % 2 = 1 <=> (w \div 256) % 2 = 1
        /\ (v \div 512) % 2 = 1 <=> (w \div 512) % 2 = 1
        /\ (v \div 1024) % 2 = 1 <=> (w \div 1024) % 2 = 1
        /\ (v \div 2048) % 2 = 1 <=> (w \div 2048) % 2 = 1
        /\ (v \div 4096) % 2 = 1 <=> (w \div 4096) % 2 = 1
        /\ (v \div 8192) % 2 = 1 <=> (w \div 8192) % 2 = 1
        /\ (v \div 16384) % 2 = 1 <=> (w \div 16384) % 2 = 1
        /\ (v \div 32768) % 2 = 1 <=> (w \div 32768) % 2 = 1
    BY BitsWhich
  <2> QED BY <1>2, <1>3, <1>4, <2>1
<1>6. v \div 32768 = w \div 32768
  BY <1>1, <1>4, <1>5, Halving
<1>7. v \div 16384 = w \div 16384
  BY <1>1, <1>4, <1>5, <1>6, Halving
<1>8. v \div 8192 = w \div 8192
  BY <1>1, <1>4, <1>5, <1>7, Halving
<1>9. v \div 4096 = w \div 4096
  BY <1>1, <1>4, <1>5, <1>8, Halving
<1>10. v \div 2048 = w \div 2048
  BY <1>1, <1>4, <1>5, <1>9, Halving
<1>11. v \div 1024 = w \div 1024
  BY <1>1, <1>4, <1>5, <1>10, Halving
<1>12. v \div 512 = w \div 512
  BY <1>1, <1>4, <1>5, <1>11, Halving
<1>13. v \div 256 = w \div 256
  BY <1>1, <1>4, <1>5, <1>12, Halving
<1>14. v \div 128 = w \div 128
  BY <1>1, <1>4, <1>5, <1>13, Halving
<1>15. v \div 64 = w \div 64
  BY <1>1, <1>4, <1>5, <1>14, Halving
<1>16. v \div 32 = w \div 32
  BY <1>1, <1>4, <1>5, <1>15, Halving
<1>17. v \div 16 = w \div 16
  BY <1>1, <1>4, <1>5, <1>16, Halving
<1>18. v \div 8 = w \div 8
  BY <1>1, <1>4, <1>5, <1>17, Halving
<1>19. v \div 4 = w \div 4
  BY <1>1, <1>4, <1>5, <1>18, Halving
<1>20. v \div 2 = w \div 2
  BY <1>1, <1>4, <1>5, <1>19, Halving
<1> QED BY <1>5, <1>20, Halving

LEMMA ValueOfBits ==
  ASSUME NEW w \in Nat, w <= 65535
  PROVE  Boot!Value(Boot!BitsOf(w)) = w
<1>1. Boot!BitsOf(w) \in SUBSET (0 .. 15)
  BY BitsWhich
<1> QED BY <1>1, BitsOfValue, SameDigits

(* Words behave as bit sets: complement, rotation, moving up.              *)
LEMMA BitsOfComplement ==
  ASSUME NEW w \in Nat, w <= 65535
  PROVE  Boot!BitsOf(65535 - w) = 0 .. 15 \ Boot!BitsOf(w)
<1>1. 65535 - w \in Nat
  BY SMT
<1>2. /\ (65535 - w) % 2 = 1 - (w % 2)
      /\ ((65535 - w) \div 2) % 2 = 1 - ((w \div 2) % 2)
      /\ ((65535 - w) \div 4) % 2 = 1 - ((w \div 4) % 2)
      /\ ((65535 - w) \div 8) % 2 = 1 - ((w \div 8) % 2)
      /\ ((65535 - w) \div 16) % 2 = 1 - ((w \div 16) % 2)
      /\ ((65535 - w) \div 32) % 2 = 1 - ((w \div 32) % 2)
      /\ ((65535 - w) \div 64) % 2 = 1 - ((w \div 64) % 2)
      /\ ((65535 - w) \div 128) % 2 = 1 - ((w \div 128) % 2)
      /\ ((65535 - w) \div 256) % 2 = 1 - ((w \div 256) % 2)
      /\ ((65535 - w) \div 512) % 2 = 1 - ((w \div 512) % 2)
      /\ ((65535 - w) \div 1024) % 2 = 1 - ((w \div 1024) % 2)
      /\ ((65535 - w) \div 2048) % 2 = 1 - ((w \div 2048) % 2)
      /\ ((65535 - w) \div 4096) % 2 = 1 - ((w \div 4096) % 2)
      /\ ((65535 - w) \div 8192) % 2 = 1 - ((w \div 8192) % 2)
      /\ ((65535 - w) \div 16384) % 2 = 1 - ((w \div 16384) % 2)
      /\ ((65535 - w) \div 32768) % 2 = 1 - ((w \div 32768) % 2)
  <2>1. /\ ((65535 - w) \div 2) = 32767 - (w \div 2)
        /\ ((65535 - w) \div 4) = 16383 - (w \div 4)
        /\ ((65535 - w) \div 8) = 8191 - (w \div 8)
        /\ ((65535 - w) \div 16) = 4095 - (w \div 16)
        /\ ((65535 - w) \div 32) = 2047 - (w \div 32)
        /\ ((65535 - w) \div 64) = 1023 - (w \div 64)
        /\ ((65535 - w) \div 128) = 511 - (w \div 128)
        /\ ((65535 - w) \div 256) = 255 - (w \div 256)
        /\ ((65535 - w) \div 512) = 127 - (w \div 512)
        /\ ((65535 - w) \div 1024) = 63 - (w \div 1024)
        /\ ((65535 - w) \div 2048) = 31 - (w \div 2048)
        /\ ((65535 - w) \div 4096) = 15 - (w \div 4096)
        /\ ((65535 - w) \div 8192) = 7 - (w \div 8192)
        /\ ((65535 - w) \div 16384) = 3 - (w \div 16384)
        /\ ((65535 - w) \div 32768) = 1 - (w \div 32768)
    BY SMT
  <2> QED BY <2>1, SMT
<1>3. \A m \in Nat : m % 2 \in {0, 1}
  BY SMT
<1>4. \A k \in 0 .. 15 : k \in Boot!BitsOf(65535 - w) <=> k \notin Boot!BitsOf(w)
  BY <1>1, <1>2, <1>3, BitsWhich, SMT
<1> QED BY <1>1, <1>4, BitsWhich

(* A word rotated right by one, and moved up by four or by eight.          *)
LEMMA BitsOfRotated ==
  ASSUME NEW w \in Nat, w <= 65535
  PROVE  Boot!BitsOf(w \div 2 + (w % 2) * 32768) = Rotated(Boot!BitsOf(w))
<1> DEFINE v == w \div 2 + (w % 2) * 32768
           s == Boot!BitsOf(w)
           t == Rotated(Boot!BitsOf(w))
<1>1. v \in Nat
  BY SMT
<1>2. PICK h \in Nat, b \in {0, 1} : w = 2 * h + b /\ h <= 32767 /\ v = h + 32768 * b
  <2>1. w \div 2 \in Nat /\ w % 2 \in {0, 1} /\ w = 2 * (w \div 2) + (w % 2) /\ w \div 2 <= 32767
    BY SMT
  <2>2. v = w \div 2 + 32768 * (w % 2)
    BY <2>1, SMT
  <2> QED BY <2>1, <2>2
<1> HIDE DEF v
<1>3. /\ w \div 2 = h /\ w \div 4 = (h \div 2) /\ w \div 8 = (h \div 4)
      /\ w \div 16 = (h \div 8) /\ w \div 32 = (h \div 16) /\ w \div 64 = (h \div 32)
      /\ w \div 128 = (h \div 64) /\ w \div 256 = (h \div 128) /\ w \div 512 = (h \div 256)
      /\ w \div 1024 = (h \div 512) /\ w \div 2048 = (h \div 1024) /\ w \div 4096 = (h \div 2048)
      /\ w \div 8192 = (h \div 4096) /\ w \div 16384 = (h \div 8192) /\ w \div 32768 = (h \div 16384)
  BY <1>2, SMT
<1>4. /\ v % 2 = h % 2
      /\ (v \div 2) % 2 = (h \div 2) % 2
      /\ (v \div 4) % 2 = (h \div 4) % 2
      /\ (v \div 8) % 2 = (h \div 8) % 2
      /\ (v \div 16) % 2 = (h \div 16) % 2
      /\ (v \div 32) % 2 = (h \div 32) % 2
      /\ (v \div 64) % 2 = (h \div 64) % 2
      /\ (v \div 128) % 2 = (h \div 128) % 2
      /\ (v \div 256) % 2 = (h \div 256) % 2
      /\ (v \div 512) % 2 = (h \div 512) % 2
      /\ (v \div 1024) % 2 = (h \div 1024) % 2
      /\ (v \div 2048) % 2 = (h \div 2048) % 2
      /\ (v \div 4096) % 2 = (h \div 4096) % 2
      /\ (v \div 8192) % 2 = (h \div 8192) % 2
      /\ (v \div 16384) % 2 = (h \div 16384) % 2
      /\ (v \div 32768) % 2 = b /\ w % 2 = b
  <2>1. CASE b = 0
    BY <1>2, <2>1, SMT
  <2>2. CASE b = 1
    BY <1>2, <2>2, SMT
  <2> QED BY <2>1, <2>2
<1>5. /\ v % 2 = (w \div 2) % 2
      /\ (v \div 2) % 2 = (w \div 4) % 2
      /\ (v \div 4) % 2 = (w \div 8) % 2
      /\ (v \div 8) % 2 = (w \div 16) % 2
      /\ (v \div 16) % 2 = (w \div 32) % 2
      /\ (v \div 32) % 2 = (w \div 64) % 2
      /\ (v \div 64) % 2 = (w \div 128) % 2
      /\ (v \div 128) % 2 = (w \div 256) % 2
      /\ (v \div 256) % 2 = (w \div 512) % 2
      /\ (v \div 512) % 2 = (w \div 1024) % 2
      /\ (v \div 1024) % 2 = (w \div 2048) % 2
      /\ (v \div 2048) % 2 = (w \div 4096) % 2
      /\ (v \div 4096) % 2 = (w \div 8192) % 2
      /\ (v \div 8192) % 2 = (w \div 16384) % 2
      /\ (v \div 16384) % 2 = (w \div 32768) % 2
      /\ (v \div 32768) % 2 = w % 2
  BY <1>3, <1>4
<1>6. /\ (0 \in Boot!BitsOf(v) <=> 1 \in s) /\ (1 \in Boot!BitsOf(v) <=> 2 \in s) /\ (2 \in Boot!BitsOf(v) <=> 3 \in s) /\ (3 \in Boot!BitsOf(v) <=> 4 \in s)
      /\ (4 \in Boot!BitsOf(v) <=> 5 \in s) /\ (5 \in Boot!BitsOf(v) <=> 6 \in s) /\ (6 \in Boot!BitsOf(v) <=> 7 \in s) /\ (7 \in Boot!BitsOf(v) <=> 8 \in s)
      /\ (8 \in Boot!BitsOf(v) <=> 9 \in s) /\ (9 \in Boot!BitsOf(v) <=> 10 \in s) /\ (10 \in Boot!BitsOf(v) <=> 11 \in s) /\ (11 \in Boot!BitsOf(v) <=> 12 \in s)
      /\ (12 \in Boot!BitsOf(v) <=> 13 \in s) /\ (13 \in Boot!BitsOf(v) <=> 14 \in s) /\ (14 \in Boot!BitsOf(v) <=> 15 \in s) /\ (15 \in Boot!BitsOf(v) <=> 0 \in s)
  BY <1>1, <1>5, BitsWhich, SMT
<1> HIDE DEF s
<1>7. s \subseteq 0 .. 15 /\ Boot!BitsOf(v) \subseteq 0 .. 15
  BY <1>1, BitsWhich DEF s
<1>8. Rotated(s) \subseteq 0 .. 15 /\ (15 \in Rotated(s) <=> 0 \in s)
  BY <1>7, SMT DEF Rotated
<1>9. \A k \in 0 .. 14 : k \in Rotated(s) <=> k + 1 \in s
  BY <1>7, SMT DEF Rotated
<1>10. \A k \in 0 .. 15 : k \in Boot!BitsOf(v) <=> k \in Rotated(s)
  BY <1>6, <1>8, <1>9, SMT
<1> QED BY <1>7, <1>8, <1>10 DEF v, s

LEMMA BitsMovedUp4 ==
  ASSUME NEW w \in Nat, w <= 65535
  PROVE  Boot!BitsOf((w * 16) % 65536) = Upwards(Boot!BitsOf(w), 4)
<1> DEFINE v == (w * 16) % 65536
           s == Boot!BitsOf(w)
<1>1. PICK q \in Nat, r \in Nat : w = 4096 * q + r /\ r < 4096 /\ v = 16 * r
  <2>1. w \div 4096 \in Nat /\ w % 4096 \in Nat /\ w % 4096 < 4096
    BY SMT
  <2>2. w = 4096 * (w \div 4096) + (w % 4096) /\ v = 16 * (w % 4096)
    BY SMT
  <2> QED BY <2>1, <2>2
<1>2. v \in Nat
  BY <1>1, SMT
<1> HIDE DEF v
<1>3. /\ v % 2 = 0
      /\ (v \div 2) % 2 = 0
      /\ (v \div 4) % 2 = 0
      /\ (v \div 8) % 2 = 0
      /\ (v \div 16) % 2 = w % 2
      /\ (v \div 32) % 2 = (w \div 2) % 2
      /\ (v \div 64) % 2 = (w \div 4) % 2
      /\ (v \div 128) % 2 = (w \div 8) % 2
      /\ (v \div 256) % 2 = (w \div 16) % 2
      /\ (v \div 512) % 2 = (w \div 32) % 2
      /\ (v \div 1024) % 2 = (w \div 64) % 2
      /\ (v \div 2048) % 2 = (w \div 128) % 2
      /\ (v \div 4096) % 2 = (w \div 256) % 2
      /\ (v \div 8192) % 2 = (w \div 512) % 2
      /\ (v \div 16384) % 2 = (w \div 1024) % 2
      /\ (v \div 32768) % 2 = (w \div 2048) % 2
  <2>1. /\ v % 2 = 0
        /\ (v \div 2) % 2 = 0
        /\ (v \div 4) % 2 = 0
        /\ (v \div 8) % 2 = 0
        /\ (v \div 16) % 2 = r % 2
        /\ (v \div 32) % 2 = (r \div 2) % 2
        /\ (v \div 64) % 2 = (r \div 4) % 2
        /\ (v \div 128) % 2 = (r \div 8) % 2
        /\ (v \div 256) % 2 = (r \div 16) % 2
        /\ (v \div 512) % 2 = (r \div 32) % 2
        /\ (v \div 1024) % 2 = (r \div 64) % 2
        /\ (v \div 2048) % 2 = (r \div 128) % 2
        /\ (v \div 4096) % 2 = (r \div 256) % 2
        /\ (v \div 8192) % 2 = (r \div 512) % 2
        /\ (v \div 16384) % 2 = (r \div 1024) % 2
        /\ (v \div 32768) % 2 = (r \div 2048) % 2
    BY <1>1, SMT
  <2>2. /\ w = 4096 * q + r
        /\ (w \div 2) = 2048 * q + (r \div 2)
        /\ (w \div 4) = 1024 * q + (r \div 4)
        /\ (w \div 8) = 512 * q + (r \div 8)
        /\ (w \div 16) = 256 * q + (r \div 16)
        /\ (w \div 32) = 128 * q + (r \div 32)
        /\ (w \div 64) = 64 * q + (r \div 64)
        /\ (w \div 128) = 32 * q + (r \div 128)
        /\ (w \div 256) = 16 * q + (r \div 256)
        /\ (w \div 512) = 8 * q + (r \div 512)
        /\ (w \div 1024) = 4 * q + (r \div 1024)
        /\ (w \div 2048) = 2 * q + (r \div 2048)
    BY <1>1, SMT
  <2>3. q \in Nat /\ r \in Nat
    BY <1>1
  <2> QED BY <2>1, <2>2, <2>3, SMTT(30)
<1>4. /\ 0 \notin Boot!BitsOf(v) /\ 1 \notin Boot!BitsOf(v) /\ 2 \notin Boot!BitsOf(v) /\ 3 \notin Boot!BitsOf(v)
      /\ (4 \in Boot!BitsOf(v) <=> 0 \in s) /\ (5 \in Boot!BitsOf(v) <=> 1 \in s) /\ (6 \in Boot!BitsOf(v) <=> 2 \in s) /\ (7 \in Boot!BitsOf(v) <=> 3 \in s)
      /\ (8 \in Boot!BitsOf(v) <=> 4 \in s) /\ (9 \in Boot!BitsOf(v) <=> 5 \in s) /\ (10 \in Boot!BitsOf(v) <=> 6 \in s) /\ (11 \in Boot!BitsOf(v) <=> 7 \in s)
      /\ (12 \in Boot!BitsOf(v) <=> 8 \in s) /\ (13 \in Boot!BitsOf(v) <=> 9 \in s) /\ (14 \in Boot!BitsOf(v) <=> 10 \in s) /\ (15 \in Boot!BitsOf(v) <=> 11 \in s)
  BY <1>2, <1>3, BitsWhich, SMT
<1> HIDE DEF s
<1>5. s \subseteq 0 .. 15 /\ Boot!BitsOf(v) \subseteq 0 .. 15
  BY <1>2, BitsWhich DEF s
<1>6. Upwards(s, 4) \subseteq 4 .. 15
  BY <1>5, SMT DEF Upwards
<1>7. \A k \in 4 .. 15 : k \in Upwards(s, 4) <=> k - 4 \in s
  BY <1>5, SMT DEF Upwards
<1>8. \A k \in 0 .. 15 : k \in Boot!BitsOf(v) <=> k \in Upwards(s, 4)
  BY <1>4, <1>6, <1>7, SMT
<1> QED BY <1>5, <1>6, <1>8, SMT DEF v, s

LEMMA BitsMovedUp8 ==
  ASSUME NEW w \in Nat, w <= 65535
  PROVE  Boot!BitsOf((w * 256) % 65536) = Upwards(Boot!BitsOf(w), 8)
<1> DEFINE v == (w * 256) % 65536
           s == Boot!BitsOf(w)
<1>1. PICK q \in Nat, r \in Nat : w = 256 * q + r /\ r < 256 /\ v = 256 * r
  <2>1. w \div 256 \in Nat /\ w % 256 \in Nat /\ w % 256 < 256
    BY SMT
  <2>2. w = 256 * (w \div 256) + (w % 256) /\ v = 256 * (w % 256)
    BY SMT
  <2> QED BY <2>1, <2>2
<1>2. v \in Nat
  BY <1>1, SMT
<1> HIDE DEF v
<1>3. /\ v % 2 = 0
      /\ (v \div 2) % 2 = 0
      /\ (v \div 4) % 2 = 0
      /\ (v \div 8) % 2 = 0
      /\ (v \div 16) % 2 = 0
      /\ (v \div 32) % 2 = 0
      /\ (v \div 64) % 2 = 0
      /\ (v \div 128) % 2 = 0
      /\ (v \div 256) % 2 = w % 2
      /\ (v \div 512) % 2 = (w \div 2) % 2
      /\ (v \div 1024) % 2 = (w \div 4) % 2
      /\ (v \div 2048) % 2 = (w \div 8) % 2
      /\ (v \div 4096) % 2 = (w \div 16) % 2
      /\ (v \div 8192) % 2 = (w \div 32) % 2
      /\ (v \div 16384) % 2 = (w \div 64) % 2
      /\ (v \div 32768) % 2 = (w \div 128) % 2
  <2>1. /\ v % 2 = 0
        /\ (v \div 2) % 2 = 0
        /\ (v \div 4) % 2 = 0
        /\ (v \div 8) % 2 = 0
        /\ (v \div 16) % 2 = 0
        /\ (v \div 32) % 2 = 0
        /\ (v \div 64) % 2 = 0
        /\ (v \div 128) % 2 = 0
        /\ (v \div 256) % 2 = r % 2
        /\ (v \div 512) % 2 = (r \div 2) % 2
        /\ (v \div 1024) % 2 = (r \div 4) % 2
        /\ (v \div 2048) % 2 = (r \div 8) % 2
        /\ (v \div 4096) % 2 = (r \div 16) % 2
        /\ (v \div 8192) % 2 = (r \div 32) % 2
        /\ (v \div 16384) % 2 = (r \div 64) % 2
        /\ (v \div 32768) % 2 = (r \div 128) % 2
    BY <1>1, SMT
  <2>2. /\ w = 256 * q + r
        /\ (w \div 2) = 128 * q + (r \div 2)
        /\ (w \div 4) = 64 * q + (r \div 4)
        /\ (w \div 8) = 32 * q + (r \div 8)
        /\ (w \div 16) = 16 * q + (r \div 16)
        /\ (w \div 32) = 8 * q + (r \div 32)
        /\ (w \div 64) = 4 * q + (r \div 64)
        /\ (w \div 128) = 2 * q + (r \div 128)
    BY <1>1, SMT
  <2>3. q \in Nat /\ r \in Nat
    BY <1>1
  <2> QED BY <2>1, <2>2, <2>3, SMTT(30)
<1>4. /\ 0 \notin Boot!BitsOf(v) /\ 1 \notin Boot!BitsOf(v) /\ 2 \notin Boot!BitsOf(v) /\ 3 \notin Boot!BitsOf(v)
      /\ 4 \notin Boot!BitsOf(v) /\ 5 \notin Boot!BitsOf(v) /\ 6 \notin Boot!BitsOf(v) /\ 7 \notin Boot!BitsOf(v)
      /\ (8 \in Boot!BitsOf(v) <=> 0 \in s) /\ (9 \in Boot!BitsOf(v) <=> 1 \in s) /\ (10 \in Boot!BitsOf(v) <=> 2 \in s) /\ (11 \in Boot!BitsOf(v) <=> 3 \in s)
      /\ (12 \in Boot!BitsOf(v) <=> 4 \in s) /\ (13 \in Boot!BitsOf(v) <=> 5 \in s) /\ (14 \in Boot!BitsOf(v) <=> 6 \in s) /\ (15 \in Boot!BitsOf(v) <=> 7 \in s)
  BY <1>2, <1>3, BitsWhich, SMT
<1> HIDE DEF s
<1>5. s \subseteq 0 .. 15 /\ Boot!BitsOf(v) \subseteq 0 .. 15
  BY <1>2, BitsWhich DEF s
<1>6. Upwards(s, 8) \subseteq 8 .. 15
  BY <1>5, SMT DEF Upwards
<1>7. \A k \in 8 .. 15 : k \in Upwards(s, 8) <=> k - 8 \in s
  BY <1>5, SMT DEF Upwards
<1>8. \A k \in 0 .. 15 : k \in Boot!BitsOf(v) <=> k \in Upwards(s, 8)
  BY <1>4, <1>6, <1>7, SMT
<1> QED BY <1>5, <1>6, <1>8, SMT DEF v, s

(* The numbers in the code, digit by digit.                                *)
LEMMA Numerals ==
  /\ Boot!BitsOf(60) = {2, 3, 4, 5} /\ Boot!BitsOf(177) = {0, 4, 5, 7}
  /\ Boot!BitsOf(Boot!Magic) = {0, 4, 5, 7, 10, 11, 12, 13}
  /\ Boot!BitsOf(36273) = {0, 4, 5, 7, 8, 10, 11, 15}
  /\ Boot!Value({0, 2, 3, 7}) = 141
<1>1. Boot!BitsOf(60) = {2, 3, 4, 5}
  BY BitsWhich, SMT
<1>2. Boot!BitsOf(177) = {0, 4, 5, 7}
  BY BitsWhich, SMT
<1>3. Boot!BitsOf(Boot!Magic) = {0, 4, 5, 7, 10, 11, 12, 13}
  BY BitsWhich, SMT DEF Boot!Magic
<1>4. Boot!BitsOf(36273) = {0, 4, 5, 7, 8, 10, 11, 15}
  BY BitsWhich, SMT
<1>5. Boot!Value({0, 2, 3, 7}) = 141
  <2>1. Boot!Value({0, 2, 3, 7}) =
          Boot!Four({0, 2, 3, 7}, 0) + 16 * (Boot!Four({0, 2, 3, 7}, 4)
            + 16 * (Boot!Four({0, 2, 3, 7}, 8) + 16 * Boot!Four({0, 2, 3, 7}, 12)))
    <3>1. {0, 2, 3, 7} \in SUBSET (0 .. 15)
      BY SMT
    <3> QED BY <3>1, Zenon DEF Boot!Value, Boot!Number
  <2> QED BY <2>1, SMT DEF Boot!Four, Boot!Bit
<1> QED BY <1>1, <1>2, <1>3, <1>4, <1>5

LEMMA XorOfBits == \A v, w : Boot!Xor(v, w) = Boot!Value(SymDiff(Boot!BitsOf(v), Boot!BitsOf(w)))
BY DEF Boot!Xor, Boot!SymDiff, SymDiff

LEMMA XorIsWord ==
  ASSUME NEW v \in Nat, NEW w \in Nat
  PROVE  Boot!Xor(v, w) \in Nat
<1>1. Boot!BitsOf(v) \subseteq 0 .. 15 /\ Boot!BitsOf(w) \subseteq 0 .. 15
  BY BitsWhich
<1>2. SymDiff(Boot!BitsOf(v), Boot!BitsOf(w)) \in SUBSET (0 .. 15)
  BY <1>1 DEF SymDiff
<1> QED BY <1>2, XorOfBits, BitsOfValue

(* make_key computes what the bootloader does: not, rotate, xor.           *)
LEMMA KeyIsDiskCode ==
  ASSUME NEW seed \in Word
  PROVE  Boot!make_key(seed) = Boot!Value(DiskCode(seed)) /\ Boot!make_key(seed) \in Nat
<1> DEFINE AX == 65535 - seed
           rotated == AX \div 2 + (AX % 2) * 32768
           BX == Boot!BitsOf(Boot!Magic)
<1>0. seed \in Nat /\ seed <= 65535
  BY WordBound
<1>1. AX \in Nat /\ AX <= 65535
  BY <1>0, SMT
<1>2. Boot!BitsOf(AX) = 0 .. 15 \ Boot!BitsOf(seed)
  BY <1>0, BitsOfComplement
<1>3. Boot!BitsOf(rotated) = Rotated(Boot!BitsOf(AX))
  BY <1>1, BitsOfRotated
<1>4. Boot!Xor(60, 177) = 141
  <2>1. SymDiff({2, 3, 4, 5}, {0, 4, 5, 7}) = {0, 2, 3, 7}
    BY SMT DEF SymDiff
  <2> QED BY <2>1, Numerals, XorOfBits
<1>5. Boot!BitsOf(36273) = SymDiff(BX, Upwards(BX, 8))
  <2>1. Upwards({0, 4, 5, 7, 10, 11, 12, 13}, 8) = {8, 12, 13, 15}
    BY SMT DEF Upwards
  <2>2. SymDiff({0, 4, 5, 7, 10, 11, 12, 13}, {8, 12, 13, 15}) = {0, 4, 5, 7, 8, 10, 11, 15}
    BY SMT DEF SymDiff
  <2> QED BY <2>1, <2>2, Numerals
<1>6. Boot!make_key(seed) = Boot!Xor(36273, rotated)
  <2>1. 141 * 256 + 177 = 36273
    BY SMT
  <2> QED BY <1>4, <2>1, SMT DEF Boot!make_key
<1>7. Boot!Xor(36273, rotated) = Boot!Value(SymDiff(Boot!BitsOf(36273), Boot!BitsOf(rotated)))
  BY XorOfBits
<1>8. rotated \in Nat
  BY <1>1, SMT
<1> HIDE DEF AX, rotated, BX
<1>9. Boot!make_key(seed) \in Nat
  BY <1>6, <1>8, XorIsWord, SMT
<1>10. DiskCode(seed) = SymDiff(SymDiff(BX, Upwards(BX, 8)), Rotated(0 .. 15 \ Boot!BitsOf(seed)))
  BY SMT DEF DiskCode, BX
<1> QED BY <1>2, <1>3, <1>5, <1>6, <1>7, <1>10, <1>9, SMT

(* So does calc_boot_dir_start: xor, add, shift by four.                   *)
LEMMA StartIsBootSector ==
  ASSUME NEW encrypted \in Word, NEW seed \in Word
  PROVE  /\ Boot!calc_boot_dir_start(encrypted, Boot!make_key(seed)) = BootSector(encrypted, seed)
         /\ BootSector(encrypted, seed) \in Nat
<1> DEFINE AX == Boot!BitsOf(encrypted)
           X  == SymDiff(AX, Upwards(AX, 8))
           BX == SymDiff(Boot!BitsOf(Boot!Magic), X)
           S  == Boot!Value(DiskCode(seed)) + Boot!Value(BX)
<1>0. encrypted \in Nat /\ encrypted <= 65535
  BY WordBound
<1>1. Boot!Xor(encrypted, (encrypted * 256) % 65536) = Boot!Value(X)
  BY <1>0, BitsMovedUp8, XorOfBits
<1>2. X \subseteq 0 .. 15
  <2>1. AX \subseteq 0 .. 15
    BY <1>0, BitsWhich
  <2>2. Upwards(AX, 8) \subseteq 0 .. 15
    BY <2>1, SMT DEF Upwards
  <2> QED BY <2>1, <2>2, SMT DEF SymDiff
<1>3. Boot!BitsOf(Boot!Value(X)) = X
  BY <1>2, BitsOfValue, SMT
<1>4. Boot!Xor(Boot!Magic, Boot!Value(X)) = Boot!Value(BX)
  BY <1>3, XorOfBits
<1>5. S \in Nat
  <2>1. Boot!Value(X) \in Nat /\ Boot!Magic \in Nat
    BY <1>2, BitsOfValue, SMT DEF Boot!Magic
  <2>2. Boot!Value(BX) \in Nat
    BY <1>4, <2>1, XorIsWord
  <2> QED BY <2>2, KeyIsDiskCode
<1>6. Boot!calc_boot_dir_start(encrypted, Boot!make_key(seed)) = (S * 16) % 65536
  <2>1. Boot!calc_boot_dir_start(encrypted, Boot!make_key(seed))
          = ((Boot!make_key(seed) + Boot!Value(BX)) * 16) % 65536
    BY <1>1, <1>4, SMT DEF Boot!calc_boot_dir_start, Boot!SectorsPerTrack
  <2> QED BY <2>1, KeyIsDiskCode, SMT
<1>7. BootSector(encrypted, seed) = Boot!Value(Upwards(Boot!BitsOf(S % 65536), 4))
  BY SMT DEF BootSector
<1> HIDE DEF S
<1>8. S % 65536 \in Nat /\ S % 65536 <= 65535 /\ ((S % 65536) * 16) % 65536 = (S * 16) % 65536
  BY <1>5, SMT
<1>9. Boot!BitsOf(((S % 65536) * 16) % 65536) = Upwards(Boot!BitsOf(S % 65536), 4)
  BY <1>8, BitsMovedUp4
<1>10. (S * 16) % 65536 \in Nat /\ (S * 16) % 65536 <= 65535
  BY <1>5, SMT
<1>11. Boot!Value(Boot!BitsOf((S * 16) % 65536)) = (S * 16) % 65536
  BY <1>10, ValueOfBits
<1> QED BY <1>6, <1>7, <1>8, <1>9, <1>10, <1>11, SMT

(***************************************************************************)
(* centboot along the directory: what the buffer holds of it, and what has *)
(* been listed, entry by entry.                                            *)
(***************************************************************************)
(* The buffer shows sector s, as far as the file has it.                   *)
Shows(b, s) == \A k \in 1 .. Size : s * Size + k <= Len(File) => b[k] = File[s * Size + k]

(* The entries to be listed of the sectors before r.                       *)
Entries(r) == { q \in Start * Slots + 1 .. r * Slots - 1 :
                  /\ IsText(At(q - (q % Slots)))
                  /\ \A p \in Start * Slots + 1 .. q : ~IsEnd(At(p)) }

(* The names are the entries of L in the order of the file.                *)
InOrder(names, L) ==
  /\ Len(names) = Cardinality(L)
  /\ \A q \in L : names[Cardinality({ p \in L : p <= q })] = At(q)

Idle == bpc = "header" /\ sector = 0 /\ offset = 1 /\ listed = <<>>

BootTypeOK ==
  /\ bpc \in {"header", "start", "search", "done", "failed"}
  /\ buffer \in [1 .. Pitch -> Stored]
  /\ listed \in Seq(Stored)

Searching ==
  /\ Start \in Nat /\ sector \in Nat /\ Start <= sector
  /\ sector * Size < Len(File)
  /\ Shows(buffer, sector)
  /\ offset = IF sector = Start THEN 1 ELSE 0

BootInv ==
  /\ BootTypeOK
  /\ rpc = "copy" => Idle
  /\ bpc = "header" => Idle
  /\ bpc = "start" => /\ 14 * Size < Len(File) /\ buffer[1] = Header /\ Header \in Stored
                      /\ sector = 0 /\ offset = 1 /\ listed = <<>>
  /\ bpc \in {"search", "done"} => Searching
  /\ bpc = "search" =>
       /\ InOrder(listed, Entries(sector))
       /\ \A q \in Start * Slots + 1 .. sector * Slots - 1 : ~IsEnd(At(q))
  /\ bpc = "done" /\ sector * Size + Slots <= Len(File) =>
       /\ InOrder(listed, Entries(sector + 1))
       /\ \E q \in Start * Slots + 1 .. sector * Slots + Slots - 1 :
            IsEnd(At(q)) /\ q \div Slots = sector

(* A position is in the sector that it counts from.                        *)
LEMMA SectorOfPosition ==
  ASSUME NEW a \in Nat, NEW j \in 0 .. Slots - 1
  PROVE  (a * Slots + j) \div Slots = a /\ (a * Slots + j) % Slots = j
<1> DEFINE q == a * Slots + j
<1>1. Slots \in Nat /\ 0 < Slots /\ j \in Nat /\ j < Slots /\ a * Slots \in Nat
  BY SectorAssumption
<1>2. q \in Nat
  BY <1>1
<1>3. PICK d \in Nat, r \in 0 .. Slots - 1 :
        q = d * Slots + r /\ q \div Slots = d /\ q % Slots = r
  <2> HIDE DEF q
  <2>1. q \div Slots \in Nat /\ q % Slots \in 0 .. Slots - 1
        /\ q = (q \div Slots) * Slots + (q % Slots)
    BY <1>1, <1>2
  <2> QED BY <2>1
<1>4. ~(d < a)
  <2> SUFFICES ASSUME d < a PROVE FALSE
    OBVIOUS
  <2>1. d * Slots + Slots <= a * Slots
    BY <1>1, EarlierBlock
  <2>2. d * Slots \in Nat
    BY <1>1
  <2> QED BY <1>1, <1>3, <2>1, <2>2
<1>5. ~(a < d)
  <2> SUFFICES ASSUME a < d PROVE FALSE
    OBVIOUS
  <2>1. a * Slots + Slots <= d * Slots
    BY <1>1, EarlierBlock
  <2>2. d * Slots \in Nat
    BY <1>1
  <2> QED BY <1>1, <1>3, <2>1, <2>2
<1>6. d = a
  BY <1>4, <1>5
<1>7. r = j
  BY <1>1, <1>3, <1>6
<1> QED BY <1>3, <1>6, <1>7

LEMMA EntryAt ==
  ASSUME NEW a \in Nat, NEW j \in 0 .. Slots - 1
  PROVE  /\ At(a * Slots + j) = File[a * Size + j + 1]
         /\ (a * Slots + j) - ((a * Slots + j) % Slots) = a * Slots
         /\ At(a * Slots) = File[a * Size + 1]
<1>1. Slots \in Nat /\ 0 < Slots /\ a * Slots \in Nat /\ 0 \in 0 .. Slots - 1
  BY SectorAssumption
<1>2. At(a * Slots + j) = File[a * Size + j + 1]
  BY SectorOfPosition DEF At
<1>3. a * Slots + 0 = a * Slots /\ (a * Slots + j) - j = a * Slots
  BY <1>1
<1>4. (a * Slots) \div Slots = a /\ (a * Slots) % Slots = 0
  BY <1>1, <1>3, SectorOfPosition
<1>5. Size \in Nat
  BY SectorAssumption DEF Size
<1>6. a * Size + 0 + 1 = a * Size + 1
  BY <1>5
<1>7. At(a * Slots) = File[a * Size + 1]
  BY <1>4, <1>6 DEF At
<1> QED BY <1>2, <1>3, <1>7, SectorOfPosition

(* An interval of entries that follows those listed, listed after them.    *)
LEMMA InOrderGrows ==
  ASSUME NEW names \in Seq(Stored), NEW more \in Seq(Stored),
         NEW m \in Nat, NEW L \in SUBSET (0 .. m - 1), InOrder(names, L),
         \A k \in 1 .. Len(more) : more[k] = At(m + k - 1)
  PROVE  InOrder(names \o more, L \cup (m .. m + Len(more) - 1))
<1> DEFINE c == Len(more)
           I == m .. m + c - 1
           M == L \cup I
<1>1. c \in Nat /\ Len(names) \in Nat
  BY LenProperties
<1>2. /\ Len(names \o more) = Len(names) + c
      /\ \A k \in 1 .. Len(names) : (names \o more)[k] = names[k]
      /\ \A k \in 1 .. c : (names \o more)[Len(names) + k] = more[k]
  BY <1>1, ConcatProperties
<1>3. IsFiniteSet(L) /\ Cardinality(L) = Len(names)
  <2>1. IsFiniteSet(0 .. m - 1)
    <3>1. 0 \in Int /\ m - 1 \in Int
      OBVIOUS
    <3> QED BY <3>1, FS_Interval
  <2> QED BY <2>1, FS_Subset DEF InOrder
<1> HIDE DEF c
<1>4. ASSUME NEW k \in 0 .. c
      PROVE  /\ IsFiniteSet(L \cup (m .. m + k - 1))
             /\ Cardinality(L \cup (m .. m + k - 1)) = Len(names) + k
  <2>1. m \in Int /\ m + k - 1 \in Int /\ (IF m > m + k - 1 THEN 0 ELSE m + k - 1 - m + 1) = k
    BY <1>1
  <2>2. /\ IsFiniteSet(m .. m + k - 1)
        /\ Cardinality(m .. m + k - 1) = IF m > m + k - 1 THEN 0 ELSE m + k - 1 - m + 1
    BY <2>1, FS_Interval
  <2>3. L \cap (m .. m + k - 1) = {}
    BY <1>1
  <2>4. Cardinality(L \cap (m .. m + k - 1)) = 0
    BY <2>3, FS_EmptySet
  <2>5. /\ IsFiniteSet(L \cup (m .. m + k - 1))
        /\ Cardinality(L \cup (m .. m + k - 1)) =
             Cardinality(L) + Cardinality(m .. m + k - 1) - Cardinality(L \cap (m .. m + k - 1))
    BY <1>3, <2>2, FS_Union
  <2> QED BY <1>1, <1>3, <2>1, <2>2, <2>4, <2>5
<1>5. Len(names \o more) = Cardinality(M)
  <2>1. c \in 0 .. c
    BY <1>1
  <2> QED BY <1>2, <1>4, <2>1
<1>6. ASSUME NEW q \in L
      PROVE  (names \o more)[Cardinality({ p \in M : p <= q })] = At(q)
  <2> DEFINE R == { p \in L : p <= q }
  <2>1. { p \in M : p <= q } = R
    BY <1>1
  <2>2. IsFiniteSet(R) /\ Cardinality(R) <= Len(names) /\ Cardinality(R) \in Nat
    <3>1. R \in SUBSET L
      OBVIOUS
    <3> QED BY <1>3, <3>1, FS_Subset, FS_CardinalityType
  <2>3. Cardinality(R) # 0
    <3>1. q \in R
      OBVIOUS
    <3> QED BY <2>2, <3>1, FS_EmptySet
  <2>4. names[Cardinality(R)] = At(q)
    BY DEF InOrder
  <2> HIDE DEF R
  <2>5. Cardinality(R) \in 1 .. Len(names)
    BY <1>1, <2>2, <2>3
  <2> QED BY <1>2, <2>1, <2>4, <2>5
<1>7. ASSUME NEW q \in I
      PROVE  (names \o more)[Cardinality({ p \in M : p <= q })] = At(q)
  <2>1. PICK k \in 1 .. c : q = m + k - 1
    <3>1. q - m + 1 \in 1 .. c /\ q = m + (q - m + 1) - 1
      BY <1>1
    <3> QED BY <3>1
  <2>2. { p \in M : p <= q } = L \cup (m .. m + k - 1)
    <3>1. \A p \in L : p <= q
      BY <1>1, <2>1
    <3>2. \A p \in I : p <= q <=> p \in m .. m + k - 1
      BY <1>1, <2>1
    <3>3. m .. m + k - 1 \subseteq I
      BY <1>1, <2>1
    <3> QED BY <3>1, <3>2, <3>3
  <2>3. Cardinality({ p \in M : p <= q }) = Len(names) + k
    <3>1. k \in 0 .. c
      BY <1>1
    <3> QED BY <1>4, <2>2, <3>1
  <2> QED BY <1>1, <1>2, <2>1, <2>3 DEF c
<1>8. InOrder(names \o more, M)
  BY <1>5, <1>6, <1>7 DEF InOrder
<1> QED BY <1>8 DEF c

(* readSector: whatever was in the buffer, it shows the sector read.       *)
LEMMA SectorFilled ==
  ASSUME RepackInv, OnFile, BootTypeOK, NEW s \in Nat, NEW then,
         UNCHANGED <<File, Size>>, Boot!readSector(s, then)
  PROVE  /\ Len(File) <= s * Size => bpc' = "failed" /\ buffer' = buffer
         /\ ~(Len(File) <= s * Size) =>
              bpc' = then /\ buffer' \in [1 .. Pitch -> Stored] /\ Shows(buffer, s)'
<1> DEFINE d == Block(File, Size, s)
<1>1. /\ File \in Seq(Stored) /\ Len(File) \in Nat
      /\ Size \in Nat /\ 0 < Size /\ s * Size \in Nat
      /\ buffer \in [1 .. Pitch -> Stored] /\ Pitch \in Nat /\ Size <= Pitch
  <2>1. Size \in Nat /\ 0 < Size /\ Pitch \in Nat /\ Size <= Pitch
    BY SectorAssumption DEF Size
  <2> QED BY <2>1, FileRead DEF BootTypeOK
<1>2. IF d = <<>> THEN bpc' = "failed" /\ buffer' = buffer
                  ELSE bpc' = then /\ buffer' = Overwrite(buffer, d)
  BY DEF Boot!readSector, Boot!Block, Block, Boot!Min, Min, Boot!Overwrite, Overwrite
<1>3. CASE d = <<>>
  <2>1. Len(File) <= s * Size
    BY <1>1, <1>3, BlockInside
  <2> QED BY <1>2, <1>3, <2>1
<1>4. CASE d # <<>>
  <2>1. /\ s * Size < Len(File) /\ d \in Seq(Stored)
        /\ \A k \in 1 .. Size : k <= Len(d) <=> s * Size + k <= Len(File)
        /\ \A k \in 1 .. Len(d) : d[k] = File[s * Size + k]
    BY <1>1, <1>4, BlockContents
  <2>2. Len(d) \in Nat /\ \A k \in 1 .. Len(d) : d[k] \in Stored
    BY <2>1, LenProperties, ElementOfSeq
  <2>3. bpc' = then /\ buffer' = [k \in 1 .. Pitch |-> IF k <= Len(d) THEN d[k] ELSE buffer[k]]
    BY <1>1, <1>2, <1>4 DEF Overwrite
  <2> HIDE DEF d
  <2>4. buffer' \in [1 .. Pitch -> Stored]
    BY <1>1, <2>2, <2>3
  <2>5. ASSUME NEW k \in 1 .. Size, s * Size + k <= Len(File)
        PROVE  buffer'[k] = File[s * Size + k]
    <3>1. k \in 1 .. Len(d) /\ k \in 1 .. Pitch /\ k <= Len(d)
      BY <1>1, <2>1, <2>2, <2>5
    <3> QED BY <2>1, <2>3, <3>1
  <2>6. Shows(buffer, s)'
    BY <2>5 DEF Shows
  <2> QED BY <1>1, <2>1, <2>3, <2>4, <2>6
<1> QED BY <1>3, <1>4

(* The words of a header.                                                  *)
LEMMA HeaderWords ==
  ASSUME NEW x \in Stored
  PROVE  x.encrypted \in Word /\ x.seed \in Word
<1>1. CASE x \in Contents
  BY <1>1 DEF Contents
<1>2. CASE x = Zeros
  <2>1. x.encrypted = 0 /\ x.seed = 0
    BY <1>2 DEF Zeros, Slot
  <2>2. 0 \in Word
    BY SMT DEF Word
  <2> QED BY <2>1, <2>2
<1> QED BY <1>1, <1>2 DEF Stored

(* Sector 14 brings the header into the buffer.                            *)
LEMMA HeaderStep ==
  ASSUME RepackInv, OnFile, BootInv, UNCHANGED <<repack, on>>, rpc = "done", Boot!ReadHeader
  PROVE  BootInv'
<1>1. bpc = "header" /\ UNCHANGED <<sector, offset, listed, File, Size>>
  BY DEF Boot!ReadHeader, repack, output, File, Size
<1>2. BootTypeOK /\ Idle /\ 14 \in Nat
  BY <1>1 DEF BootInv
<1>3. Boot!readSector(14, "start")
  BY DEF Boot!ReadHeader
<1>4. File \in Seq(Stored) /\ Len(File) \in Nat /\ Size \in Nat /\ 0 < Size /\ 14 * Size \in Nat
  <2>1. Size \in Nat /\ 0 < Size
    BY SectorAssumption DEF Size
  <2> QED BY <2>1, FileRead
<1>5. rpc' = "done"
  BY DEF repack, output
<1>6. CASE Len(File) <= 14 * Size
  <2>1. bpc' = "failed" /\ buffer' = buffer
    BY <1>1, <1>2, <1>3, <1>6, SectorFilled
  <2> QED BY <1>1, <1>2, <1>5, <2>1 DEF BootInv, BootTypeOK
<1>7. CASE ~(Len(File) <= 14 * Size)
  <2>1. bpc' = "start" /\ buffer' \in [1 .. Pitch -> Stored] /\ Shows(buffer, 14)'
    BY <1>1, <1>2, <1>3, <1>7, SectorFilled
  <2>2. /\ 1 \in 1 .. Size /\ 14 * Size < Len(File)
        /\ 14 * Size + 1 <= Len(File) /\ 14 * Size + 1 \in 1 .. Len(File)
    BY <1>4, <1>7
  <2>3. buffer'[1] = File[14 * Size + 1]
    BY <1>1, <2>1, <2>2 DEF Shows
  <2>4. File[14 * Size + 1] \in Stored
    BY <1>4, <2>2, ElementOfSeq
  <2>5. Header' = Header
    BY <1>1 DEF Header
  <2> QED BY <1>1, <1>2, <1>5, <2>1, <2>2, <2>3, <2>4, <2>5 DEF BootInv, BootTypeOK, Idle, Header
<1> QED BY <1>6, <1>7

(* The search begins in the sector where the bootloader would.             *)
LEMMA StartStep ==
  ASSUME RepackInv, OnFile, BootInv, UNCHANGED <<repack, on>>, rpc = "done", Boot!ReadStart
  PROVE  BootInv'
<1>1. bpc = "start" /\ UNCHANGED <<offset, listed, File, Size>>
  BY DEF Boot!ReadStart, repack, output, File, Size
<1>2. BootTypeOK /\ buffer[1] = Header /\ Header \in Stored /\ offset = 1 /\ listed = <<>>
  BY <1>1 DEF BootInv
<1>3. sector' = Start /\ Start \in Nat
  <2>1. Header.encrypted \in Word /\ Header.seed \in Word
    BY <1>2, HeaderWords
  <2> QED BY <1>2, <2>1, StartIsBootSector DEF Boot!ReadStart, Start
<1>4. Boot!readSector(Start, "search")
  BY <1>3 DEF Boot!ReadStart
<1>5. rpc' = "done" /\ Start' = Start
  BY <1>1 DEF repack, output, Start, Header
<1>6. CASE Len(File) <= Start * Size
  <2>1. bpc' = "failed" /\ buffer' = buffer
    BY <1>1, <1>2, <1>3, <1>4, <1>6, SectorFilled
  <2> QED BY <1>1, <1>2, <1>5, <2>1 DEF BootInv, BootTypeOK
<1>7. CASE ~(Len(File) <= Start * Size)
  <2>1. bpc' = "search" /\ buffer' \in [1 .. Pitch -> Stored] /\ Shows(buffer, sector)'
    <3>1. PICK s \in Nat : s = Start
      BY <1>3
    <3>2. Boot!readSector(s, "search") /\ ~(Len(File) <= s * Size)
      BY <1>4, <1>7, <3>1
    <3>3. bpc' = "search" /\ buffer' \in [1 .. Pitch -> Stored] /\ Shows(buffer, s)'
      BY <1>1, <1>2, <3>2, SectorFilled
    <3>4. sector' = s
      BY <1>3, <3>1
    <3> QED BY <3>3, <3>4 DEF Shows
  <2>2. Len(File) \in Nat /\ Size \in Nat /\ Start * Size \in Nat /\ Slots \in Nat /\ Start * Slots \in Nat
    BY <1>3, FileRead, SectorAssumption
  <2>3. Searching'
    BY <1>1, <1>2, <1>3, <1>5, <1>7, <2>1, <2>2 DEF Searching, Shows
  <2>4. Start' * Slots + 1 .. sector' * Slots - 1 = {}
    BY <1>3, <1>5, <2>2
  <2>5. Entries(sector)' = {}
    BY <2>4 DEF Entries
  <2>6. InOrder(listed, Entries(sector))'
    BY <1>1, <1>2, <2>5, FS_EmptySet DEF InOrder
  <2> QED BY <1>1, <1>2, <1>5, <2>1, <2>3, <2>4, <2>6 DEF BootInv, BootTypeOK
<1> QED BY <1>6, <1>7

(* What findBootFiles sees in a sector that the file has whole.            *)
LEMMA SectorInView ==
  ASSUME RepackInv, OnFile, BootTypeOK, Searching, sector * Size + Slots <= Len(File)
  PROVE  /\ \A k \in 1 .. Slots : buffer[k] = At(sector * Slots + k - 1)
         /\ \A q \in sector * Slots .. sector * Slots + Slots - 1 :
              /\ At(q) = buffer[q - sector * Slots + 1]
              /\ At(q - (q % Slots)) = buffer[1]
<1>1. /\ Slots \in Nat /\ 0 < Slots /\ Size \in Nat /\ Slots <= Size
      /\ sector \in Nat /\ sector * Slots \in Nat /\ sector * Size \in Nat
      /\ Len(File) \in Nat
  BY FileRead, SectorAssumption DEF Searching
<1>2. \A k \in 1 .. Slots : buffer[k] = File[sector * Size + k]
  BY <1>1 DEF Searching, Shows
<1>3. ASSUME NEW k \in 1 .. Slots PROVE buffer[k] = At(sector * Slots + k - 1)
  <2>1. k - 1 \in 0 .. Slots - 1 /\ sector * Size + (k - 1) + 1 = sector * Size + k
        /\ sector * Slots + (k - 1) = sector * Slots + k - 1
    BY <1>1
  <2>2. At(sector * Slots + (k - 1)) = File[sector * Size + (k - 1) + 1]
    BY <1>1, <2>1, EntryAt
  <2> QED BY <1>2, <2>1, <2>2
<1>4. ASSUME NEW q \in sector * Slots .. sector * Slots + Slots - 1
      PROVE  /\ At(q) = buffer[q - sector * Slots + 1]
             /\ At(q - (q % Slots)) = buffer[1]
  <2>1. PICK j \in 0 .. Slots - 1 : q = sector * Slots + j
    <3>1. q - sector * Slots \in 0 .. Slots - 1 /\ q = sector * Slots + (q - sector * Slots)
      BY <1>1
    <3> QED BY <3>1
  <2>2. /\ At(q) = File[sector * Size + j + 1]
        /\ At(q - (q % Slots)) = File[sector * Size + 1]
    BY <1>1, <2>1, EntryAt
  <2>3. 1 \in 1 .. Slots /\ j + 1 \in 1 .. Slots /\ q - sector * Slots + 1 = j + 1
        /\ sector * Size + (j + 1) = sector * Size + j + 1
    BY <1>1, <2>1
  <2> QED BY <1>2, <2>2, <2>3
<1> QED BY <1>3, <1>4

(* The smallest of the terminators, if there are any.                      *)
LEMMA FirstEnd ==
  ASSUME NEW T \in SUBSET Nat, T # {}
  PROVE  Boot!Min(T) \in T /\ \A k \in T : Boot!Min(T) <= k
<1> DEFINE Less == { ss \in Nat \X Nat : ss[1] < ss[2] }
<1>1. IsWellFoundedOn(Less, Nat)
  BY NatLessThanWellFounded DEF OpToRel
<1>2. PICK k \in T : \A j \in T : ~(<<j, k>> \in Less)
  <2> HIDE DEF Less
  <2> QED BY <1>1, WFMin
<1>3. \A j \in T : k <= j
  <2> SUFFICES ASSUME NEW j \in T PROVE k <= j
    OBVIOUS
  <2>1. ~(j < k)
    BY <1>2
  <2> QED BY <2>1
<1> QED BY <1>3 DEF Boot!Min

(* A sector that the file has whole adds its entries up to the terminator. *)
LEMMA SectorListed ==
  ASSUME RepackInv, OnFile, BootTypeOK, Searching, sector * Size + Slots <= Len(File),
         InOrder(listed, Entries(sector)),
         \A q \in Start * Slots + 1 .. sector * Slots - 1 : ~IsEnd(At(q))
  PROVE  /\ InOrder(listed \o Boot!Found, Entries(sector + 1))
         /\ Boot!Terminators = {} =>
              \A q \in Start * Slots + 1 .. (sector + 1) * Slots - 1 : ~IsEnd(At(q))
         /\ Boot!Terminators # {} =>
              \E q \in Start * Slots + 1 .. sector * Slots + Slots - 1 :
                IsEnd(At(q)) /\ q \div Slots = sector
<1> DEFINE b == sector * Slots
           z == Start * Slots
           T == Boot!Terminators
           e == IF T = {} THEN Slots ELSE Boot!Min(T) - 1
           m == b + offset
           more == Boot!Found
<1>1. /\ Slots \in Nat /\ 0 < Slots /\ Pitch \in Nat /\ Slots < Pitch
      /\ b \in Nat /\ z \in Nat /\ sector \in Nat /\ offset \in {0, 1}
      /\ (sector + 1) * Slots = b + Slots
      /\ IF offset = 1 THEN z = b ELSE z + Slots <= b
  <2>1. Slots \in Nat /\ 0 < Slots /\ Pitch \in Nat /\ Slots < Pitch
    BY SectorAssumption
  <2>2. sector \in Nat /\ Start \in Nat /\ Start <= sector
        /\ offset = IF sector = Start THEN 1 ELSE 0
    BY DEF Searching
  <2>3. sector # Start => z + Slots <= b
    BY <2>1, <2>2, EarlierBlock
  <2> QED BY <2>1, <2>2, <2>3, NextBlock
<1>2. /\ \A k \in 1 .. Slots : buffer[k] = At(b + k - 1)
      /\ \A q \in b .. b + Slots - 1 : At(q - (q % Slots)) = buffer[1]
  BY SectorInView
<1>3. /\ T \in SUBSET (offset + 1 .. Slots)
      /\ \A k \in offset + 1 .. Slots : k \in T <=> IsEnd(At(b + k - 1))
  BY <1>1, <1>2 DEF Boot!Terminators, Boot!IsEnd, IsEnd
<1>4. more = IF IsText(buffer[1]) THEN SubSeq(buffer, offset + 1, e) ELSE <<>>
  BY DEF Boot!Found, Boot!FoundAll, Boot!IsText, IsText
<1> HIDE DEF T, b, z, more
<1>5. /\ e \in offset .. Slots
      /\ \A k \in offset + 1 .. e : k \notin T
      /\ T # {} => e + 1 \in T
  <2>1. CASE T = {}
    BY <1>1, <2>1
  <2>2. CASE T # {}
    <3>1. T \in SUBSET Nat
      BY <1>1, <1>3
    <3>2. Boot!Min(T) \in T /\ \A k \in T : Boot!Min(T) <= k
      BY <2>2, <3>1, FirstEnd
    <3>3. Boot!Min(T) \in offset + 1 .. Slots
      BY <1>3, <3>2
    <3>4. e = Boot!Min(T) - 1
      BY <2>2
    <3>5. ASSUME NEW k \in offset + 1 .. e, k \in T PROVE FALSE
      BY <1>1, <3>2, <3>3, <3>4, <3>5
    <3> QED BY <1>1, <3>2, <3>3, <3>4, <3>5
  <2> QED BY <2>1, <2>2
<1> HIDE DEF e
<1>6. ASSUME NEW q \in z + 1 .. b + Slots - 1, ~(q <= b - 1)
      PROVE  q - b + 1 \in offset + 1 .. Slots /\ q = b + (q - b + 1) - 1
             /\ q \in b .. b + Slots - 1
  BY <1>1, <1>6
<1>7. ASSUME NEW k \in offset + 1 .. Slots
      PROVE  b + k - 1 \in z + 1 .. b + Slots - 1 /\ b + k - 1 \in b .. b + Slots - 1
  BY <1>1, <1>7
<1>8. ASSUME NEW q \in z + 1 .. b - 1 PROVE ~IsEnd(At(q))
  BY <1>8 DEF z, b
<1>9. /\ more \in Seq(Stored)
      /\ Len(more) = IF IsText(buffer[1]) THEN e - offset ELSE 0
      /\ \A k \in 1 .. Len(more) : more[k] = At(m + k - 1)
  <2>1. CASE IsText(buffer[1])
    <3>1. \A k \in offset + 1 .. e : buffer[k] \in Stored
      BY <1>1, <1>5 DEF BootTypeOK
    <3>2. offset + 1 \in Int /\ e \in Int /\ e - (offset + 1) + 1 = e - offset
      BY <1>1, <1>5
    <3>3. /\ more \in Seq(Stored)
          /\ Len(more) = IF offset + 1 <= e THEN e - (offset + 1) + 1 ELSE 0
          /\ \A k \in 1 .. e - (offset + 1) + 1 : more[k] = buffer[offset + 1 + k - 1]
      BY <1>4, <2>1, <3>1, <3>2, SubSeqProperties
    <3>4. Len(more) = e - offset
      BY <1>1, <1>5, <3>2, <3>3
    <3>5. ASSUME NEW k \in 1 .. Len(more) PROVE more[k] = At(m + k - 1)
      <4>1. k \in 1 .. e - (offset + 1) + 1
        BY <3>2, <3>4
      <4>2. offset + 1 + k - 1 \in 1 .. Slots /\ b + (offset + 1 + k - 1) - 1 = m + k - 1
        BY <1>1, <1>5, <4>1
      <4> QED BY <1>2, <3>3, <4>1, <4>2
    <3> QED BY <2>1, <3>3, <3>4, <3>5
  <2>2. CASE ~IsText(buffer[1])
    <3>1. more = <<>>
      BY <1>4, <2>2
    <3> QED BY <2>2, <3>1
  <2> QED BY <2>1, <2>2
<1>10. Entries(sector + 1) = Entries(sector) \cup (m .. m + Len(more) - 1)
  <2>1. /\ Entries(sector + 1) = { q \in z + 1 .. b + Slots - 1 :
                /\ IsText(At(q - (q % Slots)))
                /\ \A p \in z + 1 .. q : ~IsEnd(At(p)) }
        /\ Entries(sector) = { q \in z + 1 .. b - 1 :
                /\ IsText(At(q - (q % Slots)))
                /\ \A p \in z + 1 .. q : ~IsEnd(At(p)) }
    BY <1>1 DEF Entries, z, b
  <2>2. ASSUME NEW q \in Entries(sector + 1)
        PROVE  q \in Entries(sector) \cup (m .. m + Len(more) - 1)
    <3>1. /\ q \in z + 1 .. b + Slots - 1 /\ IsText(At(q - (q % Slots)))
          /\ \A p \in z + 1 .. q : ~IsEnd(At(p))
      BY <2>1
    <3>2. CASE q <= b - 1
      <4>1. q \in z + 1 .. b - 1
        BY <1>1, <3>1, <3>2
      <4> QED BY <2>1, <3>1, <4>1
    <3>3. CASE ~(q <= b - 1)
      <4>1. q - b + 1 \in offset + 1 .. Slots /\ q \in b .. b + Slots - 1
        BY <1>6, <3>1, <3>3
      <4>2. IsText(buffer[1])
        BY <1>2, <3>1, <4>1
      <4>3. q - b + 1 <= e
        <5>1. CASE T = {}
          BY <1>1, <4>1, <5>1 DEF e
        <5>2. CASE T # {}
          <6>1. e + 1 \in T /\ e + 1 \in offset + 1 .. Slots
            BY <1>3, <1>5, <5>2
          <6>2. IsEnd(At(b + (e + 1) - 1)) /\ b + (e + 1) - 1 \in z + 1 .. b + Slots - 1
            BY <1>3, <1>7, <6>1
          <6>3. ~(b + (e + 1) - 1 \in z + 1 .. q)
            BY <3>1, <6>2
          <6> QED BY <1>1, <1>5, <3>1, <6>2, <6>3
        <5> QED BY <5>1, <5>2
      <4>4. m + Len(more) - 1 = b + e - 1
        BY <1>1, <1>5, <1>9, <4>2
      <4>5. q \in m .. b + e - 1
        BY <1>1, <1>5, <3>1, <4>1, <4>3
      <4> QED BY <4>4, <4>5
    <3> QED BY <3>2, <3>3
  <2>3. ASSUME NEW q \in Entries(sector) PROVE q \in Entries(sector + 1)
    <3>1. q \in z + 1 .. b - 1
      BY <2>1
    <3>2. q \in z + 1 .. b + Slots - 1
      BY <1>1, <3>1
    <3> QED BY <2>1, <3>2
  <2>4. ASSUME NEW q \in m .. m + Len(more) - 1 PROVE q \in Entries(sector + 1)
    <3>1. IsText(buffer[1]) /\ Len(more) = e - offset
      <4>1. Len(more) # 0
        BY <1>1
      <4> QED BY <1>9, <4>1
    <3>2. q \in m .. b + e - 1
      BY <1>1, <1>5, <3>1
    <3>3. q - b + 1 \in offset + 1 .. e /\ q - b + 1 \in offset + 1 .. Slots
          /\ q = b + (q - b + 1) - 1
      BY <1>1, <1>5, <3>2
    <3>4. q \in z + 1 .. b + Slots - 1 /\ q \in b .. b + Slots - 1
      BY <1>7, <3>3
    <3>5. IsText(At(q - (q % Slots)))
      BY <1>2, <3>1, <3>4
    <3>6. ASSUME NEW p \in z + 1 .. q PROVE ~IsEnd(At(p))
      <4>1. CASE p <= b - 1
        <5>1. p \in z + 1 .. b - 1
          BY <1>1, <3>4, <4>1
        <5> QED BY <1>8, <5>1
      <4>2. CASE ~(p <= b - 1)
        <5>1. p \in z + 1 .. b + Slots - 1
          BY <1>1, <3>4
        <5>2. p - b + 1 \in offset + 1 .. Slots /\ p = b + (p - b + 1) - 1
          BY <1>6, <4>2, <5>1
        <5>3. p - b + 1 \in offset + 1 .. e
          BY <1>1, <1>5, <3>2, <5>2
        <5> QED BY <1>3, <1>5, <5>2, <5>3
      <4> QED BY <4>1, <4>2
    <3> QED BY <2>1, <3>4, <3>5, <3>6
  <2> QED BY <2>2, <2>3, <2>4
<1>11. InOrder(listed \o more, Entries(sector + 1))
  <2>1. Entries(sector) \in SUBSET (0 .. m - 1)
    <3>1. ASSUME NEW q \in Entries(sector) PROVE q \in 0 .. m - 1
      <4>1. q \in z + 1 .. b - 1
        BY DEF Entries, z, b
      <4> QED BY <1>1, <4>1
    <3> QED BY <3>1
  <2>2. m \in Nat /\ listed \in Seq(Stored)
    BY <1>1 DEF BootTypeOK
  <2> HIDE DEF m
  <2> QED BY <1>9, <1>10, <2>1, <2>2, InOrderGrows
<1>12. ASSUME T = {}, NEW q \in z + 1 .. (sector + 1) * Slots - 1
       PROVE  ~IsEnd(At(q))
  <2>1. q \in z + 1 .. b + Slots - 1
    BY <1>1
  <2>2. CASE q <= b - 1
    <3>1. q \in z + 1 .. b - 1
      BY <1>1, <2>1, <2>2
    <3> QED BY <1>8, <3>1
  <2>3. CASE ~(q <= b - 1)
    BY <1>3, <1>6, <1>12, <2>1, <2>3
  <2> QED BY <2>2, <2>3
<1>13. ASSUME T # {}
       PROVE  \E q \in z + 1 .. b + Slots - 1 : IsEnd(At(q)) /\ q \div Slots = sector
  <2>1. e + 1 \in offset + 1 .. Slots /\ IsEnd(At(b + (e + 1) - 1))
    BY <1>3, <1>5, <1>13
  <2>2. b + (e + 1) - 1 \in z + 1 .. b + Slots - 1
    BY <1>7, <2>1
  <2>3. e \in 0 .. Slots - 1 /\ b + (e + 1) - 1 = b + e
    BY <1>1, <1>5, <2>1
  <2>4. (b + e) \div Slots = sector
    BY <1>1, <2>3, SectorOfPosition DEF b
  <2> QED BY <2>1, <2>2, <2>3, <2>4
<1> QED BY <1>11, <1>12, <1>13 DEF T, b, z, more

(* A round of the search: it ends at a terminator, or goes on behind a     *)
(* sector without one.  Behind one cut short there is nothing to read.     *)
LEMMA SearchStep ==
  ASSUME RepackInv, OnFile, BootInv, UNCHANGED <<repack, on>>, rpc = "done", Boot!Search
  PROVE  BootInv'
<1> DEFINE T == Boot!Terminators
           whole == sector * Size + Slots <= Len(File)
<1>1. /\ bpc = "search" /\ listed' = listed \o Boot!Found
      /\ IF T # {} THEN bpc' = "done" /\ UNCHANGED <<sector, buffer, offset>>
         ELSE sector' = sector + 1 /\ offset' = 0 /\ Boot!readSector(sector + 1, "search")
  BY DEF Boot!Search
<1>2. /\ BootTypeOK /\ Searching /\ InOrder(listed, Entries(sector))
      /\ \A q \in Start * Slots + 1 .. sector * Slots - 1 : ~IsEnd(At(q))
  BY <1>1 DEF BootInv
<1>3. UNCHANGED <<File, Size, Start>> /\ rpc' = "done"
  BY DEF repack, output, File, Size, Start, Header
<1>4. /\ \A q : At(q)' = At(q)
      /\ \A r : Entries(r)' = Entries(r)
      /\ \A L : InOrder(listed, L)' <=> InOrder(listed', L)
  BY <1>3 DEF At, Entries, InOrder
<1>5. /\ Slots \in Nat /\ 0 < Slots /\ Size \in Nat /\ Slots <= Size /\ Len(File) \in Nat
      /\ sector \in Nat /\ sector * Size \in Nat /\ sector * Size < Len(File)
      /\ Start \in Nat /\ Start <= sector
      /\ (sector + 1) * Size = sector * Size + Size
  BY <1>2, FileRead, SectorAssumption, NextBlock DEF Searching
<1>6. whole =>
        /\ InOrder(listed', Entries(sector + 1))
        /\ T = {} => \A q \in Start * Slots + 1 .. (sector + 1) * Slots - 1 : ~IsEnd(At(q))
        /\ T # {} => \E q \in Start * Slots + 1 .. sector * Slots + Slots - 1 :
                       IsEnd(At(q)) /\ q \div Slots = sector
  BY <1>1, <1>2, SectorListed
<1>7. listed' \in Seq(Stored)
  <2> DEFINE e == IF T = {} THEN Slots ELSE Boot!Min(T) - 1
  <2>1. offset \in {0, 1} /\ T \in SUBSET (offset + 1 .. Slots) /\ T \in SUBSET Nat
    BY <1>2, <1>5 DEF Searching, Boot!Terminators
  <2>2. Boot!FoundAll = SubSeq(buffer, offset + 1, e)
    BY DEF Boot!FoundAll
  <2> HIDE DEF T
  <2>3. e \in Int /\ e <= Slots
    <3>1. T # {} => Boot!Min(T) \in offset + 1 .. Slots
      BY <2>1, FirstEnd
    <3> QED BY <1>5, <2>1, <3>1
  <2> HIDE DEF e
  <2>4. ASSUME NEW k \in offset + 1 .. e PROVE buffer[k] \in Stored
    <3>1. k \in 1 .. Pitch
      BY <1>5, <2>1, <2>3, SectorAssumption
    <3> QED BY <1>2, <3>1 DEF BootTypeOK
  <2>5. Boot!FoundAll \in Seq(Stored)
    <3>1. offset + 1 \in Int
      BY <2>1
    <3> QED BY <2>2, <2>3, <2>4, <3>1, SubSeqProperties
  <2>6. Boot!Found \in Seq(Stored)
    <3>1. <<>> \in Seq(Stored)
      BY EmptySeq
    <3> QED BY <2>5, <3>1 DEF Boot!Found
  <2> QED BY <1>1, <1>2, <2>6, ConcatProperties DEF BootTypeOK
<1> HIDE DEF T
<1>8. CASE T # {}
  <2>1. bpc' = "done" /\ UNCHANGED <<sector, buffer, offset>>
    BY <1>1, <1>8
  <2>2. BootTypeOK' /\ Searching'
    BY <1>2, <1>3, <1>7, <2>1 DEF BootTypeOK, Searching, Shows
  <2>3. whole' <=> whole
    BY <1>3, <2>1
  <2>4. ASSUME whole
        PROVE  /\ InOrder(listed, Entries(sector + 1))'
               /\ (\E q \in Start * Slots + 1 .. sector * Slots + Slots - 1 :
                     IsEnd(At(q)) /\ q \div Slots = sector)'
    BY <1>3, <1>4, <1>6, <1>8, <2>1, <2>4 DEF Entries, InOrder
  <2> QED BY <1>3, <2>1, <2>2, <2>3, <2>4 DEF BootInv
<1>9. CASE T = {} /\ Len(File) <= (sector + 1) * Size
  <2>1. PICK s \in Nat : s = sector + 1
    BY <1>5
  <2>2. bpc' = "failed" /\ buffer' = buffer
    BY <1>1, <1>2, <1>3, <1>9, <2>1, SectorFilled
  <2> QED BY <1>2, <1>3, <1>7, <2>2 DEF BootInv, BootTypeOK
<1>10. CASE T = {} /\ ~(Len(File) <= (sector + 1) * Size)
  <2>1. PICK s \in Nat : s = sector + 1
    BY <1>5
  <2>2. bpc' = "search" /\ buffer' \in [1 .. Pitch -> Stored] /\ Shows(buffer, s)'
    BY <1>1, <1>2, <1>3, <1>10, <2>1, SectorFilled
  <2>3. sector' = s /\ offset' = 0 /\ s \in Nat /\ Start <= s /\ s # Start
    BY <1>1, <1>5, <1>10, <2>1
  <2>4. s * Size < Len(File)
    BY <1>5, <1>10, <2>1
  <2>5. Searching'
    BY <1>3, <1>5, <2>2, <2>3, <2>4 DEF Searching, Shows
  <2>6. whole
    BY <1>5, <1>10
  <2>7. /\ InOrder(listed', Entries(s))
        /\ \A q \in Start * Slots + 1 .. s * Slots - 1 : ~IsEnd(At(q))
    BY <1>6, <1>10, <2>1, <2>6
  <2>8. /\ InOrder(listed, Entries(sector))'
        /\ (\A q \in Start * Slots + 1 .. sector * Slots - 1 : ~IsEnd(At(q)))'
    BY <1>3, <1>4, <2>3, <2>7 DEF Entries, InOrder
  <2> QED BY <1>3, <1>7, <2>2, <2>5, <2>8 DEF BootInv, BootTypeOK
<1> QED BY <1>8, <1>9, <1>10

(* Idle, centboot satisfies it on any file.                                *)
LEMMA IdleBoot == BootTypeOK /\ Idle => BootInv
BY DEF Idle, BootInv

(* Only what the search is about can disturb it.                           *)
LEMMA BootUnmoved ==
  ASSUME BootInv, UNCHANGED <<dump, image, rpc, on, bpc, sector, buffer, offset, listed>>
  PROVE  BootInv'
<1>1. UNCHANGED <<File, Size, Start, Header>>
  BY DEF File, Size, Start, Header
<1>2. BootTypeOK' /\ (rpc = "copy" => Idle)' /\ (bpc = "header" => Idle)'
  BY DEF BootInv, BootTypeOK, Idle
<1>3. /\ Searching' <=> Searching
      /\ \A r : Entries(r)' = Entries(r)
      /\ \A q : At(q)' = At(q)
      /\ \A L : InOrder(listed, L)' <=> InOrder(listed, L)
  BY <1>1 DEF Searching, Shows, Entries, At, InOrder
<1> QED BY <1>1, <1>2, <1>3 DEF BootInv, Entries, InOrder

LEMMA BootSteps == RepackInv /\ ChainInv /\ BootInv /\ [Next]_vars => BootInv'
<1> SUFFICES ASSUME RepackInv, ChainInv, BootInv, [Next]_vars PROVE BootInv'
  OBVIOUS
<1>0. OnFile
  BY DEF ChainInv
<1>1. CASE Copy
  <2>1. UNCHANGED <<bpc, sector, buffer, offset, listed>> /\ rpc = "copy"
    BY <1>1 DEF Copy, RepackStep, RepackEnds, CopyBlock, tools, boot
  <2>2. (BootTypeOK /\ Idle)'
    BY <2>1 DEF BootInv, BootTypeOK, Idle
  <2>3. (BootTypeOK /\ Idle => BootInv)'
    BY IdleBoot, PTL
  <2> QED BY <2>2, <2>3
<1>2. CASE List
  <2>1. UNCHANGED <<repack, on>> /\ rpc = "done"
    BY <1>2 DEF List
  <2>2. CASE Boot!BootStep
    BY <1>0, <2>1, <2>2, HeaderStep, StartStep, SearchStep DEF Boot!BootStep
  <2>3. CASE UNCHANGED boot
    BY <2>1, <2>3, BootUnmoved DEF boot, repack, output
  <2> QED BY <1>2, <2>2, <2>3 DEF List
<1>3. CASE NextFile /\ on = "dump"
  <2>1. Zeros \in Stored
    BY DEF Stored
  <2>2. (BootTypeOK /\ Idle)'
    <3>1. listed' = <<>> /\ <<>> \in Seq(Stored)
      BY <1>3, EmptySeq DEF NextFile, Restart
    <3> QED BY <1>3, <2>1, <3>1 DEF NextFile, Restart, BootTypeOK, Idle
  <2>3. (BootTypeOK /\ Idle => BootInv)'
    BY IdleBoot, PTL
  <2> QED BY <2>2, <2>3
<1>4. CASE (NextFile /\ on # "dump") \/ UNCHANGED vars
  <2>1. UNCHANGED <<dump, image, rpc, on, bpc, sector, buffer, offset, listed>>
    BY <1>4 DEF NextFile, vars, repack, output, tools, boot
  <2> QED BY <2>1, BootUnmoved
<1> QED BY <1>1, <1>2, <1>3, <1>4 DEF Next

(* Nothing read yet.                                                       *)
LEMMA BootStarts == Init => BootInv
<1> SUFFICES ASSUME Init PROVE BootInv
  OBVIOUS
<1>1. Boot!Zeros = Zeros /\ Zeros \in Stored
  BY DEF Stored, Zeros, Slot, Boot!Zeros, Boot!Slot
<1>2. Idle /\ buffer = [k \in 1 .. Pitch |-> Boot!Zeros]
  BY DEF Init, Boot!BootInit, Idle
<1>3. <<>> \in Seq(Stored)
  BY EmptySeq
<1>4. BootTypeOK
  BY <1>1, <1>2, <1>3 DEF BootTypeOK, Idle
<1> QED BY <1>2, <1>4, IdleBoot

(* centboot on a dump or on its image, for every header: it searches where *)
(* the bootloader's own code would, and what it has listed are the entries *)
(* behind the volume's up to the terminator, each once, in the order of    *)
(* the file; it ends well at a terminator only.                            *)
THEOREM BootDirectoryCorrect == Spec => []ListsBootDirectory
<1>1. RepackInv /\ ChainInv /\ BootInv => ListsBootDirectory
  <2> SUFFICES ASSUME RepackInv, ChainInv, BootInv,
                      bpc \in {"search", "done"}, sector * Size + Slots <= Len(File)
               PROVE  /\ InOrder(listed, Listed)
                      /\ bpc = "done" => \E q \in Start * Slots + 1 .. sector * Slots + Slots - 1 :
                                           IsEnd(At(q)) /\ q \div Slots = sector
    BY DEF ListsBootDirectory, InOrder
  <2>1. sector \in Nat /\ Slots \in Nat
    BY SectorAssumption DEF BootInv, Searching
  <2>2. \A r \in Int : (r + 1) * Slots - 1 = r * Slots + Slots - 1
    BY <2>1, NextBlock
  <2>3. CASE bpc = "done"
    <3>1. Listed = Entries(sector + 1)
      BY <2>1, <2>2, <2>3 DEF Listed, Entries, Reached
    <3> QED BY <2>3, <3>1 DEF BootInv
  <2>4. CASE bpc = "search"
    <3>1. sector - 1 \in Int /\ (sector - 1) + 1 = sector
      BY <2>1
    <3>2. (sector - 1) * Slots + Slots - 1 = sector * Slots - 1
      BY <2>2, <3>1
    <3>3. Listed = Entries(sector)
      BY <2>4, <3>2 DEF Listed, Entries, Reached
    <3> QED BY <2>4, <3>3 DEF BootInv
  <2> QED BY <2>3, <2>4
<1>2. Init => ChainInv /\ BootInv
  BY ChainStarts, BootStarts
<1> QED BY <1>1, <1>2, RepackStarts, RepackSteps, ChainSteps, BootSteps, PTL DEF Spec

(***************************************************************************)
(* The same tool on the dump and on its image.                             *)
(***************************************************************************)
(* A sector of the dump as the tools see it: its slots without the padding. *)
InDump(s) == s * Pitch < Len(dump)
Native(s) == [k \in 1 .. Slots |-> dump[s * Pitch + k]]

(* A dump whose last sector is whole has every sector whole.                *)
LEMMA SectorsWhole ==
  ASSUME RepackInv, WholeDump, NEW s \in Nat, InDump(s)
  PROVE  s * Pitch + Slots <= Len(dump)
<1>1. /\ Slots \in Nat /\ 0 < Slots /\ Pitch \in Nat /\ Slots < Pitch /\ Len(dump) \in Nat
      /\ s * Pitch \in Nat /\ s * Pitch < Len(dump)
  BY SectorAssumption, LenProperties DEF RepackInv, InDump
<1>2. PICK a \in Nat, r \in 0 .. Pitch - 1 : Len(dump) = a * Pitch + r /\ (r = 0 \/ r >= Slots)
  <2>1. /\ Len(dump) \div Pitch \in Nat /\ Len(dump) % Pitch \in 0 .. Pitch - 1
        /\ Len(dump) = (Len(dump) \div Pitch) * Pitch + (Len(dump) % Pitch)
    BY <1>1
  <2> QED BY <2>1 DEF WholeDump
<1>3. a * Pitch \in Nat
  BY <1>1
<1>4. CASE s < a
  <2>1. s * Pitch + Pitch <= a * Pitch
    BY <1>1, <1>4, EarlierBlock
  <2> QED BY <1>1, <1>2, <1>3, <2>1
<1>5. CASE s = a
  BY <1>1, <1>2, <1>3, <1>5
<1>6. CASE a < s
  <2>1. a * Pitch + Pitch <= s * Pitch
    BY <1>1, <1>6, EarlierBlock
  <2> QED BY <1>1, <1>2, <1>3, <2>1
<1> QED BY <1>4, <1>5, <1>6

(* What fread finds of a sector, on either file: the slots of the dump's   *)
(* sector, or nothing where the dump ends or the copy ended early.         *)
LEMMA SectorAlike ==
  ASSUME RepackInv, OnFile, WholeDump, refused = 0, NEW s \in Nat
  PROVE  LET d == Block(File, Size, s)
         IN  /\ d = <<>> => ~InDump(s) \/ (on = "image" /\ ~Copied)
             /\ d # <<>> => /\ InDump(s) /\ Len(d) \in Nat /\ Slots <= Len(d)
                            /\ \A k \in 1 .. Slots : d[k] = Native(s)[k]
<1> DEFINE d == Block(File, Size, s)
<1>1. /\ File \in Seq(Stored) /\ Len(File) \in Nat /\ Len(dump) \in Nat
      /\ Size \in Nat /\ 0 < Size /\ Slots \in Nat /\ 0 < Slots /\ Slots <= Size
      /\ Pitch \in Nat /\ Slots < Pitch /\ i \in Nat
      /\ s * Pitch \in Nat /\ s * Slots \in Nat /\ i * Pitch \in Nat /\ i * Slots \in Nat
  <2>1. Size \in Nat /\ 0 < Size /\ Slots \in Nat /\ 0 < Slots /\ Pitch \in Nat /\ Slots < Pitch
    BY SectorAssumption DEF Size
  <2>2. i \in Nat
    BY DEF RepackInv
  <2> QED BY <2>1, <2>2, FileRead
<1>2. on # "dump" => on = "image" /\ File = image /\ Size = Slots /\ Len(image) = i * Slots
  BY DEF RepackInv, OnFile, File, Size
<1>3. on = "dump" => File = dump /\ Size = Pitch
  BY DEF File, Size
<1>4. CASE d = <<>>
  <2>1. Len(File) <= s * Size
    BY <1>1, <1>4, BlockInside
  <2>2. CASE on = "dump"
    BY <1>1, <1>3, <1>4, <2>1, <2>2 DEF InDump
  <2>3. CASE on # "dump" /\ Copied
    <3>1. i * Slots <= s * Slots
      BY <1>2, <2>1, <2>3
    <3>2. i <= s
      <4>1. CASE s < i
        <5>1. s * Slots + Slots <= i * Slots
          BY <1>1, <4>1, EarlierBlock
        <5> QED BY <1>1, <3>1, <5>1
      <4> QED BY <1>1, <4>1
    <3>3. i * Pitch <= s * Pitch
      <4>1. CASE i < s
        <5>1. i * Pitch + Pitch <= s * Pitch
          BY <1>1, <4>1, EarlierBlock
        <5> QED BY <1>1, <5>1
      <4>2. CASE i = s
        BY <1>1, <4>2
      <4> QED BY <1>1, <3>2, <4>1, <4>2
    <3>4. Len(dump) <= i * Pitch
      BY <1>1, <2>3 DEF Copied
    <3> QED BY <1>1, <1>4, <3>3, <3>4 DEF InDump
  <2> QED BY <1>2, <1>4, <2>2, <2>3
<1>5. CASE d # <<>>
  <2>1. /\ s * Size < Len(File) /\ d \in Seq(Stored)
        /\ \A k \in 1 .. Size : k <= Len(d) <=> s * Size + k <= Len(File)
        /\ \A k \in 1 .. Len(d) : d[k] = File[s * Size + k]
    BY <1>1, <1>5, BlockContents
  <2>2. Len(d) \in Nat
    BY <2>1, LenProperties
  <2>3. InDump(s) /\ s * Size + Slots <= Len(File)
    <3>1. CASE on = "dump"
      <4>1. InDump(s)
        BY <1>3, <2>1, <3>1 DEF InDump
      <4> QED BY <1>3, <3>1, <4>1, SectorsWhole
    <3>2. CASE on # "dump"
      <4>1. s * Slots < i * Slots
        BY <1>2, <2>1, <3>2
      <4>2. s < i
        <5>1. CASE i < s
          <6>1. i * Slots + Slots <= s * Slots
            BY <1>1, <5>1, EarlierBlock
          <6> QED BY <1>1, <4>1, <6>1
        <5>2. CASE i = s
          BY <1>1, <4>1, <5>2
        <5> QED BY <1>1, <5>1, <5>2
      <4>3. s * Slots + Slots <= i * Slots
        BY <1>1, <4>2, EarlierBlock
      <4>4. i - 1 \in Nat /\ (s = i - 1 \/ s < i - 1) /\ i > 0
        BY <1>1, <4>2
      <4>5. (i - 1) * Pitch < Len(dump) /\ (i - 1) * Pitch \in Nat
        BY <1>1, <4>4 DEF RepackInv
      <4>6. s * Pitch <= (i - 1) * Pitch
        <5>1. CASE s < i - 1
          <6>1. s * Pitch + Pitch <= (i - 1) * Pitch
            BY <1>1, <4>4, <5>1, EarlierBlock
          <6> QED BY <1>1, <4>5, <6>1
        <5>2. CASE s = i - 1
          BY <4>5, <5>2
        <5> QED BY <4>4, <5>1, <5>2
      <4>7. InDump(s)
        BY <1>1, <4>5, <4>6 DEF InDump
      <4> QED BY <1>2, <3>2, <4>3, <4>7
    <3> QED BY <3>1, <3>2
  <2>4. Slots <= Len(d)
    <3>1. Slots \in 1 .. Size
      BY <1>1
    <3> QED BY <2>1, <2>3, <3>1
  <2>5. ASSUME NEW k \in 1 .. Slots PROVE d[k] = Native(s)[k]
    <3>1. k \in 1 .. Len(d)
      BY <1>1, <2>2, <2>4
    <3>2. d[k] = File[s * Size + k]
      BY <2>1, <3>1
    <3>3. CASE on = "dump"
      BY <1>3, <3>2, <3>3 DEF Native
    <3>4. CASE on # "dump"
      <4>1. s \in 0 .. i - 1
        <5>1. s * Slots < i * Slots
          BY <1>2, <2>1, <3>4
        <5>2. ~(i <= s)
          <6> SUFFICES ASSUME i <= s PROVE FALSE
            OBVIOUS
          <6>1. CASE i < s
            <7>1. i * Slots + Slots <= s * Slots
              BY <1>1, <6>1, EarlierBlock
            <7> QED BY <1>1, <5>1, <7>1
          <6>2. CASE i = s
            BY <1>1, <5>1, <6>2
          <6> QED BY <1>1, <6>1, <6>2
        <5> QED BY <1>1, <5>2
      <4>2. InPlace(s)
        BY <4>1 DEF RepackInv
      <4>4. image[s * Slots + k] = Holds(s, k)
        BY <4>2 DEF InPlace
      <4>5. s * Pitch + k <= Len(dump)
        <5>1. s * Pitch + Slots <= Len(dump)
          BY <2>3, SectorsWhole
        <5> QED BY <1>1, <5>1
      <4>6. Holds(s, k) = dump[s * Pitch + k]
        BY <4>5 DEF Holds
      <4> QED BY <1>2, <3>2, <3>4, <4>4, <4>6 DEF Native
    <3> QED BY <3>3, <3>4
  <2> QED BY <1>5, <2>2, <2>3, <2>4, <2>5
<1> QED BY <1>4, <1>5

(* A tool as it goes along whole sectors of the dump, those that are no    *)
(* more ending it: the state without the buffer, and a step of it.         *)
NamesIn(s, o) ==
  LET ends == { k \in o + 1 .. Slots : IsEnd(Native(s)[k]) }
  IN IF IsText(Native(s)[1])
     THEN SubSeq(Native(s), o + 1, IF ends = {} THEN Slots ELSE Boot!Min(ends) - 1)
     ELSE <<>>
EndIn(s, o) == \E k \in o + 1 .. Slots : IsEnd(Native(s)[k])

Fetched(s, then) == IF InDump(s) THEN then ELSE "failed"

StartInDump ==
  Boot!calc_boot_dir_start(Native(14)[1].encrypted, Boot!make_key(Native(14)[1].seed))

BootMove(x) ==
  IF x[1] = "header" THEN <<Fetched(14, "start"), x[2], x[3], x[4]>>
  ELSE IF x[1] = "start" THEN <<Fetched(StartInDump, "search"), StartInDump, x[3], x[4]>>
  ELSE IF EndIn(x[2], x[3]) THEN <<"done", x[2], x[3], x[4] \o NamesIn(x[2], x[3])>>
  ELSE <<Fetched(x[2] + 1, "search"), x[2] + 1, 0, x[4] \o NamesIn(x[2], x[3])>>

LsMove(x) ==
  LET dirent == Native(x[2])[LinkSlot]
  IN IF InDump(x[2])
     THEN <<IF dirent.link \in Ls!LastArchives THEN "done" ELSE "walk", dirent.link,
            (x[3] + 1) % CountModulus, x[4] \cup {<<x[2], dirent.name>>}>>
     ELSE <<"failed", x[2], x[3], x[4]>>

BootNow   == <<bpc, sector, offset, listed>>
Now       == IF tool = "centboot" THEN BootNow ELSE ls
Move(x)   == IF tool = "centboot" THEN BootMove(x) ELSE LsMove(x)
Begin     == IF tool = "centboot" THEN <<"header", 0, 1, <<>>>> ELSE <<"walk", first, 0, {}>>
Ended(x)  == x[1] \in {"done", "failed"}
Result(x) == IF tool = "centboot" THEN <<x[1], x[4]>> ELSE <<x[1], x[3], x[4]>>
CutOff    == on = "image" /\ ~Copied

(* The states of a tool have no bound, and its steps are not counted: from *)
(* x it comes to f if f is in each set that has x and the steps from it.   *)
Closed(T)     == \A z \in T : ~Ended(z) => Move(z) \in T
Reaches(x, f) == \A T : x \in T /\ Closed(T) => f \in T

(* What has been read of a sector, in the slots that a sector has.         *)
LEMMA SectorRead ==
  ASSUME RepackInv, OnFile, BootTypeOK, WholeDump, refused = 0,
         NEW s \in Nat, s * Size < Len(File), Shows(buffer, s)
  PROVE  InDump(s) /\ \A k \in 1 .. Slots : buffer[k] = Native(s)[k] /\ buffer[k] \in Stored
<1> DEFINE d == Block(File, Size, s)
<1>1. /\ File \in Seq(Stored) /\ Len(File) \in Nat
      /\ Size \in Nat /\ 0 < Size /\ Slots \in Nat /\ 0 < Slots /\ Slots <= Size
      /\ Pitch \in Nat /\ Slots < Pitch /\ s * Size \in Nat
  <2>1. Size \in Nat /\ 0 < Size /\ Slots \in Nat /\ 0 < Slots /\ Pitch \in Nat /\ Slots < Pitch
    BY SectorAssumption DEF Size
  <2> QED BY <2>1, FileRead
<1>2. d # <<>>
  <2>1. SUFFICES ASSUME d = <<>> PROVE FALSE
    OBVIOUS
  <2>2. Len(File) <= s * Size
    BY <1>1, <2>1, BlockInside
  <2> QED BY <1>1, <2>2
<1>3. /\ InDump(s) /\ Len(d) \in Nat /\ Slots <= Len(d)
      /\ \A k \in 1 .. Slots : d[k] = Native(s)[k]
  BY <1>2, SectorAlike
<1>4. /\ \A k \in 1 .. Size : k <= Len(d) <=> s * Size + k <= Len(File)
      /\ \A k \in 1 .. Len(d) : d[k] = File[s * Size + k]
  BY <1>1, <1>2, BlockContents
<1> HIDE DEF d
<1>5. ASSUME NEW k \in 1 .. Slots PROVE buffer[k] = Native(s)[k] /\ buffer[k] \in Stored
  <2>1. k \in 1 .. Size /\ k \in 1 .. Len(d) /\ k <= Len(d) /\ k \in 1 .. Pitch
    BY <1>1, <1>3
  <2>2. buffer[k] = File[s * Size + k]
    BY <1>4, <2>1 DEF Shows
  <2>3. buffer[k] = Native(s)[k]
    BY <1>3, <1>4, <2>1, <2>2
  <2> QED BY <2>1, <2>3 DEF BootTypeOK
<1> QED BY <1>3, <1>5

(* What readSector comes to.                                               *)
LEMMA ReadAlike ==
  ASSUME RepackInv, OnFile, WholeDump, refused = 0, NEW s \in Nat, NEW then,
         Boot!readSector(s, then)
  PROVE  bpc' = Fetched(s, then) \/ (CutOff /\ bpc' = "failed")
<1> DEFINE d == Block(File, Size, s)
<1>1. bpc' = IF d = <<>> THEN "failed" ELSE then
  BY DEF Boot!readSector, Boot!Block, Block, Boot!Min, Min
<1>2. (d = <<>> => ~InDump(s) \/ CutOff) /\ (d # <<>> => InDump(s))
  BY SectorAlike DEF CutOff
<1> HIDE DEF d
<1> QED BY <1>1, <1>2 DEF Fetched

(* The entries of two sectors that begin with the same slots.              *)
LEMMA EntriesAlike ==
  ASSUME NEW s, offset \in {0, 1}, Slots \in Nat,
         \A k \in 1 .. Slots : buffer[k] = Native(s)[k] /\ buffer[k] \in Stored,
         0 < Slots
  PROVE  /\ Boot!Terminators # {} <=> EndIn(s, offset)
         /\ Boot!Found = NamesIn(s, offset)
<1> DEFINE T == Boot!Terminators
           e == IF T = {} THEN Slots ELSE Boot!Min(T) - 1
<1>1. T = { k \in offset + 1 .. Slots : IsEnd(Native(s)[k]) }
  <2>1. \A k \in offset + 1 .. Slots : k \in 1 .. Slots
    OBVIOUS
  <2>2. \A k \in offset + 1 .. Slots : Boot!IsEnd(buffer[k]) <=> IsEnd(Native(s)[k])
    BY <2>1 DEF Boot!IsEnd, IsEnd
  <2> QED BY <2>2 DEF Boot!Terminators
<1>2. T # {} <=> EndIn(s, offset)
  BY <1>1 DEF EndIn
<1>3. Boot!IsText(buffer[1]) <=> IsText(Native(s)[1])
  <2>1. 1 \in 1 .. Slots
    OBVIOUS
  <2> QED BY <2>1 DEF Boot!IsText, IsText
<1>4. T \in SUBSET (offset + 1 .. Slots) /\ T \in SUBSET Nat
  BY <1>1
<1>5. /\ Boot!Found = IF IsText(Native(s)[1]) THEN SubSeq(buffer, offset + 1, e) ELSE <<>>
      /\ NamesIn(s, offset) = IF IsText(Native(s)[1]) THEN SubSeq(Native(s), offset + 1, e) ELSE <<>>
  BY <1>1, <1>3 DEF Boot!Found, Boot!FoundAll, NamesIn
<1> HIDE DEF T
<1>6. e \in Int /\ e <= Slots
  <2>1. T # {} => Boot!Min(T) \in offset + 1 .. Slots
    BY <1>4, FirstEnd
  <2> QED BY <1>4, <2>1
<1> HIDE DEF e
<1>7. SubSeq(buffer, offset + 1, e) = SubSeq(Native(s), offset + 1, e)
  <2> DEFINE a == SubSeq(buffer, offset + 1, e)
             b == SubSeq(Native(s), offset + 1, e)
  <2>1. PICK m \in Int : m = offset + 1 /\ m >= 1
    OBVIOUS
  <2>2. \A k \in m .. e : k \in 1 .. Slots
    BY <1>6, <2>1
  <2>3. \A k \in m .. e : buffer[k] \in Stored /\ Native(s)[k] = buffer[k]
    BY <2>2
  <2>4. /\ SubSeq(buffer, m, e) \in Seq(Stored)
        /\ Len(SubSeq(buffer, m, e)) = IF m <= e THEN e - m + 1 ELSE 0
        /\ \A k \in 1 .. e - m + 1 : SubSeq(buffer, m, e)[k] = buffer[m + k - 1]
    BY <1>6, <2>3, SubSeqProperties
  <2>5. /\ SubSeq(Native(s), m, e) \in Seq(Stored)
        /\ Len(SubSeq(Native(s), m, e)) = IF m <= e THEN e - m + 1 ELSE 0
        /\ \A k \in 1 .. e - m + 1 : SubSeq(Native(s), m, e)[k] = Native(s)[m + k - 1]
    BY <1>6, <2>3, SubSeqProperties
  <2>6. a \in Seq(Stored) /\ b \in Seq(Stored) /\ Len(a) = Len(b)
    BY <2>1, <2>4, <2>5
  <2>7. ASSUME NEW k \in 1 .. Len(a) PROVE a[k] = b[k]
    <3>1. k \in 1 .. e - m + 1
      BY <1>6, <2>1, <2>4
    <3>2. m + k - 1 \in m .. e
      BY <1>6, <3>1
    <3> QED BY <2>1, <2>3, <2>4, <2>5, <3>1, <3>2
  <2> HIDE DEF a, b
  <2>8. a = b
    BY <2>6, <2>7, SeqEqual
  <2> QED BY <2>8 DEF a, b
<1>8. Boot!Found = NamesIn(s, offset)
  BY <1>5, <1>7, Zenon
<1> QED BY <1>2, <1>8 DEF T

(* A round of centboot is a step along the dump, or ends where a copy that *)
(* ended early has no more sectors.                                        *)
LEMMA BootAlike ==
  ASSUME RepackInv, OnFile, BootInv, WholeDump, refused = 0, Boot!BootStep
  PROVE  BootNow' = BootMove(BootNow) \/ (CutOff /\ bpc' = "failed")
<1> DEFINE x == BootNow
<1>1. /\ x[1] = bpc /\ x[2] = sector /\ x[3] = offset /\ x[4] = listed
      /\ BootNow' = <<bpc', sector', offset', listed'>>
  BY DEF BootNow
<1>2. BootTypeOK
  BY DEF BootInv
<1>3. /\ Size \in Nat /\ Slots \in Nat /\ 0 < Slots /\ Slots <= Size /\ Len(File) \in Nat
  BY FileRead, SectorAssumption
<1> HIDE DEF x
<1>4. CASE Boot!ReadHeader
  <2>1. /\ bpc = "header" /\ Boot!readSector(14, "start") /\ 14 \in Nat
        /\ UNCHANGED <<sector, offset, listed>>
    BY <1>4 DEF Boot!ReadHeader
  <2>2. bpc' = Fetched(14, "start") \/ (CutOff /\ bpc' = "failed")
    BY <2>1, ReadAlike
  <2>3. BootMove(x) = <<Fetched(14, "start"), sector, offset, listed>>
    BY <1>1, <2>1 DEF BootMove
  <2> QED BY <1>1, <2>1, <2>2, <2>3 DEF x
<1>5. CASE Boot!ReadStart
  <2>1. /\ bpc = "start" /\ UNCHANGED <<offset, listed>>
        /\ sector' = Boot!calc_boot_dir_start(buffer[1].encrypted, Boot!make_key(buffer[1].seed))
        /\ Boot!readSector(sector', "search")
    BY <1>5 DEF Boot!ReadStart
  <2>2. 14 * Size < Len(File) /\ buffer[1] = Header /\ Header \in Stored
    BY <2>1 DEF BootInv
  <2>3. Header = Native(14)[1]
    <3> DEFINE d == Block(File, Size, 14)
    <3>1. d # <<>>
      <4>1. SUFFICES ASSUME d = <<>> PROVE FALSE
        OBVIOUS
      <4>2. File \in Seq(Stored) /\ 14 \in Nat /\ 0 < Size
        BY <1>3, FileRead
      <4>3. Len(File) <= 14 * Size
        BY <1>3, <4>1, <4>2, BlockInside
      <4> QED BY <1>3, <2>2, <4>3
    <3>2. File \in Seq(Stored) /\ 14 \in Nat /\ 0 < Size
      BY <1>3, FileRead
    <3>3. Len(d) \in Nat /\ Slots <= Len(d) /\ \A k \in 1 .. Slots : d[k] = Native(14)[k]
      BY <3>1, <3>2, SectorAlike
    <3>4. \A k \in 1 .. Len(d) : d[k] = File[14 * Size + k]
      BY <1>3, <3>1, <3>2, BlockContents
    <3> HIDE DEF d
    <3>5. 1 \in 1 .. Slots /\ 1 \in 1 .. Len(d)
      BY <1>3, <3>3
    <3>6. d[1] = Native(14)[1]
      BY <3>3, <3>5
    <3>7. d[1] = File[14 * Size + 1]
      BY <3>4, <3>5
    <3> QED BY <3>6, <3>7 DEF Header
  <2>4. sector' = StartInDump /\ sector' = Start /\ Start \in Nat
    <3>1. Header.encrypted \in Word /\ Header.seed \in Word
      BY <2>2, HeaderWords
    <3>2. sector' = StartInDump
      BY <2>1, <2>2, <2>3 DEF StartInDump
    <3> QED BY <2>1, <2>2, <3>1, <3>2, StartIsBootSector DEF Start
  <2>5. PICK s \in Nat : s = sector'
    BY <2>4
  <2>6. bpc' = Fetched(s, "search") \/ (CutOff /\ bpc' = "failed")
    BY <2>1, <2>5, ReadAlike
  <2>7. BootMove(x) = <<Fetched(StartInDump, "search"), StartInDump, offset, listed>>
    BY <1>1, <2>1 DEF BootMove
  <2> QED BY <1>1, <2>1, <2>4, <2>5, <2>6, <2>7 DEF x
<1>6. CASE Boot!Search
  <2>1. /\ bpc = "search" /\ listed' = listed \o Boot!Found
        /\ IF Boot!Terminators # {} THEN bpc' = "done" /\ UNCHANGED <<sector, buffer, offset>>
           ELSE sector' = sector + 1 /\ offset' = 0 /\ Boot!readSector(sector + 1, "search")
    BY <1>6 DEF Boot!Search
  <2>2. sector \in Nat /\ sector * Size < Len(File) /\ Shows(buffer, sector) /\ offset \in {0, 1}
    BY <2>1 DEF BootInv, Searching
  <2>3. \A k \in 1 .. Slots : buffer[k] = Native(sector)[k] /\ buffer[k] \in Stored
    BY <1>2, <2>2, SectorRead
  <2>4. /\ Boot!Terminators # {} <=> EndIn(sector, offset)
        /\ Boot!Found = NamesIn(sector, offset)
    BY <1>3, <2>2, <2>3, EntriesAlike
  <2>5. BootMove(x) =
          IF EndIn(sector, offset)
          THEN <<"done", sector, offset, listed \o NamesIn(sector, offset)>>
          ELSE <<Fetched(sector + 1, "search"), sector + 1, 0, listed \o NamesIn(sector, offset)>>
    BY <1>1, <2>1 DEF BootMove
  <2>6. listed' = listed \o NamesIn(sector, offset)
    BY <2>1, <2>4
  <2>7. CASE EndIn(sector, offset)
    <3>1. bpc' = "done" /\ sector' = sector /\ offset' = offset
      BY <2>1, <2>4, <2>7
    <3> QED BY <1>1, <2>5, <2>6, <2>7, <3>1, Zenon DEF x
  <2>8. CASE ~EndIn(sector, offset)
    <3>1. sector' = sector + 1 /\ offset' = 0 /\ Boot!readSector(sector + 1, "search")
      BY <2>1, <2>4, <2>8
    <3>2. sector + 1 \in Nat
      BY <2>2
    <3>3. bpc' = Fetched(sector + 1, "search") \/ (CutOff /\ bpc' = "failed")
      BY <3>1, <3>2, ReadAlike
    <3> QED BY <1>1, <2>5, <2>6, <2>8, <3>1, <3>3, Zenon DEF x
  <2> QED BY <2>7, <2>8
<1> QED BY <1>4, <1>5, <1>6 DEF Boot!BootStep

(* So is a round of centfs-ls.                                             *)
LEMMA LsAlike ==
  ASSUME RepackInv, ChainInv, WholeDump, refused = 0, Ls!ReadDirent
  PROVE  ls' = LsMove(ls) \/ (CutOff /\ lpc' = "failed")
<1> DEFINE d == Block(File, Size, nsec)
<1>1. ls[1] = lpc /\ ls[2] = nsec /\ ls[3] = n /\ ls[4] = seen /\ ls' = <<lpc', nsec', n', seen'>>
  BY DEF ls
<1>2. OnFile /\ nsec \in Nat
  BY WordIsNat DEF ChainInv, Followed
<1>3. IF Len(d) < DirentSlots
      THEN lpc' = "failed" /\ UNCHANGED <<nsec, n, seen>>
      ELSE /\ n' = (n + 1) % CountModulus
           /\ seen' = seen \cup {<<nsec, d[LinkSlot].name>>}
           /\ nsec' = d[LinkSlot].link
           /\ lpc' = IF nsec' \in Ls!LastArchives THEN "done" ELSE "walk"
  BY SameBlock DEF Ls!ReadDirent
<1>4. /\ d = <<>> => ~InDump(nsec) \/ CutOff
      /\ d # <<>> => /\ InDump(nsec) /\ Len(d) \in Nat /\ Slots <= Len(d)
                     /\ \A k \in 1 .. Slots : d[k] = Native(nsec)[k]
  BY <1>2, SectorAlike DEF CutOff
<1>5. DirentSlots \in Nat /\ 0 < DirentSlots /\ DirentSlots <= Slots /\ LinkSlot \in 1 .. Slots
      /\ Slots \in Nat
  BY ToolsAssumption, SectorAssumption
<1>6. d = <<>> => Len(d) = 0
  OBVIOUS
<1> HIDE DEF d
<1>7. CASE d = <<>>
  <2>1. lpc' = "failed" /\ UNCHANGED <<nsec, n, seen>>
    BY <1>3, <1>5, <1>6, <1>7
  <2>2. ~InDump(nsec) => LsMove(ls) = <<"failed", nsec, n, seen>>
    BY <1>1 DEF LsMove
  <2> QED BY <1>1, <1>4, <1>7, <2>1, <2>2
<1>8. CASE d # <<>>
  <2>1. InDump(nsec) /\ ~(Len(d) < DirentSlots) /\ d[LinkSlot] = Native(nsec)[LinkSlot]
    BY <1>4, <1>5, <1>8
  <2> DEFINE dirent == Native(nsec)[LinkSlot]
  <2>2. /\ n' = (n + 1) % CountModulus
        /\ seen' = seen \cup {<<nsec, dirent.name>>}
        /\ nsec' = dirent.link
        /\ lpc' = IF dirent.link \in Ls!LastArchives THEN "done" ELSE "walk"
    BY <1>3, <2>1
  <2>3. LsMove(ls) = <<IF dirent.link \in Ls!LastArchives THEN "done" ELSE "walk", dirent.link,
                       (n + 1) % CountModulus, seen \cup {<<nsec, dirent.name>>}>>
    BY <1>1, <2>1 DEF LsMove
  <2> HIDE DEF dirent
  <2> QED BY <1>1, <2>2, <2>3, Zenon
<1> QED BY <1>7, <1>8

(* Where both tools were equally far they stay so; what the tool found on  *)
(* the dump, it will find on the image unless that ends early.             *)
AsFar(f) == Ended(f) /\ outcome[1] = Result(f) /\ (Reaches(Now, f) \/ (CutOff /\ Now[1] = "failed"))

AlikeInv ==
  /\ rpc = "copy" => Now = Begin /\ on = "dump"
  /\ on = "dump" => outcome = <<>>
  /\ on # "dump" => \E a, b : outcome = <<a>> \/ outcome = <<a, b>>
  /\ WholeDump /\ refused = 0 =>
       /\ on = "dump" => Reaches(Begin, Now)
       /\ on # "dump" /\ Len(outcome) = 1 => \E f : AsFar(f)
       /\ Len(outcome) = 2 /\ (Copied \/ outcome[2][1] = "done") => outcome[1] = outcome[2]

(* The way to an end: to itself, one step more, one step less, and nothing *)
(* beyond it.                                                              *)
LEMMA ReachesItself == \A x : Reaches(x, x)
BY DEF Reaches

LEMMA ReachesFurther ==
  ASSUME NEW x, NEW y, Reaches(x, y), ~Ended(y)
  PROVE  Reaches(x, Move(y))
<1> SUFFICES ASSUME NEW T, x \in T, Closed(T) PROVE Move(y) \in T
  BY DEF Reaches
<1>1. y \in T
  BY DEF Reaches
<1> QED BY <1>1 DEF Closed

LEMMA ReachesFromNext ==
  ASSUME NEW x, NEW f, Reaches(x, f), ~Ended(x), Ended(f)
  PROVE  Reaches(Move(x), f)
<1> SUFFICES ASSUME NEW T, Move(x) \in T, Closed(T) PROVE f \in T
  BY DEF Reaches
<1>1. Closed(T \cup {x})
  BY DEF Closed
<1>2. f \in T \cup {x}
  BY <1>1 DEF Reaches
<1>3. f # x
  OBVIOUS
<1> QED BY <1>2, <1>3

LEMMA NothingBeyond ==
  ASSUME NEW x, NEW f, Reaches(x, f), Ended(x)
  PROVE  f = x
<1>1. Closed({x})
  BY DEF Closed
<1> QED BY <1>1 DEF Reaches

(* Nothing of this is about the file that is read.                         *)
LEMMA SameWay ==
  ASSUME UNCHANGED <<dump, tool, first>>
  PROVE  /\ \A x : Move(x)' = Move(x)
         /\ \A x, f : Reaches(x, f)' <=> Reaches(x, f)
         /\ Begin' = Begin
         /\ \A x : Result(x)' = Result(x)
         /\ WholeDump' <=> WholeDump
<1>1. \A s : Native(s)' = Native(s) /\ (InDump(s)' <=> InDump(s))
  BY DEF Native, InDump
<1>2. /\ \A s, o : NamesIn(s, o)' = NamesIn(s, o) /\ (EndIn(s, o)' <=> EndIn(s, o))
      /\ \A s, then : Fetched(s, then)' = Fetched(s, then)
      /\ StartInDump' = StartInDump
  BY <1>1 DEF NamesIn, EndIn, Fetched, StartInDump
<1>3. \A x : BootMove(x)' = BootMove(x)
  BY <1>2 DEF BootMove
<1>4. \A x : LsMove(x)' = LsMove(x)
  BY <1>1 DEF LsMove
<1>5. \A x : Move(x)' = Move(x)
  BY <1>3, <1>4 DEF Move
<1>6. \A T : Closed(T)' <=> Closed(T)
  BY <1>5 DEF Closed, Ended
<1>7. \A x, f : Reaches(x, f)' <=> Reaches(x, f)
  BY <1>6 DEF Reaches
<1> QED BY <1>5, <1>7 DEF Begin, Result, WholeDump

(* Only what the comparison is about can disturb it.                       *)
LEMMA AlikeUnmoved ==
  ASSUME AlikeInv, UNCHANGED <<repack, tools, tool, first, on>>,
         outcome' = outcome
  PROVE  AlikeInv'
<1>1. UNCHANGED <<dump, tool, first, rpc, refused, on, i>> /\ Now' = Now
  BY DEF repack, output, tools, boot, Now, BootNow, ls
<1>2. /\ \A x, f : Reaches(x, f)' <=> Reaches(x, f)
      /\ Begin' = Begin /\ (WholeDump' <=> WholeDump)
      /\ \A x : Result(x)' = Result(x)
  BY <1>1, SameWay
<1>3. (Copied' <=> Copied) /\ (CutOff' <=> CutOff)
  BY <1>1 DEF Copied, CutOff
<1>4. \A f : AsFar(f)' <=> AsFar(f)
  BY <1>1, <1>2, <1>3 DEF AsFar, Ended
<1> QED BY <1>1, <1>2, <1>3, <1>4 DEF AlikeInv

(* A round of the tool.                                                    *)
LEMMA ListAlike ==
  ASSUME RepackInv, ChainInv, BootInv, AlikeInv, List
  PROVE  AlikeInv'
<1>1. /\ rpc = "done" /\ Len(outcome) < 2
      /\ UNCHANGED <<repack, dump, tool, first, rpc, refused, on, i, outcome>>
  BY DEF List, repack, output
<1>2. /\ \A x, f : Reaches(x, f)' <=> Reaches(x, f)
      /\ Begin' = Begin /\ (WholeDump' <=> WholeDump)
      /\ \A x : Result(x)' = Result(x)
  BY <1>1, SameWay
<1>3. (Copied' <=> Copied) /\ (CutOff' <=> CutOff)
  BY <1>1 DEF Copied, CutOff
<1>4. SUFFICES ASSUME WholeDump, refused = 0
               PROVE  /\ on = "dump" => Reaches(Begin, Now')
                      /\ on # "dump" /\ Len(outcome) = 1 => \E f : AsFar(f)'
  BY <1>1, <1>2 DEF AlikeInv
<1>5. ~Ended(Now) /\ (Now' = Move(Now) \/ (CutOff /\ Now'[1] = "failed"))
  <2>1. OnFile
    BY DEF ChainInv
  <2>2. CASE tool = "centboot" /\ Boot!BootStep
    <3>1. BootNow' = BootMove(BootNow) \/ (CutOff /\ bpc' = "failed")
      BY <1>4, <2>1, <2>2, BootAlike
    <3>2. bpc \in {"header", "start", "search"}
      BY <2>2 DEF Boot!BootStep, Boot!ReadHeader, Boot!ReadStart, Boot!Search
    <3>3. /\ Now = BootNow /\ Now' = BootNow' /\ Move(Now) = BootMove(BootNow)
          /\ BootNow[1] = bpc /\ BootNow'[1] = bpc'
      BY <1>1, <2>2 DEF Now, Move, BootNow
    <3> QED BY <3>1, <3>2, <3>3 DEF Ended
  <2>3. CASE tool = "centfs-ls" /\ Ls!ReadDirent
    <3>1. ls' = LsMove(ls) \/ (CutOff /\ lpc' = "failed")
      BY <1>4, <2>3, LsAlike
    <3>2. lpc = "walk"
      BY <2>3 DEF Ls!ReadDirent
    <3>3. /\ Now = ls /\ Now' = ls' /\ Move(Now) = LsMove(ls)
          /\ ls[1] = lpc /\ ls'[1] = lpc'
      BY <1>1, <2>3 DEF Now, Move, ls
    <3> QED BY <3>1, <3>2, <3>3 DEF Ended
  <2> QED BY <2>2, <2>3 DEF List
<1>6. CASE on = "dump"
  <2>1. Now' = Move(Now) /\ Reaches(Begin, Now)
    BY <1>4, <1>5, <1>6 DEF CutOff, AlikeInv
  <2>2. PICK x : x = Now
    OBVIOUS
  <2>3. PICK b : b = Begin
    OBVIOUS
  <2>4. Reaches(b, Move(x))
    BY <1>5, <2>1, <2>2, <2>3, ReachesFurther
  <2> QED BY <1>6, <2>1, <2>2, <2>3, <2>4
<1>7. CASE on # "dump" /\ Len(outcome) = 1
  <2>1. PICK f : AsFar(f)
    BY <1>4, <1>7 DEF AlikeInv
  <2>2. Ended(f) /\ outcome'[1] = Result(f)'
    BY <1>1, <1>2, <2>1 DEF AsFar
  <2>3. Reaches(Now, f)
    BY <1>5, <2>1 DEF AsFar, Ended
  <2>4. PICK x : x = Now
    OBVIOUS
  <2>5. Reaches(Move(x), f)
    BY <1>5, <2>2, <2>3, <2>4, ReachesFromNext
  <2>6. CASE Now' = Move(Now)
    <3>1. Reaches(Now, f)'
      <4>1. PICK y : y = Now'
        OBVIOUS
      <4>2. Reaches(y, f)'
        BY <1>2, <2>4, <2>5, <2>6, <4>1
      <4> QED BY <4>1, <4>2 DEF Reaches, Closed
    <3> QED BY <1>7, <2>2, <3>1 DEF AsFar, Ended
  <2>7. CASE CutOff /\ Now'[1] = "failed"
    BY <1>3, <1>7, <2>2, <2>7 DEF AsFar, Ended
  <2> QED BY <1>5, <2>6, <2>7
<1> QED BY <1>6, <1>7

(* The tool has ended on a file.                                           *)
LEMMA NextFileAlike ==
  ASSUME AlikeInv, NextFile
  PROVE  AlikeInv'
<1>1. /\ rpc = "done" /\ Len(outcome) < 2 /\ outcome' = Append(outcome, Outcome)
      /\ UNCHANGED <<repack, dump, tool, first, rpc, refused, i>>
  BY DEF NextFile, repack, output
<1>2. /\ \A x, f : Reaches(x, f)' <=> Reaches(x, f)
      /\ Begin' = Begin /\ (WholeDump' <=> WholeDump)
      /\ \A x : Result(x)' = Result(x)
  BY <1>1, SameWay
<1>3. Copied' <=> Copied
  BY <1>1 DEF Copied
<1>4. Ended(Now) /\ Outcome = Result(Now)
  BY DEF NextFile, Over, Outcome, Ended, Result, Now, BootNow, ls, Boot!BootOver, Ls!LsOver
<1>5. CASE on = "dump"
  <2>1. outcome' = <<Result(Now)>> /\ on' = "image"
    <3>1. outcome = <<>>
      BY <1>5 DEF AlikeInv
    <3> QED BY <1>1, <1>4, <1>5, <3>1 DEF NextFile
  <2>2. Len(outcome') = 1 /\ outcome'[1] = Result(Now)
    BY <2>1
  <2>3. Now' = Begin
    BY <1>1, <1>5 DEF NextFile, Restart, Now, BootNow, ls, Begin
  <2>4. ASSUME WholeDump, refused = 0 PROVE \E f : AsFar(f)'
    <3>1. Reaches(Begin, Now)
      BY <1>5, <2>4 DEF AlikeInv
    <3>2. PICK f : f = Now
      OBVIOUS
    <3>3. PICK b : b = Begin
      OBVIOUS
    <3>4. Reaches(b, f)'
      BY <1>2, <3>1, <3>2, <3>3
    <3>5. Reaches(Now, f)'
      BY <2>3, <3>3, <3>4 DEF Reaches, Closed
    <3>6. Ended(f) /\ outcome'[1] = Result(f)'
      BY <1>2, <1>4, <2>2, <3>2
    <3> QED BY <3>5, <3>6 DEF AsFar, Ended
  <2>5. \E a, b : outcome' = <<a>> \/ outcome' = <<a, b>>
    BY <2>1
  <2> QED BY <1>1, <1>2, <2>1, <2>2, <2>4, <2>5 DEF AlikeInv
<1>6. CASE on # "dump"
  <2>1. UNCHANGED <<tools, on>>
    BY <1>6 DEF NextFile
  <2>2. PICK a : outcome = <<a>>
    <3>1. PICK a, b : outcome = <<a>> \/ outcome = <<a, b>>
      BY <1>6 DEF AlikeInv
    <3>2. Len(<<a, b>>) = 2
      OBVIOUS
    <3> QED BY <1>1, <3>1, <3>2
  <2>3. /\ Len(outcome) = 1
        /\ outcome' = <<a, Result(Now)>> /\ Len(outcome') = 2
        /\ outcome'[1] = outcome[1] /\ outcome'[2] = Result(Now)
    <3>1. PICK x : x = Result(Now)
      OBVIOUS
    <3>2. outcome' = Append(<<a>>, x)
      BY <1>1, <1>4, <2>2, <3>1
    <3>3. /\ <<a>> \in Seq({a, x}) /\ Len(<<a>>) = 1 /\ <<a>>[1] = a /\ x \in {a, x}
          /\ <<a, x>> \in Seq({a, x}) /\ Len(<<a, x>>) = 2 /\ <<a, x>>[1] = a /\ <<a, x>>[2] = x
      OBVIOUS
    <3>4. /\ Append(<<a>>, x) \in Seq({a, x}) /\ Len(Append(<<a>>, x)) = 2
          /\ Append(<<a>>, x)[1] = a /\ Append(<<a>>, x)[2] = x
      BY <3>3, AppendProperties
    <3>5. \A k \in 1 .. 2 : Append(<<a>>, x)[k] = <<a, x>>[k]
      <4>1. \A k \in 1 .. 2 : k = 1 \/ k = 2
        OBVIOUS
      <4> QED BY <3>3, <3>4, <4>1, Zenon
    <3>6. Append(<<a>>, x) = <<a, x>>
      BY <3>3, <3>4, <3>5, SeqEqual
    <3> QED BY <2>2, <3>1, <3>2, <3>3, <3>6
  <2>4. ASSUME WholeDump, refused = 0, Copied \/ outcome'[2][1] = "done"
        PROVE  outcome'[1] = outcome'[2]
    <3>1. PICK f : AsFar(f)
      BY <1>6, <2>3, <2>4 DEF AlikeInv
    <3>2. outcome'[2][1] = Now[1]
      BY <2>3 DEF Result
    <3>3. Reaches(Now, f)
      BY <2>4, <3>1, <3>2 DEF AsFar, CutOff
    <3>4. PICK x : x = Now
      OBVIOUS
    <3>5. f = Now
      BY <1>4, <3>3, <3>4, NothingBeyond
    <3> QED BY <2>3, <3>1, <3>5 DEF AsFar
  <2>5. \E x, y : outcome' = <<x>> \/ outcome' = <<x, y>>
    BY <2>3
  <2> QED BY <1>1, <1>2, <1>3, <1>6, <2>1, <2>3, <2>4, <2>5 DEF AlikeInv
<1> QED BY <1>5, <1>6

(* Every step keeps the invariant.                                         *)
LEMMA AlikeSteps ==
  RepackInv /\ ChainInv /\ BootInv /\ AlikeInv /\ [Next]_vars => AlikeInv'
<1> SUFFICES ASSUME RepackInv, ChainInv, BootInv, AlikeInv, [Next]_vars PROVE AlikeInv'
  OBVIOUS
<1>1. CASE Copy
  <2>1. rpc = "copy" /\ UNCHANGED <<dump, tools, tool, first, on, outcome>>
    BY <1>1 DEF Copy, RepackStep, RepackEnds, CopyBlock
  <2>2. on = "dump" /\ outcome = <<>> /\ Now = Begin
    BY <2>1 DEF AlikeInv
  <2>3. Now' = Now /\ Begin' = Begin
    BY <2>1, SameWay DEF tools, boot, Now, BootNow, ls
  <2>4. Reaches(Begin, Now)'
    BY <2>2, <2>3 DEF Reaches
  <2>5. Len(outcome') = 0
    BY <2>1, <2>2
  <2> QED BY <2>1, <2>2, <2>3, <2>4, <2>5 DEF AlikeInv
<1>2. CASE List
  BY <1>2, ListAlike
<1>3. CASE NextFile
  BY <1>3, NextFileAlike
<1>4. CASE UNCHANGED vars
  BY <1>4, AlikeUnmoved DEF vars
<1> QED BY <1>1, <1>2, <1>3, <1>4 DEF Next

(* repack preserves what the tools see: on a dump of whole sectors, if no  *)
(* write fails, centboot and centfs-ls find on the image what they found   *)
(* on the dump, names, order, count and end; and on an image that ended    *)
(* early no listing that ends well is a wrong one.                         *)
THEOREM RepackCorrect == Spec => []RepackedAlike
<1>1. Init => AlikeInv
  <2> SUFFICES ASSUME Init PROVE AlikeInv
    OBVIOUS
  <2>1. on = "dump" /\ outcome = <<>> /\ Now = Begin
    BY DEF Init, Boot!BootInit, Ls!LsInit, Now, BootNow, ls, Begin
  <2>2. Reaches(Begin, Now) /\ Len(outcome) = 0
    BY <2>1 DEF Reaches
  <2> QED BY <2>1, <2>2 DEF AlikeInv
<1>2. AlikeInv => RepackedAlike
  BY DEF AlikeInv, RepackedAlike
<1>3. Init => ChainInv /\ BootInv
  BY ChainStarts, BootStarts
<1> QED BY <1>1, <1>2, <1>3, RepackStarts, RepackSteps, ChainSteps, BootSteps, AlikeSteps, PTL DEF Spec
================================================================================
