------------------------ MODULE CentfsExtractProofs -------------------------
(***************************************************************************)
(* Proofs about CentfsExtract, for every image, every well-formed list on  *)
(* it and every block size.                                                *)
(* Then about CentfsFind, which shares the walk: for every image and       *)
(* every pattern.                                                          *)
(***************************************************************************)
EXTENDS CentfsExtract, CentfsFind, SequenceLemmas, TLAPS

USE DEF vars, walkVars

(* What the decoder makes of any three bytes is a position, or a sector.   *)
LEMMA DecodedTypes ==
  ASSUME NEW f \in File, NEW e \in Entry
  PROVE  LinkTarget(f, e) \in Position /\ Extent(f, e) \in Nat
<1>1. PICK b1 \in Byte, b2 \in Byte, b3 \in Byte :
        b1 = e[1] /\ b2 = e[2] /\ b3 = e[3]
  BY DEF Entry
<1>2. /\ b1 \in Nat /\ b2 \in Nat /\ b3 \in Nat
      /\ b1 <= 255 /\ b2 <= 255
  BY DEF Byte
<1>3. WordMax \in Nat /\ \A x \in Nat : x <= 255 + 256 * 255 => x <= WordMax
  BY DEF WordMax
<1>4. PICK m \in Nat : m = WordMax
  BY <1>3
<1>5. PICK w \in Nat : w = BE_WORD(e) /\ w <= m
  <2>1. BE_WORD(e) = 256 * b1 + b2
    BY <1>1 DEF BE_WORD
  <2>2. 256 * b1 + b2 \in Nat /\ 256 * b1 + b2 <= 255 + 256 * 255
    BY <1>2
  <2>3. QED
    BY <1>3, <1>4, <2>1, <2>2
<1>6. PICK b \in Nat : b = f.base
  BY DEF File
<1>7. LinkTarget(f, e) \in Position
  <2>1. b + (m - w) \in Nat
    BY <1>5
  <2>2. QED
    BY <1>1, <1>2, <1>4, <1>5, <1>6, <2>1 DEF LinkTarget, Position
<1>8. Extent(f, e) \in Nat
  <2>1. 256 * w + b3 \in Nat /\ 256 * w + b3 + b \in Nat
    BY <1>2, <1>5
  <2>2. BE_3BYTES(e) = 256 * w + b3
    BY <1>1, <1>5 DEF BE_3BYTES
  <2>3. QED
    BY <1>6, <2>1, <2>2 DEF Extent
<1>9. QED
  BY <1>7, <1>8

(* A place on the lists holds an entry, and so does everything fetched.    *)
LEMMA ListEntries ==
  ASSUME NEW p \in Position, OnList(p)
  PROVE  AList[p.sector][p.slot] \in Entry
<1>1. /\ AList[p.sector] \in [0 .. SlotsPerSector - 1 -> Entry]
      /\ p.slot \in 0 .. SlotsPerSector - 1
  BY WalkAssumption DEF OnList, Position, SlotsPerSector
<1>2. QED
  BY <1>1

LEMMA FetchedAreEntries ==
  ASSUME next \in Position
  PROVE  FetchedEntries \subseteq Entry
BY ListEntries, WalkAssumption DEF FetchedEntries

(* A call of read_sector leaves the device in one of its two states, and   *)
(* a device that is open afterwards was open before, for a read that       *)
(* succeeded.                                                              *)
LEMMA ReadSectorStep ==
  ASSUME dev \in DeviceStates, NEW n, NEW ok \in BOOLEAN, ReadSector(n, ok)
  PROVE  /\ dev' \in DeviceStates
         /\ dev' = "OPEN" => dev = "OPEN" /\ ok
         /\ dev' # dev => dev = "OPEN" /\ dev' = "IOERROR"
BY DEF ReadSector, DeviceStates

(* The same for fetching a list entry; with the device still open the      *)
(* entry is the one on the disk.                                           *)
LEMMA FetchEntryStep ==
  ASSUME dev \in DeviceStates, next \in Position,
         NEW e \in FetchedEntries, FetchEntry(e)
  PROVE  /\ e \in Entry
         /\ dev' \in DeviceStates
         /\ dev' = "OPEN" => dev = "OPEN"
         /\ dev' = "OPEN" /\ OnList(next) => e = AList[next.sector][next.slot]
BY FetchedAreEntries, ReadSectorStep DEF FetchEntry

(* The initial state and every step respect the types.                     *)
LEMMA InitTypeOK == Init => TypeOK
<1> SUFFICES ASSUME Init PROVE TypeOK
  OBVIOUS
<1>1. Source.start \in Position
  BY SourceAssumption DEF File
<1>2. QED
  BY <1>1 DEF Init, WalkInit, TypeOK, WalkTypeOK, DeviceStates

LEMMA NextTypeOK == TypeOK /\ [Next]_vars => TypeOK'
<1> SUFFICES ASSUME TypeOK, [Next]_vars PROVE TypeOK'
  OBVIOUS
<1> USE DEF TypeOK, WalkTypeOK
<1>1. CASE FollowLink(Source)
  BY <1>1, FetchEntryStep, DecodedTypes, SourceAssumption DEF FollowLink
<1>2. CASE TakeExtent(Source)
  <2>1. PICK e \in FetchedEntries :
          /\ FetchEntry(e)
          /\ num' = Extent(Source, e)
          /\ last' = Extent(Source, e) + Source.blk
    BY <1>2 DEF TakeExtent
  <2>2. dev' \in DeviceStates /\ Extent(Source, e) \in Nat
    BY <2>1, FetchEntryStep, DecodedTypes, SourceAssumption
  <2>3. Source.blk \in Nat
    BY SourceAssumption DEF File
  <2>4. next' \in Position
    BY <1>2 DEF TakeExtent, FollowingSlot, Position
  <2>5. QED
    BY <1>2, <2>1, <2>2, <2>3, <2>4 DEF TakeExtent
<1>3. CASE EndOfList
  BY <1>3, FetchEntryStep DEF EndOfList
<1>4. CASE CopyBlock
  BY <1>4, ReadSectorStep DEF CopyBlock
<1>5. CASE Crash
  BY <1>5 DEF Crash
<1>6. CASE UNCHANGED vars
  BY <1>6
<1>7. QED
  BY <1>1, <1>2, <1>3, <1>4, <1>5, <1>6 DEF Next, Step, Terminated

(* Type correctness of the extraction.                                     *)
THEOREM TypeCorrect == Spec => []TypeOK
BY InitTypeOK, NextTypeOK, PTL DEF Spec

(* Facts about the chain that the steps of the walk use: an entry that is  *)
(* not the last is no end mark and has a successor, where the blocks       *)
(* counted by Mark continue.                                               *)
LEMMA ChainStep ==
  ASSUME NEW i \in DOMAIN Chain
  PROVE  /\ OnList(Chain[i])
         /\ Mark[i] \in 0 .. Len(Content)
         /\ IsEnd(EntryOf(i)) <=> i = Len(Chain)
         /\ i # Len(Chain) =>
              /\ i < Len(Chain) /\ i + 1 \in DOMAIN Chain
              /\ Chain[i + 1] = IF IsPointer(EntryOf(i))
                                THEN LinkTarget(Source, EntryOf(i))
                                ELSE FollowingSlot(Chain[i])
              /\ IsPointer(EntryOf(i)) => Mark[i + 1] = Mark[i]
              /\ ~IsPointer(EntryOf(i)) => Mark[i + 1] = Mark[i] + Source.blk
<1>1. /\ Len(Chain) \in Nat /\ DOMAIN Chain = 1 .. Len(Chain)
  BY ChainAssumption
<1>2. i # Len(Chain) => i < Len(Chain) /\ i + 1 \in DOMAIN Chain
  BY <1>1
<1>3. Mark[i] \in 0 .. Len(Content)
  BY ContentAssumption
<1>4. QED
  BY <1>1, <1>2, <1>3, ChainAssumption, ContentAssumption

(* Fetching at a place of the chain yields the chain's entry.              *)
LEMMA FetchOnChain ==
  ASSUME TypeOK, NEW i \in DOMAIN Chain, next = Chain[i],
         NEW e \in FetchedEntries, FetchEntry(e), dev' = "OPEN"
  PROVE  e = EntryOf(i) /\ dev = "OPEN"
BY FetchEntryStep, ChainStep DEF TypeOK, WalkTypeOK, EntryOf

(* Every step keeps the invariant.                                         *)
LEMMA FollowLinkKeeps ==
  ASSUME IInv, TypeOK', FollowLink(Source)
  PROVE  Located' /\ FaithfulCopy'
<1>1. CASE dev' # "OPEN"
  BY <1>1 DEF Located, FaithfulCopy
<1>2. CASE dev' = "OPEN"
  <2>1. PICK e \in FetchedEntries :
          FetchEntry(e) /\ IsPointer(e) /\ ~IsEnd(e) /\ next' = LinkTarget(Source, e)
    BY DEF FollowLink
  <2>2. dev = "OPEN"
    BY <1>2, <2>1, FetchEntryStep DEF IInv, TypeOK, WalkTypeOK
  <2>3. PICK i \in DOMAIN Chain : next = Chain[i] /\ Len(out) = Mark[i]
    BY <2>2 DEF FollowLink, IInv, Located
  <2>4. e = EntryOf(i)
    BY <1>2, <2>1, <2>3, FetchOnChain DEF IInv
  <2>5. i + 1 \in DOMAIN Chain /\ next' = Chain[i + 1] /\ Mark[i + 1] = Mark[i]
    BY <2>1, <2>4, ChainStep
  <2>6. pc' = "dalent" /\ out' = out
    BY DEF FollowLink
  <2>7. Located'
    BY <2>3, <2>5, <2>6 DEF Located
  <2>8. FaithfulCopy'
    BY <2>2, <2>6 DEF IInv, FaithfulCopy
  <2>9. QED
    BY <2>7, <2>8
<1>3. QED
  BY <1>1, <1>2

LEMMA TakeExtentKeeps ==
  ASSUME IInv, TypeOK', TakeExtent(Source)
  PROVE  Located' /\ FaithfulCopy'
<1>1. CASE dev' # "OPEN"
  BY <1>1 DEF Located, FaithfulCopy
<1>2. CASE dev' = "OPEN"
  <2>1. PICK e \in FetchedEntries :
          /\ FetchEntry(e) /\ ~IsPointer(e)
          /\ num' = Extent(Source, e)
          /\ last' = Extent(Source, e) + Source.blk
    BY DEF TakeExtent
  <2>2. dev = "OPEN"
    BY <1>2, <2>1, FetchEntryStep DEF IInv, TypeOK, WalkTypeOK
  <2>3. PICK i \in DOMAIN Chain : next = Chain[i] /\ Len(out) = Mark[i]
    BY <2>2 DEF TakeExtent, IInv, Located
  <2>4. e = EntryOf(i)
    BY <1>2, <2>1, <2>3, FetchOnChain DEF IInv
  <2>5. pc' = "block" /\ out' = out /\ next' = FollowingSlot(next)
    BY DEF TakeExtent
  <2>6. i < Len(Chain) /\ next' = Chain[i + 1]
    BY <2>1, <2>3, <2>4, <2>5, ChainStep DEF IsEnd
  <2>7. Source.blk \in Nat \ {0} /\ Extent(Source, e) \in Nat
    BY <2>1, FetchEntryStep, DecodedTypes, SourceAssumption
       DEF File, IInv, TypeOK, WalkTypeOK
  <2>8. Mark[i] \in Nat
    BY ChainStep
  <2>9. /\ 0 \in 0 .. Source.blk - 1
        /\ Mark[i] + 0 = Mark[i]
        /\ Extent(Source, e) + 0 = Extent(Source, e)
    BY <2>7, <2>8
  <2>10. Located'
    BY <2>1, <2>3, <2>4, <2>5, <2>6, <2>9 DEF Located
  <2>11. FaithfulCopy'
    BY <2>2, <2>5 DEF IInv, FaithfulCopy
  <2>12. QED
    BY <2>10, <2>11
<1>3. QED
  BY <1>1, <1>2

LEMMA EndOfListKeeps ==
  ASSUME IInv, TypeOK', EndOfList
  PROVE  Located' /\ FaithfulCopy'
<1>1. CASE dev' # "OPEN"
  BY <1>1 DEF Located, FaithfulCopy
<1>2. CASE dev' = "OPEN"
  <2>1. PICK e \in FetchedEntries : FetchEntry(e) /\ IsEnd(e)
    BY DEF EndOfList
  <2>2. dev = "OPEN"
    BY <1>2, <2>1, FetchEntryStep DEF IInv, TypeOK, WalkTypeOK
  <2>3. PICK i \in DOMAIN Chain : next = Chain[i] /\ Len(out) = Mark[i]
    BY <2>2 DEF EndOfList, IInv, Located
  <2>4. i = Len(Chain)
    BY <1>2, <2>1, <2>3, FetchOnChain, ChainStep DEF IInv
  <2>5. Len(out) = Len(Content)
    BY <2>3, <2>4, ContentAssumption
  <2>6. pc' = "walked" /\ out' = out
    BY DEF EndOfList
  <2>7. QED
    BY <2>2, <2>5, <2>6 DEF Located, FaithfulCopy, IInv
<1>3. QED
  BY <1>1, <1>2

(* The block that is read next is the one that is missing next.            *)
LEMMA NextBlock ==
  ASSUME IInv, dev = "OPEN", pc = "block"
  PROVE  /\ Len(out) < Len(Content)
         /\ Content[Len(out) + 1] = num
<1>1. PICK i \in DOMAIN Chain, j \in 0 .. Source.blk - 1 :
        /\ i < Len(Chain) /\ ~IsPointer(EntryOf(i))
        /\ Len(out) = Mark[i] + j
        /\ num = Extent(Source, EntryOf(i)) + j
  BY DEF IInv, Located
<1>2. /\ Mark[i] \in 0 .. Len(Content)
      /\ i + 1 \in DOMAIN Chain
      /\ Mark[i + 1] = Mark[i] + Source.blk
  BY <1>1, ChainStep
<1>3. Mark[i + 1] \in 0 .. Len(Content)
  BY <1>2, ContentAssumption
<1>4. Len(out) < Len(Content)
  <2>1. Len(Content) \in Nat /\ Source.blk \in Nat
    BY ContentAssumption, SourceAssumption DEF File
  <2>2. QED
    BY <1>1, <1>2, <1>3, <2>1, SMTT(20)
<1>5. Content[Mark[i] + j + 1] = Extent(Source, EntryOf(i)) + j
  BY <1>1, ContentAssumption
<1>6. QED
  BY <1>1, <1>4, <1>5

LEMMA CopyBlockKeeps ==
  ASSUME IInv, TypeOK', CopyBlock
  PROVE  Located' /\ FaithfulCopy'
<1>1. CASE dev' # "OPEN"
  BY <1>1 DEF Located, FaithfulCopy
<1>2. CASE dev' = "OPEN"
  <2>1. PICK ok \in BOOLEAN :
          ReadSector(num, ok) /\ out' = Append(out, IF ok THEN num ELSE Junk)
    BY DEF CopyBlock
  <2>2. dev = "OPEN" /\ ok
    BY <1>2, <2>1, ReadSectorStep DEF IInv, TypeOK, WalkTypeOK
  <2>3. pc = "block" /\ next' = next /\ last' = last /\ num' = num + 1
    BY DEF CopyBlock
  <2>4. Len(out) < Len(Content) /\ Content[Len(out) + 1] = num
    BY <2>2, <2>3, NextBlock
  <2>5. /\ out \in Seq(Nat \union {Junk}) /\ num \in Nat
        /\ out' = Append(out, num)
    BY <2>1, <2>2 DEF IInv, TypeOK, WalkTypeOK
  <2>6. Len(out') = Len(out) + 1 /\ Len(out) \in Nat
    BY <2>5
  <2>7. FaithfulCopy'
    <3>1. \A n \in DOMAIN out : out[n] = Content[n]
      BY <2>2 DEF IInv, FaithfulCopy
    <3>2. \A n \in DOMAIN out' : out'[n] = Content[n]
      BY <2>4, <2>5, <3>1
    <3>3. Len(out') <= Len(Content) /\ pc' # "walked"
      BY <2>4, <2>6, ContentAssumption DEF CopyBlock
    <3>4. QED
      BY <3>2, <3>3 DEF FaithfulCopy
  <2>8. Located'
    <3>1. PICK i \in DOMAIN Chain, j \in 0 .. Source.blk - 1 :
            /\ i < Len(Chain) /\ ~IsPointer(EntryOf(i))
            /\ next = Chain[i + 1]
            /\ Len(out) = Mark[i] + j
            /\ num = Extent(Source, EntryOf(i)) + j
            /\ last = Extent(Source, EntryOf(i)) + Source.blk
      BY <2>2, <2>3 DEF IInv, Located
    <3>2. /\ i + 1 \in DOMAIN Chain
          /\ Mark[i] \in Nat
          /\ Mark[i + 1] = Mark[i] + Source.blk
      BY <3>1, ChainStep
    <3>3. PICK x \in Nat : x = Extent(Source, EntryOf(i))
      <4>1. EntryOf(i) \in Entry
        BY ListEntries, ChainAssumption DEF EntryOf
      <4>2. QED
        BY <4>1, DecodedTypes, SourceAssumption
    <3>4. PICK b \in Nat \ {0} : b = Source.blk
      BY SourceAssumption DEF File
    <3>5. CASE num + 1 < last
      <4>1. j + 1 \in 0 .. b - 1
        BY <3>1, <3>3, <3>4, <3>5, SMTT(20)
      <4>2. Len(out') = Mark[i] + (j + 1)
        BY <2>6, <3>1, <3>2, SMTT(40)
      <4>3. num' = x + (j + 1)
        BY <2>3, <3>1, <3>3
      <4>4. pc' = "block"
        BY <3>5 DEF CopyBlock
      <4>5. QED
        BY <2>3, <3>1, <3>3, <3>4, <4>1, <4>2, <4>3, <4>4 DEF Located
    <3>6. CASE ~(num + 1 < last)
      <4>1. j + 1 = b
        BY <3>1, <3>3, <3>4, <3>6, SMTT(20)
      <4>2. Len(out') = Mark[i + 1]
        <5>1. Mark[i] + j + 1 = Mark[i] + b
          BY <3>2, <3>4, <4>1
        <5>2. QED
          BY <2>6, <3>1, <3>2, <3>4, <5>1
      <4>3. pc' = "dalent"
        BY <3>6 DEF CopyBlock
      <4>4. QED
        BY <2>3, <3>1, <3>2, <4>2, <4>3 DEF Located
    <3>7. QED
      BY <3>5, <3>6
  <2>9. QED
    BY <2>7, <2>8
<1>3. QED
  BY <1>1, <1>2

(* The invariant holds throughout.                                         *)
THEOREM Invariance == Spec => []IInv
<1>1. Init => IInv
  <2> SUFFICES ASSUME Init PROVE IInv
    OBVIOUS
  <2>1. TypeOK
    BY InitTypeOK
  <2>2. out = <<>> /\ pc = "dalent" /\ next = Chain[1]
    BY ChainAssumption DEF Init, WalkInit
  <2>3. 1 \in DOMAIN Chain /\ Len(out) = Mark[1]
    BY <2>2, ChainAssumption, ContentAssumption
  <2>4. Located
    BY <2>2, <2>3 DEF Located
  <2>5. FaithfulCopy
    BY <2>2, ContentAssumption DEF FaithfulCopy
  <2>6. QED
    BY <2>1, <2>4, <2>5 DEF IInv
<1>2. IInv /\ [Next]_vars => IInv'
  <2> SUFFICES ASSUME IInv, [Next]_vars PROVE Located' /\ FaithfulCopy'
    BY NextTypeOK DEF IInv
  <2>1. TypeOK'
    BY NextTypeOK DEF IInv
  <2>2. CASE FollowLink(Source)
    BY <2>1, <2>2, FollowLinkKeeps
  <2>3. CASE TakeExtent(Source)
    BY <2>1, <2>3, TakeExtentKeeps
  <2>4. CASE EndOfList
    BY <2>1, <2>4, EndOfListKeeps
  <2>5. CASE CopyBlock
    BY <2>1, <2>5, CopyBlockKeeps
  <2>6. CASE Crash
    BY <2>6 DEF Crash, Located, FaithfulCopy
  <2>7. CASE UNCHANGED vars
    BY <2>7 DEF IInv, Located, FaithfulCopy
  <2>8. QED
    BY <2>2, <2>3, <2>4, <2>5, <2>6, <2>7 DEF Next, Step, Terminated
<1>3. QED
  BY <1>1, <1>2, PTL DEF Spec

(* What is written while the device works is the file, in order, and the   *)
(* walk ends with the whole of it.                                         *)
THEOREM CopyIsFaithful == Spec => []FaithfulCopy
<1>1. IInv => FaithfulCopy
  BY DEF IInv
<1>2. QED
  BY <1>1, Invariance, PTL

(* On a well-formed list no entry is fetched from outside its sector.      *)
THEOREM FetchesInsideSector == Spec => []InsideSector
<1>1. IInv => InsideSector
  BY ChainStep DEF IInv, Located, InsideSector
<1>2. QED
  BY <1>1, Invariance, PTL

(* The walk implements the copy: with the device open, reading a block is  *)
(* Copy and fetching the end mark is Finish; a failed read is Break, a     *)
(* block written after it Garble, and the rest are stutters.               *)
THEOREM Refinement == Spec => ImplementsFileCopy
<1> USE DEF Abstract!Init, Abstract!Next, Abstract!vars, Abstract!Copy,
            Abstract!Finish, Abstract!Break, Abstract!Garble
<1>1. Init => Abstract!Init
  BY DEF Init, WalkInit, phase
<1>2. IInv /\ IInv' /\ [Next]_vars => [Abstract!Next]_(Abstract!vars)
  <2> SUFFICES ASSUME IInv, IInv', [Next]_vars
               PROVE  [Abstract!Next]_(Abstract!vars)
    OBVIOUS
  <2>1. ASSUME out' = out, dev' \in DeviceStates, dev = "IOERROR" => dev' = dev,
               pc # "walked", pc' # "walked"
        PROVE  [Abstract!Next]_(Abstract!vars)
    <3>1. CASE dev' = dev
      BY <2>1, <3>1 DEF phase
    <3>2. CASE dev' # dev
      BY <2>1, <3>2 DEF phase, DeviceStates, IInv, TypeOK, WalkTypeOK
    <3>3. QED
      BY <3>1, <3>2
  <2>2. CASE FollowLink(Source)
    <3>1. PICK e \in FetchedEntries : FetchEntry(e)
      BY <2>2 DEF FollowLink
    <3>2. dev' \in DeviceStates /\ (dev = "IOERROR" => dev' = dev)
      BY <3>1, FetchEntryStep DEF IInv, TypeOK, WalkTypeOK, DeviceStates
    <3>3. QED
      BY <2>1, <2>2, <3>2 DEF FollowLink
  <2>3. CASE TakeExtent(Source)
    <3>1. PICK e \in FetchedEntries : FetchEntry(e)
      BY <2>3 DEF TakeExtent
    <3>2. dev' \in DeviceStates /\ (dev = "IOERROR" => dev' = dev)
      BY <3>1, FetchEntryStep DEF IInv, TypeOK, WalkTypeOK, DeviceStates
    <3>3. QED
      BY <2>1, <2>3, <3>2 DEF TakeExtent
  <2>4. CASE EndOfList
    <3>1. PICK e \in FetchedEntries : FetchEntry(e)
      BY <2>4 DEF EndOfList
    <3>2. dev' \in DeviceStates /\ (dev' = "OPEN" => dev = "OPEN")
      BY <3>1, FetchEntryStep DEF IInv, TypeOK, WalkTypeOK
    <3>3. pc = "dalent" /\ pc' = "walked" /\ out' = out
      BY <2>4 DEF EndOfList
    <3>4. CASE dev' = "OPEN"
      <4>1. out = Content
        <5>1. Len(out) = Len(Content) /\ \A n \in DOMAIN out : out[n] = Content[n]
          BY <3>3, <3>4 DEF IInv, FaithfulCopy
        <5>2. out \in Seq(Nat \union {Junk}) /\ Content \in Seq(Nat)
          BY ContentAssumption DEF IInv, TypeOK, WalkTypeOK
        <5>3. QED
          BY <5>1, <5>2
      <4>2. QED
        BY <3>2, <3>3, <3>4, <4>1 DEF phase
    <3>5. CASE dev' # "OPEN"
      BY <3>2, <3>3, <3>5 DEF phase
    <3>6. QED
      BY <3>4, <3>5
  <2>5. CASE CopyBlock
    <3>1. PICK ok \in BOOLEAN :
            ReadSector(num, ok) /\ out' = Append(out, IF ok THEN num ELSE Junk)
      BY <2>5 DEF CopyBlock
    <3>2. pc = "block" /\ pc' # "walked"
      BY <2>5 DEF CopyBlock
    <3>3. CASE dev' = "OPEN"
      <4>1. dev = "OPEN" /\ ok
        BY <3>1, <3>3, ReadSectorStep DEF IInv, TypeOK, WalkTypeOK
      <4>2. Len(out) < Len(Content) /\ Content[Len(out) + 1] = num
        BY <3>2, <4>1, NextBlock
      <4>3. QED
        BY <3>1, <3>2, <3>3, <4>1, <4>2 DEF phase
    <3>4. CASE dev' # "OPEN"
      <4>1. ~ok
        BY <3>1, <3>4 DEF ReadSector
      <4>2. QED
        BY <3>1, <3>2, <3>4, <4>1 DEF phase
    <3>5. QED
      BY <3>3, <3>4
  <2>6. CASE Crash
    BY <2>1, <2>6 DEF Crash, IInv, TypeOK, WalkTypeOK
  <2>7. CASE UNCHANGED vars
    BY <2>7 DEF phase
  <2>8. QED
    BY <2>2, <2>3, <2>4, <2>5, <2>6, <2>7 DEF Next, Step, Terminated
<1>3. QED
  BY <1>1, <1>2, Invariance, PTL DEF Spec, ImplementsFileCopy, Abstract!Spec

(***************************************************************************)
(* The search for a pattern, which walks the lists of the directories and  *)
(* of the files that it finds with the same actions.                       *)
(***************************************************************************)
Part  == SUBSET STRING
Call  == [base : Nat, alist : Nat, idx : Nat, pattern : Seq(Part)]

(* The calls of centfs_dir_find ds use up the pattern.                     *)
Deep(ds) ==
  \A d \in DOMAIN ds : /\ Len(ds[d].pattern) = Len(ds[1].pattern) - d + 1
                       /\ ds[d].pattern # <<>>

SearchTypeOK ==
  /\ dev \in DeviceStates /\ next \in Position
  /\ dirs \in Seq(Call) /\ dirs # <<>>
  /\ rec.entry \in Nat /\ rec.offset \in Nat
  /\ cur.base \in Nat /\ cur.absolute \in BOOLEAN /\ cur.start \in Position

(* A call that is about to enter a library has another part left.          *)
SearchIInv ==
  /\ SearchTypeOK
  /\ DepthFollowsPattern
  /\ pc = "library" => Len(dirs[Len(dirs)].pattern) > 1

(* The innermost call may change what it knows of its directory: neither   *)
(* the calls nor their patterns change.                                    *)
LEMMA CallChanges ==
  ASSUME NEW ds \in Seq(Call), ds # <<>>, Deep(ds), NEW es,
         NEW c \in Call, c.pattern = ds[Len(ds)].pattern,
         es = [ds EXCEPT ![Len(ds)] = c]
  PROVE  es \in Seq(Call) /\ es # <<>> /\ Deep(es)
<1>1. Len(ds) \in Nat \ {0} /\ DOMAIN ds = 1 .. Len(ds)
  OBVIOUS
<1>2. es \in Seq(Call) /\ Len(es) = Len(ds) /\ DOMAIN es = DOMAIN ds /\ es # <<>>
  BY <1>1
<1>3. \A d \in DOMAIN ds : es[d].pattern = ds[d].pattern
  BY <1>1
<1>4. 1 \in DOMAIN ds
  BY <1>1
<1>5. QED
  BY <1>2, <1>3, <1>4 DEF Deep

(* The innermost call may return to another one.                           *)
LEMMA CallReturns ==
  ASSUME NEW ds \in Seq(Call), Len(ds) > 1, Deep(ds), NEW es,
         es = SubSeq(ds, 1, Len(ds) - 1)
  PROVE  es \in Seq(Call) /\ es # <<>> /\ Deep(es)
<1>1. PICK n \in Nat : n = Len(ds) - 1 /\ n >= 1 /\ Len(ds) = n + 1
  OBVIOUS
<1>2. es \in Seq(Call) /\ Len(es) = n /\ \A d \in 1 .. n : es[d] = ds[d]
  BY <1>1
<1>3. DOMAIN es = 1 .. n /\ 1 .. n \subseteq DOMAIN ds /\ es # <<>>
  BY <1>1, <1>2, SMTT(20)
<1>4. es[1] = ds[1]
  BY <1>1, <1>2
<1>5. QED
  BY <1>2, <1>3, <1>4 DEF Deep

(* It may call itself with the rest of a pattern that has another part.    *)
LEMMA CallEnters ==
  ASSUME NEW ds \in Seq(Call), ds # <<>>, Deep(ds), NEW b \in Nat,
         Len(ds[Len(ds)].pattern) > 1, NEW es,
         es = Append(ds, Frame(b, Tail(ds[Len(ds)].pattern)))
  PROVE  es \in Seq(Call) /\ es # <<>> /\ Deep(es)
<1>1. PICK n \in Nat : n = Len(ds) /\ n >= 1
  OBVIOUS
<1>2. PICK p \in Seq(Part) : p = ds[n].pattern
  <2>1. ds[n] \in Call
    BY <1>1
  <2>2. QED
    BY <2>1 DEF Call
<1>3. Len(p) > 1 /\ Tail(p) \in Seq(Part) /\ Len(Tail(p)) = Len(p) - 1
  BY <1>1, <1>2
<1>4. PICK c \in Call : c = Frame(b, Tail(p))
  BY <1>3 DEF Call, Frame
<1>5. c.pattern = Tail(p)
  BY <1>4 DEF Frame
<1>6. es = Append(ds, c)
  BY <1>1, <1>2, <1>4
<1>7. /\ es \in Seq(Call) /\ es # <<>> /\ DOMAIN es = 1 .. n + 1
      /\ es[n + 1] = c /\ \A d \in 1 .. n : es[d] = ds[d]
  BY <1>1, <1>6
<1>8. es[1] = ds[1] /\ DOMAIN ds = 1 .. n
  BY <1>1, <1>7
<1>9. PICK q \in Seq(Part) : q = ds[1].pattern
  <2>1. ds[1] \in Call
    BY <1>1
  <2>2. QED
    BY <2>1 DEF Call
<1>10. Len(p) = Len(q) - n + 1
  <2>1. Len(ds[n].pattern) = Len(ds[1].pattern) - n + 1
    <3>1. n \in DOMAIN ds
      BY <1>1, <1>8
    <3>2. QED
      BY <3>1, Zenon DEF Deep
  <2>2. QED
    BY <2>1, <1>2, <1>9
<1>11. Len(es[n + 1].pattern) = Len(es[1].pattern) - (n + 1) + 1
  <2>1. Len(Tail(p)) = Len(q) - (n + 1) + 1
    <3>1. PICK i \in Nat, j \in Nat, k \in Nat :
            i = Len(p) /\ j = Len(q) /\ k = Len(Tail(p))
      <4>1. Len(p) \in Nat /\ Len(q) \in Nat /\ Len(Tail(p)) \in Nat
        BY <1>2, <1>3, <1>9
      <4>2. QED
        BY <4>1, Zenon
    <3>2. k = i - 1 /\ i = j - n + 1
      BY <1>3, <1>10, <3>1
    <3>3. k = j - (n + 1) + 1
      BY <1>1, <3>2
    <3>4. QED
      BY <3>1, <3>3
  <2>2. es[n + 1].pattern = Tail(p) /\ es[1].pattern = q
    BY <1>5, <1>7, <1>8, <1>9
  <2>3. QED
    BY <2>1, <2>2
<1>12. es[n + 1].pattern # <<>>
  BY <1>3, <1>5, <1>7
<1>13. ASSUME NEW d \in 1 .. n
       PROVE  /\ Len(es[d].pattern) = Len(es[1].pattern) - d + 1
              /\ es[d].pattern # <<>>
  BY <1>7, <1>8 DEF Deep
<1>14. ASSUME NEW d \in DOMAIN es
       PROVE  /\ Len(es[d].pattern) = Len(es[1].pattern) - d + 1
              /\ es[d].pattern # <<>>
  <2>1. d = n + 1 \/ d \in 1 .. n
    BY <1>1, <1>7
  <2>2. QED
    BY <2>1, <1>11, <1>12, <1>13
<1>15. QED
  BY <1>7, <1>14 DEF Deep

(* The loop goes on to the next record.                                    *)
LEMMA NextRecordKeeps ==
  ASSUME NEW ds \in Seq(Call), ds # <<>>, Deep(ds),
         NextRecord(ds)
  PROVE  dirs' \in Seq(Call) /\ dirs' # <<>> /\ Deep(dirs') /\ pc' = "dirent"
<1>1. Len(ds) \in DOMAIN ds /\ ds[Len(ds)] \in Call
  OBVIOUS
<1>2. IdxModulus \in Nat \ {0}
  <2>1. IdxModulus \in 2 .. WordMax + 1
    BY FindAssumption, Zenon
  <2>2. WordMax \in Nat
    BY SMT DEF WordMax
  <2>3. QED
    BY <2>1, <2>2
<1>3. PICK c : c = [ds[Len(ds)] EXCEPT !.idx = (@ + 1) % IdxModulus]
  OBVIOUS
<1>4. (ds[Len(ds)].idx + 1) % IdxModulus \in Nat
  BY <1>1, <1>2 DEF Call
<1>5. c \in Call /\ c.pattern = ds[Len(ds)].pattern
  BY <1>1, <1>3, <1>4 DEF Call
<1>6. dirs' = [ds EXCEPT ![Len(ds)] = c]
  BY <1>3 DEF NextRecord
<1>7. QED
  BY <1>5, <1>6, CallChanges DEF NextRecord

LEMMA ReturnKeeps ==
  ASSUME SearchTypeOK, Deep(dirs), Return
  PROVE  dirs' \in Seq(Call) /\ dirs' # <<>> /\ Deep(dirs') /\ pc' # "library"
<1>1. CASE Len(dirs) > 1
  <2>1. PICK ds : ds = SubSeq(dirs, 1, Len(dirs) - 1)
    OBVIOUS
  <2>2. ds \in Seq(Call) /\ ds # <<>> /\ Deep(ds)
    BY <1>1, <2>1, CallReturns DEF SearchTypeOK
  <2>3. NextRecord(ds)
    BY <1>1, <2>1 DEF Return
  <2>4. QED
    BY <2>2, <2>3, NextRecordKeeps
<1>2. CASE ~(Len(dirs) > 1)
  BY <1>2 DEF Return, SearchTypeOK
<1>3. QED
  BY <1>1, <1>2

(* What the volume and the user supply.                                    *)
LEMMA Parameters ==
  /\ \A s \in DOMAIN Header : Header[s] \in Nat
  /\ \A s \in DOMAIN Dirents : \A k \in 0 .. DirentsPerSector - 1 :
       Dirents[s][k].entry \in Nat /\ Dirents[s][k].offset \in Nat
  /\ BaseDir \in Nat /\ NoSector \in Nat
  /\ \A p \in Patterns : p \in Seq(Part) /\ p # <<>>
<1>1. /\ \A s \in DOMAIN Header : Header[s] \in Nat
      /\ BaseDir \in Nat /\ NoSector \in Nat \ Sectors
      /\ Patterns \subseteq Seq(SUBSET STRING) \ {<<>>}
  BY FindAssumption, Zenon
<1>2. \A s \in DOMAIN Dirents : \A k \in 0 .. DirentsPerSector - 1 :
        Dirents[s][k].entry \in Byte /\ Dirents[s][k].offset \in Word
  BY FindAssumption, Zenon
<1>3. Byte \subseteq Nat /\ Word \subseteq Nat
  BY DEF Byte, Word, WordMax
<1>4. \A s \in DOMAIN Dirents : \A k \in 0 .. DirentsPerSector - 1 :
        Dirents[s][k].entry \in Nat /\ Dirents[s][k].offset \in Nat
  BY <1>2, <1>3, Zenon
<1>5. \A p \in Patterns : p \in Seq(Part) /\ p # <<>>
  BY <1>1 DEF Part
<1>6. QED
  BY <1>1, <1>4, <1>5

LEMMA SearchStarts ==
  ASSUME FindInit
  PROVE  SearchIInv
<1>1. PICK p \in Patterns : dirs = <<Frame(BaseDir, p)>>
  BY Zenon DEF FindInit
<1>2. p \in Seq(Part) /\ p # <<>> /\ BaseDir \in Nat
  BY <1>1, Parameters
<1>3. PICK c \in Call : c = Frame(BaseDir, p)
  BY <1>2 DEF Call, Frame
<1>4. c.pattern = p
  BY <1>3 DEF Frame
<1>5. dirs = <<c>>
  BY <1>1, <1>3
<1>6. dirs \in Seq(Call) /\ dirs # <<>> /\ DOMAIN dirs = {1} /\ dirs[1] = c
  BY <1>5
<1>7. DepthFollowsPattern
  <2>1. Len(p) = Len(p) - 1 + 1
    BY <1>2
  <2>2. QED
    BY <1>2, <1>4, <1>6, <2>1 DEF DepthFollowsPattern
<1>8. /\ pc = "header"
      /\ rec.entry = 0 /\ rec.offset = 0
      /\ cur = [base |-> 0, absolute |-> FALSE,
                start |-> [sector |-> 0, slot |-> 0], blk |-> 1]
      /\ dev = "OPEN" /\ next = cur.start
  BY DEF FindInit, WalkInit
<1>9. cur.base = 0 /\ cur.absolute = FALSE /\ cur.start \in Position
  BY <1>8 DEF Position
<1>10. dev \in DeviceStates /\ next \in Position
  BY <1>8, <1>9 DEF DeviceStates
<1>11. QED
  BY <1>6, <1>7, <1>8, <1>9, <1>10 DEF SearchIInv, SearchTypeOK

(* What is left to show of a step that does not find a library.            *)
LEMMA SearchKept ==
  ASSUME dev' \in DeviceStates, next' \in Position,
         rec'.entry \in Nat, rec'.offset \in Nat,
         cur'.base \in Nat, cur'.absolute \in BOOLEAN, cur'.start \in Position,
         dirs' \in Seq(Call), dirs' # <<>>, Deep(dirs'), pc' # "library"
  PROVE  SearchIInv'
BY DEF SearchIInv, SearchTypeOK, DepthFollowsPattern, Deep

(* The innermost call.                                                     *)
LEMMA InnermostCall ==
  ASSUME SearchTypeOK
  PROVE  /\ Len(dirs) \in DOMAIN dirs /\ dirs[Len(dirs)] \in Call
         /\ Here = dirs[Len(dirs)]
BY DEF SearchTypeOK, Here

LEMMA ReadHeaderKeeps ==
  ASSUME SearchIInv, ReadHeader
  PROVE  SearchIInv'
<1>1. PICK ok \in BOOLEAN :
        /\ ReadSector(Here.base, ok)
        /\ ok => Here.base \in DOMAIN Header
        /\ IF ok
           THEN /\ dirs' = [dirs EXCEPT ![Len(dirs)].alist = Header[Here.base],
                                        ![Len(dirs)].idx = 1]
                /\ pc' = "dirent"
           ELSE Return
  BY Zenon DEF ReadHeader
<1>2. UNCHANGED <<next, num, last, out, rec, cur>>
  BY DEF ReadHeader
<1>3. SearchTypeOK /\ Deep(dirs)
  BY DEF SearchIInv, DepthFollowsPattern, Deep
<1>4. dev' \in DeviceStates /\ next' \in Position
  BY <1>1, <1>2, <1>3, ReadSectorStep DEF SearchTypeOK
<1>5. dirs' \in Seq(Call) /\ dirs' # <<>> /\ Deep(dirs') /\ pc' # "library"
  <2>1. CASE ok
    <3>1. PICK h \in Nat : h = Header[Here.base]
      BY <1>1, <2>1, Parameters
    <3>2. PICK c : c = [dirs[Len(dirs)] EXCEPT !.alist = h, !.idx = 1]
      OBVIOUS
    <3>3. c \in Call /\ c.pattern = dirs[Len(dirs)].pattern
      BY <1>3, <3>2, InnermostCall DEF Call
    <3>4. dirs' = [dirs EXCEPT ![Len(dirs)] = c]
      BY <1>1, <1>3, <2>1, <3>1, <3>2, InnermostCall DEF SearchTypeOK
    <3>5. QED
      BY <1>1, <1>3, <2>1, <3>3, <3>4, CallChanges DEF SearchTypeOK
  <2>2. CASE ~ok
    BY <1>1, <1>3, <2>2, ReturnKeeps
  <2>3. QED
    BY <2>1, <2>2
<1>6. QED
  BY <1>2, <1>3, <1>4, <1>5, SearchKept DEF SearchTypeOK

LEMMA ReadDirentKeeps ==
  ASSUME SearchIInv, ReadDirent
  PROVE  SearchIInv'
<1> DEFINE s == RecordSector(Here.base, Here.idx)
           k == Here.idx % DirentsPerSector
<1>1. PICK ok \in BOOLEAN :
        /\ ReadSector(s, ok)
        /\ ok => s \in DOMAIN Dirents
        /\ IF ok
           THEN IF Dirents[s][k].name # NoName
                THEN rec' = Dirents[s][k] /\ pc' = "attr" /\ UNCHANGED dirs
                ELSE Return /\ UNCHANGED rec
           ELSE Return /\ UNCHANGED rec
  BY Zenon DEF ReadDirent, RecordAt
<1>2. UNCHANGED <<next, num, last, out, cur>>
  BY DEF ReadDirent
<1>3. SearchTypeOK /\ Deep(dirs)
  BY DEF SearchIInv, DepthFollowsPattern, Deep
<1>4. dev' \in DeviceStates /\ next' \in Position
  BY <1>1, <1>2, <1>3, ReadSectorStep DEF SearchTypeOK
<1>5. k \in 0 .. DirentsPerSector - 1
  <2>1. PICK i \in Nat : i = Here.idx
    BY <1>3, InnermostCall DEF Call
  <2>2. i % 25 \in 0 .. 24
    OBVIOUS
  <2>3. QED
    BY <2>1, <2>2 DEF DirentsPerSector
<1> HIDE DEF s, k
<1>6. CASE ok /\ Dirents[s][k].name # NoName
  <2>1. rec'.entry \in Nat /\ rec'.offset \in Nat
    BY <1>1, <1>5, <1>6, Parameters
  <2>2. QED
    BY <1>1, <1>2, <1>3, <1>4, <1>6, <2>1, SearchKept DEF SearchTypeOK
<1>7. CASE ~(ok /\ Dirents[s][k].name # NoName)
  BY <1>1, <1>2, <1>3, <1>4, <1>7, ReturnKeeps, SearchKept DEF SearchTypeOK
<1>8. QED
  BY <1>6, <1>7

LEMMA ReadAttrKeeps ==
  ASSUME SearchIInv, ReadAttr
  PROVE  SearchIInv'
<1> DEFINE p == Attributes(Here, rec)
<1>1. PICK ok \in BOOLEAN :
        /\ ReadSector(p.sector, ok)
        /\ \E i : cur' = [base |-> Here.base, absolute |-> Here.alist # 0,
                          start |-> FollowingSlot(p), blk |-> 2 ^ i]
  BY Zenon DEF ReadAttr, FileOf
<1>2. pc' = "match" /\ UNCHANGED <<next, num, last, out, dirs, rec>>
  BY DEF ReadAttr
<1>3. SearchTypeOK /\ Deep(dirs)
  BY DEF SearchIInv, DepthFollowsPattern, Deep
<1>4. dev' \in DeviceStates /\ next' \in Position
  BY <1>1, <1>2, <1>3, ReadSectorStep DEF SearchTypeOK
<1>5. /\ Here.base \in Nat /\ Here.alist \in Nat
      /\ rec.offset \in Nat /\ rec.entry \in Nat
  BY <1>3, InnermostCall DEF Call, SearchTypeOK
<1>6. p \in Position
  BY <1>5 DEF Position, Attributes
<1>7. FollowingSlot(p) \in Position
  BY <1>6 DEF Position, FollowingSlot
<1> HIDE DEF p
<1>8. cur'.base \in Nat /\ cur'.absolute \in BOOLEAN /\ cur'.start \in Position
  BY <1>1, <1>5, <1>7
<1>9. QED
  BY <1>2, <1>3, <1>4, <1>8, SearchKept DEF SearchTypeOK

(* An entry fetched from a list, and where it leads.                       *)
LEMMA FetchedEntry ==
  ASSUME SearchTypeOK, NEW e \in FetchedEntries, FetchEntry(e)
  PROVE  /\ e \in Entry /\ dev' \in DeviceStates
         /\ LinkTarget(cur, e) \in Position /\ Extent(cur, e) \in Nat
<1>1. e \in Entry /\ dev' \in DeviceStates
  BY FetchEntryStep DEF SearchTypeOK
<1>2. PICK f \in File : f.base = cur.base /\ f.absolute = cur.absolute
  <2>1. [base |-> cur.base, absolute |-> cur.absolute, start |-> cur.start, blk |-> 1] \in File
    BY DEF SearchTypeOK, File
  <2>2. QED
    BY <2>1
<1>3. LinkTarget(f, e) \in Position /\ Extent(f, e) \in Nat
  BY <1>1, DecodedTypes
<1>4. LinkTarget(cur, e) = LinkTarget(f, e) /\ Extent(cur, e) = Extent(f, e)
  BY <1>2 DEF LinkTarget, Extent
<1>5. QED
  BY <1>1, <1>3, <1>4

LEMMA EnterLibraryKeeps ==
  ASSUME SearchIInv, EnterLibrary
  PROVE  SearchIInv'
<1>1. PICK e \in FetchedEntries :
        /\ FetchEntry(e)
        /\ IF IsPointer(e) /\ ~IsEnd(e)
           THEN next' = LinkTarget(cur, e) /\ UNCHANGED <<dirs, pc>>
           ELSE /\ dirs' = Append(dirs, Frame(IF IsEnd(e) THEN NoSector ELSE Extent(cur, e),
                                                   Tail(Here.pattern)))
                /\ pc' = "header"
                /\ UNCHANGED next
  BY Zenon DEF EnterLibrary
<1>2. pc = "library" /\ UNCHANGED <<num, last, out, rec, cur>>
  BY DEF EnterLibrary
<1>3. SearchTypeOK /\ Deep(dirs)
  BY DEF SearchIInv, DepthFollowsPattern, Deep
<1>4. Len(dirs[Len(dirs)].pattern) > 1
  BY <1>2 DEF SearchIInv
<1>5. /\ dev' \in DeviceStates
      /\ LinkTarget(cur, e) \in Position /\ Extent(cur, e) \in Nat
  BY <1>1, <1>3, FetchedEntry
<1>6. CASE IsPointer(e) /\ ~IsEnd(e)
  BY <1>1, <1>2, <1>3, <1>5, <1>6
     DEF SearchIInv, SearchTypeOK, DepthFollowsPattern
<1>7. CASE ~(IsPointer(e) /\ ~IsEnd(e))
  <2>1. PICK b \in Nat : b = IF IsEnd(e) THEN NoSector ELSE Extent(cur, e)
    BY <1>5, Parameters
  <2>2. dirs' = Append(dirs, Frame(b, Tail(dirs[Len(dirs)].pattern)))
    BY <1>1, <1>3, <1>7, <2>1, InnermostCall
  <2>3. dirs' \in Seq(Call) /\ dirs' # <<>> /\ Deep(dirs')
    BY <1>3, <1>4, <2>2, CallEnters DEF SearchTypeOK
  <2>4. QED
    BY <1>1, <1>2, <1>3, <1>5, <1>7, <2>3, SearchKept DEF SearchTypeOK
<1>8. QED
  BY <1>6, <1>7

(* The steps that read no directory.                                       *)
LEMMA WalkKeeps ==
  ASSUME SearchIInv, Walk \/ PrintExtent
  PROVE  SearchIInv'
<1>1. /\ UNCHANGED <<dirs, rec, cur>>
      /\ \/ FollowLink(cur) \/ TakeExtent(cur) \/ EndOfList
         \/ CopyBlock \/ PrintExtent
  BY DEF Walk, PrintExtent
<1>2. SearchTypeOK /\ Deep(dirs)
  BY DEF SearchIInv, DepthFollowsPattern, Deep
<1>3. FollowingSlot(next) \in Position
  BY <1>2 DEF SearchTypeOK, Position, FollowingSlot
<1>4. dev' \in DeviceStates /\ next' \in Position /\ pc' # "library"
  <2>1. CASE FollowLink(cur)
    BY <1>2, <2>1, FetchedEntry DEF FollowLink
  <2>2. CASE TakeExtent(cur)
    BY <1>2, <1>3, <2>2, FetchedEntry DEF TakeExtent
  <2>3. CASE EndOfList
    BY <1>2, <2>3, FetchedEntry DEF EndOfList, SearchTypeOK
  <2>4. CASE CopyBlock
    BY <1>2, <2>4, ReadSectorStep DEF CopyBlock, SearchTypeOK
  <2>5. CASE PrintExtent
    BY <1>2, <1>3, <2>5, FetchedEntry DEF PrintExtent
  <2>6. QED
    BY <1>1, <2>1, <2>2, <2>3, <2>4, <2>5
<1>5. QED
  BY <1>1, <1>2, <1>4, SearchKept DEF SearchTypeOK

LEMMA RecordKeeps ==
  ASSUME SearchIInv,
         SkipRecord \/ IndexWrapped \/ FileDone \/ FoundFile
  PROVE  SearchIInv'
<1>1. SearchTypeOK /\ Deep(dirs)
  BY DEF SearchIInv, DepthFollowsPattern, Deep
<1>2. CASE SkipRecord
  BY <1>1, <1>2, NextRecordKeeps, SearchKept DEF SkipRecord, SearchTypeOK
<1>3. CASE IndexWrapped
  BY <1>1, <1>3, ReturnKeeps, SearchKept DEF IndexWrapped, SearchTypeOK
<1>4. CASE FileDone
  BY <1>1, <1>4, NextRecordKeeps, SearchKept DEF FileDone, SearchTypeOK
<1>5. CASE FoundFile
  <2>1. UNCHANGED <<dev, rec, cur>>
    BY <1>5 DEF FoundFile
  <2>2. \/ pc' = "dalent" /\ next' = cur.start /\ UNCHANGED dirs
        \/ NextRecord(dirs) /\ UNCHANGED next
    BY <1>5, Zenon DEF FoundFile
  <2>3. QED
    BY <1>1, <2>1, <2>2, NextRecordKeeps, SearchKept DEF SearchTypeOK
<1>6. QED
  BY <1>2, <1>3, <1>4, <1>5

LEMMA FoundLibraryKeeps ==
  ASSUME SearchIInv, FoundLibrary
  PROVE  SearchIInv'
<1>1. /\ Len(Here.pattern) > 1
      /\ pc' = "library" /\ next' = cur.start
      /\ UNCHANGED <<dev, dirs, rec, cur>>
  BY DEF FoundLibrary
<1>2. QED
  BY <1>1, InnermostCall
     DEF SearchIInv, SearchTypeOK, DepthFollowsPattern

LEMMA SearchSteps ==
  ASSUME SearchIInv, [FindNext]_findVars
  PROVE  SearchIInv'
<1>1. CASE FindCrash
  BY <1>1, SearchKept DEF SearchIInv, SearchTypeOK, DepthFollowsPattern, Deep,
     FindCrash, Crash
<1>2. CASE UNCHANGED findVars
  BY <1>2 DEF SearchIInv, SearchTypeOK, DepthFollowsPattern, findVars, walkVars
<1>3. QED
  BY <1>1, <1>2, ReadHeaderKeeps, ReadDirentKeeps, ReadAttrKeeps, RecordKeeps,
     FoundLibraryKeeps, EnterLibraryKeeps, WalkKeeps
     DEF FindNext, FindStep, FindTerminated

(* However deep the libraries of a volume are nested, well-formed or not,  *)
(* and whatever reads fail: centfs_dir_find calls itself at most once for  *)
(* every part of the pattern, and each call has a part to match.           *)
THEOREM SearchFollowsPattern ==
  FindSpec => []DepthFollowsPattern
<1>1. SearchIInv => DepthFollowsPattern
  BY DEF SearchIInv
<1>2. FindInit => SearchIInv
  BY SearchStarts
<1>3. SearchIInv /\ [FindNext]_findVars => SearchIInv'
  BY SearchSteps
<1>4. QED
  BY <1>1, <1>2, <1>3, PTL DEF FindSpec

(***************************************************************************)
(* What the search finds.                                                  *)
(***************************************************************************)
Blocks == Nat \union {Junk}
Output == [name : STRING, blocks : Seq(Blocks)]

(* What each file of directory b adds to what part k of p finds, if the    *)
(* parts behind it find `below' in the directories.                        *)
Yields(c, p, k, b, below) ==
  [i \in DOMAIN Volume[b] |->
    IF k = Len(p) THEN OfFile(c, Volume[b][i], p[k])
                  ELSE OfLibrary(Volume[b][i], p[k], below)]
Level(c, p, k, below) == [b \in DOMAIN Volume |-> FlattenSeq(Yields(c, p, k, b, below))]

(* The function that Found defines.                                        *)
Finds(g, c, p)  == g = [k \in 1 .. Len(p) |-> Level(c, p, k, g[k + 1])]
Tables(c, p)    == CHOOSE g : Finds(g, c, p)
Items(c, p, k, b) == Yields(c, p, k, b, Tables(c, p)[k + 1])

LEMMA CommandsAre ==
  ASSUME NEW c \in Commands
  PROVE  c.callback \in {"list", "index", "extract"}
BY FindAssumption, Zenon

LEMMA PatternsAre ==
  ASSUME NEW p \in Patterns
  PROVE  p \in Seq(Part) /\ Len(p) \in Nat \ {0}
<1>1. p \in Seq(Part) /\ p # <<>>
  BY Parameters
<1> QED BY <1>1

(* What the assumption says of one directory, and of one file.             *)
LEMMA DirectoryIs ==
  ASSUME NEW b \in DOMAIN Volume
  PROVE  /\ b \in DOMAIN Header /\ Header[b] \in Nat
         /\ Volume[b] \in Seq(VolumeFile) /\ Len(Volume[b]) \in Nat
         /\ DOMAIN Volume[b] = 1 .. Len(Volume[b])
         /\ Len(Volume[b]) < IdxModulus
         /\ Len(Volume[b]) + 1 < IdxModulus => RecordAt(b, Len(Volume[b]) + 1).name = NoName
<1>1. /\ DOMAIN Volume \subseteq DOMAIN Header
      /\ Volume[b] \in Seq(VolumeFile)
      /\ \/ Len(Volume[b]) + 1 = IdxModulus
         \/ /\ Len(Volume[b]) + 1 < IdxModulus
            /\ RecordAt(b, Len(Volume[b]) + 1).name = NoName
  BY VolumeAssumption, Zenon
<1>2. Len(Volume[b]) \in Nat /\ DOMAIN Volume[b] = 1 .. Len(Volume[b])
  BY <1>1
<1>3. Len(Volume[b]) < IdxModulus
  <2>1. IdxModulus \in 2 .. WordMax + 1 /\ WordMax \in Nat
    <3>1. IdxModulus \in 2 .. WordMax + 1
      BY FindAssumption, Zenon
    <3>2. WordMax \in Nat
      BY DEF WordMax
    <3> QED BY <3>1, <3>2
  <2> QED BY <1>1, <1>2, <2>1
<1>4. Len(Volume[b]) + 1 < IdxModulus => RecordAt(b, Len(Volume[b]) + 1).name = NoName
  BY <1>1, <1>2
<1> QED BY <1>1, <1>2, <1>3, <1>4, Parameters

LEMMA FileIs ==
  ASSUME NEW b \in DOMAIN Volume, NEW i \in DOMAIN Volume[b]
  PROVE  /\ Volume[b][i] \in VolumeFile
         /\ Described(b, i)
         /\ Volume[b][i].type = "LIB" /\ Volume[b][i].extents # <<>> =>
              Volume[b][i].extents[1] \in DOMAIN Volume
<1>1. Volume[b][i] \in VolumeFile
  BY DirectoryIs
<1>2. Described(b, i)
  BY VolumeAssumption, Zenon
<1>3. Volume[b][i].type = "LIB" /\ Volume[b][i].extents # <<>> =>
        Volume[b][i].extents[1] \in DOMAIN Volume
  BY <1>2, Zenon DEF Described
<1> QED BY <1>1, <1>2, <1>3

(* What the record of a file has in it.                                    *)
LEMMA FileFields ==
  ASSUME NEW f \in VolumeFile
  PROVE  /\ f.name \in STRING /\ f.size \in Nat \ {0} /\ f.extents \in Seq(Nat)
         /\ f.chain \in Seq([at : Position, ahead : Nat])
<1>1. \A A, B, C, D, E : \A g \in [name : A, type : B, size : C, extents : D, chain : E] :
        g.name \in A /\ g.size \in C /\ g.extents \in D /\ g.chain \in E
  OBVIOUS
<1> QED BY <1>1, Zenon DEF VolumeFile

(* The blocks of a file, by its extents.                                   *)
LEMMA PiecesAre ==
  ASSUME NEW f \in VolumeFile
  PROVE  /\ f.extents \in Seq(Nat) /\ f.size \in Nat \ {0}
         /\ Pieces(f) \in Seq(Seq(Nat)) /\ Len(Pieces(f)) = Len(f.extents)
         /\ Pieces(f) \in Seq(Seq(Blocks))
         /\ \A k \in 1 .. Len(f.extents) :
              /\ Pieces(f)[k] \in Seq(Nat) /\ Len(Pieces(f)[k]) = f.size
              /\ \A j \in 1 .. f.size : Pieces(f)[k][j] = f.extents[k] + j - 1
<1>1. f.extents \in Seq(Nat) /\ f.size \in Nat \ {0}
  BY FileFields, Zenon
<1>2. PICK e \in Seq(Nat), z \in Nat \ {0} : e = f.extents /\ z = f.size
  BY <1>1
<1>3. Pieces(f) = [k \in 1 .. Len(e) |-> [j \in 1 .. z |-> e[k] + j - 1]]
  BY <1>2 DEF Pieces
<1>4. \A k \in 1 .. Len(e) : [j \in 1 .. z |-> e[k] + j - 1] \in Seq(Nat)
  <2>1. \A k \in 1 .. Len(e) : e[k] \in Nat
    OBVIOUS
  <2>2. \A k \in 1 .. Len(e) : \A j \in 1 .. z : e[k] + j - 1 \in Nat
    BY <2>1
  <2> QED BY <2>2
<1>5. Pieces(f) \in Seq(Seq(Nat)) /\ Len(Pieces(f)) = Len(e)
  BY <1>3, <1>4
<1>6. Seq(Seq(Nat)) \subseteq Seq(Seq(Blocks))
  <2>1. Seq(Nat) \subseteq Seq(Blocks)
    BY DEF Blocks
  <2> QED BY <2>1
<1>7. \A k \in 1 .. Len(e) :
              /\ Pieces(f)[k] \in Seq(Nat) /\ Len(Pieces(f)[k]) = z
              /\ \A j \in 1 .. z : Pieces(f)[k][j] = e[k] + j - 1
  <2> SUFFICES ASSUME NEW k \in 1 .. Len(e)
               PROVE  /\ Pieces(f)[k] \in Seq(Nat) /\ Len(Pieces(f)[k]) = z
                      /\ \A j \in 1 .. z : Pieces(f)[k][j] = e[k] + j - 1
    OBVIOUS
  <2>1. Pieces(f)[k] = [j \in 1 .. z |-> e[k] + j - 1]
    BY <1>3
  <2> QED BY <1>4, <2>1
<1> QED BY <1>1, <1>2, <1>5, <1>6, <1>7

LEMMA ResultIs ==
  ASSUME NEW c \in Commands, NEW f \in VolumeFile
  PROVE  /\ Result(c, f) \in Output
         /\ Result(c, f).name = f.name
         /\ c.callback = "list"    => Result(c, f).blocks = <<>>
         /\ c.callback = "index"   => Result(c, f).blocks = f.extents
         /\ c.callback = "extract" => Result(c, f).blocks = FlattenSeq(Pieces(f))
<1>1. PICK x : x = Result(c, f).blocks
  OBVIOUS
<1>2. /\ c.callback = "list"    => x = <<>>
      /\ c.callback = "index"   => x = f.extents
      /\ c.callback = "extract" => x = FlattenSeq(Pieces(f))
  BY <1>1 DEF Result
<1>3. Result(c, f) = [name |-> f.name, blocks |-> x]
  <2>1. \A u, v : [name |-> u, blocks |-> v].blocks = v
    OBVIOUS
  <2> QED BY <1>1, <2>1, Zenon DEF Result
<1>4. f.name \in STRING /\ f.extents \in Seq(Blocks)
  <2>1. f.name \in STRING
    BY FileFields, Zenon
  <2>2. Seq(Nat) \subseteq Seq(Blocks)
    BY DEF Blocks
  <2> QED BY <2>1, <2>2, PiecesAre
<1>5. FlattenSeq(Pieces(f)) \in Seq(Blocks)
  BY PiecesAre, FlattenType
<1>6. x \in Seq(Blocks)
  <2>1. <<>> \in Seq(Blocks)
    OBVIOUS
  <2> QED BY <1>2, <1>4, <1>5, <2>1, CommandsAre
<1> QED BY <1>1, <1>2, <1>3, <1>4, <1>6 DEF Output

(* The last level does not look at what is below it.                       *)
LEMMA LastLevel ==
  ASSUME NEW c, NEW p, NEW x, NEW y
  PROVE  Level(c, p, Len(p), x) = Level(c, p, Len(p), y)
<1>1. \A b : Yields(c, p, Len(p), b, x) = Yields(c, p, Len(p), b, y)
  BY Zenon DEF Yields
<1> QED BY <1>1, Zenon DEF Level

LEMMA TablesExist ==
  ASSUME NEW c \in Commands, NEW p \in Patterns
  PROVE  Finds(Tables(c, p), c, p)
<1>1. PICK n \in Nat : n = Len(p)
  BY PatternsAre
<1> DEFINE From(g, m) == \A k \in 1 .. n : k + m > n => g[k] = Level(c, p, k, g[k + 1])
           T == { m \in Nat : \E g : From(g, m) }
<1>2. 0 \in T
  OBVIOUS
<1>3. ASSUME NEW m \in Nat, m \in T PROVE m + 1 \in T
  <2>1. PICK g : From(g, m)
    BY <1>3
  <2>2. PICK h : h = [k \in 1 .. n |-> IF k + m = n THEN Level(c, p, k, g[k + 1]) ELSE g[k]]
    OBVIOUS
  <2>3. ASSUME NEW k \in 1 .. n, k + (m + 1) > n PROVE h[k] = Level(c, p, k, h[k + 1])
    <3>1. h[k] = Level(c, p, k, g[k + 1])
      <4>1. CASE k + m = n
        BY <2>2, <4>1
      <4>2. CASE k + m # n
        <5>1. k + m > n
          BY <2>3, <4>2
        <5>2. h[k] = g[k]
          BY <2>2, <4>2
        <5> QED BY <2>1, <5>1, <5>2
      <4> QED BY <4>1, <4>2
    <3>2. CASE k = n
      BY <1>1, <3>1, <3>2, LastLevel
    <3>3. CASE k # n
      <4>1. k + 1 \in 1 .. n /\ (k + 1) + m # n
        BY <2>3, <3>3
      <4>2. h[k + 1] = g[k + 1]
        BY <2>2, <4>1
      <4> QED BY <3>1, <4>2
    <3> QED BY <3>2, <3>3
  <2>4. From(h, m + 1)
    BY <2>3
  <2> HIDE DEF From
  <2> QED BY <2>4
<1>4. n \in T
  <2>1. \A m \in Nat : m \in T
    <3> HIDE DEF T
    <3> QED BY <1>2, <1>3, Induction
  <2> QED BY <2>1
<1>5. PICK g : From(g, n)
  BY <1>4
<1>6. \A k \in 1 .. n : g[k] = Level(c, p, k, g[k + 1])
  BY <1>5
<1>7. PICK h : h = [k \in 1 .. n |-> g[k]]
  OBVIOUS
<1>8. ASSUME NEW k \in 1 .. n PROVE g[k] = Level(c, p, k, h[k + 1])
  <2>1. CASE k = n
    BY <1>1, <1>6, <2>1, LastLevel
  <2>2. CASE k # n
    <3>1. k + 1 \in 1 .. n
      BY <2>2
    <3> QED BY <1>6, <1>7, <3>1
  <2> QED BY <2>1, <2>2
<1>9. h = [k \in 1 .. n |-> Level(c, p, k, h[k + 1])]
  BY <1>7, <1>8
<1>10. Finds(h, c, p)
  BY <1>1, <1>9 DEF Finds
<1> QED BY <1>10 DEF Tables

(* What Found gives, and the levels it is made of.                         *)
LEMMA ExpectedIs ==
  ASSUME NEW c \in Commands, NEW p \in Patterns
  PROVE  Expected[c][p] = Tables(c, p)[1][BaseDir]
<1>1. PICK h : h = Tables(c, p)
  OBVIOUS
<1>2. Found(c, p) = h[1][BaseDir]
  BY <1>1, Zenon DEF Found, Tables, Finds, Level, Yields
<1>3. Expected[c][p] = Found(c, p)
  BY DEF Expected
<1> QED BY <1>1, <1>2, <1>3

LEMMA TablesAre ==
  ASSUME NEW c \in Commands, NEW p \in Patterns, NEW k \in 1 .. Len(p), NEW b \in DOMAIN Volume
  PROVE  Tables(c, p)[k][b] = FlattenSeq(Items(c, p, k, b))
<1>1. Tables(c, p)[k] = Level(c, p, k, Tables(c, p)[k + 1])
  BY TablesExist, Zenon DEF Finds
<1> QED BY <1>1, Zenon DEF Level, Items

(* All these are sequences of files.                                       *)
LEMMA YieldsType ==
  ASSUME NEW c \in Commands, NEW p \in Patterns, NEW k \in 1 .. Len(p), NEW b \in DOMAIN Volume,
         NEW below, k # Len(p) => below \in [DOMAIN Volume -> Seq(Output)]
  PROVE  /\ Yields(c, p, k, b, below) \in Seq(Seq(Output))
         /\ Len(Yields(c, p, k, b, below)) = Len(Volume[b])
<1>1. ASSUME NEW i \in DOMAIN Volume[b]
      PROVE (IF k = Len(p) THEN OfFile(c, Volume[b][i], p[k])
             ELSE OfLibrary(Volume[b][i], p[k], below)) \in Seq(Output)
  <2>1. PICK f \in VolumeFile : f = Volume[b][i]
    BY FileIs
  <2>2. OfFile(c, f, p[k]) \in Seq(Output)
    <3>1. <<Result(c, f)>> \in Seq(Output) /\ <<>> \in Seq(Output)
      BY ResultIs
    <3> QED BY <3>1 DEF OfFile
  <2>3. ASSUME k # Len(p) PROVE OfLibrary(f, p[k], below) \in Seq(Output)
    <3>1. f.type = "LIB" /\ f.extents # <<>> => f.extents[1] \in DOMAIN Volume
      BY <2>1, FileIs
    <3>2. f.type = "LIB" /\ f.extents # <<>> => below[f.extents[1]] \in Seq(Output)
      BY <2>3, <3>1
    <3>3. <<>> \in Seq(Output)
      OBVIOUS
    <3> QED BY <3>2, <3>3 DEF OfLibrary
  <2> QED BY <2>1, <2>2, <2>3
<1>2. PICK n \in Nat : n = Len(Volume[b]) /\ DOMAIN Volume[b] = 1 .. n
  BY DirectoryIs
<1>3. Yields(c, p, k, b, below) \in [1 .. n -> Seq(Output)]
  BY <1>1, <1>2, Zenon DEF Yields
<1> QED BY <1>2, <1>3

LEMMA ItemsType ==
  ASSUME NEW c \in Commands, NEW p \in Patterns
  PROVE  \A k \in 1 .. Len(p) : \A b \in DOMAIN Volume :
           /\ Tables(c, p)[k][b] \in Seq(Output)
           /\ Items(c, p, k, b) \in Seq(Seq(Output))
           /\ Len(Items(c, p, k, b)) = Len(Volume[b])
<1>1. PICK n \in Nat : n = Len(p)
  BY PatternsAre
<1> DEFINE Typed(k) == Tables(c, p)[k] \in [DOMAIN Volume -> Seq(Output)]
           T == { m \in Nat : \A k \in 1 .. n : k + m > n => Typed(k) }
<1>2. 0 \in T
  OBVIOUS
<1>3. ASSUME NEW k \in 1 .. n, k # n => Typed(k + 1), NEW b \in DOMAIN Volume
      PROVE  /\ Items(c, p, k, b) \in Seq(Seq(Output))
             /\ Len(Items(c, p, k, b)) = Len(Volume[b])
  <2>1. PICK below : below = Tables(c, p)[k + 1]
    OBVIOUS
  <2>2. k # Len(p) => below \in [DOMAIN Volume -> Seq(Output)]
    BY <1>1, <1>3, <2>1
  <2>3. k \in 1 .. Len(p)
    BY <1>1
  <2> QED BY <2>1, <2>2, <2>3, YieldsType DEF Items
<1>4. ASSUME NEW k \in 1 .. n, k # n => Typed(k + 1)
      PROVE  Typed(k)
  <2>1. Tables(c, p)[k] = [b \in DOMAIN Volume |-> FlattenSeq(Items(c, p, k, b))]
    <3>1. k \in 1 .. Len(p)
      BY <1>1
    <3>2. Tables(c, p)[k] = Level(c, p, k, Tables(c, p)[k + 1])
      BY <3>1, TablesExist, Zenon DEF Finds
    <3> QED BY <3>2, Zenon DEF Level, Items
  <2>2. \A b \in DOMAIN Volume : FlattenSeq(Items(c, p, k, b)) \in Seq(Output)
    BY <1>3, <1>4, FlattenType
  <2> QED BY <2>1, <2>2
<1>5. ASSUME NEW m \in Nat, m \in T PROVE m + 1 \in T
  <2> HIDE DEF Typed
  <2>1. SUFFICES ASSUME NEW k \in 1 .. n, k + (m + 1) > n PROVE Typed(k)
    OBVIOUS
  <2>2. k # n => Typed(k + 1)
    <3>1. k # n => k + 1 \in 1 .. n /\ (k + 1) + m > n
      BY <2>1
    <3> QED BY <1>5, <3>1
  <2> QED BY <1>4, <2>2
<1>6. \A k \in 1 .. n : Typed(k)
  <2>1. n \in T
    <3>1. \A m \in Nat : m \in T
      <4> HIDE DEF T
      <4> QED BY <1>2, <1>5, Induction
    <3> QED BY <3>1
  <2> HIDE DEF Typed
  <2> QED BY <2>1
<1>7. ASSUME NEW k \in 1 .. n, NEW b \in DOMAIN Volume
      PROVE  /\ Tables(c, p)[k][b] \in Seq(Output)
             /\ Items(c, p, k, b) \in Seq(Seq(Output))
             /\ Len(Items(c, p, k, b)) = Len(Volume[b])
  <2>1. k # n => Typed(k + 1)
    <3>1. k # n => k + 1 \in 1 .. n
      OBVIOUS
    <3> HIDE DEF Typed
    <3> QED BY <1>6, <3>1
  <2>2. Typed(k)
    <3> HIDE DEF Typed
    <3> QED BY <1>6
  <2>3. Tables(c, p)[k][b] \in Seq(Output)
    BY <2>2
  <2>4. /\ Items(c, p, k, b) \in Seq(Seq(Output))
        /\ Len(Items(c, p, k, b)) = Len(Volume[b])
    <3> HIDE DEF Typed
    <3> QED BY <1>3, <2>1
  <2> QED BY <2>3, <2>4
<1> QED BY <1>1, <1>7

(***************************************************************************)
(* What is left to find.                                                   *)
(***************************************************************************)
(* By part k of p in directory b, from its record i on; an index that has  *)
(* come round to zero finds nothing.                                       *)
Rest(c, p, k, b, i) ==
  IF i = 0 THEN <<>> ELSE FlattenSeq(SubSeq(Items(c, p, k, b), i, Len(Volume[b])))

Advance(i) == (i + 1) % IdxModulus

(* The calls, when the innermost of them goes on to its next record.       *)
Moved(ds) == [ds EXCEPT ![Len(ds)].idx = (@ + 1) % IdxModulus]

(* A call that goes through the records of its directory.                  *)
Reading(call) ==
  /\ call.base \in DOMAIN Volume
  /\ call.alist = Header[call.base]
  /\ call.idx \in 0 .. Len(Volume[call.base]) + 1
  /\ call.idx < IdxModulus

(* The calls of a search for p: each has the parts of p from its own on.   *)
Stack(p, ds) ==
  /\ ds \in Seq(Call) /\ Len(ds) \in 1 .. Len(p)
  /\ \A d \in 1 .. Len(ds) : ds[d].pattern = SubSeq(p, d, Len(p))

(* The record the innermost call is at is that of a file, and what it gives. *)
AtFile(ds) == ds[Len(ds)].idx \in DOMAIN Volume[ds[Len(ds)].base]
Gives(c, p, ds) == Items(c, p, Len(ds), ds[Len(ds)].base)[ds[Len(ds)].idx]

(* w[d] is what the d outermost of the calls will still find when those    *)
(* inside them, the first n of them in a library, have returned.           *)
Behind(c, p, ds, n, w) ==
  /\ w[0] = <<>>
  /\ \A d \in 0 .. n : w[d] \in Seq(Output)
  /\ \A d \in 1 .. n :
       /\ Reading(ds[d]) /\ ds[d].idx \in DOMAIN Volume[ds[d].base]
       /\ w[d] = Rest(c, p, d, ds[d].base, Advance(ds[d].idx)) \o w[d - 1]

(* x is what all the calls will still find, beginning with the record the  *)
(* innermost one is at.                                                    *)
Left(c, p, ds, x) ==
  /\ Stack(p, ds)
  /\ Reading(ds[Len(ds)])
  /\ \E w : /\ Behind(c, p, ds, Len(ds) - 1, w)
            /\ x = Rest(c, p, Len(ds), ds[Len(ds)].base, ds[Len(ds)].idx) \o w[Len(ds) - 1]

LEMMA ModulusIs == IdxModulus \in Nat \ {0, 1}
<1>1. IdxModulus \in 2 .. WordMax + 1
  BY FindAssumption, Zenon
<1>2. WordMax \in Nat
  BY DEF WordMax
<1> QED BY <1>1, <1>2

LEMMA Small ==
  ASSUME NEW m \in Nat \ {0}
  PROVE  m % m = 0 /\ \A a \in Nat : a < m => a % m = a
OBVIOUS

LEMMA RestIs ==
  ASSUME NEW c \in Commands, NEW p \in Patterns, NEW k \in 1 .. Len(p), NEW b \in DOMAIN Volume
  PROVE  /\ \A i \in 0 .. Len(Volume[b]) + 1 : Rest(c, p, k, b, i) \in Seq(Output)
         /\ Rest(c, p, k, b, 0) = <<>>
         /\ Rest(c, p, k, b, Len(Volume[b]) + 1) = <<>>
         /\ Rest(c, p, k, b, 1) = Tables(c, p)[k][b]
         /\ \A i \in DOMAIN Volume[b] :
              /\ Items(c, p, k, b)[i] \in Seq(Output)
              /\ Rest(c, p, k, b, i) = Items(c, p, k, b)[i] \o Rest(c, p, k, b, Advance(i))
              /\ Advance(i) \in 0 .. Len(Volume[b]) + 1
              /\ Advance(i) < IdxModulus
<1>1. PICK s \in Seq(Seq(Output)), n \in Nat :
        s = Items(c, p, k, b) /\ n = Len(Volume[b]) /\ Len(s) = n
  BY ItemsType, DirectoryIs
<1>2. \A i \in 1 .. n + 1 : Rest(c, p, k, b, i) = FlattenSeq(SubSeq(s, i, n))
  BY <1>1 DEF Rest
<1>3. <<>> \in Seq(Output)
  OBVIOUS
<1>4. Rest(c, p, k, b, 0) = <<>>
  BY DEF Rest
<1>5. ASSUME NEW i \in 1 .. n + 1 PROVE Rest(c, p, k, b, i) \in Seq(Output)
  <2>1. SubSeq(s, i, n) \in Seq(Seq(Output))
    BY <1>1
  <2> QED BY <1>2, <2>1, FlattenType
<1>6. Rest(c, p, k, b, n + 1) = <<>>
  <2>1. SubSeq(s, n + 1, n) = <<>> /\ n + 1 \in 1 .. n + 1
    BY <1>1
  <2> QED BY <1>2, <2>1, FlattenEmpty, Zenon
<1>7. Rest(c, p, k, b, 1) = Tables(c, p)[k][b]
  <2>1. SubSeq(s, 1, n) = s /\ 1 \in 1 .. n + 1
    BY <1>1
  <2> QED BY <1>1, <1>2, <2>1, TablesAre, Zenon
<1>8. n + 1 <= IdxModulus /\ IdxModulus \in Nat \ {0} /\ DOMAIN Volume[b] = 1 .. n
  BY <1>1, DirectoryIs, ModulusIs
<1>9. ASSUME NEW i \in 1 .. n
      PROVE  /\ Items(c, p, k, b)[i] \in Seq(Output)
             /\ Rest(c, p, k, b, i) = Items(c, p, k, b)[i] \o Rest(c, p, k, b, Advance(i))
             /\ Advance(i) \in 0 .. n + 1 /\ Advance(i) < IdxModulus
  <2>1. FlattenSeq(SubSeq(s, i, n)) = s[i] \o FlattenSeq(SubSeq(s, i + 1, n))
        /\ s[i] \in Seq(Output)
    <3>1. i \in 1 .. Len(s)
      BY <1>1
    <3>2. FlattenSeq(SubSeq(s, i, Len(s))) = s[i] \o FlattenSeq(SubSeq(s, i + 1, Len(s)))
      BY <3>1, FlattenRest
    <3> QED BY <1>1, <3>1, <3>2
  <2>2. i \in 1 .. n + 1 /\ i + 1 \in 1 .. n + 1
    OBVIOUS
  <2>3. Rest(c, p, k, b, i) = s[i] \o Rest(c, p, k, b, i + 1)
    BY <1>2, <2>1, <2>2, Zenon
  <2>4. CASE i + 1 < IdxModulus
    <3>1. Advance(i) = i + 1
      <4>1. PICK a \in Nat : a = i + 1
        OBVIOUS
      <4>2. a % IdxModulus = a
        BY <1>8, <2>4, <4>1, Small
      <4> QED BY <4>1, <4>2 DEF Advance
    <3>2. i + 1 \in 0 .. n + 1
      OBVIOUS
    <3> QED BY <1>1, <2>1, <2>3, <2>4, <3>1, <3>2
  <2>5. CASE i + 1 = IdxModulus
    <3>1. Advance(i) = 0
      BY <1>8, <2>2, <2>5, Small DEF Advance
    <3>2. i + 1 = n + 1
      BY <1>8, <2>5
    <3>3. Rest(c, p, k, b, i) = s[i] \o Rest(c, p, k, b, Advance(i))
      BY <1>4, <1>6, <2>3, <3>1, <3>2, Zenon
    <3>4. 0 \in 0 .. n + 1 /\ 0 < IdxModulus
      BY <1>8
    <3> QED BY <1>1, <2>1, <3>1, <3>3, <3>4
  <2> QED BY <1>8, <2>2, <2>4, <2>5
<1>10. \A i \in 0 .. n + 1 : Rest(c, p, k, b, i) \in Seq(Output)
  <2>1. \A i \in 0 .. n + 1 : i = 0 \/ i \in 1 .. n + 1
    OBVIOUS
  <2> QED BY <1>3, <1>4, <1>5, <2>1
<1> QED BY <1>1, <1>4, <1>6, <1>7, <1>8, <1>9, <1>10

(* One call of them changes.                                               *)
LEMMA OneCall ==
  ASSUME NEW ds \in Seq(Call), NEW n \in 1 .. Len(ds), NEW e \in Call,
         NEW es, es = [ds EXCEPT ![n] = e]
  PROVE  /\ es \in Seq(Call) /\ Len(es) = Len(ds) /\ es[n] = e
         /\ \A d \in 1 .. Len(ds) : d # n => es[d] = ds[d]
<1>1. PICK m \in Nat : m = Len(ds) /\ DOMAIN ds = 1 .. m
  OBVIOUS
<1>2. es = [d \in 1 .. m |-> IF d = n THEN e ELSE ds[d]]
  BY <1>1
<1>3. \A d \in 1 .. m : ds[d] \in Call
  BY <1>1
<1>4. es \in [1 .. m -> Call]
  BY <1>2, <1>3, Zenon
<1>5. es \in Seq(Call) /\ Len(es) = m
  BY <1>4
<1> QED BY <1>1, <1>2, <1>5

(* What remains is a sequence of files.                                    *)
LEMMA LeftType ==
  ASSUME NEW c \in Commands, NEW p \in Patterns, NEW ds, NEW x, Left(c, p, ds, x)
  PROVE  /\ x \in Seq(Output)
         /\ ds \in Seq(Call) /\ Len(ds) \in 1 .. Len(p)
         /\ Reading(ds[Len(ds)]) /\ ds[Len(ds)] \in Call
         /\ ds[Len(ds)].pattern = SubSeq(p, Len(ds), Len(p))
<1>1. /\ ds \in Seq(Call) /\ Len(ds) \in 1 .. Len(p) /\ Len(ds) \in Nat
      /\ Reading(ds[Len(ds)])
      /\ \A d \in 1 .. Len(ds) : ds[d].pattern = SubSeq(p, d, Len(p))
  BY DEF Left, Stack
<1>2. PICK w : /\ Behind(c, p, ds, Len(ds) - 1, w)
               /\ x = Rest(c, p, Len(ds), ds[Len(ds)].base, ds[Len(ds)].idx) \o w[Len(ds) - 1]
  BY Zenon DEF Left
<1>3. Rest(c, p, Len(ds), ds[Len(ds)].base, ds[Len(ds)].idx) \in Seq(Output)
  BY <1>1, RestIs DEF Reading
<1>4. Len(ds) - 1 \in 0 .. Len(ds) - 1 /\ Len(ds) \in 1 .. Len(ds)
  BY <1>1
<1>5. w[Len(ds) - 1] \in Seq(Output)
  BY <1>2, <1>4, Zenon DEF Behind
<1>6. \A u, v \in Seq(Output) : u \o v \in Seq(Output)
  <2>1. Joins(Output)
    BY ConcatJoins, ZenonT(30)
  <2> QED BY <2>1, Zenon DEF Joins
<1> QED BY <1>1, <1>2, <1>3, <1>4, <1>5, <1>6

(* The record the innermost call is at has been dealt with.                *)
LEMMA LeftNext ==
  ASSUME NEW c \in Commands, NEW p \in Patterns, NEW ds, NEW x, Left(c, p, ds, x), AtFile(ds)
  PROVE  \E y \in Seq(Output) : x = Gives(c, p, ds) \o y /\ Left(c, p, Moved(ds), y)
<1>0. PICK es, b, i : es = Moved(ds) /\ b = ds[Len(ds)].base /\ i = ds[Len(ds)].idx
  OBVIOUS
<1>0a. i \in DOMAIN Volume[b] /\ Gives(c, p, ds) = Items(c, p, Len(ds), b)[i]
  BY <1>0 DEF AtFile, Gives
<1>1. PICK n \in Nat : n = Len(ds) /\ n \in 1 .. Len(p)
  BY LeftType
<1>2. /\ ds \in Seq(Call) /\ ds[n] \in Call /\ DOMAIN ds = 1 .. n
      /\ Reading(ds[n])
      /\ \A d \in 1 .. n : ds[d].pattern = SubSeq(p, d, Len(p))
  BY <1>1, LeftType DEF Left, Stack
<1>3. PICK w : Behind(c, p, ds, n - 1, w) /\ x = Rest(c, p, n, b, i) \o w[n - 1]
  BY <1>0, <1>1, Zenon DEF Left
<1>4. b \in DOMAIN Volume /\ ds[n].alist = Header[b]
  BY <1>0, <1>1, <1>2 DEF Reading
<1>5. /\ Items(c, p, n, b)[i] \in Seq(Output)
      /\ Rest(c, p, n, b, i) = Items(c, p, n, b)[i] \o Rest(c, p, n, b, Advance(i))
      /\ Advance(i) \in 0 .. Len(Volume[b]) + 1 /\ Advance(i) < IdxModulus
      /\ Rest(c, p, n, b, Advance(i)) \in Seq(Output)
  BY <1>0a, <1>1, <1>4, RestIs
<1>6. w[n - 1] \in Seq(Output)
  <2>1. n - 1 \in 0 .. n - 1
    BY <1>1
  <2> QED BY <1>3, <2>1, Zenon DEF Behind
<1>7. PICK y : y = Rest(c, p, n, b, Advance(i)) \o w[n - 1]
  OBVIOUS
<1>8. y \in Seq(Output) /\ x = Items(c, p, n, b)[i] \o y
  <2>1. \A u, v \in Seq(Output) : u \o v \in Seq(Output)
    <3>1. Joins(Output)
      BY ConcatJoins, Zenon
    <3> QED BY <3>1, Zenon DEF Joins
  <2>2. \A u, v, z \in Seq(Output) : (u \o v) \o z = u \o (v \o z)
    <3>1. Groups(Output)
      BY ConcatGroups, Zenon
    <3> QED BY <3>1 DEF Groups
  <2>3. PICK u \in Seq(Output), v \in Seq(Output), z \in Seq(Output) :
          u = Items(c, p, n, b)[i] /\ v = Rest(c, p, n, b, Advance(i)) /\ z = w[n - 1]
    BY <1>5, <1>6
  <2>4. x = (u \o v) \o z /\ y = v \o z
    BY <1>3, <1>5, <1>7, <2>3, Zenon
  <2>5. x = u \o (v \o z)
    BY <2>2, <2>4
  <2> QED BY <2>1, <2>3, <2>4, <2>5
<1>9. PICK e : e = [ds[n] EXCEPT !.idx = Advance(i)]
  OBVIOUS
<1>10. Advance(i) \in Nat
  BY <1>4, <1>5, DirectoryIs
<1>11. /\ e \in Call /\ e.base = b /\ e.alist = ds[n].alist
       /\ e.idx = Advance(i) /\ e.pattern = ds[n].pattern
  BY <1>0, <1>1, <1>2, <1>9, <1>10 DEF Call
<1>12. es = [ds EXCEPT ![n] = e]
  BY <1>0, <1>1, <1>9 DEF Advance, Moved
<1>13. es \in Seq(Call) /\ Len(es) = n /\ es[n] = e /\ \A d \in 1 .. n - 1 : es[d] = ds[d]
  <2>1. n \in 1 .. Len(ds) /\ Len(ds) = n
    BY <1>1
  <2>2. /\ es \in Seq(Call) /\ Len(es) = Len(ds) /\ es[n] = e
        /\ \A d \in 1 .. Len(ds) : d # n => es[d] = ds[d]
    <3>1. ds \in Seq(Call) /\ e \in Call
      BY <1>2, <1>11
    <3> QED BY <1>12, <2>1, <3>1, OneCall
  <2>3. \A d \in 1 .. n - 1 : d \in 1 .. Len(ds) /\ d # n
    BY <2>1
  <2> QED BY <1>1, <2>2, <2>3, Zenon
<1>14. Stack(p, es)
  <2>1. \A d \in 1 .. n : d \in 1 .. n - 1 \/ d = n
    OBVIOUS
  <2> QED BY <1>1, <1>2, <1>11, <1>13, <2>1 DEF Stack
<1>15. Reading(e)
  BY <1>4, <1>5, <1>11 DEF Reading
<1>16. Behind(c, p, es, n - 1, w)
  <2>1. PICK m \in Nat : m = n - 1
    BY <1>1
  <2>2. Behind(c, p, ds, m, w) /\ \A d \in 1 .. m : es[d] = ds[d]
    BY <1>3, <1>13, <2>1, Zenon
  <2>3. Behind(c, p, es, m, w)
    BY <2>2, Zenon DEF Behind
  <2> QED BY <2>1, <2>3
<1>17. Left(c, p, es, y)
  BY <1>7, <1>11, <1>13, <1>14, <1>15, <1>16, Zenon DEF Left
<1> QED BY <1>0, <1>0a, <1>1, <1>8, <1>17

(* The innermost call has no record left, and returns.                     *)
LEMMA LeftReturn ==
  ASSUME NEW c \in Commands, NEW p \in Patterns, NEW ds, NEW x, Left(c, p, ds, x), ~AtFile(ds)
  PROVE  /\ Len(ds) = 1 => x = <<>>
         /\ Len(ds) > 1 => Left(c, p, Moved(SubSeq(ds, 1, Len(ds) - 1)), x)
<1>1. PICK n \in Nat : n = Len(ds) /\ n \in 1 .. Len(p)
  BY LeftType
<1>2. /\ ds \in Seq(Call) /\ ds[n] \in Call /\ DOMAIN ds = 1 .. n
      /\ Reading(ds[n])
      /\ \A d \in 1 .. n : ds[d].pattern = SubSeq(p, d, Len(p))
  BY <1>1, LeftType DEF Left, Stack
<1>3. PICK w : Behind(c, p, ds, n - 1, w) /\ x = Rest(c, p, n, ds[n].base, ds[n].idx) \o w[n - 1]
  BY <1>1, Zenon DEF Left
<1>4. Rest(c, p, n, ds[n].base, ds[n].idx) = <<>>
  <2>1. PICK m \in Nat : m = Len(Volume[ds[n].base]) /\ DOMAIN Volume[ds[n].base] = 1 .. m
    BY <1>2, DirectoryIs DEF Reading
  <2>2. ds[n].idx \in 0 .. m + 1 /\ ~(ds[n].idx \in 1 .. m)
    BY <1>1, <1>2, <2>1 DEF Reading, AtFile
  <2>3. ds[n].idx = 0 \/ ds[n].idx = m + 1
    BY <2>2
  <2> QED BY <1>1, <1>2, <2>1, <2>3, RestIs DEF Reading
<1>5. w[n - 1] \in Seq(Output) /\ w[0] = <<>>
  <2>1. n - 1 \in 0 .. n - 1
    BY <1>1
  <2> QED BY <1>3, <2>1, Zenon DEF Behind
<1>6. x = w[n - 1]
  <2>1. \A u \in Seq(Output) : <<>> \o u = u
    OBVIOUS
  <2> QED BY <1>3, <1>4, <1>5, <2>1, Zenon
<1>7. n = 1 => x = <<>>
  BY <1>5, <1>6
<1>8. ASSUME n > 1, NEW es, es = Moved(SubSeq(ds, 1, n - 1))
      PROVE  Left(c, p, es, x)
  <2>1. PICK m \in Nat : m + 1 = n /\ m = n - 1 /\ m >= 1 /\ m - 1 \in Nat
    BY <1>8
  <2>2. PICK b : b = ds[m].base
    OBVIOUS
  <2>3. PICK i : i = ds[m].idx
    OBVIOUS
  <2>4. m \in 1 .. m /\ m - 1 \in 0 .. m /\ m \in 1 .. Len(p) /\ m \in 1 .. n
    BY <1>1, <2>1
  <2>5. /\ Reading(ds[m]) /\ i \in DOMAIN Volume[b]
        /\ w[m] = Rest(c, p, m, b, Advance(i)) \o w[m - 1]
    BY <1>3, <2>1, <2>2, <2>3, <2>4, Zenon DEF Behind
  <2>6. PICK e : e = [ds[m] EXCEPT !.idx = Advance(i)]
    OBVIOUS
  <2>7. b \in DOMAIN Volume
    BY <2>2, <2>5 DEF Reading
  <2>8. /\ Advance(i) \in 0 .. Len(Volume[b]) + 1 /\ Advance(i) < IdxModulus /\ Advance(i) \in Nat
    BY <2>4, <2>5, <2>7, RestIs, DirectoryIs
  <2>9. ds[m] \in Call
    BY <1>2, <2>4
  <2>10. /\ e \in Call /\ e.base = b /\ e.alist = ds[m].alist /\ e.idx = Advance(i)
         /\ e.pattern = ds[m].pattern
    BY <2>2, <2>6, <2>8, <2>9 DEF Call
  <2>11. PICK fs \in Seq(Call) :
           /\ fs = SubSeq(ds, 1, m) /\ Len(fs) = m /\ DOMAIN fs = 1 .. m
           /\ \A d \in 1 .. m : fs[d] = ds[d]
    <3>1. SubSeq(ds, 1, m) \in Seq(Call)
      BY <1>1, <1>2, <2>1
    <3>2. Len(SubSeq(ds, 1, m)) = m
      BY <1>1, <1>2, <2>1
    <3>3. \A d \in 1 .. m : SubSeq(ds, 1, m)[d] = ds[d]
      BY <1>1, <1>2, <2>1
    <3>4. DOMAIN SubSeq(ds, 1, m) = 1 .. m
      BY <3>1, <3>2
    <3> QED BY <3>1, <3>2, <3>3, <3>4, Zenon
  <2>12. es = [fs EXCEPT ![m] = e]
    BY <1>8, <2>1, <2>3, <2>4, <2>6, <2>11 DEF Advance, Moved
  <2>13. es \in Seq(Call) /\ Len(es) = m /\ es[m] = e /\ \A d \in 1 .. m - 1 : es[d] = ds[d]
    <3>1. /\ es \in Seq(Call) /\ Len(es) = Len(fs) /\ es[m] = e
          /\ \A d \in 1 .. Len(fs) : d # m => es[d] = fs[d]
      <4>1. m \in 1 .. Len(fs)
        BY <2>4, <2>11
      <4>2. e \in Call
        BY <2>10
      <4> QED BY <2>12, <4>1, <4>2, OneCall
    <3>2. \A d \in 1 .. m - 1 : d \in 1 .. m /\ d # m
      BY <2>1
    <3> QED BY <2>11, <3>1, <3>2, Zenon
  <2>14. Stack(p, es)
    <3>1. \A d \in 1 .. m : d \in 1 .. n /\ (d \in 1 .. m - 1 \/ d = m)
      BY <2>1
    <3> QED BY <1>1, <1>2, <2>4, <2>10, <2>13, <3>1 DEF Stack
  <2>15. Reading(e)
    BY <2>2, <2>5, <2>8, <2>10 DEF Reading
  <2>16. Behind(c, p, es, m - 1, w)
    <3>1. Behind(c, p, ds, m - 1, w)
      <4>1. 1 .. m - 1 \subseteq 1 .. n - 1 /\ 0 .. m - 1 \subseteq 0 .. n - 1
        BY <2>1
      <4> QED BY <1>3, <4>1, Zenon DEF Behind
    <3>2. PICK l \in Nat : l = m - 1
      BY <2>1
    <3>3. Behind(c, p, ds, l, w) /\ \A d \in 1 .. l : es[d] = ds[d]
      BY <2>13, <3>1, <3>2, Zenon
    <3>4. Behind(c, p, es, l, w)
      BY <3>3, Zenon DEF Behind
    <3> QED BY <3>2, <3>4
  <2>17. x = Rest(c, p, m, b, Advance(i)) \o w[m - 1]
    BY <1>6, <2>1, <2>5
  <2> QED BY <2>10, <2>13, <2>14, <2>15, <2>16, <2>17, Zenon DEF Left
<1> QED BY <1>1, <1>7, <1>8

(* The innermost call enters a library, which gives what its record does.  *)
LEMMA LeftEnter ==
  ASSUME NEW c \in Commands, NEW p \in Patterns, NEW ds, NEW x, Left(c, p, ds, x),
         AtFile(ds), Len(ds) < Len(p),
         NEW call \in Call, Reading(call), call.idx = 1,
         call.pattern = SubSeq(p, Len(ds) + 1, Len(p)),
         Gives(c, p, ds) = Tables(c, p)[Len(ds) + 1][call.base]
  PROVE  Left(c, p, Append(ds, call), x)
<1>0. PICK b, i : b = ds[Len(ds)].base /\ i = ds[Len(ds)].idx
  OBVIOUS
<1>0a. /\ i \in DOMAIN Volume[b]
       /\ Items(c, p, Len(ds), b)[i] = Tables(c, p)[Len(ds) + 1][call.base]
  BY <1>0 DEF AtFile, Gives
<1>1. PICK n \in Nat : n = Len(ds) /\ n \in 1 .. Len(p)
  BY LeftType
<1>2. /\ ds \in Seq(Call) /\ DOMAIN ds = 1 .. n
      /\ Reading(ds[n])
      /\ \A d \in 1 .. n : ds[d].pattern = SubSeq(p, d, Len(p))
  BY <1>1, LeftType DEF Left, Stack
<1>3. PICK w : Behind(c, p, ds, n - 1, w) /\ x = Rest(c, p, n, b, i) \o w[n - 1]
  BY <1>0, <1>1, Zenon DEF Left
<1>4. b \in DOMAIN Volume /\ call.base \in DOMAIN Volume
  BY <1>0, <1>1, <1>2 DEF Reading
<1>5. n + 1 \in 1 .. Len(p)
  BY <1>1, PatternsAre
<1>6. /\ Items(c, p, n, b)[i] \in Seq(Output)
      /\ Rest(c, p, n, b, i) = Items(c, p, n, b)[i] \o Rest(c, p, n, b, Advance(i))
      /\ Rest(c, p, n, b, Advance(i)) \in Seq(Output)
  BY <1>0a, <1>1, <1>4, RestIs
<1>7. Rest(c, p, n + 1, call.base, 1) = Items(c, p, n, b)[i]
  BY <1>0a, <1>1, <1>4, <1>5, RestIs
<1>8. w[n - 1] \in Seq(Output)
  <2>1. n - 1 \in 0 .. n - 1
    BY <1>1
  <2> QED BY <1>3, <2>1, Zenon DEF Behind
<1>9. PICK y : y = Rest(c, p, n, b, Advance(i)) \o w[n - 1]
  OBVIOUS
<1>10. y \in Seq(Output) /\ x = Rest(c, p, n + 1, call.base, 1) \o y
  <2>1. \A u, v \in Seq(Output) : u \o v \in Seq(Output)
    <3>1. Joins(Output)
      BY ConcatJoins, Zenon
    <3> QED BY <3>1, Zenon DEF Joins
  <2>2. \A u, v, z \in Seq(Output) : (u \o v) \o z = u \o (v \o z)
    <3>1. Groups(Output)
      BY ConcatGroups, Zenon
    <3> QED BY <3>1 DEF Groups
  <2>3. PICK u \in Seq(Output), v \in Seq(Output), z \in Seq(Output) :
          u = Items(c, p, n, b)[i] /\ v = Rest(c, p, n, b, Advance(i)) /\ z = w[n - 1]
    BY <1>6, <1>8
  <2>4. x = (u \o v) \o z /\ y = v \o z
    BY <1>3, <1>6, <1>9, <2>3, Zenon
  <2>5. x = u \o (v \o z)
    BY <2>2, <2>4
  <2> QED BY <1>7, <2>1, <2>3, <2>4, <2>5
<1>11. PICK es : es = Append(ds, call)
  OBVIOUS
<1>12. /\ es \in Seq(Call) /\ Len(es) = n + 1 /\ es[n + 1] = call
       /\ \A d \in 1 .. n : es[d] = ds[d]
  BY <1>1, <1>2, <1>11
<1>13. Stack(p, es)
  <2>1. \A d \in 1 .. n + 1 : d \in 1 .. n \/ d = n + 1
    BY <1>1
  <2> QED BY <1>1, <1>2, <1>5, <1>12, <2>1 DEF Stack
<1>14. PICK v : v = [d \in 0 .. n |-> IF d = n THEN y ELSE w[d]]
  OBVIOUS
<1>15. v[n] = y /\ \A d \in 0 .. n - 1 : v[d] = w[d]
  <2>1. n \in 0 .. n /\ \A d \in 0 .. n - 1 : d \in 0 .. n /\ d # n
    BY <1>1
  <2> QED BY <1>14, <2>1
<1>16. Behind(c, p, es, n, v)
  <2>1. v[0] = <<>>
    <3>1. 0 \in 0 .. n - 1 /\ w[0] = <<>>
      BY <1>1, <1>3 DEF Behind
    <3> QED BY <1>15, <3>1
  <2>2. ASSUME NEW d \in 0 .. n PROVE v[d] \in Seq(Output)
    <3>1. CASE d = n
      BY <1>10, <1>15, <3>1
    <3>2. CASE d # n
      <4>1. d \in 0 .. n - 1
        BY <1>1, <3>2
      <4>2. w[d] \in Seq(Output)
        BY <1>3, <4>1, Zenon DEF Behind
      <4> QED BY <1>15, <4>1, <4>2
    <3> QED BY <3>1, <3>2
  <2>3. ASSUME NEW d \in 1 .. n
        PROVE  /\ Reading(es[d]) /\ es[d].idx \in DOMAIN Volume[es[d].base]
               /\ v[d] = Rest(c, p, d, es[d].base, Advance(es[d].idx)) \o v[d - 1]
    <3>1. CASE d = n
      <4>1. n \in 1 .. n /\ n - 1 \in 0 .. n - 1
        BY <1>1
      <4>2. es[n] = ds[n]
        BY <1>12, <4>1
      <4>3. v[n] = y /\ v[n - 1] = w[n - 1]
        BY <1>15, <4>1
      <4> QED BY <1>0, <1>0a, <1>1, <1>2, <1>9, <3>1, <4>2, <4>3, Zenon
    <3>2. CASE d # n
      <4>1. d \in 1 .. n - 1 /\ d \in 0 .. n - 1 /\ d - 1 \in 0 .. n - 1
        BY <1>1, <3>2
      <4>2. /\ Reading(ds[d]) /\ ds[d].idx \in DOMAIN Volume[ds[d].base]
            /\ w[d] = Rest(c, p, d, ds[d].base, Advance(ds[d].idx)) \o w[d - 1]
        BY <1>3, <4>1, Zenon DEF Behind
      <4>3. es[d] = ds[d] /\ v[d] = w[d] /\ v[d - 1] = w[d - 1]
        BY <1>12, <1>15, <4>1
      <4> QED BY <4>2, <4>3, Zenon
    <3> QED BY <3>1, <3>2
  <2> QED BY <2>1, <2>2, <2>3, Zenon DEF Behind
<1>17. Left(c, p, es, x)
  <2>1. Len(es) - 1 = n
    BY <1>1, <1>12
  <2>2. Behind(c, p, es, Len(es) - 1, v)
    BY <1>16, <2>1
  <2>3. x = Rest(c, p, Len(es), es[Len(es)].base, es[Len(es)].idx) \o v[Len(es) - 1]
    BY <1>10, <1>12, <1>15, <2>1
  <2>4. Reading(es[Len(es)])
    BY <1>12
  <2> QED BY <1>13, <2>2, <2>3, <2>4, Zenon DEF Left
<1> QED BY <1>11, <1>17

(* The search begins with all that is expected of it.                      *)
LEMMA LeftStart ==
  ASSUME NEW c \in Commands, NEW p \in Patterns,
         NEW call \in Call, call.base = BaseDir, call.alist = Header[BaseDir], call.idx = 1,
         call.pattern = p
  PROVE  Left(c, p, <<call>>, Expected[c][p])
<1>1. p \in Seq(Part) /\ Len(p) \in Nat \ {0} /\ BaseDir \in DOMAIN Volume
  <2>1. BaseDir \in DOMAIN Volume
    BY VolumeAssumption, Zenon
  <2> QED BY <2>1, PatternsAre
<1>2. 1 \in 1 .. Len(p) /\ SubSeq(p, 1, Len(p)) = p
  BY <1>1
<1>3. PICK ds : ds = <<call>>
  OBVIOUS
<1>4. ds \in Seq(Call) /\ Len(ds) = 1 /\ ds[1] = call
  BY <1>3
<1>5. Stack(p, ds)
  <2>1. 1 .. 1 = {1}
    OBVIOUS
  <2> QED BY <1>2, <1>4, <2>1 DEF Stack
<1>6. Reading(call)
  <2>1. /\ Len(Volume[BaseDir]) \in Nat /\ IdxModulus \in Nat \ {0, 1}
    BY <1>1, DirectoryIs, ModulusIs
  <2>2. 1 \in 0 .. Len(Volume[BaseDir]) + 1 /\ 1 < IdxModulus
    BY <2>1
  <2> QED BY <1>1, <2>2 DEF Reading
<1>7. PICK w : w = [d \in {0} |-> <<>>]
  OBVIOUS
<1>8. Behind(c, p, ds, 0, w)
  <2>1. 0 .. 0 = {0} /\ 1 .. 0 = {} /\ <<>> \in Seq(Output)
    OBVIOUS
  <2> QED BY <1>7, <2>1 DEF Behind
<1>9. Expected[c][p] = Rest(c, p, 1, BaseDir, 1) \o w[0]
  <2>1. /\ Rest(c, p, 1, BaseDir, 1) = Tables(c, p)[1][BaseDir]
        /\ Tables(c, p)[1][BaseDir] \in Seq(Output)
    BY <1>1, <1>2, RestIs, ItemsType
  <2>2. \A u \in Seq(Output) : u \o <<>> = u
    OBVIOUS
  <2>3. w[0] = <<>>
    BY <1>7
  <2> QED BY <2>1, <2>2, <2>3, ExpectedIs, Zenon
<1>10. Left(c, p, ds, Expected[c][p])
  <2>1. Len(ds) - 1 = 0
    BY <1>4
  <2>2. Behind(c, p, ds, Len(ds) - 1, w)
    BY <1>8, <2>1
  <2>3. Expected[c][p] = Rest(c, p, Len(ds), ds[Len(ds)].base, ds[Len(ds)].idx) \o w[Len(ds) - 1]
    BY <1>4, <1>9, <2>1
  <2>4. Reading(ds[Len(ds)])
    BY <1>4, <1>6
  <2> QED BY <1>5, <2>2, <2>3, <2>4, Zenon DEF Left
<1> QED BY <1>3, <1>10

(***************************************************************************)
(* One file.                                                               *)
(***************************************************************************)
(* What walking the list has given when a extents are dealt with.          *)
Gathered(c, f, a) ==
  IF c.callback = "extract" THEN FlattenSeq(SubSeq(Pieces(f), 1, a))
                            ELSE SubSeq(f.extents, 1, a)

LEMMA PrefixOfConcat ==
  ASSUME NEW X, NEW s \in Seq(X), NEW t \in Seq(X)
  PROVE  IsPrefix(s, s \o t)
<1>1. Len(s \o t) = Len(s) + Len(t)
  OBVIOUS
<1>2. SubSeq(s, 1, Len(s)) = s /\ SubSeq(s \o t, 1, Len(s)) = s
  OBVIOUS
<1> QED BY <1>1, <1>2 DEF IsPrefix

LEMMA GatheredIs ==
  ASSUME NEW c \in Commands, c.callback # "list", NEW f \in VolumeFile,
         NEW a \in 0 .. Len(f.extents)
  PROVE  /\ Gathered(c, f, a) \in Seq(Blocks)
         /\ Gathered(c, f, 0) = <<>>
         /\ Gathered(c, f, Len(f.extents)) = Result(c, f).blocks
         /\ IsPrefix(Gathered(c, f, a), Result(c, f).blocks)
<1>1. PICK e \in Seq(Nat), n \in Nat, q \in Seq(Seq(Blocks)) :
        e = f.extents /\ n = Len(e) /\ q = Pieces(f) /\ Len(q) = n
  BY PiecesAre
<1>2. CASE c.callback = "extract"
  <2>1. \A i \in 0 .. n : Gathered(c, f, i) = FlattenSeq(SubSeq(q, 1, i))
    BY <1>1, <1>2 DEF Gathered
  <2>2. Result(c, f).blocks = FlattenSeq(q)
    BY <1>1, <1>2, ResultIs
  <2>3. SubSeq(q, 1, 0) = <<>> /\ SubSeq(q, 1, n) = q /\ 0 \in 0 .. n /\ n \in 0 .. n
    BY <1>1
  <2>4. PICK u \in Seq(Blocks), v \in Seq(Blocks) :
          u = FlattenSeq(SubSeq(q, 1, a)) /\ FlattenSeq(q) = u \o v
    <3>1. a \in 0 .. Len(q)
      BY <1>1
    <3>2. /\ FlattenSeq(SubSeq(q, 1, a)) \in Seq(Blocks)
          /\ FlattenSeq(SubSeq(q, a + 1, Len(q))) \in Seq(Blocks)
          /\ FlattenSeq(q) = FlattenSeq(SubSeq(q, 1, a)) \o FlattenSeq(SubSeq(q, a + 1, Len(q)))
      BY <3>1, FlattenSplit
    <3> QED BY <3>2
  <2>5. IsPrefix(u, u \o v)
    BY PrefixOfConcat
  <2>6. Gathered(c, f, 0) = <<>>
    BY <2>1, <2>3, FlattenEmpty, Zenon
  <2>7. Gathered(c, f, n) = Result(c, f).blocks
    BY <2>1, <2>2, <2>3, Zenon
  <2>8. Gathered(c, f, a) = u
    BY <1>1, <2>1, <2>4
  <2> QED BY <1>1, <2>2, <2>4, <2>5, <2>6, <2>7, <2>8
<1>3. CASE c.callback = "index"
  <2>1. \A i : Gathered(c, f, i) = SubSeq(e, 1, i)
    BY <1>1, <1>3 DEF Gathered
  <2>2. Result(c, f).blocks = e
    BY <1>1, <1>3, ResultIs
  <2>3. SubSeq(e, 1, 0) = <<>> /\ SubSeq(e, 1, n) = e
    BY <1>1
  <2>4. SubSeq(e, 1, a) \in Seq(Nat) /\ SubSeq(e, a + 1, n) \in Seq(Nat)
    BY <1>1, SMTT(20)
  <2>5. e = SubSeq(e, 1, a) \o SubSeq(e, a + 1, n)
    <3>1. a \in 0 .. Len(e)
      BY <1>1
    <3>2. e = SubSeq(e, 1, a) \o SubSeq(e, a + 1, Len(e))
      BY <3>1, Halves
    <3> QED BY <1>1, <3>2
  <2>6. IsPrefix(SubSeq(e, 1, a), e)
    BY <2>4, <2>5, PrefixOfConcat
  <2>7. SubSeq(e, 1, a) \in Seq(Blocks)
    BY <2>4 DEF Blocks
  <2>8. /\ Gathered(c, f, a) \in Seq(Blocks)
        /\ Gathered(c, f, 0) = <<>>
        /\ Gathered(c, f, n) = Result(c, f).blocks
        /\ IsPrefix(Gathered(c, f, a), Result(c, f).blocks)
    BY <2>1, <2>2, <2>3, <2>6, <2>7, Zenon
  <2> QED BY <1>1, <2>8
<1> QED BY <1>2, <1>3, CommandsAre

LEMMA IndexGathers ==
  ASSUME NEW c \in Commands, c.callback = "index", NEW f \in VolumeFile,
         NEW a \in Nat, a < Len(f.extents)
  PROVE  Gathered(c, f, a + 1) = Append(Gathered(c, f, a), f.extents[a + 1])
<1>1. PICK e \in Seq(Nat) : e = f.extents
  BY PiecesAre
<1>2. SubSeq(e, 1, a + 1) = Append(SubSeq(e, 1, a), e[a + 1])
  BY <1>1
<1> QED BY <1>1, <1>2 DEF Gathered

LEMMA ExtractGathers ==
  ASSUME NEW c \in Commands, c.callback = "extract", NEW f \in VolumeFile,
         NEW a \in Nat, a < Len(f.extents)
  PROVE  /\ Gathered(c, f, a) \o SubSeq(Pieces(f)[a + 1], 1, 0) = Gathered(c, f, a)
         /\ Gathered(c, f, a) \o SubSeq(Pieces(f)[a + 1], 1, f.size) = Gathered(c, f, a + 1)
         /\ \A t \in 0 .. f.size - 1 :
              /\ IsPrefix(Gathered(c, f, a) \o SubSeq(Pieces(f)[a + 1], 1, t), Result(c, f).blocks)
              /\ Append(Gathered(c, f, a) \o SubSeq(Pieces(f)[a + 1], 1, t), f.extents[a + 1] + t)
                 = Gathered(c, f, a) \o SubSeq(Pieces(f)[a + 1], 1, t + 1)
<1>1. PICK e \in Seq(Nat), n \in Nat, q \in Seq(Seq(Blocks)), z \in Nat \ {0} :
        e = f.extents /\ n = Len(e) /\ q = Pieces(f) /\ Len(q) = n /\ z = f.size
  BY PiecesAre, SMTT(20)
<1>2. a + 1 \in 1 .. n /\ (a + 1) - 1 = a /\ a + 1 \in 0 .. n /\ a \in 0 .. n
  BY <1>1
<1>3. PICK r \in Seq(Blocks) :
        r = q[a + 1] /\ Len(r) = z /\ \A j \in 1 .. z : r[j] = e[a + 1] + j - 1
  <2>1. q[a + 1] \in Seq(Blocks)
    BY <1>1, <1>2
  <2> QED BY <1>1, <1>2, <2>1, PiecesAre, ZenonT(30)
<1>4. PICK g \in Seq(Blocks) : g = Gathered(c, f, a) /\ g = FlattenSeq(SubSeq(q, 1, a))
  <2>1. Gathered(c, f, a) \in Seq(Blocks)
    BY <1>1, <1>2, GatheredIs
  <2> QED BY <1>1, <2>1 DEF Gathered
<1>5. g \o SubSeq(r, 1, 0) = g
  <2>1. SubSeq(r, 1, 0) = <<>>
    OBVIOUS
  <2> QED BY <2>1
<1>6. Gathered(c, f, a + 1) = g \o r
  <2>1. Gathered(c, f, a + 1) = FlattenSeq(SubSeq(q, 1, a + 1))
    BY <1>1 DEF Gathered
  <2>2. FlattenSeq(SubSeq(q, 1, a + 1)) = FlattenSeq(SubSeq(q, 1, (a + 1) - 1)) \o q[a + 1]
    BY <1>1, <1>2, FlattenPrefix
  <2> QED BY <1>2, <1>3, <1>4, <2>1, <2>2
<1>7. SubSeq(r, 1, z) = r
  BY <1>3
<1>8. PICK v \in Seq(Blocks) : Result(c, f).blocks = (g \o r) \o v
  <2>1. /\ FlattenSeq(SubSeq(q, a + 1 + 1, Len(q))) \in Seq(Blocks)
        /\ FlattenSeq(q) = FlattenSeq(SubSeq(q, 1, a + 1))
                            \o FlattenSeq(SubSeq(q, a + 1 + 1, Len(q)))
    BY <1>1, <1>2, FlattenSplit
  <2>2. Gathered(c, f, a + 1) = FlattenSeq(SubSeq(q, 1, a + 1))
    BY <1>1 DEF Gathered
  <2>3. Result(c, f).blocks = FlattenSeq(q)
    BY <1>1, ResultIs
  <2> QED BY <1>6, <2>1, <2>2, <2>3
<1>9. ASSUME NEW t \in 0 .. z - 1
      PROVE  /\ IsPrefix(g \o SubSeq(r, 1, t), Result(c, f).blocks)
             /\ Append(g \o SubSeq(r, 1, t), e[a + 1] + t) = g \o SubSeq(r, 1, t + 1)
  <2>1. PICK x \in Seq(Blocks), y \in Seq(Blocks) : x = SubSeq(r, 1, t) /\ r = x \o y
    <3>1. t \in 0 .. Len(r)
      BY <1>3
    <3>2. /\ SubSeq(r, 1, t) \in Seq(Blocks) /\ SubSeq(r, t + 1, Len(r)) \in Seq(Blocks)
          /\ r = SubSeq(r, 1, t) \o SubSeq(r, t + 1, Len(r))
      BY <3>1, Halves
    <3> QED BY <3>2, Zenon
  <2>2. Result(c, f).blocks = (g \o x) \o (y \o v)
    <3>1. x \in Seq(Blocks) /\ y \in Seq(Blocks)
      BY <2>1, Zenon
    <3>2. g \in Seq(Blocks) /\ v \in Seq(Blocks)
      OBVIOUS
    <3>3. (g \o (x \o y)) \o v = (g \o x) \o (y \o v)
      <4>1. Regroups(g, x, y, v)
        BY <3>1, <3>2, ConcatOfFour, Zenon
      <4> QED BY <4>1, Zenon DEF Regroups
    <3> QED BY <1>8, <2>1, <3>3, Zenon
  <2>3. g \o x \in Seq(Blocks) /\ y \o v \in Seq(Blocks)
    OBVIOUS
  <2>4. IsPrefix(g \o x, (g \o x) \o (y \o v))
    BY <2>3, PrefixOfConcat
  <2>5. r[t + 1] = e[a + 1] + t
    <3>1. PICK k \in Nat : k = e[a + 1]
      <4>1. e \in Seq(Nat) /\ n = Len(e) /\ a + 1 \in 1 .. n
        BY <1>1, <1>2, Zenon
      <4>2. e[a + 1] \in Nat
        BY <4>1, SMTT(20)
      <4> QED BY <4>2, Zenon
    <3>2. t + 1 \in 1 .. z /\ k + (t + 1) - 1 = k + t
      BY <3>1
    <3> QED BY <1>3, <3>1, <3>2
  <2>6. Append(g \o SubSeq(r, 1, t), r[t + 1]) = g \o SubSeq(r, 1, t + 1)
    <3>1. t + 1 <= Len(r) /\ t \in Nat
      BY <1>3
    <3> QED BY <3>1, NextOfPart
  <2> QED BY <2>1, <2>2, <2>4, <2>5, <2>6
<1>10. g \o SubSeq(r, 1, z) = Gathered(c, f, a + 1)
  BY <1>6, <1>7
<1> QED BY <1>1, <1>3, <1>4, <1>5, <1>9, <1>10

(* What the entry e at the j-th place of the list of f says.               *)
Says(f, file, j, e) ==
  /\ f.extents \in Seq(Nat) /\ f.chain[j].ahead \in 0 .. Len(f.extents)
  /\ IsEnd(e) => f.chain[j].ahead = Len(f.extents)
  /\ IsPointer(e) /\ ~IsEnd(e) =>
       /\ j + 1 \in DOMAIN f.chain
       /\ f.chain[j + 1] = [at |-> LinkTarget(file, e), ahead |-> f.chain[j].ahead]
  /\ ~IsPointer(e) =>
       /\ j + 1 \in DOMAIN f.chain
       /\ f.chain[j + 1] = [at |-> FollowingSlot(f.chain[j].at), ahead |-> f.chain[j].ahead + 1]
       /\ f.chain[j].ahead < Len(f.extents)
       /\ f.extents[f.chain[j].ahead + 1] = Extent(file, e)

Listed(f, file) ==
  \A j \in DOMAIN f.chain :
    /\ OnList(f.chain[j].at)
    /\ Says(f, file, j, AList[f.chain[j].at.sector][f.chain[j].at.slot])

(* The list of a file, entry by entry.                                     *)
LEMMA ListIs ==
  ASSUME NEW b \in DOMAIN Volume, NEW i \in DOMAIN Volume[b],
         NEW f, f = Volume[b][i], NEW file, file = FileAt(b, i)
  PROVE  /\ 1 \in DOMAIN f.chain /\ f.chain[1] = [at |-> file.start, ahead |-> 0]
         /\ f.extents \in Seq(Nat)
         /\ Listed(f, file)
<1>1. f \in VolumeFile /\ Chained(f, file)
  BY FileIs DEF Described
<1>2. f.extents \in Seq(Nat) /\ Len(f.extents) \in Nat
  BY <1>1, PiecesAre
<1>3. PICK ch \in Seq([at : Position, ahead : Nat]) : ch = f.chain
  BY <1>1, FileFields, Zenon
<1>4. /\ ch # <<>>
      /\ ch[1] = [at |-> file.start, ahead |-> 0]
      /\ ch[Len(ch)].ahead = Len(f.extents)
      /\ \A j \in DOMAIN ch :
           LET here  == ch[j]
               entry == AList[here.at.sector][here.at.slot]
           IN /\ OnList(here.at)
              /\ here.ahead <= Len(f.extents)
              /\ IsEnd(entry) <=> j = Len(ch)
              /\ IsPointer(entry) /\ ~IsEnd(entry) =>
                   ch[j + 1] = [at |-> LinkTarget(file, entry), ahead |-> here.ahead]
              /\ ~IsPointer(entry) =>
                   /\ ch[j + 1] = [at |-> FollowingSlot(here.at), ahead |-> here.ahead + 1]
                   /\ f.extents[here.ahead + 1] = Extent(file, entry)
  BY <1>1, <1>3, Zenon DEF Chained
<1>5. 1 \in DOMAIN ch /\ Len(ch) \in Nat /\ DOMAIN ch = 1 .. Len(ch)
  BY <1>4
<1>6. \A j \in DOMAIN ch : ch[j].at \in Position /\ ch[j].ahead \in Nat
  <2>1. \A j \in DOMAIN ch : ch[j] \in [at : Position, ahead : Nat]
    <3>1. PICK X : X = [at : Position, ahead : Nat]
      OBVIOUS
    <3>2. ch \in Seq(X)
      BY <3>1
    <3>3. \A j \in DOMAIN ch : ch[j] \in X
      BY <3>2
    <3> QED BY <3>1, <3>3
  <2> QED BY <2>1
<1>7. ASSUME NEW j \in DOMAIN ch
      PROVE  /\ OnList(ch[j].at)
             /\ ch[j].ahead \in 0 .. Len(f.extents)
             /\ IsEnd(AList[ch[j].at.sector][ch[j].at.slot]) => ch[j].ahead = Len(f.extents)
  <2>1. /\ OnList(ch[j].at)
        /\ ch[j].ahead <= Len(f.extents)
        /\ IsEnd(AList[ch[j].at.sector][ch[j].at.slot]) <=> j = Len(ch)
    BY <1>4
  <2>2. ch[j].ahead \in Nat
    BY <1>6
  <2> QED BY <1>2, <1>4, <2>1, <2>2
<1>8. ASSUME NEW j \in DOMAIN ch, NEW e \in Entry, e = AList[ch[j].at.sector][ch[j].at.slot]
      PROVE  /\ IsPointer(e) /\ ~IsEnd(e) =>
                  /\ j + 1 \in DOMAIN ch
                  /\ ch[j + 1] = [at |-> LinkTarget(file, e), ahead |-> ch[j].ahead]
             /\ ~IsPointer(e) =>
                  /\ j + 1 \in DOMAIN ch
                  /\ ch[j + 1] = [at |-> FollowingSlot(ch[j].at), ahead |-> ch[j].ahead + 1]
                  /\ ch[j].ahead < Len(f.extents)
                  /\ f.extents[ch[j].ahead + 1] = Extent(file, e)
  <2>1. /\ IsEnd(e) <=> j = Len(ch)
        /\ IsPointer(e) /\ ~IsEnd(e) =>
             ch[j + 1] = [at |-> LinkTarget(file, e), ahead |-> ch[j].ahead]
        /\ ~IsPointer(e) =>
             /\ ch[j + 1] = [at |-> FollowingSlot(ch[j].at), ahead |-> ch[j].ahead + 1]
             /\ f.extents[ch[j].ahead + 1] = Extent(file, e)
    BY <1>4, <1>8, Zenon
  <2>2. ~IsEnd(e) => j + 1 \in DOMAIN ch
    BY <1>5, <2>1
  <2>3. ~IsPointer(e) => ~IsEnd(e)
    BY DEF IsEnd
  <2>4. ~IsPointer(e) => ch[j].ahead < Len(f.extents)
    <3>1. SUFFICES ASSUME ~IsPointer(e) PROVE ch[j].ahead < Len(f.extents)
      OBVIOUS
    <3>2. j + 1 \in DOMAIN ch
      BY <2>2, <2>3, <3>1
    <3>3. ch[j + 1].ahead \in 0 .. Len(f.extents)
      BY <1>7, <3>2
    <3>4. ch[j + 1].ahead = ch[j].ahead + 1
      BY <2>1, <3>1
    <3> QED BY <1>2, <1>6, <3>3, <3>4, SMTT(20)
  <2> QED BY <2>1, <2>2, <2>3, <2>4
<1>9. ASSUME NEW j \in DOMAIN f.chain
      PROVE  /\ OnList(f.chain[j].at)
             /\ Says(f, file, j, AList[f.chain[j].at.sector][f.chain[j].at.slot])
  <2>1. j \in DOMAIN ch
    BY <1>3
  <2>2. PICK e : e = AList[ch[j].at.sector][ch[j].at.slot]
    OBVIOUS
  <2>3. ch[j].at \in Position /\ OnList(ch[j].at) /\ ch[j].ahead \in 0 .. Len(f.extents)
    BY <1>6, <1>7, <2>1
  <2>4. e \in Entry
    BY <2>2, <2>3, ListEntries
  <2>5. /\ IsEnd(e) => ch[j].ahead = Len(f.extents)
        /\ IsPointer(e) /\ ~IsEnd(e) =>
             /\ j + 1 \in DOMAIN ch
             /\ ch[j + 1] = [at |-> LinkTarget(file, e), ahead |-> ch[j].ahead]
        /\ ~IsPointer(e) =>
             /\ j + 1 \in DOMAIN ch
             /\ ch[j + 1] = [at |-> FollowingSlot(ch[j].at), ahead |-> ch[j].ahead + 1]
             /\ ch[j].ahead < Len(f.extents)
             /\ f.extents[ch[j].ahead + 1] = Extent(file, e)
    BY <1>7, <1>8, <2>1, <2>2, <2>4, Zenon
  <2>6. Says(f, file, j, e)
    BY <1>2, <1>3, <2>3, <2>5, Zenon DEF Says
  <2> QED BY <1>3, <2>2, <2>3, <2>6, Zenon
<1>10. Listed(f, file)
  BY <1>9, Zenon DEF Listed
<1> QED BY <1>2, <1>3, <1>4, <1>5, <1>10

(***************************************************************************)
(* What the search still owes: with the files written, what its calls will *)
(* find is all that is expected.                                           *)
(***************************************************************************)
Owes(c, p, ds, w) == \E x : Left(c, p, ds, x) /\ w \o x = Expected[c][p]

(* The calls, when the innermost has read the header of its directory.     *)
Opened(ds) ==
  [ds EXCEPT ![Len(ds)].alist = Header[ds[Len(ds)].base], ![Len(ds)].idx = 1]

LEMMA ExpectedType ==
  ASSUME NEW c \in Commands, NEW p \in Patterns
  PROVE  Expected[c][p] \in Seq(Output)
<1>1. 1 \in 1 .. Len(p)
  BY PatternsAre
<1>2. BaseDir \in DOMAIN Volume
  BY VolumeAssumption, Zenon
<1> QED BY <1>1, <1>2, ExpectedIs, ItemsType

(* What is written begins what is expected.                                *)
LEMMA OwesBegins ==
  ASSUME NEW c \in Commands, NEW p \in Patterns, NEW ds,
         NEW w \in Seq(Output), Owes(c, p, ds, w)
  PROVE  IsPrefix(w, Expected[c][p])
<1>1. PICK x : Left(c, p, ds, x) /\ w \o x = Expected[c][p]
  BY Zenon DEF Owes
<1>2. x \in Seq(Output)
  BY <1>1, LeftType
<1>3. IsPrefix(w, w \o x)
  BY <1>2, PrefixOfConcat
<1> QED BY <1>1, <1>3

(* The record the innermost call is at gives nothing.                      *)
LEMMA OwesSkip ==
  ASSUME NEW c \in Commands, NEW p \in Patterns, NEW ds,
         NEW w \in Seq(Output), Owes(c, p, ds, w),
         AtFile(ds), Gives(c, p, ds) = <<>>
  PROVE  Owes(c, p, Moved(ds), w)
<1>1. PICK x : Left(c, p, ds, x) /\ w \o x = Expected[c][p]
  BY Zenon DEF Owes
<1>2. PICK y \in Seq(Output) : x = Gives(c, p, ds) \o y /\ Left(c, p, Moved(ds), y)
  BY <1>1, LeftNext
<1>3. \A u \in Seq(Output) : <<>> \o u = u
  OBVIOUS
<1>4. x = y
  BY <1>2, <1>3
<1> QED BY <1>1, <1>2, <1>4, Zenon DEF Owes

(* It gives one file, which is the next that is expected.                  *)
LEMMA OwesFile ==
  ASSUME NEW c \in Commands, NEW p \in Patterns, NEW ds,
         NEW w \in Seq(Output), Owes(c, p, ds, w),
         AtFile(ds), NEW r \in Output, Gives(c, p, ds) = <<r>>
  PROVE  /\ Len(w) < Len(Expected[c][p]) /\ Expected[c][p][Len(w) + 1] = r
         /\ Owes(c, p, Moved(ds), Append(w, r))
<1>1. PICK x : Left(c, p, ds, x) /\ w \o x = Expected[c][p]
  BY Zenon DEF Owes
<1>3. PICK y \in Seq(Output) : x = Gives(c, p, ds) \o y /\ Left(c, p, Moved(ds), y)
  BY <1>1, LeftNext
<1>4. PICK one \in Seq(Output) : one = <<r>>
  <2>1. <<r>> \in Seq(Output)
    OBVIOUS
  <2> QED BY <2>1
<1>5. \A u, v, z \in Seq(Output) : (u \o v) \o z = u \o (v \o z)
  <2>1. Groups(Output)
    BY ConcatGroups, Zenon
  <2> QED BY <2>1 DEF Groups
<1>6. w \o (one \o y) = (w \o one) \o y /\ Append(w, r) = w \o one
  BY <1>4, <1>5
<1>7. Append(w, r) \o y = Expected[c][p]
  BY <1>1, <1>3, <1>4, <1>6, Zenon
<1>8. Owes(c, p, Moved(ds), Append(w, r))
  BY <1>3, <1>7, Zenon DEF Owes
<1>9. Len(w) < Len(Expected[c][p]) /\ Expected[c][p][Len(w) + 1] = r
  <2>1. PICK v \in Seq(Output) :
          v = Append(w, r) /\ Len(v) = Len(w) + 1 /\ v[Len(w) + 1] = r /\ Len(w) \in Nat
    <3>1. Append(w, r) \in Seq(Output) /\ Len(Append(w, r)) = Len(w) + 1 /\ Len(w) \in Nat
      OBVIOUS
    <3>2. Append(w, r)[Len(w) + 1] = r
      OBVIOUS
    <3> QED BY <3>1, <3>2
  <2>2. Len(v \o y) = Len(v) + Len(y) /\ Len(y) \in Nat
    OBVIOUS
  <2>3. (v \o y)[Len(v)] = v[Len(v)]
    <3>1. Len(v) \in 1 .. Len(v) + Len(y) /\ Len(v) <= Len(v)
      BY <2>1, <2>2
    <3> QED BY <3>1, ConcatProperties
  <2>4. v \o y = Expected[c][p]
    BY <1>7, <2>1
  <2>5. Len(w) < Len(Expected[c][p])
    BY <2>1, <2>2, <2>4
  <2> QED BY <2>1, <2>3, <2>4, <2>5
<1> QED BY <1>8, <1>9

(* It has no record left, and returns.                                     *)
LEMMA OwesReturn ==
  ASSUME NEW c \in Commands, NEW p \in Patterns, NEW ds,
         NEW w \in Seq(Output), Owes(c, p, ds, w), ~AtFile(ds)
  PROVE  /\ Len(ds) = 1 => w = Expected[c][p]
         /\ Len(ds) > 1 => Owes(c, p, Moved(SubSeq(ds, 1, Len(ds) - 1)), w)
<1>1. PICK x : Left(c, p, ds, x) /\ w \o x = Expected[c][p]
  BY Zenon DEF Owes
<1>2. \A u \in Seq(Output) : u \o <<>> = u
  OBVIOUS
<1>3. Len(ds) = 1 => x = <<>>
  BY <1>1, LeftReturn
<1>4. ASSUME Len(ds) > 1
      PROVE  Owes(c, p, Moved(SubSeq(ds, 1, Len(ds) - 1)), w)
  <2>1. Left(c, p, Moved(SubSeq(ds, 1, Len(ds) - 1)), x)
    BY <1>1, <1>4, LeftReturn
  <2> QED BY <1>1, <2>1, Zenon DEF Owes
<1>5. Len(ds) = 1 => w = Expected[c][p]
  BY <1>1, <1>2, <1>3
<1> QED BY <1>4, <1>5

(* It enters a library.                                                    *)
LEMMA OwesEnter ==
  ASSUME NEW c \in Commands, NEW p \in Patterns, NEW ds,
         NEW w, Owes(c, p, ds, w),
         AtFile(ds), Len(ds) < Len(p),
         NEW call \in Call, Reading(call), call.idx = 1,
         call.pattern = SubSeq(p, Len(ds) + 1, Len(p)),
         Gives(c, p, ds) = Tables(c, p)[Len(ds) + 1][call.base]
  PROVE  Owes(c, p, Append(ds, call), w)
<1>1. PICK x : Left(c, p, ds, x) /\ w \o x = Expected[c][p]
  BY Zenon DEF Owes
<1>2. Left(c, p, Append(ds, call), x)
  BY <1>1, LeftEnter
<1> QED BY <1>1, <1>2, Zenon DEF Owes

(* What the calls of a search are like.                                    *)
LEMMA OwesCalls ==
  ASSUME NEW c \in Commands, NEW p \in Patterns, NEW ds, NEW w, Owes(c, p, ds, w)
  PROVE  /\ ds \in Seq(Call) /\ Len(ds) \in 1 .. Len(p)
         /\ Reading(ds[Len(ds)]) /\ ds[Len(ds)] \in Call
         /\ ds[Len(ds)].pattern = SubSeq(p, Len(ds), Len(p))
<1>1. PICK x : Left(c, p, ds, x)
  BY Zenon DEF Owes
<1> QED BY <1>1, LeftType

(* The part of the pattern a call has to match.                            *)
LEMMA PartsAre ==
  ASSUME NEW p \in Patterns, NEW k \in 1 .. Len(p), NEW q, q = SubSeq(p, k, Len(p))
  PROVE  /\ Head(q) = p[k] /\ Tail(q) = SubSeq(p, k + 1, Len(p))
         /\ Len(q) = Len(p) - k + 1
         /\ Len(q) = 1 <=> k = Len(p)
         /\ Len(q) > 1 <=> k < Len(p)
<1>1. PICK n \in Nat : n = Len(p) /\ p \in Seq(Part) /\ k \in 1 .. n
  BY PatternsAre
<1>2. Len(q) = n - k + 1 /\ q \in Seq(Part)
  BY <1>1
<1>3. Head(q) = p[k]
  <2>1. q # <<>> /\ Head(q) = q[1]
    <3>1. Len(q) \in Nat \ {0}
      BY <1>1, <1>2
    <3>2. \A u \in Seq(Part) : Len(u) \in Nat \ {0} => u # <<>> /\ Head(u) = u[1]
      OBVIOUS
    <3> QED BY <1>2, <3>1, <3>2
  <2>2. q[1] = p[k]
    BY <1>1
  <2> QED BY <2>1, <2>2
<1>4. Tail(q) = SubSeq(p, k + 1, n)
  BY <1>1, <1>2
<1> QED BY <1>1, <1>2, <1>3, <1>4

(* What one record of a directory gives.                                   *)
LEMMA ItemIs ==
  ASSUME NEW c, NEW p, NEW k, NEW b, NEW i \in DOMAIN Volume[b],
         NEW f, f = Volume[b][i]
  PROVE  /\ k = Len(p) => Items(c, p, k, b)[i] = OfFile(c, f, p[k])
         /\ k # Len(p) => Items(c, p, k, b)[i] = OfLibrary(f, p[k], Tables(c, p)[k + 1])
<1>1. PICK x : x = Tables(c, p)[k + 1]
  OBVIOUS
<1>2. Items(c, p, k, b) = [j \in DOMAIN Volume[b] |->
         IF k = Len(p) THEN OfFile(c, Volume[b][j], p[k]) ELSE OfLibrary(Volume[b][j], p[k], x)]
  BY <1>1, Zenon DEF Items, Yields
<1>3. Items(c, p, k, b)[i] = IF k = Len(p) THEN OfFile(c, f, p[k]) ELSE OfLibrary(f, p[k], x)
  BY <1>2, Zenon
<1> QED BY <1>1, <1>3

(* What the assumption says of the record of a file.                       *)
LEMMA RecordIs ==
  ASSUME NEW b \in DOMAIN Volume, NEW i \in DOMAIN Volume[b], NEW f, f = Volume[b][i]
  PROVE  /\ f \in VolumeFile
         /\ RecordAt(b, i).name = f.name /\ f.name # NoName /\ f.name \in STRING
         /\ RecordAt(b, i).type = f.type
         /\ OnList(AttrAt(b, i))
         /\ f.size = 2 ^ AList[AttrAt(b, i).sector][AttrAt(b, i).slot][2]
<1>1. f \in VolumeFile /\ Described(b, i)
  BY FileIs
<1>2. /\ RecordAt(b, i).name = f.name /\ f.name # NoName
      /\ RecordAt(b, i).type = f.type
      /\ OnList(AttrAt(b, i))
      /\ f.size = 2 ^ AList[AttrAt(b, i).sector][AttrAt(b, i).slot][2]
  BY <1>1, Zenon DEF Described
<1>3. f.name \in STRING
  BY <1>1, FileFields, Zenon
<1> QED BY <1>1, <1>2, <1>3

(* What the file f the innermost call is at gives: q is what the call still *)
(* has to match.                                                           *)
GivesWhat(c, p, ds, f, q) ==
  /\ f.name \notin Head(q) => Gives(c, p, ds) = <<>>
  /\ Len(q) = 1 /\ f.name \in Head(q) /\ Shown(c, f) => Gives(c, p, ds) = <<Result(c, f)>>
  /\ Len(q) = 1 /\ ~Shown(c, f) => Gives(c, p, ds) = <<>>
  /\ Len(q) > 1 /\ f.type # "LIB" => Gives(c, p, ds) = <<>>
  /\ Len(q) > 1 /\ f.extents = <<>> => Gives(c, p, ds) = <<>>
  /\ Len(q) > 1 /\ f.name \in Head(q) /\ f.type = "LIB" /\ f.extents # <<>> =>
       /\ Gives(c, p, ds) = Tables(c, p)[Len(ds) + 1][f.extents[1]]
       /\ f.extents[1] \in DOMAIN Volume
  /\ Len(q) > 1 => Len(ds) < Len(p) /\ Tail(q) = SubSeq(p, Len(ds) + 1, Len(p))

LEMMA GivesIs ==
  ASSUME NEW c \in Commands, NEW p \in Patterns, NEW ds, NEW w, Owes(c, p, ds, w), AtFile(ds),
         NEW q, q = ds[Len(ds)].pattern,
         NEW f, f = Volume[ds[Len(ds)].base][ds[Len(ds)].idx]
  PROVE  f \in VolumeFile /\ GivesWhat(c, p, ds, f, q)
<1>1. PICK k, b, i : k = Len(ds) /\ b = ds[Len(ds)].base /\ i = ds[Len(ds)].idx
  OBVIOUS
<1>2. k \in 1 .. Len(p) /\ q = SubSeq(p, k, Len(p)) /\ b \in DOMAIN Volume /\ i \in DOMAIN Volume[b]
  BY <1>1, OwesCalls DEF AtFile, Reading
<1>3. /\ Head(q) = p[k] /\ Tail(q) = SubSeq(p, k + 1, Len(p))
      /\ Len(q) = 1 <=> k = Len(p)
      /\ Len(q) > 1 <=> k < Len(p)
  BY <1>2, PartsAre
<1>4. k < Len(p) \/ k = Len(p)
  BY <1>2, PatternsAre
<1>5. f = Volume[b][i] /\ Gives(c, p, ds) = Items(c, p, k, b)[i]
  BY <1>1 DEF Gives
<1>6. /\ k = Len(p) => Gives(c, p, ds) = OfFile(c, f, p[k])
      /\ k # Len(p) => Gives(c, p, ds) = OfLibrary(f, p[k], Tables(c, p)[k + 1])
  BY <1>2, <1>5, ItemIs
<1>7. f \in VolumeFile /\ (f.type = "LIB" /\ f.extents # <<>> => f.extents[1] \in DOMAIN Volume)
  BY <1>2, <1>5, FileIs
<1>8. Len(p) \in Nat
  <2>1. Len(p) \in Nat \ {0}
    BY PatternsAre, ZenonT(30)
  <2> QED BY <2>1
<1>9. CASE k = Len(p)
  <2>1. Gives(c, p, ds) = OfFile(c, f, Head(q)) /\ Len(q) = 1
    BY <1>3, <1>6, <1>9
  <2>2. Gives(c, p, ds) = IF f.name \in Head(q) /\ Shown(c, f) THEN <<Result(c, f)>> ELSE <<>>
    BY <2>1 DEF OfFile
  <2>3. ~(Len(q) > 1)
    BY <1>3, <1>8, <1>9
  <2> QED BY <1>7, <2>1, <2>2, <2>3 DEF GivesWhat
<1>10. CASE k < Len(p)
  <2>1. k # Len(p)
    BY <1>8, <1>10
  <2>2. Len(q) # 1 /\ Gives(c, p, ds) = OfLibrary(f, Head(q), Tables(c, p)[k + 1])
    BY <1>3, <1>6, <2>1, SMTT(20)
  <2>3. Gives(c, p, ds) = IF f.name \in Head(q) /\ f.type = "LIB" /\ f.extents # <<>>
                          THEN Tables(c, p)[k + 1][f.extents[1]] ELSE <<>>
    BY <2>2 DEF OfLibrary
  <2> QED BY <1>1, <1>3, <1>7, <1>10, <2>2, <2>3, Zenon DEF GivesWhat
<1> QED BY <1>4, <1>9, <1>10

(***************************************************************************)
(* The inductive invariant.  As long as the device works, the search owes  *)
(* the rest of what is expected, and the record, the file and the place in *)
(* its list are those of the file the innermost call is at.                *)
(***************************************************************************)
Walking == {"dalent", "block", "walked"}

ThisFile  == Volume[Here.base][Here.idx]
RecIsFile == AtFile(dirs) /\ rec = RecordAt(Here.base, Here.idx)
CurIsFile == cur = FileAt(Here.base, Here.idx)

(* The list of f, an extent of f, or all of f is copied so far.            *)
InList(c, f) ==
  \E j \in DOMAIN f.chain :
    next = f.chain[j].at /\ out = Gathered(c, f, f.chain[j].ahead)
InExtent(c, f) ==
  \E j \in DOMAIN f.chain, a \in 0 .. Len(f.extents) - 1, t \in 0 .. f.size - 1 :
    /\ next = f.chain[j].at /\ f.chain[j].ahead = a + 1
    /\ num = f.extents[a + 1] + t /\ last = f.extents[a + 1] + f.size
    /\ out = Gathered(c, f, a) \o SubSeq(Pieces(f)[a + 1], 1, t)
Placed(c, f) ==
  /\ pc = "dalent" => InList(c, f)
  /\ pc = "block"  => c.callback = "extract" /\ InExtent(c, f)
  /\ pc = "walked" => out = Result(c, f).blocks

Exact(c, p) ==
  /\ pc = "header" => \/ Owes(c, p, Opened(dirs), written)
                      \/ Here.base = NoSector /\ IsPrefix(written, Expected[c][p])
  /\ pc \notin {"header", "exit"} => Owes(c, p, dirs, written)
  /\ pc = "exit" => written = Expected[c][p]
  /\ pc \in {"attr", "match"} /\ Here.idx # 0 => RecIsFile
  /\ pc = "match" /\ Here.idx # 0 /\ dev = "OPEN" => CurIsFile
  /\ pc = "library" =>
       /\ RecIsFile /\ rec.name \in Head(Here.pattern)
       /\ ThisFile.type = "LIB" /\ Len(Here.pattern) > 1
       /\ dev = "OPEN" => /\ CurIsFile
                          /\ \E j \in DOMAIN ThisFile.chain :
                               ThisFile.chain[j] = [at |-> next, ahead |-> 0]
  /\ pc \in Walking =>
       /\ RecIsFile /\ rec.name \in Head(Here.pattern)
       /\ Shown(c, ThisFile) /\ Len(Here.pattern) = 1 /\ c.callback # "list"
       /\ dev = "OPEN" => CurIsFile /\ Placed(c, ThisFile)

(* Once it has failed, at most the last of the files is incomplete.        *)
Damaged(w, x) ==
  /\ Len(w) <= Len(x)
  /\ \A n \in 1 .. Len(w) : w[n].name = x[n].name
  /\ \A n \in 1 .. Len(w) - 1 : w[n] = x[n]

Spoilt(x) ==
  /\ Damaged(written, x)
  /\ pc \in Walking =>
       /\ IsPrefix(written, x) /\ Len(written) < Len(x)
       /\ rec.name = x[Len(written) + 1].name

Supplied(c, p) ==
  /\ command = c /\ dirs[1].pattern = p
  /\ written \in Seq(Output) /\ out \in Seq(Blocks)
  /\ pc \notin Walking \union {"crashed"} => out = <<>>

Searches(c, p) ==
  /\ Supplied(c, p)
  /\ \/ Exact(c, p)
     \/ dev # "OPEN" /\ pc \notin {"attr", "match"} /\ Spoilt(Expected[c][p])

(* A beginning is not damaged, nor one with a last file of the right name. *)
LEMMA BeginningIs ==
  ASSUME NEW X, NEW w \in Seq(X), NEW x \in Seq(X), IsPrefix(w, x)
  PROVE  Len(w) <= Len(x) /\ \A n \in 1 .. Len(w) : w[n] = x[n]
<1>1. Len(w) <= Len(x) /\ SubSeq(w, 1, Len(w)) = SubSeq(x, 1, Len(w))
  BY DEF IsPrefix
<1>2. \A n \in 1 .. Len(w) : SubSeq(w, 1, Len(w))[n] = w[n]
  OBVIOUS
<1>3. \A n \in 1 .. Len(w) : SubSeq(x, 1, Len(w))[n] = x[n]
  BY <1>1
<1> QED BY <1>1, <1>2, <1>3

LEMMA BeginningUndamaged ==
  ASSUME NEW w \in Seq(Output), NEW x \in Seq(Output), IsPrefix(w, x)
  PROVE  Damaged(w, x)
<1>1. Len(w) <= Len(x) /\ \A n \in 1 .. Len(w) : w[n] = x[n]
  BY BeginningIs
<1>2. \A n \in 1 .. Len(w) - 1 : n \in 1 .. Len(w)
  OBVIOUS
<1> QED BY <1>1, <1>2, Zenon DEF Damaged

LEMMA OneMoreDamaged ==
  ASSUME NEW w \in Seq(Output), NEW x \in Seq(Output), IsPrefix(w, x), Len(w) < Len(x),
         NEW o, o.name = x[Len(w) + 1].name
  PROVE  Damaged(Append(w, o), x)
<1>1. PICK l \in Nat : l = Len(w)
  OBVIOUS
<1>2. \A n \in 1 .. l : w[n] = x[n]
  BY <1>1, BeginningIs
<1>3. PICK v : /\ v = Append(w, o) /\ Len(v) = l + 1 /\ v[l + 1] = o
               /\ \A n \in 1 .. l : v[n] = w[n]
  <2>1. w \in Seq(Output \union {o})
    OBVIOUS
  <2>2. /\ Len(Append(w, o)) = l + 1 /\ Append(w, o)[l + 1] = o
        /\ \A n \in 1 .. l : Append(w, o)[n] = w[n]
    BY <1>1, <2>1
  <2> QED BY <2>2
<1>4. \A n \in 1 .. l + 1 : n \in 1 .. l \/ n = l + 1
  OBVIOUS
<1>5. Len(v) <= Len(x) /\ Len(v) - 1 = l
  BY <1>1, <1>3
<1>6. \A n \in 1 .. l + 1 : v[n].name = x[n].name
  BY <1>1, <1>2, <1>3, <1>4, Zenon
<1> QED BY <1>2, <1>3, <1>5, <1>6 DEF Damaged

(* What is exact is not spoilt.                                            *)
LEMMA ExactIsUnspoilt ==
  ASSUME NEW c \in Commands, NEW p \in Patterns, Supplied(c, p), Exact(c, p)
  PROVE  /\ IsPrefix(written, Expected[c][p]) /\ Spoilt(Expected[c][p])
         /\ pc \in Walking => /\ Gives(c, p, dirs) = <<Result(c, ThisFile)>>
                              /\ ThisFile \in VolumeFile
                              /\ Expected[c][p][Len(written) + 1] = Result(c, ThisFile)
<1>1. PICK x \in Seq(Output) : x = Expected[c][p]
  BY ExpectedType
<1>2. written \in Seq(Output)
  BY DEF Supplied
<1>3. IsPrefix(written, x)
  <2>1. CASE pc = "header"
    BY <1>1, <1>2, <2>1, OwesBegins DEF Exact
  <2>2. CASE pc = "exit"
    <3>1. \A s \in Seq(Output) : IsPrefix(s, s)
      BY DEF IsPrefix
    <3> QED BY <1>1, <1>2, <2>2, <3>1 DEF Exact
  <2>3. CASE pc \notin {"header", "exit"}
    BY <1>1, <1>2, <2>3, OwesBegins DEF Exact
  <2> QED BY <2>1, <2>2, <2>3
<1>4. Damaged(written, x)
  BY <1>2, <1>3, BeginningUndamaged
<1>5. ASSUME pc \in Walking
      PROVE  /\ Gives(c, p, dirs) = <<Result(c, ThisFile)>> /\ ThisFile \in VolumeFile
             /\ Len(written) < Len(x) /\ x[Len(written) + 1] = Result(c, ThisFile)
             /\ rec.name = x[Len(written) + 1].name
  <2>1. Owes(c, p, dirs, written)
    BY <1>5 DEF Exact, Walking
  <2>2. /\ RecIsFile /\ rec.name \in Head(Here.pattern)
        /\ Shown(c, ThisFile) /\ Len(Here.pattern) = 1
    BY <1>5 DEF Exact
  <2>3. Here.base \in DOMAIN Volume /\ Here.idx \in DOMAIN Volume[Here.base] /\ AtFile(dirs)
    BY <2>1, <2>2, OwesCalls DEF RecIsFile, AtFile, Reading, Here
  <2>4. PICK f : f = ThisFile
    OBVIOUS
  <2>5. f \in VolumeFile /\ rec.name = f.name
    BY <2>2, <2>3, <2>4, RecordIs DEF RecIsFile, ThisFile
  <2>6. Gives(c, p, dirs) = <<Result(c, f)>>
    <3>1. GivesWhat(c, p, dirs, f, Here.pattern)
      BY <2>1, <2>3, <2>4, GivesIs DEF ThisFile, Here
    <3> QED BY <2>2, <2>4, <2>5, <3>1 DEF GivesWhat
  <2>7. Result(c, f) \in Output /\ Result(c, f).name = f.name
    BY <2>5, ResultIs
  <2>8. Len(written) < Len(x) /\ x[Len(written) + 1] = Result(c, f)
    <3>1. PICK r \in Output : r = Result(c, f)
      BY <2>7
    <3>2. AtFile(dirs) /\ Gives(c, p, dirs) = <<r>>
      BY <2>3, <2>6, <3>1
    <3>3. Len(written) < Len(Expected[c][p]) /\ Expected[c][p][Len(written) + 1] = r
      BY <1>2, <2>1, <3>2, OwesFile
    <3> QED BY <1>1, <3>1, <3>3
  <2> QED BY <2>4, <2>5, <2>6, <2>7, <2>8
<1> QED BY <1>1, <1>3, <1>4, <1>5 DEF Spoilt

(* The steps from record to record keep the first call's pattern.          *)
LEMMA FirstCall ==
  ASSUME NEW ds \in Seq(Call), ds # <<>>
  PROVE  /\ Moved(ds)[1].pattern = ds[1].pattern
         /\ Opened(ds)[1].pattern = ds[1].pattern
         /\ Len(ds) > 1 => Moved(SubSeq(ds, 1, Len(ds) - 1))[1].pattern = ds[1].pattern
         /\ \A e : Append(ds, e)[1] = ds[1]
<1>1. ASSUME NEW es \in Seq(Call), es # <<>>
      PROVE  Moved(es)[1].pattern = es[1].pattern /\ Opened(es)[1].pattern = es[1].pattern
  <2>1. PICK n \in Nat \ {0} : n = Len(es) /\ DOMAIN es = 1 .. n /\ 1 \in 1 .. n
    BY <1>1
  <2>2. es[1] \in Call /\ es[n] \in Call
    BY <2>1
  <2>3. PICK e \in Call : e = es[n]
    BY <2>2
  <2>4. PICK d : d = [e EXCEPT !.idx = (@ + 1) % IdxModulus]
    OBVIOUS
  <2>5. PICK h : h = [e EXCEPT !.alist = Header[es[n].base], !.idx = 1]
    OBVIOUS
  <2>6. d.pattern = e.pattern /\ h.pattern = e.pattern
    BY <2>3, <2>4, <2>5 DEF Call
  <2>7. Moved(es) = [es EXCEPT ![n] = d]
    BY <2>1, <2>3, <2>4 DEF Moved
  <2>8. Opened(es) = [es EXCEPT ![n] = h]
    BY <2>1, <2>3, <2>5 DEF Opened
  <2>9. Moved(es)[1] = (IF n = 1 THEN d ELSE es[1]) /\ Opened(es)[1] = (IF n = 1 THEN h ELSE es[1])
    BY <2>1, <2>7, <2>8
  <2> QED BY <2>3, <2>6, <2>9
<1>2. ASSUME Len(ds) > 1
      PROVE  Moved(SubSeq(ds, 1, Len(ds) - 1))[1].pattern = ds[1].pattern
  <2>1. PICK es \in Seq(Call) : es = SubSeq(ds, 1, Len(ds) - 1) /\ es # <<>> /\ es[1] = ds[1]
    <3>1. SubSeq(ds, 1, Len(ds) - 1) \in Seq(Call)
      BY <1>2
    <3>2. SubSeq(ds, 1, Len(ds) - 1)[1] = ds[1]
      BY <1>2
    <3>3. SubSeq(ds, 1, Len(ds) - 1) # <<>>
      <4>1. Len(SubSeq(ds, 1, Len(ds) - 1)) # 0
        BY <1>2
      <4>2. Len(<<>>) = 0
        OBVIOUS
      <4> QED BY <4>1, <4>2, Zenon
    <3> QED BY <3>1, <3>2, <3>3
  <2> QED BY <1>1, <2>1
<1>3. \A e : Append(ds, e)[1] = ds[1]
  OBVIOUS
<1> QED BY <1>1, <1>2, <1>3

LEMMA NextRecordIs ==
  ASSUME NEW ds, NextRecord(ds)
  PROVE  dirs' = Moved(ds) /\ pc' = "dirent"
BY DEF NextRecord, Moved

LEMMA ReturnIs ==
  ASSUME SearchTypeOK, Return
  PROVE  /\ \/ Len(dirs) > 1 /\ dirs' = Moved(SubSeq(dirs, 1, Len(dirs) - 1)) /\ pc' = "dirent"
            \/ Len(dirs) = 1 /\ dirs' = dirs /\ pc' = "exit"
<1>1. PICK n \in Nat \ {0} : n = Len(dirs)
  BY DEF SearchTypeOK
<1>2. CASE Len(dirs) > 1
  BY <1>2, NextRecordIs DEF Return
<1>3. CASE ~(Len(dirs) > 1)
  <2>1. n = 1
    BY <1>1, <1>3
  <2> QED BY <1>1, <1>3, <2>1 DEF Return
<1> QED BY <1>2, <1>3

(* A read that succeeds leaves the device open.                            *)
LEMMA ReadIs ==
  ASSUME NEW n, NEW ok \in BOOLEAN, ReadSector(n, ok)
  PROVE  /\ ok => dev = "OPEN" /\ dev' = "OPEN" /\ n \in Sectors
         /\ ~ok => dev' = "IOERROR"
BY DEF ReadSector

(* The name of the file being walked is one.                               *)
LEMMA WalkedName ==
  ASSUME NEW c \in Commands, NEW p \in Patterns, Supplied(c, p), Spoilt(Expected[c][p]),
         pc \in Walking
  PROVE  rec.name \in STRING
<1>1. PICK x \in Seq(Output) : x = Expected[c][p]
  BY ExpectedType
<1>2. written \in Seq(Output) /\ Len(written) < Len(x) /\ rec.name = x[Len(written) + 1].name
  BY <1>1 DEF Spoilt, Supplied
<1>3. x[Len(written) + 1] \in Output
  BY <1>2
<1> QED BY <1>2, <1>3 DEF Output

(* From a search that has been spoilt, or is by this step.                 *)
LEMMA SpoiltSteps ==
  ASSUME SearchIInv, NEW c \in Commands, NEW p \in Patterns, Supplied(c, p),
         Spoilt(Expected[c][p]), pc \notin {"attr", "match"} \/ FindCrash,
         dev' # "OPEN", FindStep
  PROVE  pc' \notin {"attr", "match"} /\ Spoilt(Expected[c][p])'
<1>1. PICK x \in Seq(Output) : x = Expected[c][p]
  BY ExpectedType
<1>2. SearchTypeOK /\ written \in Seq(Output) /\ Damaged(written, x)
  BY <1>1 DEF SearchIInv, Supplied, Spoilt
<1>3. ASSUME UNCHANGED written, pc' \notin Walking
      PROVE  Spoilt(x)'
  BY <1>2, <1>3 DEF Spoilt
<1>4. ASSUME Return
      PROVE  pc' \notin {"attr", "match"} /\ pc' \notin Walking
  BY <1>2, <1>4, ReturnIs DEF Walking
<1>5. CASE ReadHeader
  <2>1. PICK ok \in BOOLEAN : ReadSector(Here.base, ok) /\ (~ok => Return)
    BY <1>5, Zenon DEF ReadHeader
  <2>2. ~ok /\ UNCHANGED written
    BY <1>5, <2>1, ReadIs DEF ReadHeader
  <2> QED BY <1>1, <1>3, <1>4, <2>1, <2>2
<1>6. CASE ReadDirent
  <2>1. PICK ok \in BOOLEAN : ReadSector(RecordSector(Here.base, Here.idx), ok) /\ (~ok => Return)
    BY <1>6, Zenon DEF ReadDirent
  <2>2. ~ok /\ UNCHANGED written
    BY <1>6, <2>1, ReadIs DEF ReadDirent
  <2> QED BY <1>1, <1>3, <1>4, <2>1, <2>2
<1>7. CASE EnterLibrary
  <2>1. pc' \in {"library", "header"} /\ UNCHANGED written
    BY <1>7 DEF EnterLibrary
  <2> QED BY <1>1, <1>3, <2>1 DEF Walking
<1>8. CASE Walk \/ PrintExtent
  <2>1. pc \in Walking /\ pc' \in Walking /\ UNCHANGED <<written, rec>>
    BY <1>8 DEF Walk, PrintExtent, FollowLink, TakeExtent, EndOfList, CopyBlock, Walking
  <2> QED BY <1>1, <2>1 DEF Spoilt, Walking
<1>9. CASE FileDone
  <2>1. /\ pc \in Walking /\ pc' \notin Walking /\ pc' \notin {"attr", "match"}
        /\ written' = Append(written, [name |-> rec.name, blocks |-> out])
    BY <1>9, NextRecordIs DEF FileDone, Walking
  <2>2. /\ IsPrefix(written, x) /\ Len(written) < Len(x)
        /\ rec.name = x[Len(written) + 1].name
    BY <1>1, <2>1 DEF Spoilt
  <2>3. PICK o : o = [name |-> rec.name, blocks |-> out] /\ o.name = rec.name
    <3>1. \A u, v : [name |-> u, blocks |-> v].name = u
      OBVIOUS
    <3> QED BY <3>1, Zenon
  <2>4. Damaged(written', x)
    BY <1>2, <2>1, <2>2, <2>3, OneMoreDamaged
  <2> QED BY <1>1, <2>1, <2>4 DEF Spoilt
<1>10. CASE FindCrash
  <2>1. pc' = "crashed" /\ UNCHANGED written
    BY <1>10 DEF FindCrash, Crash
  <2> QED BY <1>1, <1>3, <2>1 DEF Walking
<1>11. ASSUME ~FindCrash
       PROVE  ~(ReadAttr \/ SkipRecord \/ FoundLibrary \/ FoundFile \/ IndexWrapped)
  BY <1>11 DEF ReadAttr, SkipRecord, FoundLibrary, FoundFile, IndexWrapped
<1> QED BY <1>5, <1>6, <1>7, <1>8, <1>9, <1>10, <1>11 DEF FindStep

(* Every step keeps what the user supplied, and the types of the results.  *)
LEMMA SuppliedKept ==
  ASSUME SearchIInv, NEW c \in Commands, NEW p \in Patterns, Supplied(c, p), FindStep,
         FoundFile \/ FileDone => rec.name \in STRING
  PROVE  Supplied(c, p)'
<1>1. /\ SearchTypeOK /\ dirs \in Seq(Call) /\ dirs # <<>>
      /\ command = c /\ dirs[1].pattern = p
      /\ written \in Seq(Output) /\ out \in Seq(Blocks)
      /\ pc \notin Walking \union {"crashed"} => out = <<>>
  BY DEF SearchIInv, SearchTypeOK, Supplied
<1>2. command' = c
  BY <1>1 DEF FindStep
<1>3. ASSUME dirs' = dirs \/ dirs' = Moved(dirs) \/ dirs' = Opened(dirs)
              \/ (Len(dirs) > 1 /\ dirs' = Moved(SubSeq(dirs, 1, Len(dirs) - 1)))
              \/ \E e : dirs' = Append(dirs, e)
      PROVE  dirs'[1].pattern = p
  <2>1. /\ Moved(dirs)[1].pattern = p
        /\ Opened(dirs)[1].pattern = p
        /\ Len(dirs) > 1 => Moved(SubSeq(dirs, 1, Len(dirs) - 1))[1].pattern = p
        /\ \A e : Append(dirs, e)[1] = dirs[1]
    BY <1>1, FirstCall
  <2> QED BY <1>1, <1>3, <2>1, Zenon
<1>4. Return => /\ dirs' = dirs \/ (Len(dirs) > 1 /\ dirs' = Moved(SubSeq(dirs, 1, Len(dirs) - 1)))
                /\ pc' \notin Walking \union {"crashed"}
  BY <1>1, ReturnIs DEF Walking
<1>5. ASSUME NEW o, o = [name |-> rec.name, blocks |-> out], rec.name \in STRING
      PROVE  Append(written, o) \in Seq(Output)
  <2>1. o \in Output
    BY <1>1, <1>5 DEF Output
  <2> QED BY <1>1, <2>1
<1>6. CASE ReadHeader
  <2>1. /\ dirs' = Opened(dirs) \/ Return
        /\ pc \notin Walking \union {"crashed"} /\ UNCHANGED <<out, written>>
    BY <1>6 DEF ReadHeader, Walking, Opened, Here
  <2> QED BY <1>1, <1>2, <1>3, <1>4, <2>1 DEF Supplied
<1>7. CASE ReadDirent
  <2>1. /\ dirs' = dirs \/ Return
        /\ pc \notin Walking \union {"crashed"} /\ UNCHANGED <<out, written>>
    BY <1>7, Zenon DEF ReadDirent, Walking
  <2> QED BY <1>1, <1>2, <1>3, <1>4, <2>1 DEF Supplied
<1>8. CASE ReadAttr \/ FoundLibrary \/ FindCrash
  <2>1. /\ UNCHANGED <<dirs, out, written>>
        /\ pc' = "crashed" \/ pc \notin Walking \union {"crashed"}
    BY <1>8 DEF ReadAttr, FoundLibrary, FindCrash, Crash, Walking
  <2> QED BY <1>1, <1>2, <2>1 DEF Supplied
<1>9. CASE SkipRecord
  <2>1. /\ dirs' = Moved(dirs) /\ UNCHANGED <<out, written>>
        /\ pc \notin Walking \union {"crashed"}
    BY <1>9, NextRecordIs DEF SkipRecord, Walking
  <2> QED BY <1>1, <1>2, <1>3, <2>1 DEF Supplied
<1>10. CASE IndexWrapped
  <2>1. Return /\ UNCHANGED <<out, written>> /\ pc \notin Walking \union {"crashed"}
    BY <1>10 DEF IndexWrapped, Walking
  <2> QED BY <1>1, <1>2, <1>3, <1>4, <2>1 DEF Supplied
<1>11. CASE FoundFile
  <2>1. out' = out /\ pc \notin Walking \union {"crashed"}
    BY <1>11 DEF FoundFile, Walking
  <2>2. \/ UNCHANGED <<dirs, written>>
        \/ NextRecord(dirs) /\ written' = Append(written, [name |-> rec.name, blocks |-> <<>>])
    BY <1>11, Zenon DEF FoundFile
  <2>3. written' \in Seq(Output)
    BY <1>1, <1>5, <1>11, <2>1, <2>2
  <2>4. dirs' = dirs \/ dirs' = Moved(dirs)
    BY <2>2, NextRecordIs
  <2> QED BY <1>1, <1>2, <1>3, <2>1, <2>3, <2>4 DEF Supplied
<1>12. CASE EnterLibrary
  <2>1. /\ dirs' = dirs \/ \E e : dirs' = Append(dirs, e)
        /\ pc \notin Walking \union {"crashed"} /\ UNCHANGED <<out, written>>
    <3>1. PICK e \in FetchedEntries :
            IF IsPointer(e) /\ ~IsEnd(e)
            THEN next' = LinkTarget(cur, e) /\ UNCHANGED <<dirs, pc>>
            ELSE /\ dirs' = Append(dirs, Frame(IF IsEnd(e) THEN NoSector ELSE Extent(cur, e),
                                                     Tail(Here.pattern)))
                 /\ pc' = "header"
                 /\ UNCHANGED next
      BY <1>12, Zenon DEF EnterLibrary
    <3>2. dirs' = dirs \/ \E f : dirs' = Append(dirs, f)
      BY <3>1, Zenon
    <3> QED BY <1>12, <3>2 DEF EnterLibrary, Walking
  <2> QED BY <1>1, <1>2, <1>3, <2>1 DEF Supplied
<1>13. CASE Walk \/ PrintExtent
  <2>1. UNCHANGED <<dirs, written>> /\ pc' \in Walking
    BY <1>13 DEF Walk, PrintExtent, FollowLink, TakeExtent, EndOfList, CopyBlock, Walking
  <2>2. out' \in Seq(Blocks)
    <3>1. CASE UNCHANGED out
      BY <1>1, <3>1
    <3>2. CASE CopyBlock
      <4>1. PICK ok \in BOOLEAN :
              ReadSector(num, ok) /\ out' = Append(out, IF ok THEN num ELSE Junk)
        BY <3>2 DEF CopyBlock
      <4>2. (IF ok THEN num ELSE Junk) \in Blocks
        BY <4>1, ReadIs, WalkAssumption DEF Blocks
      <4> QED BY <1>1, <4>1, <4>2
    <3>3. CASE PrintExtent
      <4>1. PICK e \in FetchedEntries : FetchEntry(e) /\ out' = Append(out, Extent(cur, e))
        BY <3>3 DEF PrintExtent
      <4>2. Extent(cur, e) \in Blocks
        BY <1>1, <4>1, FetchedEntry DEF Blocks
      <4> QED BY <1>1, <4>1, <4>2
    <3> QED BY <1>13, <3>1, <3>2, <3>3 DEF Walk, FollowLink, TakeExtent, EndOfList
  <2> QED BY <1>1, <1>2, <2>1, <2>2 DEF Supplied
<1>14. CASE FileDone
  <2>1. out' = <<>> /\ dirs' = Moved(dirs)
        /\ written' = Append(written, [name |-> rec.name, blocks |-> out])
    BY <1>14, NextRecordIs DEF FileDone
  <2>2. written' \in Seq(Output)
    BY <1>5, <1>14, <2>1
  <2>3. out' \in Seq(Blocks)
    BY <2>1
  <2> QED BY <1>1, <1>2, <1>3, <2>1, <2>2, <2>3 DEF Supplied
<1> QED BY <1>6, <1>7, <1>8, <1>9, <1>10, <1>11, <1>12, <1>13, <1>14 DEF FindStep

(***************************************************************************)
(* The steps of a search that is exact so far.                             *)
(***************************************************************************)
LEMMA ExactReturn ==
  ASSUME SearchTypeOK, NEW c \in Commands, NEW p \in Patterns, Supplied(c, p),
         Owes(c, p, dirs, written), ~AtFile(dirs), Return, UNCHANGED written
  PROVE  Exact(c, p)'
<1>1. written \in Seq(Output)
  BY DEF Supplied
<1>2. CASE Len(dirs) > 1
  <2>1. dirs' = Moved(SubSeq(dirs, 1, Len(dirs) - 1)) /\ pc' = "dirent"
    <3>1. PICK n \in Nat : n = Len(dirs)
      BY DEF SearchTypeOK
    <3>2. n # 1
      BY <1>2, <3>1, SMTT(20)
    <3> QED BY <3>1, <3>2, ReturnIs
  <2>2. Owes(c, p, dirs', written')
    BY <1>1, <1>2, <2>1, OwesReturn
  <2> QED BY <2>1, <2>2, Zenon DEF Exact, Walking
<1>3. CASE Len(dirs) = 1
  <2>1. pc' = "exit"
    BY <1>3, ReturnIs
  <2>2. written' = Expected[c][p]
    BY <1>1, <1>3, OwesReturn
  <2> QED BY <2>1, <2>2, Zenon DEF Exact, Walking
<1> QED BY <1>2, <1>3, ReturnIs

LEMMA ExactHeader ==
  ASSUME NEW c \in Commands, NEW p \in Patterns, Supplied(c, p), Exact(c, p),
         ReadHeader, dev' = "OPEN"
  PROVE  Exact(c, p)'
<1>1. PICK ok \in BOOLEAN :
        /\ ReadSector(Here.base, ok)
        /\ ok => Here.base \in DOMAIN Header
        /\ IF ok
           THEN /\ dirs' = [dirs EXCEPT ![Len(dirs)].alist = Header[Here.base],
                                        ![Len(dirs)].idx = 1]
                /\ pc' = "dirent"
           ELSE Return
  BY Zenon DEF ReadHeader
<1>2. ok
  BY <1>1, ReadIs
<1>3. dirs' = Opened(dirs) /\ pc' = "dirent" /\ pc = "header" /\ UNCHANGED written
  BY <1>1, <1>2 DEF ReadHeader, Opened, Here
<1>4. Here.base # NoSector
  <2>1. Here.base \in Sectors
    BY <1>1, <1>2, ReadIs
  <2>2. NoSector \notin Sectors
    BY FindAssumption, Zenon
  <2> QED BY <2>1, <2>2
<1>5. Owes(c, p, dirs', written')
  BY <1>3, <1>4, Zenon DEF Exact
<1> QED BY <1>3, <1>5, Zenon DEF Exact, Walking

(* A record without a name is that of no file.                             *)
LEMMA ExactDirent ==
  ASSUME SearchTypeOK, NEW c \in Commands, NEW p \in Patterns, Supplied(c, p), Exact(c, p),
         ReadDirent, dev' = "OPEN"
  PROVE  Exact(c, p)'
<1>1. PICK ok \in BOOLEAN :
        /\ ReadSector(RecordSector(Here.base, Here.idx), ok)
        /\ IF ok /\ RecordAt(Here.base, Here.idx).name # NoName
           THEN rec' = RecordAt(Here.base, Here.idx) /\ pc' = "attr" /\ UNCHANGED dirs
           ELSE Return /\ UNCHANGED rec
  BY Zenon DEF ReadDirent
<1>2. ok
  BY <1>1, ReadIs
<1>3. pc = "dirent" /\ UNCHANGED written
  BY DEF ReadDirent
<1>4. Owes(c, p, dirs, written)
  BY <1>3 DEF Exact
<1>5. PICK b \in DOMAIN Volume, i, n \in Nat :
        /\ b = Here.base /\ i = Here.idx /\ i \in 0 .. n + 1 /\ i < IdxModulus
        /\ n = Len(Volume[b]) /\ DOMAIN Volume[b] = 1 .. n
        /\ n + 1 < IdxModulus => RecordAt(b, n + 1).name = NoName
  <2>1. Reading(Here)
    BY <1>4, OwesCalls DEF Here
  <2> QED BY <2>1, DirectoryIs DEF Reading
<1>6. AtFile(dirs) <=> i \in 1 .. n
  BY <1>5 DEF AtFile, Here
<1>7. CASE RecordAt(b, i).name # NoName
  <2>1. rec' = RecordAt(b, i) /\ pc' = "attr" /\ UNCHANGED dirs
    BY <1>1, <1>2, <1>5, <1>7
  <2>2. i # n + 1
    BY <1>5, <1>7
  <2>3. i # 0 => AtFile(dirs)
    BY <1>5, <1>6, <2>2
  <2>4. Here'.idx # 0 => RecIsFile'
    BY <1>5, <2>1, <2>3 DEF RecIsFile, AtFile, Here
  <2>5. Owes(c, p, dirs', written')
    BY <1>3, <1>4, <2>1, Zenon
  <2> QED BY <2>1, <2>4, <2>5 DEF Exact, Walking
<1>8. CASE RecordAt(b, i).name = NoName
  <2>1. Return
    BY <1>1, <1>5, <1>8
  <2>2. ~AtFile(dirs)
    <3>1. i \in DOMAIN Volume[b] => RecordAt(b, i).name # NoName
      BY RecordIs
    <3> QED BY <1>5, <1>6, <1>8, <3>1
  <2> QED BY <1>3, <1>4, <2>1, <2>2, ExactReturn
<1> QED BY <1>7, <1>8

(* The attributes give the extents of the file, and their size.            *)
LEMMA ExactAttr ==
  ASSUME NEW c \in Commands, NEW p \in Patterns, Exact(c, p), ReadAttr
  PROVE  Exact(c, p)'
<1> DEFINE at == Attributes(Here, rec)
<1>1. PICK ok \in BOOLEAN :
        /\ ReadSector(at.sector, ok)
        /\ \E i \in IF ok /\ OnList(at) THEN {AList[at.sector][at.slot][2]} ELSE StackIncrements :
              cur' = FileOf(Here, rec, 2 ^ i)
  BY Zenon DEF ReadAttr
<1>2. pc = "attr" /\ pc' = "match" /\ UNCHANGED <<dirs, rec, written>>
  BY DEF ReadAttr
<1>3. Owes(c, p, dirs, written)
  BY <1>2 DEF Exact
<1>4. Owes(c, p, dirs', written')
  BY <1>2, <1>3, Zenon
<1>5. Here'.idx # 0 => RecIsFile'
  BY <1>2 DEF Exact, RecIsFile, AtFile, Here
<1> HIDE DEF at
<1>6. ASSUME Here.idx # 0, dev' = "OPEN" PROVE cur' = FileAt(Here.base, Here.idx)
  <2>1. RecIsFile /\ Reading(Here)
    BY <1>2, <1>3, <1>6, OwesCalls DEF Exact, Here
  <2>2. PICK b, i : /\ b = Here.base /\ i = Here.idx
                    /\ b \in DOMAIN Volume /\ i \in DOMAIN Volume[b]
                    /\ rec = RecordAt(b, i) /\ Here.alist = Header[b]
    BY <2>1 DEF RecIsFile, AtFile, Here, Reading
  <2>3. at = AttrAt(b, i)
    BY <2>2 DEF at, Attributes, AttrAt, Directory
  <2>4. \A x : FileOf(Here, rec, x) = FileOf(Directory(b), RecordAt(b, i), x)
    BY <2>2 DEF FileOf, Attributes, Directory
  <2>5. /\ OnList(AttrAt(b, i))
        /\ Volume[b][i].size = 2 ^ AList[AttrAt(b, i).sector][AttrAt(b, i).slot][2]
    BY <2>2, RecordIs
  <2>6. ok
    BY <1>1, <1>6, ReadIs
  <2>7. cur' = FileOf(Here, rec, 2 ^ AList[at.sector][at.slot][2])
    BY <1>1, <2>3, <2>5, <2>6
  <2> QED BY <1>1, <2>2, <2>3, <2>4, <2>5, <2>7, Zenon DEF FileAt
<1>7. Here'.idx # 0 /\ dev' = "OPEN" => CurIsFile'
  BY <1>2, <1>6 DEF CurIsFile, Here
<1> QED BY <1>2, <1>4, <1>5, <1>7 DEF Exact, Walking

(* The file the innermost call is at, and what it gives.                   *)
LEMMA HereIs ==
  ASSUME NEW c \in Commands, NEW p \in Patterns, Owes(c, p, dirs, written), RecIsFile,
         NEW f, f = ThisFile, NEW q, q = Here.pattern
  PROVE  /\ Here.base \in DOMAIN Volume /\ Here.idx \in DOMAIN Volume[Here.base] /\ AtFile(dirs)
         /\ Here.idx # 0
         /\ f \in VolumeFile /\ f.name \in STRING /\ rec.name = f.name /\ rec.type = f.type
         /\ GivesWhat(c, p, dirs, f, q)
<1>1. PICK b, i : b = Here.base /\ i = Here.idx
  OBVIOUS
<1>2. b \in DOMAIN Volume /\ i \in DOMAIN Volume[b] /\ AtFile(dirs) /\ rec = RecordAt(b, i)
  BY <1>1, OwesCalls DEF RecIsFile, AtFile, Reading, Here
<1>3. f = Volume[b][i] /\ f = Volume[dirs[Len(dirs)].base][dirs[Len(dirs)].idx]
      /\ q = dirs[Len(dirs)].pattern
  BY <1>1 DEF ThisFile, Here
<1>4. f \in VolumeFile /\ f.name \in STRING /\ rec.name = f.name /\ rec.type = f.type
  BY <1>2, <1>3, RecordIs
<1>5. i # 0
  BY <1>2, DirectoryIs
<1>6. GivesWhat(c, p, dirs, f, q)
  BY <1>2, <1>3, GivesIs, Zenon
<1> QED BY <1>1, <1>2, <1>4, <1>5, <1>6, Zenon

LEMMA ExactSkip ==
  ASSUME NEW c \in Commands, NEW p \in Patterns, Supplied(c, p), Exact(c, p), SkipRecord
  PROVE  Exact(c, p)'
<1>1. /\ pc = "match" /\ Here.idx # 0 /\ UNCHANGED written
      /\ dirs' = Moved(dirs) /\ pc' = "dirent" /\ written \in Seq(Output) /\ command = c
  BY NextRecordIs DEF SkipRecord, Supplied
<1>2. Owes(c, p, dirs, written) /\ RecIsFile
  BY <1>1 DEF Exact
<1>3. PICK f, q : f = ThisFile /\ q = Here.pattern
  OBVIOUS
<1>4. \/ f.name \notin Head(q)
      \/ Len(q) > 1 /\ f.type # "LIB"
      \/ Len(q) = 1 /\ ~Shown(c, f)
  BY <1>1, <1>2, <1>3, HereIs DEF SkipRecord, Matches, Hidden, Shown, Command
<1>5. Gives(c, p, dirs) = <<>> /\ AtFile(dirs)
  <2>1. GivesWhat(c, p, dirs, f, q) /\ AtFile(dirs)
    BY <1>2, <1>3, HereIs, Zenon
  <2> QED BY <1>4, <2>1 DEF GivesWhat
<1>6. Owes(c, p, dirs', written')
  BY <1>1, <1>2, <1>5, OwesSkip
<1> QED BY <1>1, <1>6, Zenon DEF Exact, Walking

LEMMA ExactLibrary ==
  ASSUME NEW c \in Commands, NEW p \in Patterns, Exact(c, p), FoundLibrary
  PROVE  Exact(c, p)'
<1>1. /\ pc = "match" /\ Here.idx # 0 /\ rec.name \in Head(Here.pattern)
      /\ Len(Here.pattern) > 1 /\ rec.type = "LIB"
      /\ pc' = "library" /\ next' = cur.start
      /\ UNCHANGED <<dev, dirs, rec, cur, written>>
  BY DEF FoundLibrary, Matches
<1>2. Owes(c, p, dirs, written) /\ RecIsFile /\ (dev = "OPEN" => CurIsFile)
  BY <1>1 DEF Exact
<1>3. PICK f, b, i : f = ThisFile /\ b = Here.base /\ i = Here.idx
  OBVIOUS
<1>4. b \in DOMAIN Volume /\ i \in DOMAIN Volume[b] /\ f = Volume[b][i] /\ f.type = "LIB"
  BY <1>1, <1>2, <1>3, HereIs DEF ThisFile
<1>5. 1 \in DOMAIN f.chain /\ f.chain[1] = [at |-> FileAt(b, i).start, ahead |-> 0]
  BY <1>4, ListIs
<1>6. dev = "OPEN" =>
        /\ CurIsFile
        /\ \E j \in DOMAIN f.chain : f.chain[j] = [at |-> next', ahead |-> 0]
  BY <1>1, <1>2, <1>3, <1>5 DEF CurIsFile
<1>7. Owes(c, p, dirs', written')
  BY <1>1, <1>2, Zenon
<1>8. RecIsFile' /\ Here' = Here /\ ThisFile' = ThisFile /\ CurIsFile' = CurIsFile
  BY <1>1, <1>2, Zenon DEF RecIsFile, AtFile, Here, ThisFile, CurIsFile
<1>9. /\ ThisFile'.type = "LIB"
      /\ dev' = "OPEN" =>
           /\ CurIsFile'
           /\ \E j \in DOMAIN ThisFile'.chain : ThisFile'.chain[j] = [at |-> next', ahead |-> 0]
  BY <1>1, <1>3, <1>4, <1>6, <1>8, Zenon
<1> QED BY <1>1, <1>7, <1>8, <1>9, Zenon DEF Exact, Walking

LEMMA ExactWrapped ==
  ASSUME SearchTypeOK, NEW c \in Commands, NEW p \in Patterns, Supplied(c, p), Exact(c, p),
         IndexWrapped
  PROVE  Exact(c, p)'
<1>1. pc = "match" /\ Here.idx = 0 /\ Return /\ UNCHANGED written
  BY DEF IndexWrapped
<1>2. Owes(c, p, dirs, written)
  BY <1>1 DEF Exact
<1>3. ~AtFile(dirs)
  <2>1. Here.base \in DOMAIN Volume
    BY <1>2, OwesCalls DEF Reading, Here
  <2>2. 0 \notin DOMAIN Volume[Here.base]
    BY <2>1, DirectoryIs
  <2> QED BY <1>1, <2>2 DEF AtFile, Here
<1> QED BY <1>1, <1>2, <1>3, ExactReturn

(* A file goes to the callback.                                            *)
LEMMA ExactFile ==
  ASSUME NEW c \in Commands, NEW p \in Patterns, Supplied(c, p), Exact(c, p), FoundFile
  PROVE  Exact(c, p)' /\ rec.name \in STRING
<1>1. /\ pc = "match" /\ Here.idx # 0 /\ rec.name \in Head(Here.pattern)
      /\ Len(Here.pattern) = 1 /\ ~Hidden /\ command = c /\ written \in Seq(Output)
      /\ UNCHANGED <<dev, out, rec, cur>>
  BY DEF FoundFile, Matches, Supplied
<1>2. Owes(c, p, dirs, written) /\ RecIsFile /\ (dev = "OPEN" => CurIsFile)
  BY <1>1 DEF Exact
<1>3. PICK f, b, i, q : f = ThisFile /\ b = Here.base /\ i = Here.idx /\ q = Here.pattern
  OBVIOUS
<1>4. /\ b \in DOMAIN Volume /\ i \in DOMAIN Volume[b] /\ f = Volume[b][i] /\ AtFile(dirs)
      /\ f \in VolumeFile /\ f.name \in STRING /\ rec.name = f.name /\ rec.type = f.type
  BY <1>2, <1>3, HereIs DEF ThisFile
<1>5. Shown(c, f)
  BY <1>1, <1>4 DEF Hidden, Shown, Command
<1>6. CASE c.callback = "list"
  <2>1. /\ written' = Append(written, [name |-> rec.name, blocks |-> <<>>])
        /\ NextRecord(dirs)
    BY <1>1, <1>6, Zenon DEF FoundFile, Command
  <2>2. PICK r \in Output : r = Result(c, f) /\ r.name = f.name /\ r.blocks = <<>>
    BY <1>4, <1>6, ResultIs
  <2>3. r = [name |-> f.name, blocks |-> <<>>]
    BY <2>2 DEF Output
  <2>4. Gives(c, p, dirs) = <<r>>
    <3>1. GivesWhat(c, p, dirs, f, q)
      BY <1>2, <1>3, HereIs, Zenon
    <3> QED BY <1>1, <1>3, <1>4, <1>5, <2>2, <3>1 DEF GivesWhat
  <2>5. Owes(c, p, Moved(dirs), Append(written, r))
    BY <1>1, <1>2, <1>4, <2>4, OwesFile
  <2>6. dirs' = Moved(dirs) /\ pc' = "dirent" /\ written' = Append(written, r)
    BY <1>4, <2>1, <2>3, NextRecordIs
  <2>7. Owes(c, p, dirs', written')
    BY <2>5, <2>6, Zenon
  <2> QED BY <1>4, <2>6, <2>7, Zenon DEF Exact, Walking
<1>7. CASE c.callback # "list"
  <2>1. pc' = "dalent" /\ next' = cur.start /\ UNCHANGED <<dirs, written>>
    BY <1>1, <1>7, Zenon DEF FoundFile, Command
  <2>2. out = <<>>
    BY <1>1 DEF Supplied, Walking
  <2>3. 1 \in DOMAIN f.chain /\ f.chain[1] = [at |-> FileAt(b, i).start, ahead |-> 0]
        /\ 0 \in 0 .. Len(f.extents)
    BY <1>4, ListIs
  <2>4. Gathered(c, f, 0) = <<>>
    BY <1>4, <1>7, <2>3, GatheredIs
  <2>5. dev = "OPEN" => CurIsFile /\ \E j \in DOMAIN f.chain :
                          next' = f.chain[j].at /\ out' = Gathered(c, f, f.chain[j].ahead)
    <3>1. dev = "OPEN" => CurIsFile /\ next' = f.chain[1].at
      BY <1>2, <1>3, <2>1, <2>3 DEF CurIsFile
    <3>2. out' = Gathered(c, f, f.chain[1].ahead)
      BY <1>1, <2>2, <2>3, <2>4
    <3> QED BY <2>3, <3>1, <3>2
  <2>6. Owes(c, p, dirs', written')
    BY <1>2, <2>1, Zenon
  <2>7. RecIsFile' /\ Here' = Here /\ ThisFile' = f /\ CurIsFile' = CurIsFile
    BY <1>1, <1>2, <1>3, <2>1, Zenon DEF RecIsFile, AtFile, Here, ThisFile, CurIsFile
  <2>8. dev' = "OPEN" => CurIsFile' /\ Placed(c, ThisFile)'
    BY <1>1, <2>1, <2>5, <2>7, Zenon DEF Placed, InList
  <2> QED BY <1>1, <1>4, <1>5, <1>7, <2>1, <2>6, <2>7, <2>8, Zenon DEF Exact, Walking
<1> QED BY <1>6, <1>7

(* Only the call entered last changes.                                     *)
LEMMA LastCall ==
  ASSUME NEW ds \in Seq(Call), NEW a \in Call
  PROVE  /\ Append(ds, a) \in Seq(Call) /\ Len(Append(ds, a)) = Len(ds) + 1
         /\ Append(ds, a)[Len(ds) + 1] = a
         /\ \A e \in Call : [Append(ds, a) EXCEPT ![Len(ds) + 1] = e] = Append(ds, e)
<1>1. PICK n \in Nat : n = Len(ds)
  OBVIOUS
<1>2. \A e \in Call : /\ Append(ds, e) \in Seq(Call) /\ Len(Append(ds, e)) = n + 1
                      /\ Append(ds, e)[n + 1] = e
                      /\ \A d \in 1 .. n : Append(ds, e)[d] = ds[d]
  <2> SUFFICES ASSUME NEW e \in Call
               PROVE  /\ Append(ds, e) \in Seq(Call) /\ Len(Append(ds, e)) = n + 1
                      /\ Append(ds, e)[n + 1] = e
                      /\ \A d \in 1 .. n : Append(ds, e)[d] = ds[d]
    OBVIOUS
  <2>1. Append(ds, e) \in Seq(Call) /\ Len(Append(ds, e)) = n + 1
    BY <1>1
  <2>2. Append(ds, e)[n + 1] = e
    BY <1>1
  <2>3. \A d \in 1 .. n : Append(ds, e)[d] = ds[d]
    BY <1>1
  <2> QED BY <2>1, <2>2, <2>3
<1>3. ASSUME NEW e \in Call
      PROVE  [Append(ds, a) EXCEPT ![n + 1] = e] = Append(ds, e)
  <2>1. PICK u \in Seq(Call), v \in Seq(Call) : u = Append(ds, a) /\ v = Append(ds, e)
    BY <1>2
  <2>2. /\ Len(u) = n + 1 /\ Len(v) = n + 1 /\ v[n + 1] = e
        /\ \A d \in 1 .. n : u[d] = v[d]
    BY <1>2, <2>1
  <2>3. PICK w : w = [u EXCEPT ![n + 1] = e]
    OBVIOUS
  <2>4. n + 1 \in 1 .. Len(u)
    BY <2>2
  <2>5. /\ w \in Seq(Call) /\ Len(w) = n + 1 /\ w[n + 1] = e
        /\ \A d \in 1 .. n + 1 : d # n + 1 => w[d] = u[d]
    BY <2>2, <2>3, <2>4, OneCall
  <2>6. \A d \in 1 .. n + 1 : d = n + 1 \/ d \in 1 .. n
    OBVIOUS
  <2>7. \A d \in 1 .. n + 1 : w[d] = v[d]
    BY <2>2, <2>5, <2>6
  <2>8. w = v
    BY <2>2, <2>5, <2>7, SeqEqual
  <2> QED BY <2>1, <2>3, <2>8
<1> QED BY <1>1, <1>2, <1>3

LEMMA FileIsListed ==
  ASSUME NEW b \in DOMAIN Volume, NEW i \in DOMAIN Volume[b]
  PROVE  Listed(Volume[b][i], FileAt(b, i))
<1>1. PICK f, file : f = Volume[b][i] /\ file = FileAt(b, i)
  OBVIOUS
<1> QED BY <1>1, ListIs

(* An entry of that list, fetched while the device works.                  *)
LEMMA FetchedIs ==
  ASSUME SearchTypeOK, dev' = "OPEN", NEW e \in FetchedEntries, FetchEntry(e),
         NEW f, Listed(f, cur), NEW j \in DOMAIN f.chain, next = f.chain[j].at
  PROVE  dev = "OPEN" /\ Says(f, cur, j, e)
<1>1. dev \in DeviceStates /\ next \in Position
  BY DEF SearchTypeOK
<1>2. OnList(next) /\ Says(f, cur, j, AList[next.sector][next.slot])
  <2>1. OnList(f.chain[j].at)
        /\ Says(f, cur, j, AList[f.chain[j].at.sector][f.chain[j].at.slot])
    BY Zenon DEF Listed
  <2>2. PICK at : at = f.chain[j].at
    OBVIOUS
  <2>3. OnList(at) /\ Says(f, cur, j, AList[at.sector][at.slot])
    BY <2>1, <2>2, Zenon
  <2>4. next = at
    BY <2>2, Zenon
  <2> QED BY <2>3, <2>4, Zenon
<1>3. dev = "OPEN" /\ e = AList[next.sector][next.slot]
  BY <1>1, <1>2, FetchEntryStep
<1> QED BY <1>2, <1>3

(* A library is entered at its first extent; one without extents gives     *)
(* nothing, and is sought beyond every image.                              *)
LEMMA ExactEnter ==
  ASSUME SearchTypeOK, NEW c \in Commands, NEW p \in Patterns, Supplied(c, p), Exact(c, p),
         EnterLibrary, dev' = "OPEN"
  PROVE  Exact(c, p)'
<1>1. PICK e \in FetchedEntries :
        /\ FetchEntry(e)
        /\ IF IsPointer(e) /\ ~IsEnd(e)
           THEN next' = LinkTarget(cur, e) /\ UNCHANGED <<dirs, pc>>
           ELSE /\ dirs' = Append(dirs, Frame(IF IsEnd(e) THEN NoSector ELSE Extent(cur, e),
                                                   Tail(Here.pattern)))
                /\ pc' = "header"
                /\ UNCHANGED next
  BY Zenon DEF EnterLibrary
<1>2. pc = "library" /\ UNCHANGED <<rec, cur, written>>
  BY DEF EnterLibrary
<1>3. dev = "OPEN"
  BY <1>1, FetchEntryStep DEF SearchTypeOK
<1>4. /\ Owes(c, p, dirs, written) /\ RecIsFile /\ rec.name \in Head(Here.pattern)
      /\ ThisFile.type = "LIB" /\ Len(Here.pattern) > 1 /\ CurIsFile
      /\ \E j \in DOMAIN ThisFile.chain : ThisFile.chain[j] = [at |-> next, ahead |-> 0]
  BY <1>2, <1>3 DEF Exact
<1>5. PICK f, b, i, q : f = ThisFile /\ b = Here.base /\ i = Here.idx /\ q = Here.pattern
  OBVIOUS
<1>6. PICK j \in DOMAIN f.chain : f.chain[j].at = next /\ f.chain[j].ahead = 0
  BY <1>4, <1>5
<1>7. /\ b \in DOMAIN Volume /\ i \in DOMAIN Volume[b] /\ f = Volume[b][i] /\ AtFile(dirs)
      /\ cur = FileAt(b, i) /\ rec.name = f.name
  BY <1>4, <1>5, HereIs DEF ThisFile, CurIsFile
<1>8. /\ f.extents \in Seq(Nat)
      /\ IsEnd(e) => 0 = Len(f.extents)
      /\ IsPointer(e) /\ ~IsEnd(e) =>
           /\ j + 1 \in DOMAIN f.chain
           /\ f.chain[j + 1] = [at |-> LinkTarget(cur, e), ahead |-> 0]
      /\ ~IsPointer(e) =>
           /\ 0 < Len(f.extents)
           /\ f.extents[1] = Extent(cur, e)
  <2>1. Says(f, cur, j, e)
    <3>1. Listed(f, cur)
      BY <1>7, FileIsListed
    <3> QED BY <1>1, <1>6, <3>1, FetchedIs
  <2>2. 0 + 1 = 1
    OBVIOUS
  <2> QED BY <1>6, <2>1, <2>2, Zenon DEF Says
<1>9. CASE IsPointer(e) /\ ~IsEnd(e)
  <2>1. next' = LinkTarget(cur, e) /\ UNCHANGED <<dirs, pc>>
    BY <1>1, <1>9
  <2>2. \E k \in DOMAIN f.chain : f.chain[k] = [at |-> next', ahead |-> 0]
    BY <1>8, <1>9, <2>1
  <2>3. RecIsFile' /\ Here' = Here /\ ThisFile' = f /\ CurIsFile'
    BY <1>2, <1>4, <1>5, <2>1, Zenon DEF RecIsFile, AtFile, Here, ThisFile, CurIsFile
  <2>4. Owes(c, p, dirs', written') /\ pc' = "library" /\ UNCHANGED <<rec, written>>
    BY <1>2, <1>4, <2>1, Zenon
  <2> QED BY <1>4, <1>5, <2>2, <2>3, <2>4, Zenon DEF Exact, Walking
<1>10. CASE IsEnd(e)
  <2>1. f.extents = <<>>
    BY <1>8, <1>10
  <2>2. dirs' = Append(dirs, Frame(NoSector, Tail(q))) /\ pc' = "header"
    BY <1>1, <1>5, <1>10, Zenon
  <2>3. Here'.base = NoSector
    <3>1. PICK a : a = Frame(NoSector, Tail(q))
      OBVIOUS
    <3>2. a.base = NoSector
      BY <3>1 DEF Frame
    <3>3. PICK es : es = Append(dirs, a)
      OBVIOUS
    <3>4. es[Len(es)] = a
      BY <3>3 DEF SearchTypeOK
    <3> QED BY <2>2, <3>1, <3>2, <3>3, <3>4 DEF Here
  <2>4. IsPrefix(written', Expected[c][p])
    BY <1>2, ExactIsUnspoilt
  <2> QED BY <2>2, <2>3, <2>4, Zenon DEF Exact, Walking
<1>11. CASE ~IsPointer(e)
  <2>1. ~IsEnd(e)
    BY <1>11 DEF IsEnd
  <2>2. PICK s : s = f.extents[1] /\ s = Extent(cur, e) /\ f.extents # <<>>
    BY <1>8, <1>11
  <2>3. dirs' = Append(dirs, Frame(s, Tail(q))) /\ pc' = "header"
    BY <1>1, <1>5, <1>11, <2>1, <2>2, Zenon
  <2>4. /\ Gives(c, p, dirs) = Tables(c, p)[Len(dirs) + 1][s] /\ s \in DOMAIN Volume
        /\ Len(dirs) < Len(p) /\ Tail(q) = SubSeq(p, Len(dirs) + 1, Len(p))
    <3>1. f.name \in Head(q) /\ f.type = "LIB" /\ Len(q) > 1
      BY <1>4, <1>5, <1>7
    <3>2. GivesWhat(c, p, dirs, f, q)
      BY <1>4, <1>5, HereIs, Zenon
    <3> QED BY <1>4, <1>5, <2>2, <3>1, <3>2 DEF GivesWhat
  <2>5. PICK t \in Seq(Part) : t = Tail(q) /\ t = SubSeq(p, Len(dirs) + 1, Len(p))
    <3>1. PICK m \in Nat : m = Len(dirs)
      BY DEF SearchTypeOK
    <3>2. SubSeq(p, m + 1, Len(p)) \in Seq(Part)
      BY PatternsAre
    <3> QED BY <2>4, <3>1, <3>2
  <2>6. s \in Nat /\ Header[s] \in Nat
    <3>1. \A x \in Seq(Nat) : x # <<>> => x[1] \in Nat
      OBVIOUS
    <3>2. s \in Nat
      BY <1>8, <2>2, <3>1
    <3>3. Header[s] \in Nat
      BY <2>4, DirectoryIs
    <3> QED BY <3>2, <3>3
  <2>7. PICK call \in Call : call = [base |-> s, alist |-> Header[s], idx |-> 1, pattern |-> t]
    BY <2>6 DEF Call
  <2>8. call.base = s /\ call.alist = Header[s] /\ call.idx = 1 /\ call.pattern = t
    BY <2>7
  <2>9. Reading(call)
    <3>1. 1 \in 0 .. Len(Volume[s]) + 1 /\ 1 < IdxModulus
      BY <2>4, DirectoryIs, ModulusIs
    <3> QED BY <2>4, <2>8, <3>1 DEF Reading
  <2>10. Owes(c, p, Append(dirs, call), written)
    BY <1>4, <1>7, <2>4, <2>5, <2>8, <2>9, OwesEnter
  <2>11. Opened(dirs') = Append(dirs, call)
    <3>1. PICK n \in Nat : n = Len(dirs) /\ dirs \in Seq(Call)
      BY DEF SearchTypeOK
    <3>2. PICK a : a = Frame(s, t)
      OBVIOUS
    <3>3. a \in Call
      BY <2>6, <3>2 DEF Frame, Call
    <3>4. PICK es \in Seq(Call) : es = Append(dirs, a) /\ Len(es) = n + 1 /\ es[n + 1] = a
      BY <3>1, <3>3, LastCall
    <3>5. call = [a EXCEPT !.alist = Header[s], !.idx = 1] /\ a.base = s
      <4>1. PICK h \in Nat : h = Header[s]
        BY <2>6
      <4>2. a = [base |-> s, alist |-> 0, idx |-> 0, pattern |-> t]
        BY <3>2 DEF Frame
      <4>3. [a EXCEPT !.alist = h] = [base |-> s, alist |-> h, idx |-> 0, pattern |-> t]
        BY <4>2
      <4>4. [[base |-> s, alist |-> h, idx |-> 0, pattern |-> t] EXCEPT !.idx = 1]
            = [base |-> s, alist |-> h, idx |-> 1, pattern |-> t]
        OBVIOUS
      <4>5. [a EXCEPT !.alist = h, !.idx = 1] = [base |-> s, alist |-> h, idx |-> 1, pattern |-> t]
        BY <4>3, <4>4
      <4> QED BY <2>7, <4>1, <4>2, <4>5
    <3>6. Opened(es) = [es EXCEPT ![n + 1] = call]
      <4>1. PICK h : h = Header[s]
        OBVIOUS
      <4>2. call = [es[n + 1] EXCEPT !.alist = h, !.idx = 1] /\ Header[es[n + 1].base] = h
        BY <3>4, <3>5, <4>1
      <4> QED BY <3>4, <4>2 DEF Opened
    <3>7. [es EXCEPT ![n + 1] = call] = Append(dirs, call)
      BY <3>1, <3>3, <3>4, LastCall
    <3> QED BY <2>3, <2>5, <3>2, <3>4, <3>6, <3>7, Zenon
  <2>12. Owes(c, p, Opened(dirs'), written')
    BY <1>2, <2>10, <2>11, Zenon
  <2> QED BY <2>3, <2>12, Zenon DEF Exact, Walking
<1> QED BY <1>9, <1>10, <1>11 DEF IsEnd

(***************************************************************************)
(* The walk of the list of a file.                                         *)
(***************************************************************************)
LEMMA WalkedFile ==
  ASSUME NEW c \in Commands, NEW p \in Patterns, Exact(c, p), pc \in Walking,
         dev = "OPEN", NEW f, f = ThisFile
  PROVE  /\ Owes(c, p, dirs, written) /\ AtFile(dirs)
         /\ f \in VolumeFile /\ f.name \in STRING /\ rec.name = f.name
         /\ Gives(c, p, dirs) = <<Result(c, f)>>
         /\ c.callback # "list" /\ Placed(c, f) /\ Listed(f, cur)
         /\ cur.blk = f.size
<1>1. Owes(c, p, dirs, written)
  BY DEF Exact, Walking
<1>2. /\ RecIsFile /\ rec.name \in Head(Here.pattern)
      /\ Shown(c, f) /\ Len(Here.pattern) = 1 /\ c.callback # "list"
      /\ CurIsFile /\ Placed(c, f)
  BY DEF Exact
<1>3. PICK b, i, q : b = Here.base /\ i = Here.idx /\ q = Here.pattern
  OBVIOUS
<1>4. /\ b \in DOMAIN Volume /\ i \in DOMAIN Volume[b] /\ f = Volume[b][i]
      /\ f \in VolumeFile /\ f.name \in STRING /\ rec.name = f.name /\ AtFile(dirs)
  BY <1>1, <1>2, <1>3, HereIs DEF ThisFile
<1>5. Gives(c, p, dirs) = <<Result(c, f)>>
  <2>1. GivesWhat(c, p, dirs, f, q)
    BY <1>1, <1>2, <1>3, HereIs, Zenon
  <2> QED BY <1>1, <1>2, <1>3, <1>4, <2>1 DEF GivesWhat
<1>6. cur = FileAt(b, i)
  BY <1>2, <1>3 DEF CurIsFile
<1>7. Listed(f, cur)
  BY <1>4, <1>6, FileIsListed
<1>8. cur.blk = f.size
  BY <1>4, <1>6 DEF FileAt, FileOf
<1> QED BY <1>1, <1>2, <1>4, <1>5, <1>7, <1>8

(* As long as it goes on, only the place in the list changes.              *)
LEMMA StillWalking ==
  ASSUME NEW c \in Commands, NEW p \in Patterns, Exact(c, p), pc \in Walking,
         dev = "OPEN", pc' \in Walking, UNCHANGED <<dirs, rec, cur, written>>,
         NEW f, f = ThisFile, Placed(c, f)'
  PROVE  Exact(c, p)'
<1>1. Owes(c, p, dirs, written)
  BY DEF Exact, Walking
<1>2. /\ RecIsFile /\ rec.name \in Head(Here.pattern)
      /\ Shown(c, f) /\ Len(Here.pattern) = 1 /\ c.callback # "list" /\ CurIsFile
  BY DEF Exact
<1>3. RecIsFile' /\ Here' = Here /\ ThisFile' = f /\ CurIsFile'
  BY <1>2, Zenon DEF RecIsFile, AtFile, Here, ThisFile, CurIsFile
<1>4. Owes(c, p, dirs', written')
  BY <1>1, Zenon
<1>5. pc' \notin {"header", "exit"} /\ pc' \notin {"attr", "match"} /\ pc' # "library"
  BY DEF Walking
<1> QED BY <1>2, <1>3, <1>4, <1>5, Zenon DEF Exact

LEMMA FollowLinkPlaced ==
  ASSUME SearchTypeOK, dev' = "OPEN", NEW c, NEW f, Listed(f, cur), Placed(c, f),
         FollowLink(cur)
  PROVE  pc' = "dalent" /\ Placed(c, f)'
<1>1. PICK e \in FetchedEntries :
        FetchEntry(e) /\ IsPointer(e) /\ ~IsEnd(e) /\ next' = LinkTarget(cur, e)
  BY DEF FollowLink
<1>2. pc = "dalent" /\ pc' = "dalent" /\ out' = out
  BY DEF FollowLink
<1>3. PICK j \in DOMAIN f.chain : next = f.chain[j].at /\ out = Gathered(c, f, f.chain[j].ahead)
  BY <1>2, Zenon DEF Placed, InList
<1>4. Says(f, cur, j, e)
  BY <1>1, <1>3, FetchedIs
<1>5. /\ j + 1 \in DOMAIN f.chain
      /\ f.chain[j + 1] = [at |-> LinkTarget(cur, e), ahead |-> f.chain[j].ahead]
  BY <1>1, <1>4, Zenon DEF Says
<1>6. next' = f.chain[j + 1].at /\ out' = Gathered(c, f, f.chain[j + 1].ahead)
  BY <1>1, <1>2, <1>3, <1>5
<1>7. InList(c, f)'
  BY <1>5, <1>6, Zenon DEF InList
<1> QED BY <1>2, <1>7, Zenon DEF Placed

LEMMA TakeExtentPlaced ==
  ASSUME SearchTypeOK, dev' = "OPEN", NEW c \in Commands, c.callback = "extract",
         NEW f \in VolumeFile, Listed(f, cur), cur.blk = f.size, Placed(c, f),
         TakeExtent(cur)
  PROVE  pc' = "block" /\ Placed(c, f)'
<1>1. PICK e \in FetchedEntries :
        /\ FetchEntry(e) /\ ~IsPointer(e)
        /\ num' = Extent(cur, e) /\ last' = Extent(cur, e) + cur.blk
  BY DEF TakeExtent
<1>2. pc = "dalent" /\ pc' = "block" /\ out' = out /\ next' = FollowingSlot(next)
  BY DEF TakeExtent
<1>3. PICK j \in DOMAIN f.chain : next = f.chain[j].at /\ out = Gathered(c, f, f.chain[j].ahead)
  BY <1>2, Zenon DEF Placed, InList
<1>4. Says(f, cur, j, e)
  BY <1>1, <1>3, FetchedIs
<1>5. /\ j + 1 \in DOMAIN f.chain /\ f.extents \in Seq(Nat)
      /\ f.chain[j].ahead \in 0 .. Len(f.extents)
      /\ f.chain[j + 1] = [at |-> FollowingSlot(f.chain[j].at), ahead |-> f.chain[j].ahead + 1]
      /\ f.chain[j].ahead < Len(f.extents)
      /\ f.extents[f.chain[j].ahead + 1] = Extent(cur, e)
  BY <1>1, <1>4, Zenon DEF Says
<1>6. PICK a \in Nat : a = f.chain[j].ahead /\ a < Len(f.extents) /\ a \in 0 .. Len(f.extents) - 1
  BY <1>5
<1>7. PICK s \in Nat, z \in Nat \ {0} :
        s = f.extents[a + 1] /\ z = f.size /\ num' = s + 0 /\ last' = s + z
  <2>1. f.extents[a + 1] \in Nat
    <3>1. PICK s \in Seq(Nat) : s = f.extents
      BY <1>5
    <3>2. s[a + 1] \in Nat
      BY <1>6, <3>1, SMTT(20)
    <3> QED BY <3>1, <3>2
  <2>2. f.size \in Nat \ {0}
    BY PiecesAre
  <2>3. \A m \in Nat : m + 0 = m
    OBVIOUS
  <2> QED BY <1>1, <1>5, <1>6, <2>1, <2>2, <2>3
<1>8. next' = f.chain[j + 1].at /\ f.chain[j + 1].ahead = a + 1
  BY <1>2, <1>3, <1>5, <1>6
<1>9. out' = Gathered(c, f, a) \o SubSeq(Pieces(f)[a + 1], 1, 0)
  BY <1>2, <1>3, <1>6, ExtractGathers
<1>10. 0 \in 0 .. f.size - 1
  BY <1>7
<1>11. InExtent(c, f)'
  BY <1>5, <1>6, <1>7, <1>8, <1>9, <1>10, Zenon DEF InExtent
<1> QED BY <1>2, <1>11, Zenon DEF Placed

LEMMA EndOfListPlaced ==
  ASSUME SearchTypeOK, dev' = "OPEN", NEW c \in Commands, c.callback # "list",
         NEW f \in VolumeFile, Listed(f, cur), Placed(c, f), EndOfList
  PROVE  pc' = "walked" /\ Placed(c, f)'
<1>1. PICK e \in FetchedEntries : FetchEntry(e) /\ IsEnd(e)
  BY DEF EndOfList
<1>2. pc = "dalent" /\ pc' = "walked" /\ out' = out
  BY DEF EndOfList
<1>3. PICK j \in DOMAIN f.chain : next = f.chain[j].at /\ out = Gathered(c, f, f.chain[j].ahead)
  BY <1>2, Zenon DEF Placed, InList
<1>4. Says(f, cur, j, e)
  BY <1>1, <1>3, FetchedIs
<1>5. f.chain[j].ahead = Len(f.extents) /\ Len(f.extents) \in 0 .. Len(f.extents)
  BY <1>1, <1>4, Zenon DEF Says
<1>6. out' = Result(c, f).blocks
  BY <1>2, <1>3, <1>5, GatheredIs
<1> QED BY <1>2, <1>6, Zenon DEF Placed

(* The numbers of the blocks of an extent of z that begins at s.           *)
LEMMA BlockNumbers ==
  ASSUME NEW s \in Nat, NEW z \in Nat \ {0}, NEW t \in 0 .. z - 1
  PROVE  /\ (s + t) + 1 = s + (t + 1)
         /\ (s + t) + 1 < s + z <=> t + 1 < z
         /\ ~(t + 1 < z) => t + 1 = z
<1>1. t \in Nat /\ t <= z - 1
  OBVIOUS
<1> QED BY <1>1

LEMMA PrintExtentPlaced ==
  ASSUME SearchTypeOK, dev' = "OPEN", NEW c \in Commands, command = c,
         NEW f \in VolumeFile, Listed(f, cur), Placed(c, f), PrintExtent
  PROVE  pc' = "dalent" /\ Placed(c, f)'
<1>1. PICK e \in FetchedEntries :
        FetchEntry(e) /\ ~IsPointer(e) /\ out' = Append(out, Extent(cur, e))
  BY DEF PrintExtent
<1>2. pc = "dalent" /\ pc' = "dalent" /\ next' = FollowingSlot(next) /\ c.callback = "index"
  BY DEF PrintExtent, Command
<1>3. PICK j \in DOMAIN f.chain : next = f.chain[j].at /\ out = Gathered(c, f, f.chain[j].ahead)
  BY <1>2, Zenon DEF Placed, InList
<1>4. Says(f, cur, j, e)
  BY <1>1, <1>3, FetchedIs
<1>5. /\ j + 1 \in DOMAIN f.chain /\ f.extents \in Seq(Nat)
      /\ f.chain[j].ahead \in 0 .. Len(f.extents)
      /\ f.chain[j + 1] = [at |-> FollowingSlot(f.chain[j].at), ahead |-> f.chain[j].ahead + 1]
      /\ f.chain[j].ahead < Len(f.extents)
      /\ f.extents[f.chain[j].ahead + 1] = Extent(cur, e)
  BY <1>1, <1>4, Zenon DEF Says
<1>6. PICK a \in Nat : a = f.chain[j].ahead /\ a < Len(f.extents)
  BY <1>5
<1>7. out' = Gathered(c, f, a + 1)
  BY <1>1, <1>2, <1>3, <1>5, <1>6, IndexGathers
<1>8. next' = f.chain[j + 1].at /\ out' = Gathered(c, f, f.chain[j + 1].ahead)
  BY <1>2, <1>3, <1>5, <1>6, <1>7
<1>9. InList(c, f)'
  BY <1>5, <1>8, Zenon DEF InList
<1> QED BY <1>2, <1>9, Zenon DEF Placed

LEMMA CopyBlockPlaced ==
  ASSUME dev' = "OPEN", NEW c \in Commands, NEW f \in VolumeFile, Placed(c, f), CopyBlock
  PROVE  pc' \in {"block", "dalent"} /\ Placed(c, f)'
<1>1. PICK ok \in BOOLEAN : ReadSector(num, ok) /\ out' = Append(out, IF ok THEN num ELSE Junk)
  BY DEF CopyBlock
<1>2. out' = Append(out, num)
  BY <1>1, ReadIs
<1>3. /\ pc = "block" /\ num' = num + 1 /\ UNCHANGED <<next, last>>
      /\ pc' = IF num + 1 < last THEN "block" ELSE "dalent"
  BY DEF CopyBlock
<1>4. c.callback = "extract" /\ InExtent(c, f)
  BY <1>3 DEF Placed
<1>5. PICK j \in DOMAIN f.chain, a \in 0 .. Len(f.extents) - 1, t \in 0 .. f.size - 1 :
        /\ next = f.chain[j].at /\ f.chain[j].ahead = a + 1
        /\ num = f.extents[a + 1] + t /\ last = f.extents[a + 1] + f.size
        /\ out = Gathered(c, f, a) \o SubSeq(Pieces(f)[a + 1], 1, t)
  BY <1>4, Zenon DEF InExtent
<1>6. PICK n \in Nat, z \in Nat \ {0}, s \in Nat :
        /\ n = Len(f.extents) /\ z = f.size /\ s = f.extents[a + 1]
        /\ a \in Nat /\ a < n /\ t \in 0 .. z - 1 /\ t \in Nat
        /\ num = s + t /\ last = s + z
  <2>1. f.extents \in Seq(Nat) /\ f.size \in Nat \ {0}
    BY PiecesAre
  <2>2. Len(f.extents) \in Nat
    BY <2>1
  <2>3. a \in Nat /\ a < Len(f.extents)
    BY <2>2
  <2>4. f.extents[a + 1] \in Nat
    BY <2>1, <2>3
  <2>5. f.size - 1 \in Nat /\ t \in Nat
    BY <2>1
  <2> QED BY <1>5, <2>1, <2>2, <2>3, <2>4, <2>5
<1>7. out' = Gathered(c, f, a) \o SubSeq(Pieces(f)[a + 1], 1, t + 1)
  <2>1. a < Len(f.extents)
    BY <1>6
  <2>2. Append(Gathered(c, f, a) \o SubSeq(Pieces(f)[a + 1], 1, t), f.extents[a + 1] + t)
        = Gathered(c, f, a) \o SubSeq(Pieces(f)[a + 1], 1, t + 1)
    BY <1>4, <1>6, <2>1, ExtractGathers
  <2> QED BY <1>2, <1>5, <2>2, Zenon
<1>8. CASE t + 1 < z
  <2>1. t + 1 \in 0 .. f.size - 1
    BY <1>6, <1>8
  <2>2. num' = f.extents[a + 1] + (t + 1) /\ last' = f.extents[a + 1] + f.size
    <3>1. num' = (s + t) + 1 /\ last' = s + z /\ (s + t) + 1 = s + (t + 1)
      BY <1>3, <1>6, BlockNumbers, Zenon
    <3> QED BY <1>6, <3>1, Zenon
  <2>3. pc' = "block"
    <3>1. num + 1 < last
      <4>1. (s + t) + 1 < s + z
        BY <1>6, <1>8, BlockNumbers, Zenon
      <4> QED BY <1>6, <4>1, Zenon
    <3> QED BY <1>3, <3>1, Zenon
  <2>4. next' = f.chain[j].at
    BY <1>3, <1>5
  <2>5. InExtent(c, f)'
    BY <1>5, <1>7, <2>1, <2>2, <2>4, Zenon DEF InExtent
  <2> QED BY <1>4, <2>3, <2>5, Zenon DEF Placed
<1>9. CASE ~(t + 1 < z)
  <2>1. t + 1 = z /\ pc' = "dalent"
    <3>1. t + 1 = z
      BY <1>6, <1>9, BlockNumbers, Zenon
    <3>2. ~((s + t) + 1 < s + z)
      BY <1>6, <1>9, BlockNumbers, Zenon
    <3>3. ~(num + 1 < last)
      BY <1>6, <3>2, Zenon
    <3> QED BY <1>3, <3>1, <3>3, Zenon
  <2>2. out' = Gathered(c, f, a + 1)
    <3>1. a < Len(f.extents) /\ t + 1 = f.size
      BY <1>6, <2>1
    <3>2. Gathered(c, f, a) \o SubSeq(Pieces(f)[a + 1], 1, f.size) = Gathered(c, f, a + 1)
      BY <1>4, <1>6, <3>1, ExtractGathers
    <3> QED BY <1>7, <3>1, <3>2, Zenon
  <2>3. next' = f.chain[j].at /\ out' = Gathered(c, f, f.chain[j].ahead)
    BY <1>3, <1>5, <2>2
  <2>4. InList(c, f)'
    BY <2>3, Zenon DEF InList
  <2> QED BY <2>1, <2>4, Zenon DEF Placed
<1> QED BY <1>8, <1>9

LEMMA ExactWalk ==
  ASSUME SearchTypeOK, NEW c \in Commands, NEW p \in Patterns, Supplied(c, p), Exact(c, p),
         Walk \/ PrintExtent, dev' = "OPEN"
  PROVE  Exact(c, p)'
<1>1. dev = "OPEN"
  <2>1. CASE CopyBlock
    <3>1. PICK ok \in BOOLEAN : ReadSector(num, ok)
      BY <2>1 DEF CopyBlock
    <3> QED BY <3>1, ReadIs
  <2>2. CASE ~CopyBlock
    <3>1. PICK e \in FetchedEntries : FetchEntry(e)
      BY <2>2 DEF Walk, PrintExtent, FollowLink, TakeExtent, EndOfList
    <3> QED BY <3>1, FetchEntryStep DEF SearchTypeOK
  <2> QED BY <2>1, <2>2
<1>2. pc \in Walking /\ UNCHANGED <<dirs, rec, cur, written>> /\ command = c
  BY DEF Walk, PrintExtent, FollowLink, TakeExtent, EndOfList, CopyBlock, Walking, Supplied
<1>3. PICK f : f = ThisFile
  OBVIOUS
<1>4. /\ f \in VolumeFile /\ c.callback # "list" /\ Placed(c, f) /\ Listed(f, cur)
      /\ cur.blk = f.size
  BY <1>1, <1>2, <1>3, WalkedFile
<1>5. pc' \in Walking /\ Placed(c, f)'
  <2>1. CASE FollowLink(cur)
    BY <1>4, <2>1, FollowLinkPlaced DEF Walking
  <2>2. CASE TakeExtent(cur) /\ c.callback = "extract"
    BY <1>4, <2>2, TakeExtentPlaced DEF Walking
  <2>3. CASE EndOfList
    BY <1>4, <2>3, EndOfListPlaced DEF Walking
  <2>4. CASE CopyBlock
    BY <1>4, <2>4, CopyBlockPlaced DEF Walking
  <2>5. CASE PrintExtent
    BY <1>2, <1>4, <2>5, PrintExtentPlaced DEF Walking
  <2> QED BY <1>2, <2>1, <2>2, <2>3, <2>4, <2>5 DEF Walk, Command
<1> QED BY <1>1, <1>2, <1>3, <1>5, StillWalking

LEMMA ExactDone ==
  ASSUME NEW c \in Commands, NEW p \in Patterns, Supplied(c, p), Exact(c, p), FileDone,
         dev = "OPEN"
  PROVE  Exact(c, p)'
<1>1. /\ pc = "walked" /\ dirs' = Moved(dirs) /\ pc' = "dirent" /\ written \in Seq(Output)
      /\ written' = Append(written, [name |-> rec.name, blocks |-> out])
  BY NextRecordIs DEF FileDone, Supplied
<1>2. PICK f : f = ThisFile
  OBVIOUS
<1>3. /\ Owes(c, p, dirs, written) /\ AtFile(dirs)
      /\ f \in VolumeFile /\ f.name \in STRING /\ rec.name = f.name
      /\ Gives(c, p, dirs) = <<Result(c, f)>> /\ Placed(c, f)
  BY <1>1, <1>2, WalkedFile DEF Walking
<1>4. PICK r \in Output : r = Result(c, f) /\ r.name = f.name
  BY <1>3, ResultIs
<1>5. out = r.blocks
  BY <1>1, <1>3, <1>4 DEF Placed
<1>6. r = [name |-> rec.name, blocks |-> out]
  BY <1>3, <1>4, <1>5 DEF Output
<1>7. Gives(c, p, dirs) = <<r>>
  BY <1>3, <1>4
<1>8. Owes(c, p, Moved(dirs), Append(written, r))
  BY <1>1, <1>3, <1>7, OwesFile
<1>9. Owes(c, p, dirs', written')
  BY <1>1, <1>6, <1>8, Zenon
<1> QED BY <1>1, <1>9, Zenon DEF Exact, Walking

LEMMA SearchesStart ==
  ASSUME FindInit
  PROVE  \E c \in Commands, p \in Patterns : Searches(c, p)
<1>1. PICK p \in Patterns : dirs = <<Frame(BaseDir, p)>>
  BY Zenon DEF FindInit
<1>2. PICK c \in Commands : c = command
  BY DEF FindInit
<1>3. pc = "header" /\ written = <<>> /\ out = <<>>
  BY DEF FindInit, WalkInit
<1>4. p \in Seq(Part) /\ BaseDir \in DOMAIN Volume /\ BaseDir \in Nat /\ Header[BaseDir] \in Nat
  <2>1. BaseDir \in DOMAIN Volume
    BY VolumeAssumption, Zenon
  <2> QED BY <2>1, PatternsAre, DirectoryIs, Parameters
<1>5. PICK h \in Nat : h = Header[BaseDir]
  BY <1>4
<1>6. PICK first : first = Frame(BaseDir, p)
  OBVIOUS
<1>7. PICK call : call = [base |-> BaseDir, alist |-> h, idx |-> 1, pattern |-> p]
  OBVIOUS
<1>8. /\ call \in Call
      /\ call.base = BaseDir /\ call.alist = Header[BaseDir] /\ call.idx = 1 /\ call.pattern = p
  BY <1>4, <1>5, <1>7 DEF Call
<1>9. first = [base |-> BaseDir, alist |-> 0, idx |-> 0, pattern |-> p]
      /\ first.base = BaseDir /\ first.pattern = p
  BY <1>6 DEF Frame
<1>10. [first EXCEPT !.alist = h, !.idx = 1] = call
  <2>1. [first EXCEPT !.alist = h] = [base |-> BaseDir, alist |-> h, idx |-> 0, pattern |-> p]
    BY <1>9
  <2>2. [[base |-> BaseDir, alist |-> h, idx |-> 0, pattern |-> p] EXCEPT !.idx = 1]
        = [base |-> BaseDir, alist |-> h, idx |-> 1, pattern |-> p]
    OBVIOUS
  <2> QED BY <1>7, <2>1, <2>2
<1>11. PICK ds : ds = <<first>> /\ ds = dirs /\ ds[1] = first /\ Len(ds) = 1
  BY <1>1, <1>6
<1>12. Opened(ds) = <<call>>
  <2>1. Opened(ds) = [ds EXCEPT ![1] = [first EXCEPT !.alist = h, !.idx = 1]]
    BY <1>5, <1>9, <1>11 DEF Opened
  <2>2. [<<first>> EXCEPT ![1] = call] = <<call>>
    OBVIOUS
  <2> QED BY <1>10, <1>11, <2>1, <2>2, Zenon
<1>13. Left(c, p, <<call>>, Expected[c][p])
  BY <1>8, LeftStart
<1>14. <<>> \o Expected[c][p] = Expected[c][p]
  <2>1. \A u \in Seq(Output) : <<>> \o u = u
    OBVIOUS
  <2> QED BY <2>1, ExpectedType
<1>15. Owes(c, p, Opened(dirs), written)
  BY <1>3, <1>11, <1>12, <1>13, <1>14, Zenon DEF Owes
<1>16. Exact(c, p)
  BY <1>3, <1>15, Zenon DEF Exact, Walking
<1>17. Supplied(c, p)
  <2>1. <<>> \in Seq(Output) /\ <<>> \in Seq(Blocks)
    OBVIOUS
  <2> QED BY <1>2, <1>3, <1>9, <1>11, <2>1, Zenon DEF Supplied
<1> QED BY <1>16, <1>17, Zenon DEF Searches

(* A device that is open has always been.                                  *)
LEMMA OpenBefore ==
  ASSUME SearchTypeOK, FindStep, dev' = "OPEN"
  PROVE  dev = "OPEN" /\ ~FindCrash
<1>1. ~FindCrash
  BY DEF FindCrash, Crash
<1> SUFFICES dev = "OPEN"
  BY <1>1
<1>2. ASSUME NEW n, \E ok \in BOOLEAN : ReadSector(n, ok) PROVE dev = "OPEN"
  BY <1>2, ReadIs
<1>3. CASE ReadHeader
  BY <1>2, <1>3, Zenon DEF ReadHeader
<1>4. CASE ReadDirent
  BY <1>2, <1>4, Zenon DEF ReadDirent
<1>5. CASE ReadAttr
  BY <1>2, <1>5, Zenon DEF ReadAttr
<1>6. CASE CopyBlock
  BY <1>2, <1>6, Zenon DEF CopyBlock
<1>7. ASSUME NEW e, FetchEntry(e) PROVE dev = "OPEN"
  BY <1>2, <1>7, Zenon DEF FetchEntry
<1>8. CASE EnterLibrary \/ (Walk /\ ~CopyBlock) \/ PrintExtent
  BY <1>7, <1>8, Zenon DEF EnterLibrary, Walk, PrintExtent, FollowLink, TakeExtent, EndOfList
<1>9. CASE SkipRecord \/ FoundLibrary \/ FoundFile \/ IndexWrapped \/ FileDone
  BY <1>9 DEF SkipRecord, FoundLibrary, FoundFile, IndexWrapped, FileDone
<1> QED BY <1>1, <1>3, <1>4, <1>5, <1>6, <1>8, <1>9 DEF FindStep

LEMMA ExactSteps ==
  ASSUME SearchTypeOK, NEW c \in Commands, NEW p \in Patterns, Supplied(c, p), Exact(c, p),
         FindStep, ~FindCrash, dev' = "OPEN" \/ pc \in {"attr", "match"}
  PROVE  Exact(c, p)'
<1>1. CASE ReadHeader \/ ReadDirent \/ EnterLibrary \/ Walk \/ PrintExtent \/ FileDone
  <2>1. pc \notin {"attr", "match"}
    BY <1>1 DEF ReadHeader, ReadDirent, EnterLibrary, Walk, PrintExtent, FileDone,
                FollowLink, TakeExtent, EndOfList, CopyBlock
  <2>2. dev' = "OPEN" /\ dev = "OPEN"
    BY <2>1, OpenBefore
  <2> QED BY <1>1, <2>2, ExactHeader, ExactDirent, ExactEnter, ExactWalk, ExactDone
<1>2. CASE ReadAttr \/ SkipRecord \/ FoundLibrary \/ FoundFile \/ IndexWrapped
  BY <1>2, ExactAttr, ExactSkip, ExactLibrary, ExactFile, ExactWrapped
<1> QED BY <1>1, <1>2 DEF FindStep

LEMMA SearchesSteps ==
  ASSUME SearchIInv, NEW c \in Commands, NEW p \in Patterns, Searches(c, p),
         [FindNext]_findVars
  PROVE  Searches(c, p)'
<1>1. CASE UNCHANGED findVars
  <2>1. UNCHANGED <<dev, pc, next, num, last, out, command, dirs, rec, cur, written>>
    BY <1>1 DEF findVars, walkVars
  <2>2. Supplied(c, p)'
    BY <2>1, Zenon DEF Searches, Supplied
  <2>3. Spoilt(Expected[c][p]) => Spoilt(Expected[c][p])'
    BY <2>1, Zenon DEF Spoilt
  <2>4. /\ Here' = Here /\ ThisFile' = ThisFile /\ RecIsFile' = RecIsFile
        /\ CurIsFile' = CurIsFile
    BY <2>1, Zenon DEF Here, ThisFile, RecIsFile, AtFile, CurIsFile
  <2>5. Placed(c, ThisFile)' = Placed(c, ThisFile)
    BY <2>1, <2>4, ZenonT(30) DEF Placed, InList, InExtent
  <2>6. Owes(c, p, dirs', written') = Owes(c, p, dirs, written)
        /\ Owes(c, p, Opened(dirs'), written') = Owes(c, p, Opened(dirs), written)
    BY <2>1, Zenon
  <2>7. Exact(c, p) => Exact(c, p)'
    BY <2>1, <2>4, <2>5, <2>6, Zenon DEF Exact
  <2> QED BY <2>1, <2>2, <2>3, <2>7, Zenon DEF Searches
<1>2. CASE FindStep
  <2>1. SearchTypeOK /\ Supplied(c, p) /\ Spoilt(Expected[c][p])
    BY ExactIsUnspoilt DEF SearchIInv, Searches
  <2>2. pc \in {"attr", "match"} \/ dev = "OPEN" => Exact(c, p)
    BY DEF Searches
  <2>3. FoundFile \/ FileDone => rec.name \in STRING
    <3>1. CASE FoundFile
      <4>1. Exact(c, p)
        BY <2>2, <3>1 DEF FoundFile
      <4> QED BY <2>1, <3>1, <4>1, ExactFile
    <3>2. CASE FileDone
      <4>1. pc \in Walking
        BY <3>2 DEF FileDone, Walking
      <4> QED BY <2>1, <4>1, WalkedName
    <3> QED BY <3>1, <3>2
  <2>4. Supplied(c, p)'
    BY <1>2, <2>1, <2>3, SuppliedKept
  <2>5. CASE ~FindCrash /\ (dev' = "OPEN" \/ pc \in {"attr", "match"})
    <3>1. Exact(c, p)
      BY <1>2, <2>1, <2>2, <2>5, OpenBefore
    <3>2. Exact(c, p)'
      BY <1>2, <2>1, <2>5, <3>1, ExactSteps
    <3> QED BY <2>4, <3>2, Zenon DEF Searches
  <2>6. CASE FindCrash \/ (dev' # "OPEN" /\ pc \notin {"attr", "match"})
    <3>1. dev' # "OPEN"
      BY <2>6 DEF FindCrash, Crash
    <3>2. pc' \notin {"attr", "match"} /\ Spoilt(Expected[c][p])'
      BY <1>2, <2>1, <2>6, <3>1, SpoiltSteps
    <3> QED BY <2>4, <3>1, <3>2, Zenon DEF Searches
  <2> QED BY <2>5, <2>6
<1> QED BY <1>1, <1>2 DEF FindNext, FindTerminated

(* What is copied of a file so far begins its blocks.                      *)
LEMMA CopiedBegins ==
  ASSUME NEW c \in Commands, c.callback # "list", NEW f \in VolumeFile, Listed(f, cur),
         pc \in Walking, Placed(c, f)
  PROVE  IsPrefix(out, Result(c, f).blocks)
<1>1. CASE pc = "dalent"
  <2>1. PICK j \in DOMAIN f.chain : out = Gathered(c, f, f.chain[j].ahead)
    BY <1>1, Zenon DEF Placed, InList
  <2>2. f.chain[j].ahead \in 0 .. Len(f.extents)
    BY Zenon DEF Listed, Says
  <2> QED BY <2>1, <2>2, GatheredIs
<1>2. CASE pc = "block"
  <2>1. c.callback = "extract" /\ InExtent(c, f)
    BY <1>2 DEF Placed
  <2>2. PICK a \in 0 .. Len(f.extents) - 1, t \in 0 .. f.size - 1 :
          out = Gathered(c, f, a) \o SubSeq(Pieces(f)[a + 1], 1, t)
    BY <2>1, Zenon DEF InExtent
  <2>3. a \in Nat /\ a < Len(f.extents)
    <3>1. Len(f.extents) \in Nat
      BY PiecesAre
    <3> QED BY <3>1
  <2> QED BY <2>1, <2>2, <2>3, ExtractGathers
<1>3. CASE pc = "walked"
  <2>1. out = Result(c, f).blocks
    BY <1>3 DEF Placed
  <2>2. Result(c, f).blocks \in Seq(Blocks)
    BY ResultIs DEF Output
  <2>3. \A u \in Seq(Blocks) : IsPrefix(u, u)
    BY DEF IsPrefix
  <2> QED BY <2>1, <2>2, <2>3
<1> QED BY <1>1, <1>2, <1>3 DEF Walking

LEMMA SearchesExactly ==
  ASSUME NEW c \in Commands, NEW p \in Patterns, Searches(c, p)
  PROVE  SearchIsExact /\ DamageIsLast
<1>1. PICK x : x = Expected[c][p] /\ x = Asked
  BY DEF Searches, Supplied, Asked
<1>2. Spoilt(x)
  BY <1>1, ExactIsUnspoilt DEF Searches
<1>3. DamageIsLast
  BY <1>1, <1>2, Zenon DEF DamageIsLast, Spoilt, Damaged
<1>4. ASSUME dev = "OPEN"
      PROVE  /\ IsPrefix(written, x)
             /\ pc \in Walking =>
                  /\ Len(written) < Len(x)
                  /\ rec.name = x[Len(written) + 1].name
                  /\ IsPrefix(out, x[Len(written) + 1].blocks)
             /\ pc = "exit" => written = x
  <2>1. Supplied(c, p) /\ Exact(c, p)
    BY <1>4 DEF Searches
  <2>2. IsPrefix(written, x)
    BY <1>1, <2>1, ExactIsUnspoilt
  <2>3. pc = "exit" => written = x
    BY <1>1, <2>1 DEF Exact
  <2>4. ASSUME pc \in Walking
        PROVE  IsPrefix(out, x[Len(written) + 1].blocks)
    <3>1. PICK f : f = ThisFile
      OBVIOUS
    <3>2. f \in VolumeFile /\ c.callback # "list" /\ Placed(c, f) /\ Listed(f, cur)
      BY <1>4, <2>1, <2>4, <3>1, WalkedFile
    <3>3. IsPrefix(out, Result(c, f).blocks)
      BY <2>4, <3>2, CopiedBegins
    <3>4. x[Len(written) + 1] = Result(c, f)
      BY <1>1, <2>1, <2>4, <3>1, ExactIsUnspoilt
    <3> QED BY <3>3, <3>4
  <2> QED BY <1>2, <2>2, <2>3, <2>4 DEF Spoilt
<1>5. SearchIsExact
  BY <1>1, <1>4, Zenon DEF SearchIsExact, Walking
<1> QED BY <1>3, <1>5

(* The inductive invariant of the search.                                  *)
FindIInv == SearchIInv /\ \E c \in Commands, p \in Patterns : Searches(c, p)

LEMMA FindInvariance ==
  /\ FindInit => FindIInv
  /\ FindIInv /\ [FindNext]_findVars => FindIInv'
  /\ FindIInv => SearchIsExact /\ DamageIsLast
<1>1. FindInit => FindIInv
  BY SearchStarts, SearchesStart DEF FindIInv
<1>2. ASSUME FindIInv, [FindNext]_findVars PROVE FindIInv'
  <2>1. PICK c \in Commands, p \in Patterns : Searches(c, p)
    BY <1>2 DEF FindIInv
  <2>2. SearchIInv /\ SearchIInv'
    BY <1>2, SearchSteps DEF FindIInv
  <2>3. Searches(c, p)'
    BY <1>2, <2>1, <2>2, SearchesSteps
  <2> QED BY <2>2, <2>3, Zenon DEF FindIInv
<1>3. FindIInv => SearchIsExact /\ DamageIsLast
  BY SearchesExactly, Zenon DEF FindIInv
<1> QED BY <1>1, <1>2, <1>3

(* On every well-formed volume, whatever the pattern and the command: as   *)
(* long as the device works, centfs_dir_find has handed to its callback    *)
(* the files the pattern asks for, in their order, each once and with its  *)
(* own blocks, and when the program ends it has handed over all of them.   *)
THEOREM SearchFindsAll ==
  FindSpec => []SearchIsExact
BY FindInvariance, PTL DEF FindSpec

(* Wherever the device fails: although most reads go unchecked and every   *)
(* caller of centfs_dir_find goes on, only the last file can be incomplete *)
(* or wrong, and none is found that the pattern does not ask for.          *)
THEOREM DamageStaysLast ==
  FindSpec => []DamageIsLast
BY FindInvariance, PTL DEF FindSpec
=============================================================================
