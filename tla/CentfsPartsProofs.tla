--------------------------- MODULE CentfsPartsProofs ---------------------------
(***************************************************************************)
(* Theorems about two parts of centfs-extract.                             *)
(*                                                                         *)
(* When centfs_fnmatch says yes and no, for names and patterns of every    *)
(* length and whatever stands behind a name.                               *)
(*                                                                         *)
(* Every read of a recognisable image is of the sector asked for: for all  *)
(* layouts, options and sector numbers.  The detection's loop invariant is *)
(* that the bytes scanned were padding; from it follows the distance from  *)
(* one sector to the next, and from that the position of every read.       *)
(***************************************************************************)
EXTENDS CentfsMatch, CentfsImage, SequenceTheorems, WellFoundedInduction, TLAPS

(***************************************************************************)
(* Least and greatest elements of sets of numbers.                         *)
(***************************************************************************)
Less == { ss \in Nat \X Nat : ss[1] < ss[2] }

(* The numbers are well-ordered.                                           *)
LEMMA HasLeast ==
  ASSUME NEW T \in SUBSET Nat, T # {}
  PROVE  \E x \in T : \A y \in T : x <= y
<1>1. IsWellFoundedOn(Less, Nat)
  BY NatLessThanWellFounded DEF OpToRel, Less
<1>2. PICK x \in T : \A y \in T : ~(<<y, x>> \in Less)
  BY <1>1, WFMin
<1>3. ASSUME NEW y \in T PROVE x <= y
  <2>1. x \in Nat /\ y \in Nat
    OBVIOUS
  <2>2. ~(y < x)
    BY <1>2, <2>1 DEF Less
  <2> QED BY <2>1, <2>2
<1> QED BY <1>3

(* A set that is bounded has a greatest element: none is further from the  *)
(* bound than any other.                                                   *)
LEMMA HasGreatest ==
  ASSUME NEW b \in Nat, NEW T \in SUBSET (0 .. b), T # {}
  PROVE  \E x \in T : \A y \in T : y <= x
<1> DEFINE D == { d \in 0 .. b : b - d \in T }
<1>1. D \in SUBSET Nat
  OBVIOUS
<1>2. D # {}
  <2>1. PICK x \in T : TRUE
    OBVIOUS
  <2>2. b - x \in 0 .. b /\ b - (b - x) = x
    OBVIOUS
  <2> QED BY <2>1, <2>2
<1>3. PICK d \in D : \A e \in D : d <= e
  <2> HIDE DEF D
  <2> QED BY <1>1, <1>2, HasLeast
<1>4. ASSUME NEW y \in T PROVE y <= b - d
  <2>1. y \in 0 .. b /\ b - y \in 0 .. b /\ b - (b - y) = y
    OBVIOUS
  <2>2. b - y \in D
    BY <2>1
  <2>3. d <= b - y /\ d \in 0 .. b
    BY <1>3, <2>2
  <2> QED BY <2>1, <2>3
<1> QED BY <1>4

(***************************************************************************)
(* The lengths.                                                            *)
(***************************************************************************)
(* A length without trailing spaces is one of those that fnlen looks at.   *)
LEMMA LengthType ==
  ASSUME NEW s, NEW len \in Nat, DOMAIN s = 1 .. len
  PROVE  fnlen(s) \in 0 .. NameBytes /\ fnlen(s) <= len
<1> DEFINE used == { k \in UpTo(s) : s[k] # Space }
           Is(l) == (l = 0 \/ l \in used) /\ \A k \in used : k <= l
<1>1. NameBytes \in Nat
  BY MatchAssumption
<1>2. used \in SUBSET (0 .. NameBytes) /\ \A k \in used : k <= len
  BY <1>1 DEF UpTo
<1>3. \E l \in 0 .. NameBytes : Is(l)
  <2>1. CASE used = {}
    <3>1. 0 \in 0 .. NameBytes /\ Is(0)
      BY <1>1, <2>1
    <3> QED BY <3>1
  <2>2. CASE used # {}
    <3> HIDE DEF used
    <3>1. PICK l \in used : \A k \in used : k <= l
      BY <1>1, <1>2, <2>2, HasGreatest
    <3>2. l \in 0 .. NameBytes
      BY <1>2
    <3> QED BY <3>1, <3>2
  <2> QED BY <2>1, <2>2
<1>4. fnlen(s) = CHOOSE l \in 0 .. NameBytes : Is(l)
  BY DEF fnlen
<1> HIDE DEF Is
<1>5. fnlen(s) \in 0 .. NameBytes /\ Is(fnlen(s))
  BY <1>3, <1>4
<1>6. fnlen(s) = 0 \/ fnlen(s) \in used
  BY <1>5 DEF Is
<1> HIDE DEF used
<1> QED BY <1>2, <1>5, <1>6

(* A separator, if there is one, is one of the pattern's characters.       *)
LEMMA SeparatorType ==
  ASSUME NEW s, NEW len \in Nat, DOMAIN s = 1 .. len
  PROVE  fnsep(s) \in Nat /\ fnsep(s) <= len
<1> DEFINE seps == { k \in UpTo(s) : s[k] = Dot }
           Is(l) == IF seps = {} THEN l = 0 ELSE l \in seps /\ \A k \in seps : l <= k
<1>1. NameBytes \in Nat
  BY MatchAssumption
<1>2. seps \in SUBSET (0 .. NameBytes) /\ seps \in SUBSET Nat /\ \A k \in seps : k <= len
  BY <1>1 DEF UpTo
<1>3. \E l \in 0 .. NameBytes : Is(l)
  <2>1. CASE seps = {}
    BY <1>1, <2>1
  <2>2. CASE seps # {}
    <3> HIDE DEF seps
    <3>1. PICK l \in seps : \A k \in seps : l <= k
      BY <1>2, <2>2, HasLeast
    <3>2. l \in 0 .. NameBytes
      BY <1>2
    <3> QED BY <2>2, <3>1, <3>2
  <2> QED BY <2>1, <2>2
<1>4. fnsep(s) = CHOOSE l \in 0 .. NameBytes : Is(l)
  BY DEF fnsep
<1> HIDE DEF Is
<1>5. fnsep(s) \in 0 .. NameBytes /\ Is(fnsep(s))
  BY <1>3, <1>4
<1>6. fnsep(s) = 0 \/ fnsep(s) \in seps
  BY <1>5 DEF Is
<1> HIDE DEF seps
<1> QED BY <1>2, <1>5, <1>6

(* What is compared: the name without its spaces and the part of the       *)
(* pattern up to the separator.                                            *)
LEMMA Lengths ==
  ASSUME fn \in Names, match \in Patterns
  PROVE  /\ NameBytes \in Nat /\ DOMAIN fn = 1 .. NameBytes
         /\ fnl \in 0 .. NameBytes
         /\ Len(match) \in Nat /\ DOMAIN match = 1 .. Len(match)
         /\ ml \in Nat /\ ml <= Len(match)
<1>1. NameBytes \in Nat /\ DOMAIN fn = 1 .. NameBytes
  BY MatchAssumption
<1>2. fnl \in 0 .. NameBytes
  BY <1>1, LengthType DEF fnl
<1>3. Len(match) \in Nat /\ DOMAIN match = 1 .. Len(match)
  <2>1. match \in Seq({ match[k] : k \in DOMAIN match })
    BY MatchAssumption
  <2> QED BY <2>1, LenProperties
<1>4. fnsep(match) \in Nat /\ fnsep(match) <= Len(match)
  BY <1>3, SeparatorType
<1>5. fnlen(match) \in 0 .. NameBytes /\ fnlen(match) <= Len(match)
  BY <1>3, LengthType
<1>6. ml \in Nat /\ ml <= Len(match)
  BY <1>1, <1>3, <1>4, <1>5 DEF ml
<1> QED BY <1>1, <1>2, <1>3, <1>6

(* The characters of the name's beginning, and of the part.                *)
LEMMA NamePrefix ==
  ASSUME fn \in Names, NEW k \in 0 .. NameBytes
  PROVE  /\ Len(SubSeq(fn, 1, k)) = k
         /\ \A j \in 1 .. k : SubSeq(fn, 1, k)[j] = fn[j]
<1> DEFINE S == { fn[j] : j \in 1 .. k }
<1>1. NameBytes \in Nat
  BY MatchAssumption
<1>2. 1 \in Int /\ k \in Int /\ \A j \in 1 .. k : fn[j] \in S
  BY <1>1
<1> HIDE DEF S
<1>3. /\ Len(SubSeq(fn, 1, k)) = IF 1 <= k THEN k - 1 + 1 ELSE 0
      /\ \A j \in 1 .. k - 1 + 1 : SubSeq(fn, 1, k)[j] = fn[1 + j - 1]
  BY <1>2, SubSeqProperties
<1>4. k - 1 + 1 = k /\ \A j \in 1 .. k : 1 + j - 1 = j
  BY <1>1
<1>5. (IF 1 <= k THEN k ELSE 0) = k
  BY <1>1
<1> QED BY <1>3, <1>4, <1>5

(* The name itself.                                                        *)
LEMMA NameOfChars ==
  ASSUME fn \in Names, fnl \in 0 .. NameBytes
  PROVE  /\ Len(Name) = fnl /\ DOMAIN Name = 1 .. fnl
         /\ \A j \in 1 .. fnl : Name[j] = fn[j]
<1> DEFINE S == { fn[j] : j \in 1 .. fnl }
<1>1. NameBytes \in Nat
  BY MatchAssumption
<1>2. Len(Name) = fnl /\ \A j \in 1 .. fnl : Name[j] = fn[j]
  BY NamePrefix DEF Name
<1>3. 1 \in Int /\ fnl \in Int /\ \A j \in 1 .. fnl : fn[j] \in S
  BY <1>1
<1> HIDE DEF S
<1>4. Name \in Seq(S)
  BY <1>3, SubSeqProperties DEF Name
<1> QED BY <1>2, <1>4, LenProperties

(* The same for the part.                                                  *)
LEMMA PartPrefix ==
  ASSUME fn \in Names, match \in Patterns
  PROVE  /\ Len(Part) = ml
         /\ \A j \in 1 .. ml : Part[j] = match[j]
<1> DEFINE S == { match[j] : j \in 1 .. ml }
<1>1. ml \in Nat
  BY Lengths
<1>2. 1 \in Int /\ ml \in Int /\ \A j \in 1 .. ml : match[j] \in S
  BY <1>1
<1> HIDE DEF S
<1>3. /\ Len(Part) = IF 1 <= ml THEN ml - 1 + 1 ELSE 0
      /\ \A j \in 1 .. ml - 1 + 1 : Part[j] = match[1 + j - 1]
  BY <1>2, SubSeqProperties DEF Part
<1>4. ml - 1 + 1 = ml /\ \A j \in 1 .. ml : 1 + j - 1 = j
  BY <1>1
<1>5. (IF 1 <= ml THEN ml ELSE 0) = ml
  BY <1>1
<1> QED BY <1>3, <1>4, <1>5

(***************************************************************************)
(* The loop.                                                               *)
(***************************************************************************)
(* How the characters before mi account for those of the name before fi.   *)
Aligned(at, j, k) ==
  /\ at \in [0 .. j -> 0 .. k] /\ at[0] = 0 /\ at[j] = k
  /\ \A h \in 1 .. j : Follows(match, fn, at, h)

Placed == fi <= NameBytes => \E at : Aligned(at, mi, fi)

Accepted ==
  result = "match" => \/ mi = ml /\ fi >= fnl
                      \/ mi + 1 = ml /\ match[ml] = Star

(* How far the part reaches, if it matches the name at all.                *)
Clear == SimplePart \/ DistinctName

Forced ==
  Clear /\ result = "running" =>
    \A at : Aligned(at, ml, fnl) =>
      IF mi < ml /\ m = Star THEN at[mi] >= fi ELSE at[mi] = fi

Refused == Clear /\ result = "differs" => ~\E at : Aligned(at, ml, fnl)

MatchInv == TypeOK /\ Placed /\ Accepted /\ Forced /\ Refused

(* Glob is about alignments of the whole part.                             *)
LEMMA GlobAligned ==
  ASSUME TypeOK, NEW k \in 0 .. NameBytes
  PROVE  Glob(Part, SubSeq(fn, 1, k)) <=> \E at : Aligned(at, ml, k)
<1> DEFINE s == SubSeq(fn, 1, k)
<1>1. Len(Part) = ml /\ (\A j \in 1 .. ml : Part[j] = match[j]) /\ ml \in Nat
  BY PartPrefix, Lengths DEF TypeOK
<1>2. Len(s) = k /\ \A j \in 1 .. k : s[j] = fn[j]
  BY NamePrefix DEF TypeOK
<1>3. k \in Nat
  BY Lengths DEF TypeOK
<1> HIDE DEF s
<1>4. ASSUME NEW at \in [0 .. ml -> 0 .. k], NEW j \in 1 .. ml
      PROVE  Follows(Part, s, at, j) <=> Follows(match, fn, at, j)
  <2>1. Part[j] = match[j]
    BY <1>1
  <2>2. at[j - 1] \in 0 .. k /\ at[j] \in 0 .. k
    BY <1>1
  <2>3. at[j] = at[j - 1] + 1 => s[at[j]] = fn[at[j]]
    BY <1>2, <1>3, <2>2
  <2> QED BY <2>1, <2>3 DEF Follows
<1>5. Glob(Part, s) <=>
        \E at \in [0 .. ml -> 0 .. k] :
          /\ at[0] = 0 /\ at[ml] = k
          /\ \A j \in 1 .. ml : Follows(Part, s, at, j)
  BY <1>1, <1>2 DEF Glob
<1>6. (\E at : Aligned(at, ml, k)) <=>
        \E at \in [0 .. ml -> 0 .. k] :
          /\ at[0] = 0 /\ at[ml] = k
          /\ \A j \in 1 .. ml : Follows(match, fn, at, j)
  BY DEF Aligned
<1>7. Glob(Part, s) <=> \E at : Aligned(at, ml, k)
  BY <1>4, <1>5, <1>6
<1> QED BY <1>7 DEF s

(* One character more is accounted for.                                    *)
LEMMA OneFurther ==
  ASSUME NEW j \in Nat, NEW k \in Nat, NEW e \in Nat, NEW at, Aligned(at, j, k),
         IF match[j + 1] = Star THEN k <= e ELSE e = k + 1 /\ match[j + 1] = fn[e]
  PROVE  \E bt : Aligned(bt, j + 1, e)
<1> DEFINE bt == [h \in 0 .. j + 1 |-> IF h <= j THEN at[h] ELSE e]
<1>1. k <= e
  OBVIOUS
<1>2. at \in [0 .. j -> 0 .. k] /\ at[0] = 0 /\ at[j] = k
      /\ \A h \in 1 .. j : Follows(match, fn, at, h)
  BY DEF Aligned
<1>3. \A h \in 0 .. j : bt[h] = at[h]
  OBVIOUS
<1>4. bt[j + 1] = e /\ bt \in [0 .. j + 1 -> 0 .. e]
  BY <1>1, <1>2
<1> HIDE DEF bt
<1>5. bt[0] = 0 /\ bt[j] = k
  BY <1>2, <1>3
<1>6. ASSUME NEW h \in 1 .. j + 1 PROVE Follows(match, fn, bt, h)
  <2>1. CASE h <= j
    <3>1. bt[h] = at[h] /\ bt[h - 1] = at[h - 1]
      BY <1>3, <2>1
    <3>2. Follows(match, fn, at, h)
      BY <1>2, <2>1
    <3> QED BY <3>1, <3>2 DEF Follows
  <2>2. CASE h = j + 1
    <3>1. h - 1 = j
      BY <2>2
    <3> QED BY <1>4, <1>5, <2>2, <3>1 DEF Follows
  <2> QED BY <2>1, <2>2
<1>7. Aligned(bt, j + 1, e)
  BY <1>4, <1>5, <1>6 DEF Aligned
<1> QED BY <1>7

(* At first nothing is compared.                                           *)
LEMMA MatchStarts == Init => MatchInv
<1> SUFFICES ASSUME Init PROVE MatchInv
  OBVIOUS
<1>1. TypeOK /\ mi = 0 /\ fi = 0 /\ result = "running"
  <2>1. ml \in Nat /\ fnl \in Nat
    BY Lengths DEF Init
  <2> QED BY <2>1 DEF Init, TypeOK
<1>2. Placed
  <2> DEFINE at == [h \in 0 .. 0 |-> 0]
  <2>1. at \in [0 .. 0 -> 0 .. 0] /\ at[0] = 0 /\ 1 .. 0 = {}
    OBVIOUS
  <2> HIDE DEF at
  <2>2. Aligned(at, 0, 0)
    BY <2>1 DEF Aligned
  <2> QED BY <1>1, <2>2 DEF Placed
<1>3. Forced
  BY <1>1 DEF Forced, Aligned
<1> QED BY <1>1, <1>2, <1>3 DEF MatchInv, Accepted, Refused

(***************************************************************************)
(* The rounds of the loop.                                                 *)
(***************************************************************************)
(* What a round may use: which characters it looks at, and what the        *)
(* invariant says of a part that is still running.                         *)
LEMMA InLoop ==
  ASSUME MatchInv, Running
  PROVE  /\ NameBytes \in Nat /\ fnl \in 0 .. NameBytes /\ ml \in Nat /\ ml <= Len(match)
         /\ mi \in Nat /\ mi < ml /\ fi \in Nat /\ fi <= fnl + mi
         /\ m = match[mi + 1]
         /\ Star # Nul
         /\ n = Nul <=> mi + 1 = ml
         /\ mi + 1 # ml => n = match[mi + 2]
         /\ Clear => \A at : Aligned(at, ml, fnl) =>
                       IF m = Star THEN at[mi] >= fi ELSE at[mi] = fi
<1>1. /\ NameBytes \in Nat /\ fnl \in 0 .. NameBytes /\ ml \in Nat /\ ml <= Len(match)
      /\ Len(match) \in Nat /\ DOMAIN match = 1 .. Len(match) /\ match \in Patterns
  BY Lengths DEF MatchInv, TypeOK
<1>2. mi \in Nat /\ mi < ml /\ fi \in Nat /\ fi <= fnl + mi /\ m = match[mi + 1]
  BY <1>1 DEF MatchInv, TypeOK, Running, m
<1>3. Star # Nul /\ \A k \in DOMAIN match : match[k] # Nul
  BY <1>1, MatchAssumption
<1>4. mi + 1 # ml => mi + 2 \in DOMAIN match
  BY <1>1, <1>2
<1>5. (n = Nul <=> mi + 1 = ml) /\ (mi + 1 # ml => n = match[mi + 2])
  BY <1>3, <1>4 DEF n
<1>6. Clear => \A at : Aligned(at, ml, fnl) =>
                 IF m = Star THEN at[mi] >= fi ELSE at[mi] = fi
  BY <1>2 DEF MatchInv, Forced, Running
<1> QED BY <1>1, <1>2, <1>3, <1>5, <1>6

(* What an alignment of the whole part says of one of its characters.      *)
LEMMA AlignedAt ==
  ASSUME NEW j \in Nat, NEW k \in Nat, NEW at, Aligned(at, j, k), NEW h \in 0 .. j - 1
  PROVE  /\ at[h] \in 0 .. k /\ at[h + 1] \in 0 .. k
         /\ IF match[h + 1] = Star THEN at[h] <= at[h + 1]
                                   ELSE at[h + 1] = at[h] + 1 /\ match[h + 1] = fn[at[h + 1]]
<1>1. h + 1 \in 1 .. j /\ (h + 1) - 1 = h /\ h \in 0 .. j /\ h + 1 \in 0 .. j
  OBVIOUS
<1>2. Follows(match, fn, at, h + 1)
  BY <1>1 DEF Aligned
<1>3. at[h] \in 0 .. k /\ at[h + 1] \in 0 .. k
  BY <1>1 DEF Aligned
<1> QED BY <1>1, <1>2, <1>3 DEF Follows

(* A round that goes on accounts for one character more of the part.       *)
LEMMA RoundGoesOn ==
  ASSUME MatchInv, Running, UNCHANGED <<fn, match, result>>, mi' = mi + 1,
         fi' \in Nat, fi' <= fnl + mi + 1,
         fi' <= NameBytes => fi <= NameBytes
           /\ IF m = Star THEN fi <= fi' ELSE fi' = fi + 1 /\ m = fn[fi'],
         Clear => \A at : Aligned(at, ml, fnl) =>
           IF mi + 1 < ml /\ n = Star THEN at[mi + 1] >= fi' ELSE at[mi + 1] = fi'
  PROVE  MatchInv'
<1>1. /\ mi \in Nat /\ mi < ml /\ ml \in Nat /\ m = match[mi + 1] /\ fi \in Nat
      /\ mi + 1 # ml => n = match[mi + 2]
  BY InLoop
<1>2. ml' = ml /\ fnl' = fnl /\ (Clear' <=> Clear)
  BY DEF ml, fnl, Clear, SimplePart, DistinctName, Name
<1>3. TypeOK'
  <2>1. fnl \in Nat /\ mi + 1 \in 0 .. ml /\ fi' \in 0 .. fnl + (mi + 1)
    BY <1>1, InLoop
  <2> QED BY <1>2, <2>1 DEF MatchInv, TypeOK
<1>4. Placed'
  <2> SUFFICES ASSUME fi' <= NameBytes PROVE \E at : Aligned(at, mi, fi)'
    BY DEF Placed
  <2>1. PICK at : Aligned(at, mi, fi)
    BY DEF MatchInv, Placed
  <2>2. \E bt : Aligned(bt, mi + 1, fi')
    BY <1>1, <2>1, OneFurther
  <2> QED BY <2>2 DEF Aligned, Follows
<1>5. result = "running" /\ result' = "running"
  BY DEF Running
<1>6. Forced'
  <2> SUFFICES ASSUME Clear', NEW at, Aligned(at, ml, fnl)'
               PROVE  IF mi' < ml' /\ m' = Star THEN at[mi'] >= fi' ELSE at[mi'] = fi'
    BY <1>5 DEF Forced
  <2>1. Aligned(at, ml, fnl)
    BY <1>2 DEF Aligned, Follows
  <2>2. IF mi + 1 < ml /\ n = Star THEN at[mi + 1] >= fi' ELSE at[mi + 1] = fi'
    BY <1>2, <2>1
  <2>3. mi + 1 < ml => m' = n
    <3>1. m' = match[(mi + 1) + 1]
      BY DEF m
    <3> QED BY <1>1, <3>1
  <2> QED BY <1>2, <2>2, <2>3
<1> QED BY <1>3, <1>4, <1>5, <1>6 DEF MatchInv, Accepted, Refused

(* A round that refuses is right if no alignment is left.                  *)
LEMMA RoundRefuses ==
  ASSUME MatchInv, result' = "differs", UNCHANGED <<fn, match, mi, fi>>,
         Clear => \A at : ~Aligned(at, ml, fnl)
  PROVE  MatchInv'
<1>1. ml' = ml /\ fnl' = fnl /\ (Clear' <=> Clear)
  BY DEF ml, fnl, Clear, SimplePart, DistinctName, Name
<1>2. \A at, j, k : Aligned(at, j, k)' <=> Aligned(at, j, k)
  BY DEF Aligned, Follows
<1>3. TypeOK' /\ Placed'
  BY <1>1, <1>2 DEF MatchInv, TypeOK, Placed
<1>4. Refused'
  BY <1>1, <1>2 DEF Refused
<1> QED BY <1>3, <1>4 DEF MatchInv, Accepted, Forced

(* One that accepts is at the end of the part, or before its last star.    *)
LEMMA RoundAccepts ==
  ASSUME MatchInv, result' = "match", UNCHANGED <<fn, match, mi, fi>>,
         (mi = ml /\ fi >= fnl) \/ (mi + 1 = ml /\ match[ml] = Star)
  PROVE  MatchInv'
<1>1. ml' = ml /\ fnl' = fnl
  BY DEF ml, fnl
<1>2. \A at, j, k : Aligned(at, j, k)' <=> Aligned(at, j, k)
  BY DEF Aligned, Follows
<1>3. TypeOK' /\ Placed'
  BY <1>1, <1>2 DEF MatchInv, TypeOK, Placed
<1> QED BY <1>1, <1>3 DEF MatchInv, Accepted, Forced, Refused

(* A star before a star takes nothing yet.                                 *)
LEMMA StarStarKeeps ==
  ASSUME MatchInv, StarStar
  PROVE  MatchInv'
<1>1. /\ Running /\ m = Star /\ n = Star /\ mi' = mi + 1 /\ fi' = fi
      /\ UNCHANGED <<fn, match, result>>
  BY DEF StarStar
<1>2. /\ fnl \in 0 .. NameBytes /\ ml \in Nat /\ mi \in Nat /\ mi < ml /\ fi \in Nat
      /\ m = match[mi + 1] /\ mi + 1 # ml
      /\ Clear => \A at : Aligned(at, ml, fnl) => at[mi] >= fi
  BY <1>1, InLoop
<1>3. ASSUME Clear, NEW at, Aligned(at, ml, fnl)
      PROVE  at[mi + 1] >= fi
  <2>1. fnl \in Nat /\ mi \in 0 .. ml - 1
    BY <1>2
  <2>2. at[mi] \in 0 .. fnl /\ at[mi + 1] \in 0 .. fnl /\ at[mi] <= at[mi + 1]
    BY <1>1, <1>2, <1>3, <2>1, AlignedAt
  <2>3. at[mi] >= fi
    BY <1>2, <1>3
  <2> QED BY <1>2, <2>2, <2>3
<1>4. Clear => \A at : Aligned(at, ml, fnl) =>
        IF mi + 1 < ml /\ n = Star THEN at[mi + 1] >= fi' ELSE at[mi + 1] = fi'
  BY <1>1, <1>2, <1>3
<1>5. fi' <= fnl + mi + 1
  <2>1. fi <= fnl + mi
    BY <1>1, InLoop
  <2> QED BY <1>1, <1>2, <2>1
<1> QED BY <1>1, <1>2, <1>4, <1>5, RoundGoesOn

(* A star that is the last character accepts.                              *)
LEMMA StarLastKeeps ==
  ASSUME MatchInv, StarLast
  PROVE  MatchInv'
<1>1. Running /\ m = Star /\ n = Nul /\ result' = "match" /\ UNCHANGED <<fn, match, mi, fi>>
  BY DEF StarLast, Return
<1>2. mi + 1 = ml /\ m = match[mi + 1]
  BY <1>1, InLoop
<1> QED BY <1>1, <1>2, RoundAccepts

(* A star before another character: in a name with no character twice the  *)
(* first occurrence is the only one.                                       *)
LEMMA StarSkipsKeeps ==
  ASSUME MatchInv, StarSkips
  PROVE  MatchInv'
<1> DEFINE places == { k \in fi .. fnl - 1 : fn[k + 1] = n }
<1>1. /\ Running /\ m = Star /\ n # Star /\ n # Nul
      /\ IF places # {}
         THEN \E k \in places : (\A j \in places : k <= j) /\ SkipToFrom(k)
         ELSE Return("differs")
  BY DEF StarSkips
<1>2. /\ NameBytes \in Nat /\ fnl \in 0 .. NameBytes /\ ml \in Nat /\ mi \in Nat
      /\ mi < ml /\ fi \in Nat /\ m = match[mi + 1]
      /\ mi + 1 # ml /\ n = match[mi + 2]
      /\ Clear => \A at : Aligned(at, ml, fnl) => at[mi] >= fi
  BY <1>1, InLoop
<1>3. ~SimplePart
  <2>1. mi + 1 \in 1 .. ml - 1
    BY <1>2
  <2> QED BY <1>1, <1>2, <2>1 DEF SimplePart
<1>4. ASSUME Clear, NEW at, Aligned(at, ml, fnl)
      PROVE  at[mi + 1] \in places
  <2>1. fnl \in Nat /\ mi \in 0 .. ml - 1 /\ mi + 1 \in 0 .. ml - 1
        /\ (mi + 1) + 1 = mi + 2
    BY <1>2
  <2>2. at[mi] \in 0 .. fnl /\ at[mi + 1] \in 0 .. fnl /\ at[mi] <= at[mi + 1]
    BY <1>1, <1>2, <1>4, <2>1, AlignedAt
  <2>3. /\ at[mi + 2] \in 0 .. fnl
        /\ at[mi + 2] = at[mi + 1] + 1 /\ match[mi + 2] = fn[at[mi + 2]]
    <3>1. /\ at[(mi + 1) + 1] \in 0 .. fnl
          /\ IF match[(mi + 1) + 1] = Star THEN at[mi + 1] <= at[(mi + 1) + 1]
             ELSE /\ at[(mi + 1) + 1] = at[mi + 1] + 1
                  /\ match[(mi + 1) + 1] = fn[at[(mi + 1) + 1]]
      BY <1>4, <1>2, <2>1, AlignedAt
    <3> QED BY <1>1, <1>2, <2>1, <3>1
  <2>4. at[mi] >= fi
    BY <1>2, <1>4
  <2> QED BY <1>2, <2>1, <2>2, <2>3, <2>4
<1>5. CASE places = {}
  <2>1. result' = "differs" /\ UNCHANGED <<fn, match, mi, fi>>
    BY <1>1, <1>5 DEF Return
  <2>2. Clear => \A at : ~Aligned(at, ml, fnl)
    BY <1>4, <1>5
  <2> QED BY <2>1, <2>2, RoundRefuses
<1>6. CASE places # {}
  <2>1. PICK k \in places : (\A j \in places : k <= j) /\ SkipToFrom(k)
    BY <1>1, <1>6
  <2>2. mi' = mi + 1 /\ fi' = k /\ UNCHANGED <<fn, match, result>>
    BY <2>1 DEF SkipToFrom
  <2>3. k \in Nat /\ fi <= k /\ k <= fnl - 1 /\ fn[k + 1] = n
    BY <1>2
  <2>4. ASSUME Clear, NEW at, Aligned(at, ml, fnl)
        PROVE  at[mi + 1] = k
    <3>1. at[mi + 1] \in fi .. fnl - 1 /\ fn[at[mi + 1] + 1] = n
      BY <1>4, <2>4
    <3> DEFINE h == at[mi + 1]
    <3>2. h \in Nat /\ k + 1 \in 1 .. fnl /\ h + 1 \in 1 .. fnl
      BY <1>2, <2>3, <3>1
    <3>3. Len(Name) = fnl /\ DOMAIN Name = 1 .. fnl /\ \A j \in 1 .. fnl : Name[j] = fn[j]
      BY <1>2, NameOfChars DEF MatchInv, TypeOK
    <3>4. DistinctName
      BY <1>3, <2>4 DEF Clear
    <3> HIDE DEF h
    <3>5. Name[k + 1] = Name[h + 1]
      BY <2>3, <3>1, <3>2, <3>3 DEF h
    <3>6. k + 1 = h + 1
      BY <3>2, <3>3, <3>4, <3>5 DEF DistinctName
    <3> QED BY <2>3, <3>2, <3>6 DEF h
  <2>5. Clear => \A at : Aligned(at, ml, fnl) =>
          IF mi + 1 < ml /\ n = Star THEN at[mi + 1] >= fi' ELSE at[mi + 1] = fi'
    BY <1>1, <2>2, <2>4
  <2>6. fi <= NameBytes /\ k <= fnl + mi + 1
    BY <1>2, <2>3
  <2> HIDE DEF places
  <2> QED BY <1>1, <2>2, <2>3, <2>5, <2>6, RoundGoesOn
<1> QED BY <1>5, <1>6

(* A character that is compared; beyond the name anything may be found.    *)
LEMMA CompareKeeps ==
  ASSUME MatchInv, Compare
  PROVE  MatchInv'
<1>1. Running /\ m # Star
  BY DEF Compare
<1>2. /\ NameBytes \in Nat /\ fnl \in 0 .. NameBytes /\ ml \in Nat /\ mi \in Nat
      /\ mi < ml /\ fi \in Nat /\ m = match[mi + 1]
      /\ Clear => \A at : Aligned(at, ml, fnl) => at[mi] = fi
  BY <1>1, InLoop
<1>3. ASSUME Clear, NEW at, Aligned(at, ml, fnl)
      PROVE  at[mi + 1] = fi + 1 /\ fi + 1 <= fnl /\ m = fn[fi + 1]
  <2>1. fnl \in Nat /\ mi \in 0 .. ml - 1
    BY <1>2
  <2>2. at[mi + 1] \in 0 .. fnl /\ at[mi + 1] = at[mi] + 1 /\ match[mi + 1] = fn[at[mi + 1]]
    BY <1>1, <1>2, <1>3, <2>1, AlignedAt
  <2>3. at[mi] = fi
    BY <1>2, <1>3
  <2> QED BY <1>2, <2>1, <2>2, <2>3
<1>4. PICK f : NameByte(f) /\ IF f = m THEN mi' = mi + 1 /\ fi' = fi + 1
                                            /\ UNCHANGED <<fn, match, result>>
                              ELSE Return("differs")
  BY DEF Compare
<1>5. fi + 1 <= NameBytes => f = fn[fi + 1]
  BY <1>2, <1>4 DEF NameByte
<1>6. CASE f = m
  <2>1. mi' = mi + 1 /\ fi' = fi + 1 /\ UNCHANGED <<fn, match, result>>
    BY <1>4, <1>6
  <2>2. Clear => \A at : Aligned(at, ml, fnl) =>
          IF mi + 1 < ml /\ n = Star THEN at[mi + 1] >= fi' ELSE at[mi + 1] = fi'
    BY <1>2, <1>3, <2>1
  <2>3. fi' \in Nat /\ fi' <= fnl + mi + 1 /\ (fi' <= NameBytes => fi <= NameBytes)
    <3>1. fi <= fnl + mi
      BY <1>1, InLoop
    <3> QED BY <1>2, <2>1, <3>1
  <2>4. fi' <= NameBytes => m = fn[fi']
    BY <1>5, <1>6, <2>1
  <2> QED BY <1>1, <2>1, <2>2, <2>3, <2>4, RoundGoesOn
<1>7. CASE f # m
  <2>1. result' = "differs" /\ UNCHANGED <<fn, match, mi, fi>>
    BY <1>4, <1>7 DEF Return
  <2>2. ASSUME Clear, NEW at, Aligned(at, ml, fnl) PROVE FALSE
    <3>1. fi + 1 <= fnl /\ m = fn[fi + 1]
      BY <1>3, <2>2
    <3>2. fi + 1 <= NameBytes
      BY <1>2, <3>1
    <3> QED BY <1>5, <1>7, <3>1, <3>2
  <2> QED BY <2>1, <2>2, RoundRefuses
<1> QED BY <1>6, <1>7

(* At the end of the part the name must have come to its end as well.      *)
LEMMA EndOfPartKeeps ==
  ASSUME MatchInv, EndOfPart
  PROVE  MatchInv'
<1>1. result = "running" /\ mi = ml /\ UNCHANGED <<fn, match, mi, fi>>
      /\ result' = IF fi < fnl THEN "differs" ELSE "match"
  BY DEF EndOfPart, Return
<1>2. fnl \in Nat /\ fi \in Nat /\ ml \in Nat
  BY Lengths DEF MatchInv, TypeOK
<1>3. CASE fi < fnl
  <2>1. ASSUME Clear, NEW at, Aligned(at, ml, fnl) PROVE FALSE
    <3>1. at[ml] = fi
      BY <1>1, <1>2, <2>1 DEF MatchInv, Forced
    <3>2. at[ml] = fnl
      BY <2>1 DEF Aligned
    <3> QED BY <1>2, <1>3, <3>1, <3>2
  <2> QED BY <1>1, <1>3, <2>1, RoundRefuses
<1>4. CASE ~(fi < fnl)
  <2>1. fi >= fnl
    BY <1>2, <1>4
  <2> QED BY <1>1, <1>4, <2>1, RoundAccepts
<1> QED BY <1>3, <1>4

(* The invariant holds throughout.                                         *)
LEMMA MatchCorrect == Spec => []MatchInv
<1>1. MatchInv /\ [Next]_vars => MatchInv'
  <2> SUFFICES ASSUME MatchInv, [Next]_vars PROVE MatchInv'
    OBVIOUS
  <2>1. CASE Step
    BY <2>1, StarStarKeeps, StarLastKeeps, StarSkipsKeeps, CompareKeeps, EndOfPartKeeps
       DEF Step
  <2>2. CASE UNCHANGED vars
    <3>1. ml' = ml /\ fnl' = fnl /\ m' = m /\ (Clear' <=> Clear)
      BY <2>2 DEF vars, ml, fnl, m, Clear, SimplePart, DistinctName, Name
    <3>2. \A at, j, k : Aligned(at, j, k)' <=> Aligned(at, j, k)
      BY <2>2 DEF vars, Aligned, Follows
    <3> QED BY <2>2, <3>1, <3>2 DEF vars, MatchInv, TypeOK, Placed, Accepted, Forced, Refused
  <2> QED BY <2>1, <2>2 DEF Next, Terminated
<1> QED BY <1>1, MatchStarts, PTL DEF Spec

(* The position in the pattern stays in its part; that in the name runs    *)
(* beyond the name, but by no more than the characters compared.           *)
THEOREM MatchTypeCorrect == Spec => []TypeOK
<1>1. MatchInv => TypeOK
  BY DEF MatchInv
<1> QED BY <1>1, MatchCorrect, PTL

(* For names of every length: a name that centfs_fnmatch accepts does      *)
(* match the part, counting none, some or all of the spaces behind it,     *)
(* unless the comparison has left the name's bytes.                        *)
THEOREM AcceptsOnlyMatches == Spec => []NoFalseMatch
<1>1. MatchInv => NoFalseMatch
  <2> SUFFICES ASSUME MatchInv, result = "match", fi <= NameBytes
               PROVE  \E k \in fnl .. NameBytes : Glob(Part, SubSeq(fn, 1, k))
    BY DEF NoFalseMatch
  <2>1. /\ NameBytes \in Nat /\ fnl \in 0 .. NameBytes /\ fi \in Nat /\ mi \in Nat
        /\ ml \in Nat /\ TypeOK
    BY Lengths DEF MatchInv, TypeOK
  <2>2. PICK at : Aligned(at, mi, fi)
    BY DEF MatchInv, Placed
  <2>3. CASE mi = ml /\ fi >= fnl
    <3>1. fi \in fnl .. NameBytes /\ fi \in 0 .. NameBytes
      BY <2>1, <2>3
    <3>2. Glob(Part, SubSeq(fn, 1, fi))
      BY <2>1, <2>2, <2>3, <3>1, GlobAligned
    <3> QED BY <3>1, <3>2
  <2>4. CASE mi + 1 = ml /\ match[ml] = Star
    <3>1. PICK k \in fnl .. NameBytes : fi <= k
      <4>1. CASE fi <= fnl
        BY <2>1, <4>1
      <4>2. CASE fnl <= fi
        BY <2>1, <4>2
      <4> QED BY <2>1, <4>1, <4>2
    <3>2. k \in Nat /\ k \in 0 .. NameBytes
      BY <2>1
    <3>3. \E bt : Aligned(bt, mi + 1, k)
      BY <2>1, <2>2, <2>4, <3>1, <3>2, OneFurther
    <3>4. Glob(Part, SubSeq(fn, 1, k))
      BY <2>1, <2>4, <3>2, <3>3, GlobAligned
    <3> QED BY <3>4
  <2> QED BY <2>3, <2>4 DEF MatchInv, Accepted
<1> QED BY <1>1, MatchCorrect, PTL

(* And it accepts each name that the part matches, if the part has no star *)
(* before its end, or the name no character twice: only then the first     *)
(* place that a star skips to is the only one.                             *)
THEOREM RefusesNoMatch == Spec => []NoMissedMatch
<1>1. MatchInv => NoMissedMatch
  <2> SUFFICES ASSUME MatchInv, result = "differs", Clear
               PROVE  ~Glob(Part, Name)
    BY DEF NoMissedMatch, Clear
  <2>1. fnl \in 0 .. NameBytes /\ TypeOK
    BY Lengths DEF MatchInv, TypeOK
  <2>2. Glob(Part, Name) <=> \E at : Aligned(at, ml, fnl)
    BY <2>1, GlobAligned DEF Name
  <2> QED BY <2>2 DEF MatchInv, Refused
<1> QED BY <1>1, MatchCorrect, PTL

(***************************************************************************)
(* The image device.                                                       *)
(***************************************************************************)

Scanned == \A k \in SectorBytes .. i - 1 : IsFF(k)

Stages ==
  /\ pc = "open" => i = 0
  /\ pc \in {"open", "scan"} => state = "UNREAD"
  /\ pc = "scan" => option = 0

SizeKnown == pc = "ready" /\ PitchKnown => size = image.pitch

ImageInv == ImageTypeOK /\ Scanned /\ Stages /\ SizeKnown /\ ReadsSectorAsked

LEMMA LayoutFacts ==
  ASSUME ImageTypeOK
  PROVE  /\ image.pitch \in Nat /\ image.pitch >= SectorBytes
         /\ image.sectors \in Nat /\ image.lead \in 0 .. SectorBytes - 1
         /\ image.pitch = SectorBytes => image.bad = {}
         /\ Length \in Nat /\ i \in Nat /\ size \in Nat /\ pos \in Nat /\ req \in Nat
         /\ PosModulus \in Nat \ {0} /\ option \in Nat
  BY ImageAssumption DEF ImageTypeOK, Layout, Length, SectorBytes, Longest

(* A position inside sector s, taken apart again.                          *)
LEMMA Inside ==
  ASSUME NEW s \in Nat, NEW p \in Nat, NEW r \in Nat, r < p
  PROVE  (s * p + r) % p = r /\ (s * p + r) \div p = s
  OBVIOUS

LEMMA Monotone ==
  ASSUME NEW a \in Nat, NEW b \in Nat, NEW p \in Nat, a >= b
  PROVE  a * p >= b * p
  OBVIOUS

(* The scan of a recognisable image ends where its first sector does, or,  *)
(* without padding, before byte 512.                                       *)
LEMMA DetectsPitch ==
  ASSUME ImageTypeOK, Scanned, Recognisable, ScanEnds
  PROVE  size' = image.pitch
<1>1. i \in Nat /\ i >= SectorBytes
  BY LayoutFacts DEF ScanEnds, SectorBytes, Longest
<1>2. CASE image.pitch = SectorBytes
  <2>1. ASSUME NEW k \in SectorBytes .. i - 1 PROVE k < 512
    BY <1>2, LayoutFacts DEF Scanned, IsFF, SectorBytes, Recognisable
  <2>2. i <= 512 /\ i < 512
    <3>1. IsFF(i - 1) \/ i = SectorBytes
      BY <1>1 DEF Scanned, SectorBytes
    <3>2. i - 1 < SectorBytes + image.lead \/ i = SectorBytes
      BY <3>1, <1>1, <1>2, LayoutFacts DEF IsFF, SectorBytes
    <3> QED BY <3>2, <1>1, <1>2, LayoutFacts DEF Recognisable, SectorBytes
  <2> QED BY <1>2, <2>2 DEF ScanEnds, Detected, SectorBytes
<1>3. CASE image.pitch # SectorBytes
  <2>1. image.pitch \in {512, 768, 1024} /\ 0 \notin image.bad /\ image.lead = 0
    BY <1>3 DEF Recognisable
  <2>2. ASSUME NEW k \in Nat, k >= SectorBytes, k < image.pitch PROVE IsFF(k)
    BY <2>1, <2>2 DEF IsFF, SectorBytes
  <2>3. ~IsFF(image.pitch)
    BY <2>1 DEF IsFF, SectorBytes
  <2>4. i <= image.pitch
    BY <2>1, <2>3, <1>1 DEF Scanned, SectorBytes
  <2>5. i = image.pitch
    BY <2>1, <2>2, <2>4, <1>1 DEF ScanEnds, Longest, SectorBytes
  <2> QED BY <2>1, <2>5 DEF ScanEnds, Detected, SectorBytes
<1> QED BY <1>2, <1>3

LEMMA InitIInv == ImageInit => ImageInv
  BY ImageAssumption
  DEF ImageInit, ImageInv, ImageTypeOK, Scanned, Stages, SizeKnown, ReadsSectorAsked, Longest, SectorBytes

LEMMA TypeStep == ImageTypeOK /\ [ImageNext]_imageVars => ImageTypeOK'
<1> SUFFICES ASSUME ImageTypeOK, [ImageNext]_imageVars PROVE ImageTypeOK'
  OBVIOUS
<1> USE ImageAssumption DEF ImageTypeOK
<1>1. CASE Open
  BY <1>1 DEF Open
<1>2. CASE ScanByte
  BY <1>2 DEF ScanByte, Longest
<1>3. CASE ScanFails
  BY <1>3 DEF ScanFails
<1>4. CASE ScanEnds
  BY <1>4 DEF ScanEnds, Detected, Longest, SectorBytes
<1>5. ASSUME NEW s \in Requests, ReadSector(s) PROVE ImageTypeOK'
  <2>1. s \in Nat /\ (s * size) % PosModulus \in 0 .. PosModulus - 1
    OBVIOUS
  <2> QED BY <1>5, <2>1 DEF ReadSector
<1>6. CASE UNCHANGED imageVars
  BY <1>6 DEF imageVars
<1> QED BY <1>1, <1>2, <1>3, <1>4, <1>5, <1>6 DEF ImageNext, ImageTerminated

(* A read, once the distance is known.                                     *)
LEMMA ReadIsRight ==
  ASSUME ImageTypeOK, ImageTypeOK', NEW s \in Requests, ReadSector(s),
         size = image.pitch, s * size < PosModulus, pc' = "ready"
  PROVE  /\ pos' = s * image.pitch /\ s < image.sectors
         /\ state' = "READ_ERROR" <=> s \in image.bad
<1>0. s \in Nat /\ s * size \in Nat
  BY ImageAssumption, LayoutFacts
<1>1. (s * size) % PosModulus = s * size
  BY <1>0, LayoutFacts
<1>2. /\ s * size + SectorBytes <= Length
      /\ pos' = s * size
      /\ state' = IF size > SectorBytes /\ IsFlagged(s * size + SectorBytes)
                  THEN "READ_ERROR" ELSE "READ_VALID"
  BY <1>1 DEF ReadSector
<1>3. s < image.sectors
  <2> SUFFICES ASSUME s >= image.sectors PROVE FALSE
    BY <1>0, LayoutFacts
  <2>1. s * image.pitch >= image.sectors * image.pitch
    BY <1>0, Monotone, LayoutFacts
  <2>2. Length = image.sectors * image.pitch
    BY LayoutFacts DEF Length
  <2> QED BY <1>0, <1>2, <2>1, <2>2, LayoutFacts DEF SectorBytes
<1>4. state' = "READ_ERROR" <=> s \in image.bad
  <2>1. CASE image.pitch = SectorBytes
    BY <1>2, <2>1, LayoutFacts DEF SectorBytes
  <2>2. CASE image.pitch > SectorBytes
    <3>1. /\ (s * image.pitch + SectorBytes) % image.pitch = SectorBytes
          /\ (s * image.pitch + SectorBytes) \div image.pitch = s
      <4>1. image.pitch \in Nat /\ SectorBytes \in Nat /\ SectorBytes < image.pitch
        BY <2>2, LayoutFacts DEF SectorBytes
      <4> QED BY <1>0, <4>1, Inside
    <3>2. IsFlagged(s * size + SectorBytes) <=> s \in image.bad
      BY <3>1 DEF IsFlagged
    <3> QED BY <1>2, <2>2, <3>2
  <2> QED BY <2>1, <2>2, LayoutFacts DEF SectorBytes
<1> QED BY <1>2, <1>3, <1>4

LEMMA StepIInv == ImageInv /\ [ImageNext]_imageVars => ImageInv'
<1> SUFFICES ASSUME ImageInv, [ImageNext]_imageVars PROVE ImageInv'
  OBVIOUS
<1>0. ImageTypeOK /\ ImageTypeOK'
  BY TypeStep DEF ImageInv
<1> USE DEF ImageInv
<1>1. CASE Open
  <2>1. PitchKnown' <=> PitchKnown
    BY <1>1 DEF Open, PitchKnown, Recognisable
  <2>2. pc = "open" /\ i = 0 /\ state = "UNREAD" /\ UNCHANGED <<image, option, i, state>>
    BY <1>1 DEF Open, Stages
  <2>3. Scanned'
    BY <2>2 DEF Scanned, SectorBytes
  <2>4. Stages' /\ ReadsSectorAsked'
    BY <2>2, <1>1 DEF Open, Stages, ReadsSectorAsked
  <2>5. SizeKnown'
    BY <1>1, <2>1, <2>2 DEF Open, SizeKnown, PitchKnown
  <2> QED BY <1>0, <2>3, <2>4, <2>5
<1>2. CASE ScanByte
  <2>1. Scanned'
    <3>1. i' = i + 1 /\ UNCHANGED image /\ (i < SectorBytes \/ IsFF(i))
      BY <1>2 DEF ScanByte
    <3>2. ASSUME NEW k \in SectorBytes .. i' - 1 PROVE IsFF(k)
      BY <1>0, <3>1, LayoutFacts DEF Scanned, SectorBytes
    <3> QED BY <3>1, <3>2 DEF Scanned, IsFF
  <2> QED BY <1>0, <1>2, <2>1 DEF ScanByte, Stages, SizeKnown, ReadsSectorAsked
<1>3. CASE ScanFails
  BY <1>0, <1>3 DEF ScanFails, Scanned, Stages, SizeKnown, ReadsSectorAsked, IsFF
<1>4. CASE ScanEnds
  <2>1. SizeKnown'
    <3> SUFFICES ASSUME PitchKnown' PROVE size' = image'.pitch
      BY DEF SizeKnown
    <3>1. option = 0 /\ Recognisable
      BY <1>4 DEF ScanEnds, Stages, PitchKnown, Recognisable
    <3> QED BY <1>0, <1>4, <3>1, DetectsPitch DEF ScanEnds
  <2> QED BY <1>0, <1>4, <2>1 DEF ScanEnds, Scanned, Stages, ReadsSectorAsked, IsFF
<1>5. ASSUME NEW s \in Requests, ReadSector(s) PROVE ImageInv'
  <2>1. UNCHANGED <<image, option, i, size>> /\ req' = s /\ pc = "ready"
    BY <1>5 DEF ReadSector
  <2>2. Scanned' /\ Stages'
    BY <1>5, <2>1 DEF Scanned, Stages, IsFF, ReadSector
  <2>3. SizeKnown'
    BY <2>1 DEF SizeKnown, PitchKnown, Recognisable
  <2>4. ReadsSectorAsked'
    <3> SUFFICES ASSUME pc' = "ready", PitchKnown', Fits'
                 PROVE  /\ pos' = req' * image'.pitch /\ req' < image'.sectors
                        /\ state' = "READ_ERROR" <=> req' \in image'.bad
      BY DEF ReadsSectorAsked
    <3>1. size = image.pitch
      BY <2>1, <2>3 DEF SizeKnown
    <3>2. s * size < PosModulus
      BY <2>1 DEF Fits
    <3> QED BY <1>0, <1>5, <2>1, <3>1, <3>2, ReadIsRight
  <2> QED BY <1>0, <2>2, <2>3, <2>4
<1>6. CASE UNCHANGED imageVars
  BY <1>0, <1>6 DEF imageVars, Scanned, Stages, SizeKnown, ReadsSectorAsked, IsFF,
     PitchKnown, Recognisable, Fits
<1> QED BY <1>1, <1>2, <1>3, <1>4, <1>5, <1>6 DEF ImageNext, ImageTerminated

(* Scanned bytes, sizes and positions stay in their ranges.                *)
THEOREM ImageTypeCorrect == ImageSpec => []ImageTypeOK
<1>1. ImageInit => ImageTypeOK
  BY InitIInv DEF ImageInv
<1> QED BY <1>1, TypeStep, PTL DEF ImageSpec

(* The device of every volume: with a distance told by the user, or one    *)
(* that the image lets guess, a read is of the sector asked for.           *)
THEOREM ReadsCorrect == ImageSpec => []ReadsSectorAsked
<1>1. ImageInv => ReadsSectorAsked
  BY DEF ImageInv
<1> QED BY InitIInv, StepIInv, <1>1, PTL DEF ImageSpec
=============================================================================
