---------------------------- MODULE CentfsMatch ----------------------------
(***************************************************************************)
(* centfs_fnmatch: does a file name match one part of the pattern?  Every  *)
(* action is one round of the loop over the characters of the part.        *)
(*                                                                         *)
(* A name fills NameBytes bytes, padded with spaces.  The loop may compare *)
(* bytes beyond the name: those of the directory record that follow it.    *)
(***************************************************************************)
EXTENDS Naturals, Sequences

CONSTANTS
  NameBytes,     \* CENTFS_FILENAME_BYTES: 10
  Names,         \* file names
  Patterns,      \* patterns, from the part to match up to their end
  Beyond,        \* what the bytes after the name may be
  Star, Dot, Space, Nul

ASSUME MatchAssumption ==
  /\ NameBytes \in Nat \ {0}
  /\ \A name \in Names : DOMAIN name = 1 .. NameBytes
  /\ \A p \in Patterns : p \in Seq({ p[k] : k \in DOMAIN p }) /\ \A k \in DOMAIN p : p[k] # Nul
  /\ Star # Nul
  /\ \A c \in {Star, Dot, Nul} :
       c \notin Beyond /\ \A name \in Names : \A k \in DOMAIN name : name[k] # c

VARIABLES fn, match, mi, fi, result

vars == <<fn, match, mi, fi, result>>

(* centfs_fnlen: the length without the trailing spaces; like all of these *)
(* functions it looks at NameBytes bytes at most.                          *)
UpTo(s) == {k \in DOMAIN s : k <= NameBytes}
fnlen(s) ==
  LET used == {k \in UpTo(s) : s[k] # Space}
  IN CHOOSE n \in 0 .. NameBytes : (n = 0 \/ n \in used) /\ \A k \in used : k <= n

(* centfs_fnsep: the position of the first separator, 0 if there is none.  *)
fnsep(s) ==
  LET seps == {k \in UpTo(s) : s[k] = Dot}
  IN CHOOSE n \in 0 .. NameBytes : IF seps = {} THEN n = 0
                                   ELSE n \in seps /\ \A k \in seps : n <= k

fnl == fnlen(fn)
ml  == IF fnsep(match) # 0 THEN fnsep(match) - 1 ELSE fnlen(match)

Init ==
  /\ fn \in Names
  /\ match \in Patterns
  /\ mi = 0
  /\ fi = 0
  /\ result = "running"

(* The byte fn[fi]; the values C calls m and n (NUL if m is the last).     *)
NameByte(c) == IF fi < NameBytes THEN c = fn[fi + 1] ELSE c \in Beyond
m == match[mi + 1]
n == IF mi + 1 = ml THEN Nul ELSE match[mi + 2]

Running == result = "running" /\ mi < ml

Return(r) == result' = r /\ UNCHANGED <<fn, match, mi, fi>>

(* Of several stars in a row only the last one counts.                     *)
StarStar ==
  /\ Running /\ m = Star /\ n = Star
  /\ mi' = mi + 1
  /\ UNCHANGED <<fn, match, fi, result>>

(* A star at the end matches whatever is left.                             *)
StarLast == Running /\ m = Star /\ n = Nul /\ Return("match")

SkipToFrom(k) == /\ mi' = mi + 1 /\ fi' = k /\ UNCHANGED <<fn, match, result>>

(* Faulty variants stand before the definition they vary.                  *)
StarSkipsFound ==               \* past the character found
  /\ Running /\ m = Star /\ n \notin {Star, Nul}
  /\ LET at == {k \in fi .. fnl - 1 : fn[k + 1] = n}
     IN IF at # {} THEN \E k \in at : (\A j \in at : k <= j) /\ SkipToFrom(k + 1)
                   ELSE Return("differs")

(* Elsewhere it skips to the first occurrence of the character after it,   *)
(* for good: the loop never comes back to try a later one.                 *)
StarSkips ==
  /\ Running /\ m = Star /\ n \notin {Star, Nul}
  /\ LET at == {k \in fi .. fnl - 1 : fn[k + 1] = n}
     IN IF at # {} THEN \E k \in at : (\A j \in at : k <= j) /\ SkipToFrom(k)
                   ELSE Return("differs")

Compare ==
  /\ Running /\ m # Star
  /\ \E f \in {fn[k] : k \in DOMAIN fn} \union Beyond :
       /\ NameByte(f)
       /\ IF f = m THEN mi' = mi + 1 /\ fi' = fi + 1 /\ UNCHANGED <<fn, match, result>>
                   ELSE Return("differs")

EndOfPartAnyway ==              \* the rest of the name not looked at
  /\ result = "running" /\ mi = ml
  /\ Return("match")

EndOfPart ==
  /\ result = "running" /\ mi = ml
  /\ Return(IF fi < fnl THEN "differs" ELSE "match")

Terminated == result # "running" /\ UNCHANGED vars

Step == StarStar \/ StarLast \/ StarSkips \/ Compare \/ EndOfPart
Next == Step \/ Terminated

Spec == Init /\ [][Next]_vars /\ WF_vars(Step)

(***************************************************************************)
(* What a pattern with stars means: at[j] is how far in s the first j      *)
(* characters of p reach, a star any distance, others one character each.  *)
(***************************************************************************)
Follows(p, s, at, j) ==
  IF p[j] = Star THEN at[j - 1] <= at[j]
                 ELSE at[j] = at[j - 1] + 1 /\ p[j] = s[at[j]]

Glob(p, s) ==
  \E at \in [0 .. Len(p) -> 0 .. Len(s)] :
    /\ at[0] = 0 /\ at[Len(p)] = Len(s)
    /\ \A j \in 1 .. Len(p) : Follows(p, s, at, j)

Name == SubSeq(fn, 1, fnl)
Part == SubSeq(match, 1, ml)

TypeOK ==
  /\ fn \in Names /\ match \in Patterns
  /\ mi \in 0 .. ml
  /\ fi \in 0 .. fnl + mi
  /\ result \in {"running", "match", "differs"}

(* A name that centfs_fnmatch accepts matches the part, with none, some or *)
(* all of the spaces after it, unless a byte beyond them was taken for a   *)
(* character of the name.                                                  *)
NoFalseMatch ==
  result = "match" /\ fi <= NameBytes =>
    \E k \in fnl .. NameBytes : Glob(Part, SubSeq(fn, 1, k))

(* centfs_fnmatch accepts every name that the part matches, if the part    *)
(* has no star before its end, or the name no character twice.             *)
SimplePart   == \A j \in 1 .. ml - 1 : match[j] # Star
DistinctName == \A j, k \in DOMAIN Name : Name[j] = Name[k] => j = k
NoMissedMatch ==
  result = "differs" /\ (SimplePart \/ DistinctName) => ~Glob(Part, Name)

=============================================================================
