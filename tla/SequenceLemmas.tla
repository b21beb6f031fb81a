---------------------------- MODULE SequenceLemmas ----------------------------
(***************************************************************************)
(* Lemmas about numbers and sequences that proofs of several modules need. *)
(***************************************************************************)
EXTENDS Integers, SequencesExt, SequenceTheorems, WellFoundedInduction, TLAPS

(* Induction over the numbers, said of a set.                              *)
LEMMA Induction ==
  ASSUME NEW X, 0 \in X, \A k \in Nat : k \in X => k + 1 \in X
  PROVE  \A k \in Nat : k \in X
<1> DEFINE Less == { ss \in Nat \X Nat : ss[1] < ss[2] }
           T == Nat \ X
<1>1. SUFFICES ASSUME T # {} PROVE FALSE
  OBVIOUS
<1>2. IsWellFoundedOn(Less, Nat)
  BY NatLessThanWellFounded DEF OpToRel
<1>3. PICK x \in T : \A y \in T : ~(<<y, x>> \in Less)
  <2> HIDE DEF Less
  <2> QED BY <1>1, <1>2, WFMin
<1>4. \A y \in T : ~(y < x)
  BY <1>3
<1>5. x # 0 /\ x - 1 \in Nat /\ x = (x - 1) + 1
  BY <1>3
<1>6. x - 1 \in X
  BY <1>4, <1>5
<1> QED BY <1>3, <1>5, <1>6

(* The least element of a set of numbers.                                  *)
LEMMA LeastIs ==
  ASSUME NEW U, U \subseteq Nat, U # {}
  PROVE  Min(U) \in U /\ \A x \in U : Min(U) <= x
<1>. DEFINE Less == { ss \in Nat \X Nat : ss[1] < ss[2] }
<1>1. IsWellFoundedOn(Less, Nat)
  BY NatLessThanWellFounded DEF OpToRel
<1>2. PICK x \in U : \A y \in U : ~(<<y, x>> \in Less)
  <2>. HIDE DEF Less
  <2>. QED  BY <1>1, WFMin
<1>3. \A y \in U : ~(y < x)
  BY <1>2
<1>4. \A y \in U : x <= y
  BY <1>3
<1>5. \E m \in U : \A y \in U : m <= y
  BY <1>4
<1>. QED  BY <1>5, Zenon DEF Min

(***************************************************************************)
(* Remainders.                                                             *)
(***************************************************************************)
(* A number below m is the remainder of any that whole m's were added to.  *)
LEMMA ModUnique ==
  ASSUME NEW m \in Nat \ {0}, NEW d \in Nat, NEW x \in 0 .. m - 1
  PROVE  (d * m + x) % m = x
OBVIOUS

(* Every number is such a sum.                                             *)
LEMMA ModIs ==
  ASSUME NEW m \in Nat \ {0}, NEW l \in Nat
  PROVE \E d \in Nat, x \in 0 .. m - 1 : l = d * m + x /\ x = l % m
<1>1. l = (l \div m) * m + (l % m) /\ l % m \in 0 .. m - 1
  OBVIOUS
<1>2. l \div m \in Nat
  OBVIOUS
<1>. QED BY <1>1, <1>2

(* A count may be taken modulo m at each step, or once.                    *)
LEMMA ModNext ==
  ASSUME NEW m \in Nat \ {0}, NEW l \in Nat
  PROVE  ((l % m) + 1) % m = (l + 1) % m
<1>1. PICK d \in Nat, x \in 0 .. m - 1 : l = d * m + x /\ x = l % m
  BY ModIs
<1>2. CASE x + 1 < m
  <2>1. x + 1 \in 0 .. m - 1 /\ l + 1 = d * m + (x + 1)
    BY <1>1, <1>2
  <2>2. (l + 1) % m = x + 1
    BY <2>1, ModUnique
  <2>3. (x + 1) % m = x + 1
    BY <1>2
  <2>. QED BY <1>1, <2>2, <2>3
<1>3. CASE x + 1 = m
  <2>1. l + 1 = (d + 1) * m + 0 /\ 0 \in 0 .. m - 1 /\ d + 1 \in Nat
    BY <1>1, <1>3
  <2>2. x + 1 = 1 * m + 0 /\ 1 \in Nat
    BY <1>3
  <2>3. ((d + 1) * m + 0) % m = 0 /\ (1 * m + 0) % m = 0
    BY <2>1, <2>2, ModUnique
  <2>. QED BY <1>1, <2>1, <2>2, <2>3
<1>. QED BY <1>2, <1>3

(* A remainder of a count of whole rows, f over, is still f into a row: if *)
(* the count did not reach the modulus, or if that is whole rows.          *)
LEMMA SlotIs ==
  ASSUME NEW m \in Nat \ {0}, NEW z \in 1 .. 8, NEW u \in Nat, NEW f \in 0 .. z - 1,
         NEW l \in Nat, l = u * z + f, l < m \/ m % z = 0
  PROVE  (l % m) % z = f
<1>2. CASE l < m
  <2>1. l % m = l
    BY <1>2
  <2>. QED BY <2>1, ModUnique
<1>3. CASE m % z = 0
  <2>1. PICK e \in Nat : m = e * z
    <3>1. z \in Nat \ {0} /\ m \in Nat
      OBVIOUS
    <3>2. PICK e \in Nat, x \in 0 .. z - 1 : m = e * z + x /\ x = m % z
      BY <3>1, ModIs
    <3>. QED BY <1>3, <3>2
  <2>2. PICK d \in Nat, x \in 0 .. m - 1 : l = d * m + x /\ x = l % m
    BY ModIs
  <2>3. PICK v \in Nat : v = d * e
    OBVIOUS
  <2>4. d * m = v * z
    BY <2>1, <2>3
  <2>5. z \in {1, 2, 3, 4, 5, 6, 7, 8} /\ x \in Nat /\ v * z + x = u * z + f
    BY <2>2, <2>4
  <2>6. x % z = f
    BY <2>5
  <2>. QED BY <2>2, <2>6
<1>. QED BY <1>2, <1>3

(***************************************************************************)
(* Parts of sequences.                                                     *)
(***************************************************************************)
(* Part of a sequence, element by element.                                 *)
LEMMA PartIs ==
  ASSUME NEW X, NEW s \in Seq(X), NEW a \in Nat \ {0}, NEW b \in 0 .. Len(s),
         NEW f \in 1 .. b - a + 1
  PROVE  SubSeq(s, a, b)[f] = s[a + f - 1]
OBVIOUS

(* A sequence that is another with one element more.                       *)
LEMMA AppendIs ==
  ASSUME NEW X, NEW s \in Seq(X), NEW t \in Seq(X), NEW x \in X,
         NEW m \in Nat, Len(s) = m, Len(t) = m + 1,
         \A k \in 1 .. m : t[k] = s[k], t[m + 1] = x
  PROVE  t = Append(s, x)
OBVIOUS

(* An element behind two sequences.                                        *)
LEMMA AppendToConcat ==
  ASSUME NEW X, NEW s \in Seq(X), NEW t \in Seq(X), NEW x \in X
  PROVE  s \o Append(t, x) = Append(s \o t, x)
OBVIOUS

(* What follows a beginning of t makes it one longer.                      *)
LEMMA NextOfPart ==
  ASSUME NEW X, NEW s \in Seq(X), NEW t \in Seq(X), NEW m \in Nat, m + 1 <= Len(t)
  PROVE  Append(s \o SubSeq(t, 1, m), t[m + 1]) = s \o SubSeq(t, 1, m + 1)
<1>1. SubSeq(t, 1, m) \in Seq(X) /\ t[m + 1] \in X
  OBVIOUS
<1>2. SubSeq(t, 1, m + 1) = Append(SubSeq(t, 1, m), t[m + 1])
  OBVIOUS
<1>3. s \o Append(SubSeq(t, 1, m), t[m + 1]) = Append(s \o SubSeq(t, 1, m), t[m + 1])
  BY <1>1, AppendToConcat
<1>. QED  BY <1>2, <1>3

(* A sequence with a beginning of another is a beginning of both.          *)
LEMMA Beginning ==
  ASSUME NEW X, NEW s \in Seq(X), NEW t \in Seq(X), NEW m \in 0 .. Len(t)
  PROVE  s \o SubSeq(t, 1, m) = SubSeq(s \o t, 1, Len(s) + m)
OBVIOUS

(* An element between two sequences belongs to either.                     *)
LEMMA AppendThenConcat ==
  ASSUME NEW X, NEW s \in Seq(X), NEW t \in Seq(X), NEW x \in X
  PROVE  Append(s, x) \o t = s \o (<<x>> \o t)
OBVIOUS

(* Lengths add up.                                                         *)
LEMMA ConcatLength ==
  ASSUME NEW X, NEW s \in Seq(X), NEW t \in Seq(X)
  PROVE  Len(s \o t) = Len(s) + Len(t)
OBVIOUS

(* What comes first is a beginning.                                        *)
LEMMA ConcatBegins ==
  ASSUME NEW X, NEW s \in Seq(X), NEW t \in Seq(X)
  PROVE  Len(s) \in 0 .. Len(s \o t) /\ s = SubSeq(s \o t, 1, Len(s))
OBVIOUS

(* A beginning and what follows it.                                        *)
LEMMA Halves ==
  ASSUME NEW X, NEW s \in Seq(X), NEW k \in 0 .. Len(s)
  PROVE  /\ SubSeq(s, 1, k) \in Seq(X) /\ SubSeq(s, k + 1, Len(s)) \in Seq(X)
         /\ s = SubSeq(s, 1, k) \o SubSeq(s, k + 1, Len(s))
<1>1. PICK n \in Nat : n = Len(s) /\ k \in 0 .. n
  OBVIOUS
<1>2. PICK m \in Nat : k + m = n
  <2>1. n - k \in Nat /\ k + (n - k) = n
    BY <1>1
  <2> QED BY <2>1
<1>3. SubSeq(s, 1, k) \in Seq(X) /\ SubSeq(s, k + 1, n) \in Seq(X)
  BY <1>1
<1>4. PICK u \in Seq(X), v \in Seq(X) : u = SubSeq(s, 1, k) /\ v = SubSeq(s, k + 1, n)
  BY <1>3
<1>5. Len(u) = k /\ \A i \in 1 .. k : u[i] = s[i]
  BY <1>1, <1>4
<1>6. Len(v) = m
  BY <1>1, <1>2, <1>4
<1>7. \A i \in 1 .. m : v[i] = s[k + i]
  BY <1>1, <1>2, <1>4
<1>8. u \o v \in Seq(X) /\ Len(u \o v) = n
  BY <1>2, <1>5, <1>6, ConcatProperties
<1>9. ASSUME NEW i \in 1 .. n PROVE (u \o v)[i] = s[i]
  <2>1. CASE i <= k
    <3>1. i \in 1 .. k /\ i \in 1 .. Len(u) + Len(v)
      BY <1>2, <1>5, <1>6, <2>1
    <3>2. (u \o v)[i] = u[i]
      BY <1>5, <3>1, ConcatProperties
    <3> QED BY <1>5, <3>1, <3>2
  <2>2. CASE i > k
    <3>1. PICK j \in 1 .. m : i = k + j
      <4>1. i - k \in 1 .. m /\ i = k + (i - k)
        BY <1>1, <1>2, <2>2
      <4> QED BY <4>1
    <3>2. i \in 1 .. Len(u) + Len(v) /\ ~(i <= Len(u)) /\ i - Len(u) = j
      BY <1>1, <1>2, <1>5, <1>6, <2>2, <3>1
    <3>3. (u \o v)[i] = v[j]
      BY <3>2, ConcatProperties
    <3>4. v[j] = s[i]
      BY <1>7, <3>1
    <3> QED BY <3>3, <3>4, Zenon
  <2>3. i <= k \/ i > k
    BY <1>1
  <2> QED BY <2>1, <2>2, <2>3, Zenon
<1>10. s = u \o v
  <2>1. PICK w \in Seq(X) : w = u \o v
    BY <1>8
  <2>2. Len(w) = Len(s) /\ \A i \in 1 .. Len(s) : w[i] = s[i]
    BY <1>1, <1>8, <1>9, <2>1
  <2> QED BY <2>1, <2>2, SeqEqual
<1> QED BY <1>1, <1>3, <1>4, <1>10

(* Sequences are joined to a sequence of the same elements.                *)
Joins(X) == \A u, v \in Seq(X) : u \o v \in Seq(X)

LEMMA ConcatJoins == \A X : Joins(X)
<1> SUFFICES ASSUME NEW X PROVE Joins(X)
  OBVIOUS
<1> QED BY ConcatProperties DEF Joins

(* How sequences are grouped does not matter.                              *)
Groups(X) == \A u, v, w \in Seq(X) : (u \o v) \o w = u \o (v \o w)

LEMMA ConcatGroups == \A X : Groups(X)
<1> SUFFICES ASSUME NEW X PROVE Groups(X)
  OBVIOUS
<1> QED BY ConcatAssociative DEF Groups

(* Four sequences in a row, grouped by the middle and by the halves.       *)
Regroups(g, x, y, v) == (g \o (x \o y)) \o v = (g \o x) \o (y \o v)

LEMMA ConcatOfFour ==
  ASSUME NEW X, NEW g \in Seq(X), NEW x \in Seq(X), NEW y \in Seq(X), NEW v \in Seq(X)
  PROVE  Regroups(g, x, y, v)
<1>1. \A s, t, w \in Seq(X) : (s \o t) \o w = s \o (t \o w)
  <2>1. Groups(X)
    BY ConcatGroups, Zenon
  <2> QED BY <2>1 DEF Groups
<1>2. x \o y \in Seq(X) /\ y \o v \in Seq(X)
  BY ConcatProperties
<1>3. \A s \in Seq(X) : (g \o s) \o v = g \o (s \o v)
  BY <1>1, Zenon
<1>4. \A s \in Seq(X) : (g \o x) \o s = g \o (x \o s)
  BY <1>1, Zenon
<1>5. (x \o y) \o v = x \o (y \o v)
  BY <1>1, Zenon
<1>6. (g \o (x \o y)) \o v = g \o ((x \o y) \o v)
  BY <1>2, <1>3, Zenon
<1>7. (g \o x) \o (y \o v) = g \o (x \o (y \o v))
  BY <1>2, <1>4, Zenon
<1> QED BY <1>5, <1>6, <1>7, Zenon DEF Regroups

(* A beginning of a beginning.                                             *)
LEMMA PartOfBeginning ==
  ASSUME NEW X, NEW s \in Seq(X), NEW t \in Seq(X), NEW m \in 0 .. Len(s)
  PROVE  m \in 0 .. Len(s \o t) /\ SubSeq(s, 1, m) = SubSeq(s \o t, 1, m)
OBVIOUS

(* The first part of a beginning is one.                                   *)
LEMMA FirstOfBeginning ==
  ASSUME NEW X, NEW s \in Seq(X), NEW t \in Seq(X), NEW x \in Seq(X), NEW m \in 0 .. Len(x),
         s \o t = SubSeq(x, 1, m)
  PROVE  Len(s) <= Len(x) /\ s = SubSeq(x, 1, Len(s))
<1>1. Len(s) <= m /\ m <= Len(x) /\ Len(s) \in Nat
  <2>1. Len(SubSeq(x, 1, m)) = m /\ Len(s \o t) = Len(s) + Len(t)
    OBVIOUS
  <2>. QED  BY <2>1
<1>2. s = SubSeq(s \o t, 1, Len(s))
  OBVIOUS
<1>3. SubSeq(SubSeq(x, 1, m), 1, Len(s)) = SubSeq(x, 1, Len(s))
  BY <1>1
<1>. QED  BY <1>1, <1>2, <1>3

(***************************************************************************)
(* FlattenSeq.                                                             *)
(***************************************************************************)
(* g[k] is what the first k sequences of s give.                           *)
Flattens(g, s, m) ==
  g = [k \in 1 .. m |-> IF k = 1 THEN s[k] ELSE g[k - 1] \o s[k]]

(* Its values.                                                             *)
LEMMA FlattensIs ==
  ASSUME NEW s, NEW m \in Nat, NEW g, Flattens(g, s, m), NEW k \in 1 .. m
  PROVE  g[k] = IF k = 1 THEN s[k] ELSE g[k - 1] \o s[k]
BY Zenon DEF Flattens

(* There is such a function for all lengths.                               *)
LEMMA FlattensExists ==
  ASSUME NEW s
  PROVE  \A m \in Nat : \E g : Flattens(g, s, m)
<1> DEFINE T == { m \in Nat : \E g : Flattens(g, s, m) }
<1>1. 0 \in T
  <2>1. Flattens([k \in 1 .. 0 |-> 0], s, 0)
    BY DEF Flattens
  <2> QED BY <2>1
<1>2. ASSUME NEW m \in Nat, m \in T PROVE m + 1 \in T
  <2>1. PICK g : Flattens(g, s, m)
    BY <1>2
  <2>2. PICK h : h = [k \in 1 .. m + 1 |-> IF k = 1 THEN s[k] ELSE g[k - 1] \o s[k]]
    OBVIOUS
  <2>3. ASSUME NEW k \in 1 .. m PROVE h[k] = g[k]
    <3>1. g[k] = IF k = 1 THEN s[k] ELSE g[k - 1] \o s[k]
      BY <2>1, FlattensIs
    <3>2. k \in 1 .. m + 1
      OBVIOUS
    <3> QED BY <2>2, <3>1, <3>2, Zenon
  <2>4. \A k \in 1 .. m + 1 : k # 1 => k - 1 \in 1 .. m
    OBVIOUS
  <2>5. \A k \in 1 .. m + 1 : (IF k = 1 THEN s[k] ELSE g[k - 1] \o s[k])
                              = (IF k = 1 THEN s[k] ELSE h[k - 1] \o s[k])
    BY <2>3, <2>4, Zenon
  <2>6. [k \in 1 .. m + 1 |-> IF k = 1 THEN s[k] ELSE g[k - 1] \o s[k]]
        = [k \in 1 .. m + 1 |-> IF k = 1 THEN s[k] ELSE h[k - 1] \o s[k]]
    BY <2>5, Zenon
  <2>7. Flattens(h, s, m + 1)
    BY <2>2, <2>6, Zenon DEF Flattens
  <2> QED BY <2>7
<1>3. \A m \in Nat : m \in T
  <2> HIDE DEF T
  <2> QED BY <1>1, <1>2, Induction
<1> QED BY <1>3

(* It depends on these k sequences alone.                                  *)
LEMMA FlattensUnique ==
  ASSUME NEW s, NEW t, NEW m \in Nat, NEW l \in Nat, NEW j \in 1 .. m, j \in 1 .. l,
         NEW g, Flattens(g, s, m), NEW h, Flattens(h, t, l),
         \A k \in 1 .. j : s[k] = t[k]
  PROVE  g[j] = h[j]
<1> DEFINE T == { k \in Nat : k \in 1 .. j => g[k] = h[k] }
<1>1. 0 \in T
  OBVIOUS
<1>2. ASSUME NEW k \in Nat, k \in T PROVE k + 1 \in T
  <2>1. SUFFICES ASSUME k + 1 \in 1 .. j PROVE g[k + 1] = h[k + 1]
    OBVIOUS
  <2>2. k + 1 \in 1 .. m /\ k + 1 \in 1 .. l /\ (k + 1) - 1 = k /\ s[k + 1] = t[k + 1]
    BY <2>1
  <2>3. k + 1 # 1 => g[k] = h[k]
    BY <1>2, <2>1
  <2>4. g[k + 1] = IF k + 1 = 1 THEN s[k + 1] ELSE g[k] \o s[k + 1]
    BY <2>2, FlattensIs
  <2>5. h[k + 1] = IF k + 1 = 1 THEN t[k + 1] ELSE h[k] \o t[k + 1]
    BY <2>2, FlattensIs
  <2> QED BY <2>2, <2>3, <2>4, <2>5, Zenon
<1>3. \A k \in Nat : k \in T
  <2> HIDE DEF T
  <2> QED BY <1>1, <1>2, Induction
<1> QED BY <1>3

(* FlattenSeq is the last of its values.                                   *)
LEMMA FlattenIs ==
  ASSUME NEW s, Len(s) \in Nat \ {0}
  PROVE  \E g : Flattens(g, s, Len(s)) /\ FlattenSeq(s) = g[Len(s)]
<1>1. PICK g : Flattens(g, s, Len(s))
  BY FlattensExists
<1>2. PICK h : h = CHOOSE f : f = [k \in 1 .. Len(s) |-> IF k = 1 THEN s[k] ELSE f[k - 1] \o s[k]]
  OBVIOUS
<1>3. Flattens(h, s, Len(s))
  BY <1>1, <1>2, Zenon DEF Flattens
<1>4. FlattenSeq(s) = h[Len(s)]
  BY <1>2, Zenon DEF FlattenSeq
<1> QED BY <1>3, <1>4

(* Nothing flattened is nothing.                                           *)
LEMMA FlattenEmpty == FlattenSeq(<<>>) = <<>>
BY DEF FlattenSeq

(* One more sequence is joined behind the others.                          *)
LEMMA FlattenAppend ==
  ASSUME NEW X, NEW s \in Seq(Seq(X)), NEW x \in Seq(X)
  PROVE  FlattenSeq(Append(s, x)) = FlattenSeq(s) \o x
<1>1. PICK t \in Seq(Seq(X)), l \in Nat :
        t = Append(s, x) /\ l = Len(s) /\ Len(t) = l + 1 /\ t[l + 1] = x
        /\ \A k \in 1 .. l : t[k] = s[k]
  <2>1. Append(s, x) \in Seq(Seq(X)) /\ Len(s) \in Nat /\ Len(Append(s, x)) = Len(s) + 1
    OBVIOUS
  <2>2. Append(s, x)[Len(s) + 1] = x
    OBVIOUS
  <2>3. \A k \in 1 .. Len(s) : Append(s, x)[k] = s[k]
    OBVIOUS
  <2> QED BY <2>1, <2>2, <2>3
<1>2. PICK g : Flattens(g, t, l + 1) /\ FlattenSeq(t) = g[l + 1]
  <2>1. Len(t) \in Nat \ {0}
    BY <1>1
  <2> QED BY <1>1, <2>1, FlattenIs
<1>3. l + 1 \in 1 .. l + 1 /\ (l + 1) - 1 = l
  OBVIOUS
<1>4. g[l + 1] = IF l + 1 = 1 THEN x ELSE g[l] \o x
  <2>1. l + 1 \in Nat
    OBVIOUS
  <2>2. g[l + 1] = IF l + 1 = 1 THEN t[l + 1] ELSE g[(l + 1) - 1] \o t[l + 1]
    BY <1>2, <1>3, <2>1, FlattensIs
  <2> QED BY <1>1, <1>3, <2>2
<1>5. CASE l = 0
  <2>1. s = <<>> /\ l + 1 = 1
    BY <1>1, <1>5
  <2>2. <<>> \o x = x
    OBVIOUS
  <2> QED BY <1>1, <1>2, <1>4, <2>1, <2>2, FlattenEmpty
<1>6. CASE l # 0
  <2>1. PICK h : Flattens(h, s, l) /\ FlattenSeq(s) = h[l]
    BY <1>1, <1>6, FlattenIs
  <2>2. l \in 1 .. l /\ l \in 1 .. l + 1 /\ l + 1 \in Nat /\ l + 1 # 1
    BY <1>6
  <2>3. g[l] = h[l]
    <3>1. \A k \in 1 .. l : t[k] = s[k]
      BY <1>1
    <3> QED BY <1>2, <2>1, <2>2, <3>1, FlattensUnique
  <2> QED BY <1>1, <1>2, <1>4, <2>1, <2>2, <2>3
<1> QED BY <1>5, <1>6

(* The first k of the sequences, one by one.                               *)
LEMMA FlattenPrefix ==
  ASSUME NEW X, NEW s \in Seq(Seq(X)), NEW k \in 1 .. Len(s)
  PROVE  /\ SubSeq(s, 1, k) \in Seq(Seq(X)) /\ SubSeq(s, 1, k - 1) \in Seq(Seq(X)) 
         /\ FlattenSeq(SubSeq(s, 1, k)) = FlattenSeq(SubSeq(s, 1, k - 1)) \o s[k]
<1>1. SubSeq(s, 1, k) \in Seq(Seq(X)) /\ SubSeq(s, 1, k - 1) \in Seq(Seq(X)) /\ s[k] \in Seq(X)
  OBVIOUS
<1>2. SubSeq(s, 1, k) = Append(SubSeq(s, 1, k - 1), s[k])
  OBVIOUS
<1> QED BY <1>1, <1>2, FlattenAppend

(* The result is a sequence of the same elements.                          *)
LEMMA FlattenType ==
  ASSUME NEW X, NEW s \in Seq(Seq(X))
  PROVE  FlattenSeq(s) \in Seq(X)
<1> DEFINE T == { k \in Nat : k <= Len(s) => FlattenSeq(SubSeq(s, 1, k)) \in Seq(X) }
<1>1. 0 \in T
  <2>1. SubSeq(s, 1, 0) = <<>>
    OBVIOUS
  <2>2. FlattenSeq(SubSeq(s, 1, 0)) = <<>>
    BY <2>1, FlattenEmpty, Zenon
  <2>3. <<>> \in Seq(X)
    OBVIOUS
  <2> QED BY <2>2, <2>3
<1>2. ASSUME NEW k \in Nat, k \in T PROVE k + 1 \in T
  <2>1. SUFFICES ASSUME k + 1 <= Len(s) PROVE FlattenSeq(SubSeq(s, 1, k + 1)) \in Seq(X)
    OBVIOUS
  <2>2. k + 1 \in 1 .. Len(s) /\ (k + 1) - 1 = k /\ s[k + 1] \in Seq(X)
    BY <2>1
  <2>3. FlattenSeq(SubSeq(s, 1, k + 1)) = FlattenSeq(SubSeq(s, 1, k)) \o s[k + 1]
    BY <2>2, FlattenPrefix
  <2>4. FlattenSeq(SubSeq(s, 1, k)) \in Seq(X)
    BY <1>2, <2>1, <2>2
  <2>5. \A a, b \in Seq(X) : a \o b \in Seq(X)
    OBVIOUS
  <2> QED BY <2>2, <2>3, <2>4, <2>5
<1>3. \A k \in Nat : k \in T
  <2> HIDE DEF T
  <2> QED BY <1>1, <1>2, Induction
<1>4. Len(s) \in Nat /\ Len(s) <= Len(s) /\ SubSeq(s, 1, Len(s)) = s
  OBVIOUS
<1>5. FlattenSeq(SubSeq(s, 1, Len(s))) \in Seq(X)
  BY <1>3, <1>4
<1> QED BY <1>4, <1>5

(* Sequences from the i-th to the k-th, the first of them apart.           *)
LEMMA FlattenRest ==
  ASSUME NEW X, NEW s \in Seq(Seq(X)), NEW i \in 1 .. Len(s)
  PROVE  /\ SubSeq(s, i, Len(s)) \in Seq(Seq(X)) /\ SubSeq(s, i + 1, Len(s)) \in Seq(Seq(X))
         /\ FlattenSeq(SubSeq(s, i, Len(s))) = s[i] \o FlattenSeq(SubSeq(s, i + 1, Len(s)))
<1> DEFINE Apart(j) == FlattenSeq(SubSeq(s, i, j)) = s[i] \o FlattenSeq(SubSeq(s, i + 1, j))
           T == { k \in Nat : i + k <= Len(s) => Apart(i + k) }
<1>1. i \in Nat \ {0} /\ i + 0 = i /\ Len(s) \in Nat /\ i <= Len(s) /\ s[i] \in Seq(X)
  OBVIOUS
<1>2. \A u, v, w \in Seq(X) : (u \o v) \o w = u \o (v \o w)
  <2>1. Groups(X)
    BY ConcatGroups, Zenon
  <2> QED BY <2>1 DEF Groups
<1>3. 0 \in T
  <2>1. SubSeq(s, i, i) = Append(<<>>, s[i]) /\ SubSeq(s, i + 1, i) = <<>>
    <3>1. i + 1 \in Nat /\ i < i + 1
      BY <1>1
    <3>2. SubSeq(s, i + 1, i) = <<>>
      BY <1>1, <3>1
    <3>3. Len(SubSeq(s, i, i)) = 1 /\ SubSeq(s, i, i)[1] = s[i] /\ SubSeq(s, i, i) \in Seq(Seq(X))
      BY <1>1
    <3>4. PICK a \in Seq(Seq(X)) : a = SubSeq(s, i, i)
      BY <3>3
    <3>5. a = <<s[i]>>
      <4>1. \A y \in Seq(Seq(X)) : Len(y) = 1 => y = <<y[1]>>
        OBVIOUS
      <4> QED BY <3>3, <3>4, <4>1, Zenon
    <3> QED BY <3>2, <3>4, <3>5
  <2>2. <<>> \in Seq(Seq(X)) /\ <<>> \o s[i] = s[i] /\ s[i] \o <<>> = s[i]
    BY <1>1
  <2>3. FlattenSeq(Append(<<>>, s[i])) = FlattenSeq(<<>>) \o s[i]
    BY <1>1, <2>2, FlattenAppend
  <2>4. Apart(i)
    BY <2>1, <2>2, <2>3, FlattenEmpty, Zenon
  <2> HIDE DEF Apart
  <2> QED BY <1>1, <2>4
<1>4. ASSUME NEW k \in Nat, k \in T PROVE k + 1 \in T
  <2>1. SUFFICES ASSUME i + (k + 1) <= Len(s) PROVE Apart(i + (k + 1))
    <3> HIDE DEF Apart
    <3> QED OBVIOUS
  <2>2. PICK j \in Nat : j = i + k /\ j + 1 = i + (k + 1) /\ i <= j /\ j + 1 <= Len(s)
    BY <1>1, <2>1
  <2>3. Apart(j)
    <3>1. i + k <= Len(s)
      BY <2>2
    <3> HIDE DEF Apart
    <3> QED BY <1>4, <2>2, <3>1
  <2>4. PICK a \in Seq(Seq(X)), b \in Seq(Seq(X)), x \in Seq(X) :
          a = SubSeq(s, i, j) /\ b = SubSeq(s, i + 1, j) /\ x = s[j + 1]
    <3>1. SubSeq(s, i, j) \in Seq(Seq(X))
      BY <1>1, <2>2
    <3>2. SubSeq(s, i + 1, j) \in Seq(Seq(X))
      BY <1>1, <2>2
    <3>3. s[j + 1] \in Seq(X)
      BY <1>1, <2>2
    <3> QED BY <3>1, <3>2, <3>3
  <2>5. SubSeq(s, i, j + 1) = Append(a, x)
    BY <1>1, <2>2, <2>4
  <2>6. SubSeq(s, i + 1, j + 1) = Append(b, x)
    BY <1>1, <2>2, <2>4
  <2>7. FlattenSeq(Append(a, x)) = FlattenSeq(a) \o x /\ FlattenSeq(Append(b, x)) = FlattenSeq(b) \o x
    BY FlattenAppend
  <2>8. FlattenSeq(b) \in Seq(X)
    BY FlattenType
  <2>9. (s[i] \o FlattenSeq(b)) \o x = s[i] \o (FlattenSeq(b) \o x)
    BY <1>1, <1>2, <2>8, Zenon
  <2> QED BY <2>2, <2>3, <2>4, <2>5, <2>6, <2>7, <2>9, Zenon
<1>5. \A k \in Nat : k \in T
  <2> HIDE DEF T
  <2> QED BY <1>3, <1>4, Induction
<1>6. Len(s) - i \in Nat /\ i + (Len(s) - i) = Len(s)
  BY <1>1
<1>7. Apart(Len(s))
  <2>1. PICK k \in Nat : i + k = Len(s)
    BY <1>6
  <2>2. i + k <= Len(s)
    BY <1>1, <2>1
  <2>3. k \in T
    BY <1>5
  <2> HIDE DEF Apart
  <2> QED BY <2>1, <2>2, <2>3
<1> QED BY <1>1, <1>7

(* The first k sequences, and the others.                                  *)
LEMMA FlattenSplit ==
  ASSUME NEW X, NEW s \in Seq(Seq(X)), NEW k \in 0 .. Len(s)
  PROVE  /\ FlattenSeq(SubSeq(s, 1, k)) \in Seq(X)
         /\ FlattenSeq(SubSeq(s, k + 1, Len(s))) \in Seq(X)
         /\ FlattenSeq(s) = FlattenSeq(SubSeq(s, 1, k)) \o FlattenSeq(SubSeq(s, k + 1, Len(s)))
<1> DEFINE Whole(j) == FlattenSeq(s)
                       = FlattenSeq(SubSeq(s, 1, j)) \o FlattenSeq(SubSeq(s, j + 1, Len(s)))
           T == { j \in Nat : j <= Len(s) => Whole(j) }
<1>1. \A j \in 0 .. Len(s) : /\ FlattenSeq(SubSeq(s, 1, j)) \in Seq(X)
                             /\ FlattenSeq(SubSeq(s, j + 1, Len(s))) \in Seq(X)
  <2>1. \A j \in 0 .. Len(s) : /\ SubSeq(s, 1, j) \in Seq(Seq(X))
                               /\ SubSeq(s, j + 1, Len(s)) \in Seq(Seq(X))
    OBVIOUS
  <2> QED BY <2>1, FlattenType
<1>2. 0 \in T
  <2>1. SubSeq(s, 1, 0) = <<>> /\ SubSeq(s, 0 + 1, Len(s)) = s
    OBVIOUS
  <2>2. FlattenSeq(s) \in Seq(X)
    BY FlattenType
  <2>3. <<>> \o FlattenSeq(s) = FlattenSeq(s)
    BY <2>2
  <2>4. Whole(0)
    BY <2>1, <2>3, FlattenEmpty, Zenon
  <2> HIDE DEF Whole
  <2> QED BY <2>4
<1>3. ASSUME NEW j \in Nat, j \in T PROVE j + 1 \in T
  <2>1. SUFFICES ASSUME j + 1 <= Len(s) PROVE Whole(j + 1)
    <3> HIDE DEF Whole
    <3> QED OBVIOUS
  <2>2. j + 1 \in 1 .. Len(s) /\ (j + 1) - 1 = j /\ j <= Len(s) /\ j \in 0 .. Len(s)
        /\ j + 1 \in 0 .. Len(s)
    BY <2>1
  <2>3. Whole(j)
    <3> HIDE DEF Whole
    <3> QED BY <1>3, <2>2
  <2>4. FlattenSeq(SubSeq(s, 1, j + 1)) = FlattenSeq(SubSeq(s, 1, j)) \o s[j + 1]
    BY <2>2, FlattenPrefix
  <2>5. FlattenSeq(SubSeq(s, j + 1, Len(s))) = s[j + 1] \o FlattenSeq(SubSeq(s, (j + 1) + 1, Len(s)))
    BY <2>2, FlattenRest
  <2>6. /\ FlattenSeq(SubSeq(s, 1, j)) \in Seq(X) /\ s[j + 1] \in Seq(X)
        /\ FlattenSeq(SubSeq(s, (j + 1) + 1, Len(s))) \in Seq(X)
    BY <1>1, <2>2
  <2>7. FlattenSeq(SubSeq(s, 1, j)) \o (s[j + 1] \o FlattenSeq(SubSeq(s, (j + 1) + 1, Len(s))))
        = (FlattenSeq(SubSeq(s, 1, j)) \o s[j + 1]) \o FlattenSeq(SubSeq(s, (j + 1) + 1, Len(s)))
    <3>1. \A u, v, w \in Seq(X) : (u \o v) \o w = u \o (v \o w)
      <4>1. Groups(X)
        BY ConcatGroups, Zenon
      <4> QED BY <4>1 DEF Groups
    <3> QED BY <2>6, <3>1, Zenon
  <2> QED BY <2>3, <2>4, <2>5, <2>7, Zenon
<1>4. \A j \in Nat : j \in T
  <2> HIDE DEF T
  <2> QED BY <1>2, <1>3, Induction
<1>5. k \in Nat /\ k <= Len(s)
  OBVIOUS
<1>6. Whole(k)
  <2> HIDE DEF Whole
  <2> QED BY <1>4, <1>5
<1> QED BY <1>1, <1>6
=============================================================================
