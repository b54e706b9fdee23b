-------------------------- MODULE HistoryMemoryProofs --------------------------
(***************************************************************************)
(* The memory mirrors the cache, in every schedule of HistorySync: what is *)
(* in memory has been saved or is about to be, in the same order, and each *)
(* saved message that can have a row has its row.                          *)
(*                                                                         *)
(* The argument is an induction over the steps in which the sequences of   *)
(* memory, rows and what is to be saved are always taken apart at the same *)
(* places.  It needs to know that on_authorized, which loads the rows into *)
(* the memory, finds the memory empty (Start).                             *)
(***************************************************************************)
EXTENDS HistoryArchiveProofs, WellFoundedInduction

-----------------------------------------------------------------------------
(* Flattening sequences                                                    *)

\* A set of natural numbers has a least one.  Inductions below are proved from
\* this: the least number that fails has a predecessor that does not.
LEMMA LeastNat ==
  ASSUME NEW T \in SUBSET Nat, T # {}
  PROVE  \E n \in T : \A k \in T : n <= k
<1> DEFINE R == {pair \in Nat \X Nat : pair[1] < pair[2]}
<1>1. IsWellFoundedOn(R, Nat)
  BY NatLessThanWellFounded DEF OpToRel
<1>2. \A k, n \in Nat : k < n => <<k, n>> \in R
  OBVIOUS
<1> HIDE DEF R
<1>3. \E n \in T : \A k \in T : <<k, n>> \notin R
  BY <1>1, WFMin
<1>4. ASSUME NEW k \in T, NEW n \in T, <<k, n>> \notin R PROVE n <= k
  <2>1. k \in Nat /\ n \in Nat
    OBVIOUS
  <2> QED
    BY <1>2, <1>4, <2>1
<1> QED
  BY <1>3, <1>4

\* A set that has the first number of a range and, with each other's
\* predecessor, that number, has the whole range.
LEMMA Climbs ==
  ASSUME NEW last \in Nat, NEW good, 1 \in good,
         \A n \in 2..last : n - 1 \in good => n \in good
  PROVE  \A n \in 1..last : n \in good
<1> SUFFICES ASSUME NEW bad \in 1..last, bad \notin good PROVE FALSE
  OBVIOUS
<1> DEFINE T == {n \in 1..last : n \notin good}
<1>1. T \in SUBSET Nat /\ T # {}
  OBVIOUS
<1> HIDE DEF T
<1>2. PICK n \in T : \A k \in T : n <= k
  BY <1>1, LeastNat
<1>3. n \in 2..last /\ n \notin good
  BY <1>2 DEF T
<1>4. n - 1 \in 1..last /\ ~(n <= n - 1)
  BY <1>3
<1>5. n - 1 \in good
  BY <1>2, <1>4 DEF T
<1> QED
  BY <1>3, <1>5

\* The sums of the beginnings of a sequence of sequences, up to the n-th
Sums(f, seqs, n) == /\ f[1] = seqs[1]
                    /\ \A i \in 2..n : f[i] = f[i - 1] \o seqs[i]

LEMMA SumsUnique ==
  ASSUME NEW seqs, NEW n \in Nat, NEW f, NEW g, Sums(f, seqs, n), Sums(g, seqs, n)
  PROVE  \A i \in 1..n : f[i] = g[i]
<1> DEFINE same == {i \in 1..n : f[i] = g[i]}
<1> SUFFICES ASSUME 1 <= n PROVE \A i \in 1..n : i \in same
  OBVIOUS
<1>1. 1 \in same
  BY DEF Sums
<1>2. ASSUME NEW i \in 2..n, i - 1 \in same PROVE i \in same
  <2>1. i \in 1..n /\ f[i - 1] = g[i - 1]
    BY <1>2
  <2>2. f[i] = f[i - 1] \o seqs[i] /\ g[i] = g[i - 1] \o seqs[i]
    BY DEF Sums
  <2> QED
    BY <2>1, <2>2
<1> HIDE DEF same
<1> QED
  BY <1>1, <1>2, Climbs

LEMMA SumsExist ==
  ASSUME NEW S, NEW seqs \in Seq(Seq(S)), NEW len \in Nat \ {0}, len = Len(seqs)
  PROVE  \E f \in [1..len -> Seq(S)] : Sums(f, seqs, len)
<1> DEFINE good == {n \in 1..len : \E f \in [1..n -> Seq(S)] : Sums(f, seqs, n)}
<1>1. \A i \in 1..len : seqs[i] \in Seq(S)
  BY ElementOfSeq
<1>2. 1 \in good
  <2> DEFINE f == [i \in 1..1 |-> seqs[1]]
  <2>1. seqs[1] \in Seq(S)
    BY <1>1
  <2>2. f \in [1..1 -> Seq(S)] /\ f[1] = seqs[1]
    BY <2>1
  <2> HIDE DEF f
  <2>3. Sums(f, seqs, 1)
    BY <2>2 DEF Sums
  <2> QED
    BY <2>2, <2>3
<1>3. ASSUME NEW n \in 2..len, n - 1 \in good PROVE n \in good
  <2>1. PICK f \in [1..n - 1 -> Seq(S)] : Sums(f, seqs, n - 1)
    BY <1>3
  <2> DEFINE g == [i \in 1..n |-> IF i = n THEN f[n - 1] \o seqs[n] ELSE f[i]]
  <2>2. n \in 1..len /\ n - 1 \in 1..n - 1 /\ f[n - 1] \in Seq(S)
    BY <1>3
  <2>3. f[n - 1] \o seqs[n] \in Seq(S)
    BY <1>1, <2>2, ConcatProperties
  <2>4. g \in [1..n -> Seq(S)]
    BY <2>3
  <2>5. /\ g[n] = f[n - 1] \o seqs[n]
        /\ \A i \in 1..n - 1 : g[i] = f[i]
    <3>1. n \in 1..n /\ \A i \in 1..n - 1 : i \in 1..n /\ i # n
      OBVIOUS
    <3> QED
      BY <3>1
  <2> HIDE DEF g
  <2>6. g[1] = seqs[1]
    BY <2>1, <2>5, 1 \in 1..n - 1 DEF Sums
  <2>7. ASSUME NEW i \in 2..n PROVE g[i] = g[i - 1] \o seqs[i]
    <3>1. CASE i = n
      BY <2>2, <2>5, <3>1
    <3>2. CASE i # n
      <4>1. i \in 2..n - 1 /\ i \in 1..n - 1 /\ i - 1 \in 1..n - 1
        BY <3>2
      <4>2. f[i] = f[i - 1] \o seqs[i]
        BY <2>1, <4>1 DEF Sums
      <4> QED
        BY <2>5, <4>1, <4>2
    <3> QED
      BY <3>1, <3>2
  <2>8. Sums(g, seqs, n)
    BY <2>6, <2>7 DEF Sums
  <2> QED
    BY <2>2, <2>4, <2>8
<1> HIDE DEF good
<1>4. len \in good
  BY <1>2, <1>3, Climbs, len \in 1..len
<1> QED
  BY <1>4 DEF good

\* What a sequence of sequences is flattened to is the last sum.
LEMMA FlattenIs ==
  ASSUME NEW seqs, NEW len \in Nat \ {0}, len = Len(seqs), NEW f, DOMAIN f = 1..len,
         f = [i \in 1..len |-> f[i]], Sums(f, seqs, len)
  PROVE  FlattenSeq(seqs) = f[len]
<1> DEFINE def(g) == [i \in 1..len |-> IF i = 1 THEN seqs[i] ELSE g[i - 1] \o seqs[i]]
           h == CHOOSE g : g = def(g)
<1>1. FlattenSeq(seqs) = h[len]
  BY DEF FlattenSeq
<1>2. f = def(f)
  <2>1. ASSUME NEW i \in 1..len PROVE f[i] = IF i = 1 THEN seqs[i] ELSE f[i - 1] \o seqs[i]
    <3>1. CASE i = 1
      BY <3>1 DEF Sums
    <3>2. CASE i # 1
      <4>1. i \in 2..len
        BY <3>2
      <4> QED
        BY <3>2, <4>1 DEF Sums
    <3> QED
      BY <3>1, <3>2
  <2> QED
    BY <2>1
<1>3. h = def(h)
  BY <1>2
<1> HIDE DEF h
<1>4. \A i \in 1..len : h[i] = IF i = 1 THEN seqs[i] ELSE h[i - 1] \o seqs[i]
  BY <1>3
<1>5. Sums(h, seqs, len)
  <2>1. h[1] = seqs[1]
    BY <1>4, 1 \in 1..len
  <2>2. ASSUME NEW i \in 2..len PROVE h[i] = h[i - 1] \o seqs[i]
    <3>1. i \in 1..len /\ i # 1
      OBVIOUS
    <3> QED
      BY <1>4, <3>1
  <2> QED
    BY <2>1, <2>2 DEF Sums
<1> QED
  BY <1>1, <1>5, SumsUnique, len \in 1..len

LEMMA FlattenOne ==
  ASSUME NEW s
  PROVE  FlattenSeq(<<s>>) = s /\ FlattenSeq(<< >>) = << >>
<1> DEFINE f == <<s>>
<1>1. Len(<<s>>) = 1 /\ DOMAIN f = 1..1 /\ f[1] = s
  OBVIOUS
<1>2. f = [i \in 1..1 |-> f[i]]
  OBVIOUS
<1>3. Sums(f, <<s>>, 1)
  BY DEF Sums
<1> HIDE DEF f
<1>4. FlattenSeq(<<s>>) = f[1]
  BY <1>1, <1>2, <1>3, FlattenIs, 1 \in Nat \ {0}
<1>5. FlattenSeq(<< >>) = << >>
  BY DEF FlattenSeq
<1> QED
  BY <1>1, <1>4, <1>5

LEMMA FlattenType ==
  ASSUME NEW S, NEW seqs \in Seq(Seq(S))
  PROVE  FlattenSeq(seqs) \in Seq(S)
<1>1. CASE seqs = << >>
  <2>1. FlattenSeq(<< >>) = << >>
    BY DEF FlattenSeq
  <2>2. << >> \in Seq(S)
    OBVIOUS
  <2> QED
    BY <1>1, <2>1, <2>2
<1>2. CASE seqs # << >>
  <2>1. PICK len \in Nat \ {0} : len = Len(seqs)
    BY <1>2, LenProperties
  <2>2. PICK f \in [1..len -> Seq(S)] : Sums(f, seqs, len)
    BY <2>1, SumsExist
  <2>3. FlattenSeq(seqs) = f[len]
    BY <2>1, <2>2, FlattenIs
  <2> QED
    BY <2>3, len \in 1..len
<1> QED
  BY <1>1, <1>2

\* From the m-th on, c goes on with b.
GoesOn(c, m, b, n) == \A i \in 1..n : c[m + i] = b[i]

\* Adding u and each of the sums and elements of b is associative.
Associates(u, g, b, n) == \A k \in 2..n : (u \o g[k - 1]) \o b[k] = u \o (g[k - 1] \o b[k])

LEMMA Assoc ==
  ASSUME NEW S, NEW n \in Nat, NEW u \in Seq(S),
         NEW g \in [1..n -> Seq(S)], NEW b \in [1..n -> Seq(S)]
  PROVE  Associates(u, g, b, n)
<1>1. \A x, y, z \in Seq(S) : (x \o y) \o z = x \o (y \o z)
  BY ConcatAssociative, SMTT(30)
<1> SUFFICES ASSUME NEW k \in 2..n PROVE (u \o g[k - 1]) \o b[k] = u \o (g[k - 1] \o b[k])
  BY DEF Associates
<1>2. g[k - 1] \in Seq(S) /\ b[k] \in Seq(S)
  <2>1. k - 1 \in 1..n /\ k \in 1..n
    OBVIOUS
  <2> QED
    BY <2>1
<1> QED
  BY <1>1, <1>2, Zenon

SumsOfBoth(f, m, g, b, n, c, h) ==
    /\ Sums(f, c, m) /\ Sums(g, b, n) /\ Sums(h, c, m + n)
    /\ GoesOn(c, m, b, n) /\ Associates(f[m], g, b, n)

SumOfBoth(f, m, g, n, h) == h[m + n] = f[m] \o g[n]

\* The sums of what goes on
LEMMA SumsGoOn ==
  ASSUME NEW m \in Nat \ {0}, NEW n \in Nat \ {0}, NEW f, NEW g, NEW b, NEW c, NEW h,
         SumsOfBoth(f, m, g, b, n, c, h)
  PROVE  SumOfBoth(f, m, g, n, h)
<1> USE DEF SumsOfBoth
<1>1. \A i \in 2..m + n : h[i] = h[i - 1] \o c[i]
  BY DEF Sums
<1>2. h[m] = f[m]
  <2>1. ASSUME NEW i \in 2..m PROVE h[i] = h[i - 1] \o c[i]
    <3>1. i \in 2..m + n
      OBVIOUS
    <3> QED
      BY <1>1, <3>1
  <2>2. Sums(h, c, m)
    BY <2>1 DEF Sums
  <2>3. m \in Nat /\ m \in 1..m
    OBVIOUS
  <2>4. \A i \in 1..m : h[i] = f[i]
    BY <2>2, <2>3, SumsUnique
  <2> QED
    BY <2>3, <2>4
<1>3. ASSUME NEW k \in 1..n PROVE h[m + k] = h[m + k - 1] \o b[k]
  <2>1. PICK i \in 2..m + n, p \in 1..m + n : i = m + k /\ p = i - 1
    OBVIOUS
  <2>2. p = m + k - 1
    BY <2>1
  <2>3. h[i] = h[p] \o c[i]
    <3>1. h[i] = h[i - 1] \o c[i]
      BY <1>1
    <3> QED
      BY <2>1, <3>1
  <2>4. c[i] = b[k]
    BY <2>1 DEF GoesOn
  <2>5. h[i] = h[p] \o b[k]
    BY <2>3, <2>4
  <2>6. h[i] = h[m + k] /\ h[p] = h[m + k - 1]
    BY <2>1, <2>2
  <2> QED
    BY <2>5, <2>6
<1> DEFINE good == {k \in 1..n : h[m + k] = f[m] \o g[k]}
<1>4. 1 \in good
  <2>1. 1 \in 1..n /\ m + 1 - 1 = m
    OBVIOUS
  <2>2. h[m + 1] = h[m + 1 - 1] \o b[1]
    BY <1>3, <2>1
  <2>3. g[1] = b[1]
    BY DEF Sums
  <2>4. h[m + 1] = f[m] \o g[1]
    BY <1>2, <2>1, <2>2, <2>3
  <2> QED
    BY <2>1, <2>4
<1>5. ASSUME NEW k \in 2..n, k - 1 \in good PROVE k \in good
  <2>1. k \in 1..n /\ k - 1 \in 1..n /\ m + (k - 1) = m + k - 1 /\ m \in 1..m
    OBVIOUS
  <2>2. h[m + k] = h[m + k - 1] \o b[k]
    BY <1>3, <2>1
  <2>3. g[k] = g[k - 1] \o b[k]
    BY DEF Sums
  <2>4. h[m + k - 1] = f[m] \o g[k - 1]
    <3>1. h[m + (k - 1)] = f[m] \o g[k - 1]
      BY <1>5
    <3> QED
      BY <2>1, <3>1
  <2>6. (f[m] \o g[k - 1]) \o b[k] = f[m] \o (g[k - 1] \o b[k])
    BY DEF Associates
  <2>7. h[m + k] = f[m] \o g[k]
    BY <2>2, <2>3, <2>4, <2>6
  <2> QED
    BY <2>1, <2>7
<1> HIDE DEF good
<1>6. n \in good
  BY <1>4, <1>5, Climbs, n \in 1..n, n \in Nat
<1> QED
  BY <1>6 DEF good, SumOfBoth

LEMMA FlattenConcat ==
  ASSUME NEW S, NEW a \in Seq(Seq(S)), NEW b \in Seq(Seq(S))
  PROVE  FlattenSeq(a \o b) = FlattenSeq(a) \o FlattenSeq(b)
<1>1. FlattenSeq(a) \in Seq(S) /\ FlattenSeq(b) \in Seq(S) /\ FlattenSeq(<< >>) = << >>
  <2>1. FlattenSeq(<< >>) = << >>
    BY DEF FlattenSeq
  <2> QED
    BY <2>1, FlattenType
<1>2. CASE a = << >>
  <2>1. << >> \o b = b /\ << >> \o FlattenSeq(b) = FlattenSeq(b)
    BY <1>1, ConcatEmptySeq
  <2> QED
    BY <1>1, <1>2, <2>1
<1>3. CASE b = << >>
  <2>1. a \o << >> = a /\ FlattenSeq(a) \o << >> = FlattenSeq(a)
    BY <1>1, ConcatEmptySeq
  <2> QED
    BY <1>1, <1>3, <2>1
<1>4. CASE a # << >> /\ b # << >>
  <2>1. PICK m \in Nat \ {0} : m = Len(a)
    BY <1>4, LenProperties
  <2>2. PICK n \in Nat \ {0} : n = Len(b)
    BY <1>4, LenProperties
  <2>3. PICK c \in Seq(Seq(S)) : c = a \o b
    BY ConcatProperties
  <2>4. /\ Len(c) = m + n /\ m + n \in Nat \ {0}
        /\ \A i \in 1..m + n : c[i] = IF i <= m THEN a[i] ELSE b[i - m]
    BY <2>1, <2>2, <2>3, ConcatProperties
  <2>5. GoesOn(c, m, b, n)
    <3> SUFFICES ASSUME NEW i \in 1..n PROVE c[m + i] = b[i]
      BY DEF GoesOn
    <3>1. m + i \in 1..m + n /\ ~(m + i <= m) /\ m + i - m = i
      OBVIOUS
    <3> QED
      BY <2>4, <3>1, SMTT(30)
  <2>7. PICK f : f \in [1..m -> Seq(S)] /\ Sums(f, a, m)
    BY <2>1, SumsExist
  <2>6. Sums(f, c, m)
    <3>1. \A i \in 1..m : c[i] = a[i]
      BY <2>4
    <3>2. f[1] = a[1] /\ \A i \in 2..m : f[i] = f[i - 1] \o a[i]
      BY <2>7 DEF Sums
    <3>3. f[1] = c[1]
      BY <3>1, <3>2, 1 \in 1..m
    <3>4. ASSUME NEW i \in 2..m PROVE f[i] = f[i - 1] \o c[i]
      <4>1. a[i] = c[i]
        BY <3>1, i \in 1..m
      <4> QED
        BY <3>2, <4>1
    <3> QED
      BY <3>3, <3>4 DEF Sums
  <2>8. PICK g : g \in [1..n -> Seq(S)] /\ Sums(g, b, n)
    BY <2>2, SumsExist
  <2>9. PICK h : h \in [1..m + n -> Seq(S)] /\ Sums(h, c, m + n)
    BY <2>4, SumsExist
  <2>10. FlattenSeq(a) = f[m] /\ FlattenSeq(b) = g[n] /\ FlattenSeq(c) = h[m + n]
    <3>1. FlattenSeq(a) = f[m]
      BY <2>1, <2>7, FlattenIs
    <3>2. FlattenSeq(b) = g[n]
      BY <2>2, <2>8, FlattenIs
    <3>3. FlattenSeq(c) = h[m + n]
      BY <2>4, <2>9, FlattenIs
    <3> QED
      BY <3>1, <3>2, <3>3
  <2>12. Associates(f[m], g, b, n)
    <3>1. b \in [1..n -> Seq(S)] /\ f[m] \in Seq(S) /\ n \in Nat
      BY <2>2, <2>7, m \in 1..m
    <3> QED
      BY <2>8, <3>1, Assoc
  <2>11. h[m + n] = f[m] \o g[n]
    <3>1. SumsOfBoth(f, m, g, b, n, c, h)
      BY <2>5, <2>6, <2>8, <2>9, <2>12 DEF SumsOfBoth
    <3>2. SumOfBoth(f, m, g, n, h)
      BY <3>1, SumsGoOn
    <3> QED
      BY <3>2 DEF SumOfBoth
  <2> QED
    BY <2>3, <2>10, <2>11
<1> QED
  BY <1>2, <1>3, <1>4

-----------------------------------------------------------------------------
(* Inserting what is saved                                                 *)

Kept(msgs) == {i \in DOMAIN msgs : Insertable(msgs[i])}

LEMMA KeptIs ==
  ASSUME NEW S, NEW s \in Seq(S)
  PROVE  /\ Len(s) \in Nat
         /\ \A i : i \in Kept(s) <=> i \in 1..Len(s) /\ Insertable(s[i])
         /\ IsFiniteSet(Kept(s)) /\ Cardinality(Kept(s)) \in Nat
         /\ Kept(s) \in SUBSET (1..Len(s))
<1>1. DOMAIN s = 1..Len(s) /\ Len(s) \in Nat
  BY LenProperties
<1>2. Kept(s) \in SUBSET (1..Len(s)) /\ \A i : i \in Kept(s) <=> i \in 1..Len(s) /\ Insertable(s[i])
  BY <1>1 DEF Kept
<1>3. IsFiniteSet(Kept(s))
  BY <1>1, <1>2, FS_Interval, FS_Subset, 1 \in Int, Len(s) \in Int
<1> QED
  BY <1>1, <1>2, <1>3, FS_CardinalityType

\* The rows of a sequence are counted with the places they come from.
RowsOf(rows, s, f, n) ==
    /\ n = Cardinality(Kept(s))
    /\ f \in [1..n -> Kept(s)]
    /\ \A i, j \in 1..n : i < j => f[i] < f[j]
    /\ rows = [i \in 1..n |-> s[f[i]]]

LEMMA RowsAre ==
  ASSUME NEW s, NEW rows
  PROVE  rows \in Inserted(s) <=> \E f, n : RowsOf(rows, s, f, n)
<1>1. ASSUME rows \in Inserted(s) PROVE \E f, n : RowsOf(rows, s, f, n)
  <2>1. PICK f \in Ascending(Kept(s)) : rows = [i \in DOMAIN f |-> s[f[i]]]
    BY <1>1 DEF Inserted, Kept
  <2>2. PICK n : n = Cardinality(Kept(s))
    OBVIOUS
  <2>3. f \in [1..n -> Kept(s)] /\ \A i, j \in 1..n : i < j => f[i] < f[j]
    BY <2>2 DEF Ascending
  <2>4. DOMAIN f = 1..n
    BY <2>3
  <2>5. rows = [i \in 1..n |-> s[f[i]]]
    BY <2>1, <2>4
  <2>6. RowsOf(rows, s, f, n)
    BY <2>2, <2>3, <2>5 DEF RowsOf
  <2> QED
    BY <2>6
<1>2. ASSUME NEW f, NEW n, RowsOf(rows, s, f, n) PROVE rows \in Inserted(s)
  <2>1. n = Cardinality(Kept(s)) /\ f \in [1..n -> Kept(s)]
    BY <1>2 DEF RowsOf
  <2>2. f \in Ascending(Kept(s))
    BY <1>2, <2>1 DEF RowsOf, Ascending
  <2>3. DOMAIN f = 1..n /\ rows = [i \in 1..n |-> s[f[i]]]
    BY <1>2, <2>1 DEF RowsOf
  <2>4. rows = [i \in DOMAIN f |-> s[f[i]]]
    BY <2>3
  <2> QED
    BY <2>2, <2>4 DEF Inserted, Kept
<1> QED
  BY <1>1, <1>2

\* If everything can be inserted, everything is.
LEMMA InsertedAll ==
  ASSUME NEW S, NEW s \in Seq(S), \A i \in 1..Len(s) : Insertable(s[i])
  PROVE  s \in Inserted(s)
<1> DEFINE f == [i \in 1..Len(s) |-> i]
<1>1. Len(s) \in Nat /\ Kept(s) = 1..Len(s)
  BY KeptIs
<1>2. Cardinality(Kept(s)) = Len(s)
  <2>1. Cardinality(1..Len(s)) = IF 1 > Len(s) THEN 0 ELSE Len(s) - 1 + 1
    BY <1>1, FS_Interval, 1 \in Int, Len(s) \in Int
  <2> QED
    BY <1>1, <2>1
<1>3. f \in [1..Len(s) -> Kept(s)] /\ \A i, j \in 1..Len(s) : i < j => f[i] < f[j]
  BY <1>1
<1>4. s = [i \in 1..Len(s) |-> s[f[i]]]
  <2>1. s = [i \in 1..Len(s) |-> s[i]]
    BY LenProperties
  <2> QED
    BY <2>1
<1> HIDE DEF f
<1>5. RowsOf(s, s, f, Len(s))
  BY <1>2, <1>3, <1>4 DEF RowsOf
<1> QED
  BY <1>5, RowsAre

\* The places kept of a sequence and, further on, those of what follows it
Further(m, places) == {m + i : i \in places}

LEMMA FurtherIs ==
  ASSUME NEW m \in Nat, NEW places \in SUBSET Nat, IsFiniteSet(places)
  PROVE  /\ IsFiniteSet(Further(m, places))
         /\ Cardinality(Further(m, places)) = Cardinality(places)
<1> DEFINE f == [i \in places |-> m + i]
<1>1. f \in [places -> Further(m, places)]
  BY DEF Further
<1>2. \A i, j \in places : f[i] = f[j] => i = j
  <2> SUFFICES ASSUME NEW i \in places, NEW j \in places, f[i] = f[j] PROVE i = j
    OBVIOUS
  <2>1. m + i = m + j /\ i \in Nat /\ j \in Nat
    OBVIOUS
  <2> QED
    BY <2>1
<1>3. \A t \in Further(m, places) : \E i \in places : f[i] = t
  BY DEF Further
<1> HIDE DEF f
<1>4. f \in Bijection(places, Further(m, places))
  BY <1>1, <1>2, <1>3 DEF Bijection, Injection, Surjection, IsInjective
<1>5. ExistsBijection(places, Further(m, places))
  BY <1>4 DEF ExistsBijection
<1> QED
  BY <1>5, FS_Bijection

LEMMA KeptOfBoth ==
  ASSUME NEW S, NEW a \in Seq(S), NEW b \in Seq(S)
  PROVE  /\ Kept(a \o b) = Kept(a) \cup Further(Len(a), Kept(b))
         /\ Cardinality(Kept(a \o b)) = Cardinality(Kept(a)) + Cardinality(Kept(b))
<1>1. PICK m \in Nat : m = Len(a)
  BY LenProperties
<1>2. PICK n \in Nat : n = Len(b)
  BY LenProperties
<1>3. PICK c \in Seq(S) : c = a \o b
  BY ConcatProperties
<1>4. Len(c) = m + n /\ \A i \in 1..m + n : c[i] = IF i <= m THEN a[i] ELSE b[i - m]
  BY <1>1, <1>2, <1>3, ConcatProperties
<1>5. /\ \A i : i \in Kept(a) <=> i \in 1..m /\ Insertable(a[i])
      /\ \A i : i \in Kept(b) <=> i \in 1..n /\ Insertable(b[i])
      /\ \A i : i \in Kept(c) <=> i \in 1..m + n /\ Insertable(c[i])
  BY <1>1, <1>2, <1>4, KeptIs
<1>6. Kept(c) = Kept(a) \cup Further(m, Kept(b))
  <2>1. ASSUME NEW i \in Kept(c) PROVE i \in Kept(a) \cup Further(m, Kept(b))
    <3>1. i \in 1..m + n /\ Insertable(c[i])
      BY <1>5
    <3>2. CASE i <= m
      BY <1>4, <1>5, <3>1, <3>2
    <3>3. CASE ~(i <= m)
      <4>1. PICK k \in 1..n : i - m = k /\ i = m + k
        BY <3>1, <3>3
      <4>2. c[i] = b[k]
        BY <1>4, <3>1, <3>3, <4>1
      <4>3. k \in Kept(b)
        BY <1>5, <3>1, <4>2
      <4> QED
        BY <4>1, <4>3 DEF Further
    <3> QED
      BY <3>2, <3>3
  <2>2. ASSUME NEW i \in Kept(a) PROVE i \in Kept(c)
    <3>1. i \in 1..m /\ Insertable(a[i])
      BY <1>5
    <3>2. i \in 1..m + n /\ i <= m
      BY <3>1
    <3>3. c[i] = a[i]
      BY <1>4, <3>2
    <3> QED
      BY <1>5, <3>1, <3>2, <3>3
  <2>3. ASSUME NEW i \in Further(m, Kept(b)) PROVE i \in Kept(c)
    <3>1. PICK k \in Kept(b) : i = m + k
      BY DEF Further
    <3>2. k \in 1..n /\ Insertable(b[k])
      BY <1>5
    <3>3. i \in 1..m + n /\ ~(i <= m) /\ i - m = k
      BY <3>1, <3>2
    <3>4. c[i] = b[k]
      BY <1>4, <3>3
    <3> QED
      BY <1>5, <3>2, <3>3, <3>4
  <2> QED
    BY <2>1, <2>2, <2>3
<1>7. /\ Kept(a) \in SUBSET (1..m) /\ IsFiniteSet(Kept(a)) /\ Cardinality(Kept(a)) \in Nat
      /\ Kept(b) \in SUBSET (1..n) /\ IsFiniteSet(Kept(b)) /\ Cardinality(Kept(b)) \in Nat
  BY <1>1, <1>2, KeptIs
<1>8. /\ IsFiniteSet(Further(m, Kept(b)))
      /\ Cardinality(Further(m, Kept(b))) = Cardinality(Kept(b))
  <2>1. Kept(b) \in SUBSET Nat
    BY <1>7
  <2> QED
    BY <1>7, <2>1, FurtherIs
<1>9. Kept(a) \cap Further(m, Kept(b)) = {}
  <2> SUFFICES ASSUME NEW i \in Kept(a), NEW k \in Kept(b), i = m + k PROVE FALSE
    BY DEF Further
  <2>1. i \in 1..m /\ k \in 1..n
    BY <1>7
  <2> QED
    BY <2>1
<1>10. Cardinality({}) = 0
  BY FS_EmptySet
<1>11. Cardinality(Kept(a) \cup Further(m, Kept(b)))
          = Cardinality(Kept(a)) + Cardinality(Further(m, Kept(b)))
             - Cardinality(Kept(a) \cap Further(m, Kept(b)))
  BY <1>7, <1>8, FS_Union
<1>12. Cardinality(Kept(c)) = Cardinality(Kept(a)) + Cardinality(Kept(b))
  <2>1. PICK x \in Nat, y \in Nat : x = Cardinality(Kept(a)) /\ y = Cardinality(Kept(b))
    BY <1>7
  <2>2. Cardinality(Kept(a) \cap Further(m, Kept(b))) = 0
    BY <1>9, <1>10
  <2>3. Cardinality(Kept(c)) = x + y - 0
    BY <1>6, <1>8, <1>11, <2>1, <2>2
  <2> QED
    BY <2>1, <2>3
<1> QED
  BY <1>1, <1>3, <1>6, <1>12

\* What is inserted of two sequences one after the other is inserted of both.
LEMMA InsertedConcat ==
  ASSUME NEW S, NEW a \in Seq(S), NEW b \in Seq(S),
         NEW r \in Inserted(a), NEW t \in Inserted(b)
  PROVE  r \o t \in Inserted(a \o b)
<1>1. PICK f, p : RowsOf(r, a, f, p)
  BY RowsAre
<1>2. PICK g, q : RowsOf(t, b, g, q)
  BY RowsAre
<1>3. PICK m \in Nat : m = Len(a)
  BY LenProperties
<1>4. PICK n \in Nat : n = Len(b)
  BY LenProperties
<1>5. PICK c \in Seq(S) : c = a \o b
  BY ConcatProperties
<1>6. Len(c) = m + n /\ \A i \in 1..m + n : c[i] = IF i <= m THEN a[i] ELSE b[i - m]
  BY <1>3, <1>4, <1>5, ConcatProperties
<1>7. /\ p \in Nat /\ p = Cardinality(Kept(a)) /\ Kept(a) \in SUBSET (1..m)
      /\ q \in Nat /\ q = Cardinality(Kept(b)) /\ Kept(b) \in SUBSET (1..n)
  BY <1>1, <1>2, <1>3, <1>4, KeptIs DEF RowsOf
<1>8. /\ Cardinality(Kept(c)) = p + q
      /\ Kept(c) = Kept(a) \cup Further(m, Kept(b))
  BY <1>3, <1>5, <1>7, KeptOfBoth
<1>9. /\ \A i \in 1..p : f[i] \in Kept(a) /\ f[i] \in 1..m
      /\ \A i, j \in 1..p : i < j => f[i] < f[j]
      /\ r = [i \in 1..p |-> a[f[i]]]
  BY <1>1, <1>7 DEF RowsOf
<1>10. /\ \A i \in 1..q : g[i] \in Kept(b) /\ g[i] \in 1..n
       /\ \A i, j \in 1..q : i < j => g[i] < g[j]
       /\ t = [i \in 1..q |-> b[g[i]]]
  BY <1>2, <1>7 DEF RowsOf
<1> DEFINE place(i) == IF i <= p THEN f[i] ELSE m + g[i - p]
           h == [i \in 1..p + q |-> place(i)]
<1>11. \A i \in 1..p + q : i <= p => i \in 1..p
  BY <1>7
<1>12. \A i \in 1..p + q : ~(i <= p) => i - p \in 1..q
  BY <1>7
<1>13. \A i \in 1..p + q : i <= p => h[i] = f[i]
  OBVIOUS
<1>14. \A i \in 1..p + q : ~(i <= p) => h[i] = m + g[i - p]
  OBVIOUS
<1>15. DOMAIN h = 1..p + q /\ h = [i \in 1..p + q |-> h[i]]
  OBVIOUS
<1> HIDE DEF h, place
<1>16. \A i \in 1..p + q : h[i] \in Kept(c)
  <2> SUFFICES ASSUME NEW i \in 1..p + q PROVE h[i] \in Kept(c)
    OBVIOUS
  <2>1. CASE i <= p
    BY <1>8, <1>9, <1>11, <1>13, <2>1
  <2>2. CASE ~(i <= p)
    <3>1. g[i - p] \in Kept(b)
      BY <1>10, <1>12, <2>2
    <3>2. m + g[i - p] \in Further(m, Kept(b))
      BY <3>1 DEF Further
    <3> QED
      BY <1>8, <1>14, <2>2, <3>2
  <2> QED
    BY <2>1, <2>2
<1>17. \A i, j \in 1..p + q : i < j => h[i] < h[j]
  <2> SUFFICES ASSUME NEW i \in 1..p + q, NEW j \in 1..p + q, i < j PROVE h[i] < h[j]
    OBVIOUS
  <2>1. CASE j <= p
    <3>1. i <= p
      BY <1>7, <2>1
    <3> QED
      BY <1>9, <1>11, <1>13, <2>1, <3>1
  <2>2. CASE i <= p /\ ~(j <= p)
    <3>1. f[i] \in 1..m /\ h[i] = f[i]
      BY <1>9, <1>11, <1>13, <2>2
    <3>2. g[j - p] \in 1..n /\ h[j] = m + g[j - p]
      BY <1>10, <1>12, <1>14, <2>2
    <3> QED
      BY <3>1, <3>2
  <2>3. CASE ~(i <= p) /\ ~(j <= p)
    <3>1. PICK x \in 1..q, y \in 1..q : x = i - p /\ y = j - p
      BY <1>12, <2>3
    <3>2. x < y
      BY <1>7, <3>1
    <3>3. g[x] < g[y] /\ g[x] \in 1..n /\ g[y] \in 1..n
      BY <1>10, <3>2
    <3>4. h[i] = m + g[x] /\ h[j] = m + g[y]
      BY <1>14, <2>3, <3>1
    <3> QED
      BY <3>3, <3>4
  <2> QED
    BY <2>1, <2>2, <2>3
<1>18. r \o t = [i \in 1..p + q |-> c[h[i]]]
  <2>1. \A i \in 1..p : a[f[i]] \in S
    BY <1>3, <1>9, ElementOfSeq
  <2>2. \A i \in 1..q : b[g[i]] \in S
    BY <1>4, <1>10, ElementOfSeq
  <2>3. r \in Seq(S) /\ Len(r) = p
    <3>1. r \in [1..p -> S]
      BY <1>9, <2>1
    <3>2. r \in Seq(S)
      BY <1>7, <3>1, FunctionIsSeq
    <3> QED
      BY <1>7, <3>1, <3>2, LenProperties
  <2>4. t \in Seq(S) /\ Len(t) = q
    <3>1. t \in [1..q -> S]
      BY <1>10, <2>2
    <3>2. t \in Seq(S)
      BY <1>7, <3>1, FunctionIsSeq
    <3> QED
      BY <1>7, <3>1, <3>2, LenProperties
  <2>5. PICK w \in Seq(S) : w = r \o t
    BY <2>3, <2>4, ConcatProperties
  <2>6. Len(w) = p + q /\ \A i \in 1..p + q : w[i] = IF i <= p THEN r[i] ELSE t[i - p]
    BY <2>3, <2>4, <2>5, ConcatProperties
  <2>7. w = [i \in 1..p + q |-> w[i]]
    BY <2>6, LenProperties
  <2>8. \A i \in 1..p + q : w[i] = c[h[i]]
    <3> SUFFICES ASSUME NEW i \in 1..p + q PROVE w[i] = c[h[i]]
      OBVIOUS
    <3>1. CASE i <= p
      <4>1. i \in 1..p /\ h[i] = f[i] /\ f[i] \in 1..m
        BY <1>9, <1>11, <1>13, <3>1
      <4>2. f[i] \in 1..m + n /\ f[i] <= m
        BY <4>1
      <4>3. c[f[i]] = a[f[i]]
        BY <1>6, <4>2
      <4>4. w[i] = r[i] /\ r[i] = a[f[i]]
        BY <1>9, <2>6, <3>1, <4>1
      <4> QED
        BY <4>1, <4>3, <4>4
    <3>2. CASE ~(i <= p)
      <4>1. PICK x \in 1..q : x = i - p
        BY <1>12, <3>2
      <4>2. PICK y \in 1..n : y = g[x]
        BY <1>10
      <4>3. PICK z \in 1..m + n : z = m + y /\ ~(z <= m) /\ z - m = y
        OBVIOUS
      <4>4. c[z] = b[y]
        BY <1>6, <4>3
      <4>5. h[i] = z
        BY <1>14, <3>2, <4>1, <4>2, <4>3
      <4>6. w[i] = t[x] /\ t[x] = b[y]
        BY <1>10, <2>6, <3>2, <4>1, <4>2
      <4> QED
        BY <4>4, <4>5, <4>6
    <3> QED
      BY <3>1, <3>2
  <2> QED
    BY <2>5, <2>7, <2>8
<1>19. RowsOf(r \o t, c, h, p + q)
  <2>1. h \in [1..p + q -> Kept(c)]
    BY <1>15, <1>16
  <2> QED
    BY <1>8, <1>17, <1>18, <2>1 DEF RowsOf
<1>20. r \o t \in Inserted(c)
  BY <1>19, RowsAre
<1> QED
  BY <1>5, <1>20

-----------------------------------------------------------------------------
(* What is still to be saved                                               *)

Due(calls, ch) == FlattenSeq([i \in DOMAIN calls |-> SavedBy(calls[i], ch)])

\* Slot calls whatever has been posted
Calls == [to : {"control", "cacher"},
          kind : {"authorized", "registered", "channels", "joined", "history", "text"},
          chs : Seq(Channels), msgs : Seq(Nat)]

LEMMA EventsAreCalls ==
  ASSUME TypeOK
  PROVE  Events \subseteq Calls
<1>1. Messages \subseteq Nat
  BY LenProperties DEF TypeOK, Messages
<1>2. \A s \in Seq(Messages) : s \in Seq(Nat)
  BY <1>1, SeqMonotonic
<1>4. << >> \in Seq(Nat)
  OBVIOUS
<1>3. One(Channels) \subseteq Seq(Channels)
  BY OneChannel
<1> QED
  BY <1>2, <1>3, <1>4 DEF Events, Calls

LEMMA SavedByType ==
  ASSUME NEW e \in Calls, NEW ch
  PROVE  SavedBy(e, ch) \in Seq(Nat)
<1>1. e.msgs \in Seq(Nat) /\ << >> \in Seq(Nat)
  BY DEF Calls
<1> QED
  BY <1>1 DEF SavedBy

Parts(calls, ch) == [i \in DOMAIN calls |-> SavedBy(calls[i], ch)]

LEMMA PartsType ==
  ASSUME NEW calls \in Seq(Calls), NEW ch
  PROVE  /\ Parts(calls, ch) \in Seq(Seq(Nat))
         /\ Len(Parts(calls, ch)) = Len(calls)
         /\ \A i \in 1..Len(calls) : Parts(calls, ch)[i] = SavedBy(calls[i], ch)
<1>1. Len(calls) \in Nat /\ DOMAIN calls = 1..Len(calls)
  BY LenProperties
<1>2. \A i \in 1..Len(calls) : SavedBy(calls[i], ch) \in Seq(Nat)
  <2> SUFFICES ASSUME NEW i \in 1..Len(calls) PROVE SavedBy(calls[i], ch) \in Seq(Nat)
    OBVIOUS
  <2>1. calls[i] \in Calls
    BY ElementOfSeq
  <2> QED
    BY <2>1, SavedByType
<1>3. Parts(calls, ch) \in [1..Len(calls) -> Seq(Nat)]
  BY <1>1, <1>2 DEF Parts
<1>4. Parts(calls, ch) \in Seq(Seq(Nat))
  BY <1>1, <1>3, FunctionIsSeq
<1>5. Len(Parts(calls, ch)) = Len(calls)
  BY <1>1, <1>3, <1>4, LenProperties
<1>6. \A i \in 1..Len(calls) : Parts(calls, ch)[i] = SavedBy(calls[i], ch)
  BY <1>1 DEF Parts
<1> QED
  BY <1>4, <1>5, <1>6

LEMMA DueType ==
  ASSUME NEW calls \in Seq(Calls), NEW ch
  PROVE  Due(calls, ch) \in Seq(Nat)
<1>1. Due(calls, ch) = FlattenSeq(Parts(calls, ch))
  BY DEF Due, Parts
<1> QED
  BY <1>1, PartsType, FlattenType

\* Sequences that agree are the same.
LEMMA SameSeq ==
  ASSUME NEW S, NEW s \in Seq(S), NEW t \in Seq(S), Len(s) = Len(t),
         \A i \in 1..Len(s) : s[i] = t[i]
  PROVE  s = t
<1>1. s = [i \in 1..Len(s) |-> s[i]] /\ t = [i \in 1..Len(s) |-> t[i]]
  BY LenProperties
<1> QED
  BY <1>1

LEMMA DueOfBoth ==
  ASSUME NEW a \in Seq(Calls), NEW b \in Seq(Calls), NEW ch
  PROVE  Due(a \o b, ch) = Due(a, ch) \o Due(b, ch)
<1>1. PICK c \in Seq(Calls) : c = a \o b
  BY ConcatProperties
<1>2. PICK m \in Nat : m = Len(a)
  BY LenProperties
<1>3. PICK n \in Nat : n = Len(b)
  BY LenProperties
<1>4. Len(c) = m + n /\ \A i \in 1..m + n : c[i] = IF i <= m THEN a[i] ELSE b[i - m]
  BY <1>1, <1>2, <1>3, ConcatProperties
<1>5. PICK x \in Seq(Seq(Nat)) : x = Parts(a, ch)
  BY PartsType
<1>6. PICK y \in Seq(Seq(Nat)) : y = Parts(b, ch)
  BY PartsType
<1>7. PICK z \in Seq(Seq(Nat)) : z = Parts(c, ch)
  BY PartsType
<1>8. /\ Len(x) = m /\ \A i \in 1..m : x[i] = SavedBy(a[i], ch)
      /\ Len(y) = n /\ \A i \in 1..n : y[i] = SavedBy(b[i], ch)
      /\ Len(z) = m + n /\ \A i \in 1..m + n : z[i] = SavedBy(c[i], ch)
  <2>1. Len(x) = m /\ \A i \in 1..m : x[i] = SavedBy(a[i], ch)
    BY <1>2, <1>5, PartsType
  <2>2. Len(y) = n /\ \A i \in 1..n : y[i] = SavedBy(b[i], ch)
    BY <1>3, <1>6, PartsType
  <2>3. Len(z) = m + n /\ \A i \in 1..m + n : z[i] = SavedBy(c[i], ch)
    BY <1>4, <1>7, PartsType
  <2> QED
    BY <2>1, <2>2, <2>3
<1>9. PICK w \in Seq(Seq(Nat)) : w = x \o y
  BY ConcatProperties
<1>10. Len(w) = m + n /\ \A i \in 1..m + n : w[i] = IF i <= m THEN x[i] ELSE y[i - m]
  BY <1>8, <1>9, ConcatProperties, ZenonT(30)
<1>11. \A i \in 1..m + n : z[i] = w[i]
  <2> SUFFICES ASSUME NEW i \in 1..m + n PROVE z[i] = w[i]
    OBVIOUS
  <2>1. CASE i <= m
    <3>1. i \in 1..m
      BY <2>1
    <3>2. c[i] = a[i] /\ w[i] = x[i]
      BY <1>4, <1>10, <2>1
    <3>3. x[i] = SavedBy(a[i], ch) /\ z[i] = SavedBy(c[i], ch)
      BY <1>8, <3>1
    <3> QED
      BY <3>2, <3>3
  <2>2. CASE ~(i <= m)
    <3>1. PICK k \in 1..n : k = i - m
      BY <2>2
    <3>2. c[i] = b[k] /\ w[i] = y[k]
      BY <1>4, <1>10, <2>2, <3>1
    <3> QED
      BY <1>8, <3>2
  <2> QED
    BY <2>1, <2>2
<1>12. z = w
  BY <1>8, <1>10, <1>11, SameSeq
<1>13. FlattenSeq(w) = FlattenSeq(x) \o FlattenSeq(y)
  BY <1>9, FlattenConcat
<1> QED
  BY <1>1, <1>5, <1>6, <1>7, <1>12, <1>13 DEF Due, Parts

LEMMA DueOfOne ==
  ASSUME NEW e \in Calls, NEW ch
  PROVE  Due(<<e>>, ch) = SavedBy(e, ch) /\ Due(<< >>, ch) = << >>
<1>1. PICK x \in Seq(Seq(Nat)) : x = Parts(<<e>>, ch)
  BY PartsType, OneIsSeq
<1>2. PICK u \in Seq(Nat) : u = SavedBy(e, ch)
  BY SavedByType
<1>3. Len(x) = 1 /\ x[1] = u
  <2>1. Len(<<e>>) = 1 /\ <<e>>[1] = e /\ 1 \in 1..1 /\ <<e>> \in Seq(Calls)
    OBVIOUS
  <2>2. Len(x) = Len(<<e>>) /\ \A i \in 1..Len(<<e>>) : x[i] = SavedBy(<<e>>[i], ch)
    BY <1>1, <2>1, PartsType
  <2> QED
    BY <1>2, <2>1, <2>2
<1>4. x = <<u>>
  <2>1. <<u>> \in Seq(Seq(Nat)) /\ Len(<<u>>) = 1 /\ <<u>>[1] = u
    OBVIOUS
  <2>2. \A i \in 1..Len(x) : x[i] = <<u>>[i]
    BY <1>3, <2>1
  <2>3. Len(x) = Len(<<u>>)
    BY <1>3, <2>1
  <2> QED
    BY <2>1, <2>2, <2>3, SameSeq
<1>5. Due(<<e>>, ch) = u
  <2>1. Due(<<e>>, ch) = FlattenSeq(x)
    BY <1>1 DEF Due, Parts
  <2>2. FlattenSeq(<<u>>) = u
    BY FlattenOne
  <2> QED
    BY <1>4, <2>1, <2>2
<1>6. Due(<< >>, ch) = << >>
  <2>1. [i \in DOMAIN << >> |-> SavedBy(<< >>[i], ch)] = << >>
    OBVIOUS
  <2>2. FlattenSeq(<< >>) = << >>
    BY FlattenOne
  <2> QED
    BY <2>1, <2>2 DEF Due
<1> QED
  BY <1>2, <1>5, <1>6

\* A call that is queued adds its messages behind, ...
LEMMA DueQueued ==
  ASSUME NEW calls \in Seq(Calls), NEW e \in Calls, NEW ch
  PROVE  Due(Append(calls, e), ch) = Due(calls, ch) \o SavedBy(e, ch)
<1>1. Append(calls, e) = calls \o <<e>> /\ <<e>> \in Seq(Calls)
  OBVIOUS
<1>2. Due(calls \o <<e>>, ch) = Due(calls, ch) \o Due(<<e>>, ch)
  BY <1>1, DueOfBoth
<1>3. Due(<<e>>, ch) = SavedBy(e, ch)
  BY DueOfOne
<1> QED
  BY <1>1, <1>2, <1>3

\* ... and one that runs takes its messages off the front.
LEMMA DueRun ==
  ASSUME NEW calls \in Seq(Calls), calls # << >>, NEW ch
  PROVE  Due(calls, ch) = SavedBy(Head(calls), ch) \o Due(Tail(calls), ch)
<1>1. Head(calls) \in Calls /\ Tail(calls) \in Seq(Calls)
  BY TailAt
<1>2. <<Head(calls)>> \in Seq(Calls) /\ calls = <<Head(calls)>> \o Tail(calls)
  BY <1>1
<1>3. Due(<<Head(calls)>> \o Tail(calls), ch)
        = Due(<<Head(calls)>>, ch) \o Due(Tail(calls), ch)
  BY <1>1, <1>2, DueOfBoth
<1>4. Due(<<Head(calls)>>, ch) = SavedBy(Head(calls), ch)
  BY <1>1, DueOfOne
<1> QED
  BY <1>2, <1>3, <1>4

-----------------------------------------------------------------------------
(* Nothing is in memory until on_authorized has run                        *)

AcceptedCall(e) == e.to = "cacher" /\ e.kind \in Accepted

\* The response that accepts the user is under way, or the cacher has still to
\* hear of it.
AcceptedComing == toClient # << >> /\ Head(toClient).kind \in Accepted

Awaited == \E i \in 1..Len(events) : AcceptedCall(events[i])

Starting == phase = "offline" \/ AcceptedComing \/ Awaited

\* Nothing is known of any message.
Blank == /\ entries = {} /\ ~loaded
         /\ \A ch \in Channels : hist[ch] = << >>
         /\ \A q \in Range(toServer) : q.kind # "history"
         /\ \A r \in Range(toClient) : r.kind # "history"
         /\ \A e \in Range(events) : e.kind \notin {"history", "text"}

\* Only Control's call for the same signal comes before the cacher's.
AcceptedInFront == \A i \in 1..Len(events) : AcceptedCall(events[i]) =>
    i = 1 \/ (i = 2 /\ events[1].to = "control" /\ events[1].kind \in Accepted)

AcceptedLeads == \A i \in 2..Len(toClient) : toClient[i].kind \notin Accepted

Start == /\ AcceptedInFront /\ AcceptedLeads
         /\ phase = "offline" => toClient = << >> /\ toServer = << >> /\ events = << >>
         /\ AcceptedComing => events = << >>
         /\ Starting => Blank

LEMMA ResponseFollows ==
  ASSUME TypeOK, AcceptedLeads, NEW r, r.kind \notin Accepted,
         toClient' = Append(toClient, r)
  PROVE  /\ AcceptedLeads' /\ (AcceptedComing' => AcceptedComing)
         /\ Range(toClient') = Range(toClient) \cup {r}
<1>1. toClient \in Seq(Responses)
  BY DEF TypeOK
<1>2. /\ Len(toClient) \in Nat /\ Len(toClient') = Len(toClient) + 1
      /\ \A i \in 1..Len(toClient) + 1 :
            toClient'[i] = IF i <= Len(toClient) THEN toClient[i] ELSE r
      /\ toClient' \in Seq(Responses \cup {r})
  BY <1>1, AppendIs
<1>3. AcceptedLeads'
  <2> SUFFICES ASSUME NEW i \in 2..Len(toClient') PROVE toClient'[i].kind \notin Accepted
    BY DEF AcceptedLeads
  <2>1. i \in 1..Len(toClient) + 1 /\ (i <= Len(toClient) => i \in 2..Len(toClient))
    BY <1>2
  <2>2. toClient'[i] = IF i <= Len(toClient) THEN toClient[i] ELSE r
    BY <1>2, <2>1
  <2> QED
    BY <2>1, <2>2 DEF AcceptedLeads
<1>4. ASSUME AcceptedComing' PROVE AcceptedComing
  <2>1. toClient # << >> => Head(toClient') = Head(toClient)
    BY <1>1, HeadStays
  <2>2. toClient = << >> => Head(toClient') = r
    <3> SUFFICES ASSUME toClient = << >> PROVE Head(Append(<< >>, r)) = r
      OBVIOUS
    <3> QED
      OBVIOUS
  <2> QED
    BY <1>4, <2>1, <2>2 DEF AcceptedComing
<1> QED
  BY <1>1, <1>3, <1>4, RangeAppend

LEMMA ResponseRead ==
  ASSUME TypeOK, AcceptedLeads, toClient # << >>, toClient' = Tail(toClient)
  PROVE  /\ AcceptedLeads' /\ ~AcceptedComing'
         /\ Range(toClient') \subseteq Range(toClient)
         /\ Head(toClient) \in Range(toClient)
<1>1. toClient \in Seq(Responses)
  BY DEF TypeOK
<1>2. /\ Len(toClient) \in Nat \ {0} /\ Len(toClient') = Len(toClient) - 1
      /\ \A i \in 1..Len(toClient) - 1 : toClient'[i] = toClient[i + 1]
      /\ toClient' \in Seq(Responses)
  BY <1>1, TailAt
<1>3. \A i \in 1..Len(toClient') : toClient'[i].kind \notin Accepted
  <2> SUFFICES ASSUME NEW i \in 1..Len(toClient') PROVE toClient'[i].kind \notin Accepted
    OBVIOUS
  <2>1. i + 1 \in 2..Len(toClient) /\ toClient'[i] = toClient[i + 1]
    BY <1>2
  <2> QED
    BY <2>1 DEF AcceptedLeads
<1>4. AcceptedLeads'
  BY <1>3 DEF AcceptedLeads
<1>5. ~AcceptedComing'
  <2>1. toClient' # << >> => Head(toClient') = toClient'[1] /\ Len(toClient') \in Nat \ {0}
    BY <1>2, TailAt
  <2> QED
    BY <1>3, <2>1, 1 \in Nat DEF AcceptedComing
<1> QED
  BY <1>1, <1>4, <1>5, RangeTail

LEMMA SignalFollows ==
  ASSUME TypeOK, AcceptedInFront, NEW kind, kind \notin Accepted, NEW chs, NEW msgs,
         Emit(kind, chs, msgs)
  PROVE  AcceptedInFront' /\ (Awaited' => Awaited)
<1>1. /\ Len(events) \in Nat /\ Len(events') = Len(events) + 2
      /\ \A i \in 1..Len(events) : events'[i] = events[i]
      /\ events'[Len(events) + 1] = Delivery("control", kind, chs, msgs)
      /\ events'[Len(events) + 2] = Delivery("cacher", kind, chs, msgs)
  BY EmitIs
<1>2. ASSUME NEW i \in 1..Len(events'), AcceptedCall(events'[i])
      PROVE  i \in 1..Len(events) /\ AcceptedCall(events[i])
  <2>1. CASE i \in 1..Len(events)
    BY <1>1, <1>2, <2>1
  <2>2. CASE i = Len(events) + 1 \/ i = Len(events) + 2
    <3>1. events'[i].kind = kind
      BY <1>1, <2>2 DEF Delivery
    <3> QED
      BY <1>2, <3>1 DEF AcceptedCall
  <2> QED
    BY <1>1, <2>1, <2>2
<1>3. AcceptedInFront'
  <2> SUFFICES ASSUME NEW i \in 1..Len(events'), AcceptedCall(events'[i])
               PROVE  \/ i = 1
                      \/ i = 2 /\ events'[1].to = "control" /\ events'[1].kind \in Accepted
    BY DEF AcceptedInFront
  <2>1. i \in 1..Len(events) /\ AcceptedCall(events[i])
    BY <1>2
  <2>2. i = 1 \/ (i = 2 /\ events[1].to = "control" /\ events[1].kind \in Accepted)
    BY <2>1 DEF AcceptedInFront
  <2>3. events'[1] = events[1]
    BY <1>1, <2>1
  <2> QED
    BY <2>2, <2>3
<1>4. Awaited' => Awaited
  BY <1>2 DEF Awaited
<1> QED
  BY <1>3, <1>4

LEMMA CallRuns ==
  ASSUME TypeOK, AcceptedInFront, events # << >>, events' = Tail(events)
  PROVE  /\ AcceptedInFront'
         /\ Awaited => Head(events).kind \in Accepted
         /\ Awaited' => /\ Awaited
                        /\ Head(events).to = "control" /\ Head(events).kind \in Accepted
         /\ Range(events') \subseteq Range(events)
         /\ Head(events) \in Range(events)
<1>1. events \in Seq(Events)
  BY DEF TypeOK
<1>2. /\ Len(events) \in Nat \ {0} /\ Len(events') = Len(events) - 1 /\ Head(events) = events[1]
      /\ \A i \in 1..Len(events) - 1 : events'[i] = events[i + 1]
  BY <1>1, TailAt
<1>3. ASSUME NEW i \in 1..Len(events'), AcceptedCall(events'[i])
      PROVE  /\ i = 1 /\ Awaited
             /\ Head(events).to = "control" /\ Head(events).kind \in Accepted
  <2>1. i + 1 \in 1..Len(events) /\ i + 1 # 1 /\ events'[i] = events[i + 1]
    BY <1>2
  <2>2. AcceptedCall(events[i + 1])
    BY <1>3, <2>1
  <2>3. i + 1 = 2 /\ events[1].to = "control" /\ events[1].kind \in Accepted
    BY <2>1, <2>2 DEF AcceptedInFront
  <2> QED
    BY <1>2, <2>1, <2>2, <2>3 DEF Awaited
<1>4. AcceptedInFront'
  BY <1>3 DEF AcceptedInFront
<1>5. Awaited => Head(events).kind \in Accepted
  BY <1>2 DEF Awaited, AcceptedInFront, AcceptedCall
<1>6. Awaited' => Awaited /\ Head(events).to = "control" /\ Head(events).kind \in Accepted
  BY <1>3 DEF Awaited
<1> QED
  BY <1>1, <1>4, <1>5, <1>6, RangeTail

LEMMA ServerStart ==
  ASSUME TypeOK, Start, ServerStep
  PROVE  Start'
<1>1. /\ toServer # << >> /\ toServer' = Tail(toServer)
      /\ UNCHANGED <<phase, events, entries, hist, loaded>>
  BY DEF ServerStep, ServeChannels, ServeHistory, ServeJoin, DropUnidentified, Serves, client
<1>2. toServer \in Seq(Requests) /\ phase # "offline"
  BY <1>1 DEF TypeOK, Start
<1>3. Range(toServer') \subseteq Range(toServer) /\ Head(toServer) \in Range(toServer)
  BY <1>1, <1>2, RangeTail
<1>4. \/ UNCHANGED toClient
      \/ \E r : /\ toClient' = Append(toClient, r) /\ r.kind \notin Accepted
                /\ r.kind = "history" => Head(toServer).kind = "history"
  <2>1. CASE ServeChannels
    <3>1. PICK chs : toClient' = Append(toClient, Response("channels", chs, << >>))
      BY <2>1 DEF ServeChannels, Answer
    <3> QED
      BY <3>1 DEF Response, Accepted
  <2>2. CASE ServeHistory
    <3>1. PICK msgs : toClient' = Append(toClient, Response("history", <<Head(toServer).ch>>, msgs))
      BY <2>2 DEF ServeHistory, Answer
    <3>2. Head(toServer).kind = "history"
      BY <2>2 DEF ServeHistory, Serves
    <3> QED
      BY <3>1, <3>2 DEF Response, Accepted
  <2>3. CASE ServeJoin
    BY <2>3 DEF ServeJoin, Answer, Response, Accepted
  <2>4. CASE DropUnidentified
    BY <2>4 DEF DropUnidentified
  <2> QED
    BY <2>1, <2>2, <2>3, <2>4 DEF ServerStep
<1>5. /\ AcceptedLeads' /\ (AcceptedComing' => AcceptedComing)
      /\ (\A r \in Range(toClient') : r.kind = "history" =>
             r \in Range(toClient) \/ Head(toServer).kind = "history")
  <2>1. CASE UNCHANGED toClient
    BY <2>1 DEF Start, AcceptedLeads, AcceptedComing
  <2>2. CASE ~UNCHANGED toClient
    <3>1. PICK r : /\ toClient' = Append(toClient, r) /\ r.kind \notin Accepted
                   /\ r.kind = "history" => Head(toServer).kind = "history"
      BY <1>4, <2>2
    <3>2. /\ AcceptedLeads' /\ (AcceptedComing' => AcceptedComing)
          /\ Range(toClient') = Range(toClient) \cup {r}
      BY <3>1, ResponseFollows DEF Start
    <3> QED
      BY <3>1, <3>2
  <2> QED
    BY <2>1, <2>2
<1>6. AcceptedInFront' /\ (Awaited' => Awaited)
  BY <1>1 DEF Start, AcceptedInFront, Awaited
<1>7. Starting' => Blank'
  <2> SUFFICES ASSUME Starting' PROVE Blank'
    OBVIOUS
  <2>1. Starting /\ Blank
    BY <1>1, <1>5, <1>6 DEF Starting, Start
  <2>2. Head(toServer).kind # "history"
    BY <1>3, <2>1 DEF Blank
  <2> QED
    BY <1>1, <1>3, <1>5, <2>1, <2>2 DEF Blank
<1> QED
  BY <1>1, <1>2, <1>5, <1>6, <1>7 DEF Start

LEMMA IoStart ==
  ASSUME TypeOK, Start, IoStep
  PROVE  Start'
<1>1. UNCHANGED <<phase, toServer, loaded>>
  BY DEF IoStep, ReadAccepted, SetLoginId, ReadChannels, ReadHistory, ReadEcho, ReadJoined, link,
         client
<1>2. CASE SetLoginId
  <2>1. UNCHANGED <<phase, toServer, toClient, events, entries, hist, loaded>>
    BY <1>2 DEF SetLoginId, link
  <2> QED
    BY <2>1 DEF Start, AcceptedInFront, AcceptedLeads, AcceptedComing, Starting, Awaited, Blank
<1>3. CASE ~SetLoginId
  <2>1. toClient # << >> /\ toClient' = Tail(toClient)
    BY <1>3 DEF IoStep, ReadAccepted, ReadChannels, ReadHistory, ReadEcho, ReadJoined, Reads
  <2>2. /\ AcceptedLeads' /\ ~AcceptedComing'
        /\ Range(toClient') \subseteq Range(toClient)
        /\ Head(toClient) \in Range(toClient)
    BY <2>1, ResponseRead DEF Start
  <2>3. phase # "offline"
    BY <2>1 DEF Start
  <2>4. CASE ReadAccepted
    <3>1. PICK kind \in Accepted : Head(toClient).kind = kind /\ Emit(kind, << >>, << >>)
      BY <2>4 DEF ReadAccepted, Reads, Accepted
    <3>2. UNCHANGED <<entries, hist>>
      BY <2>4 DEF ReadAccepted
    <3>3. AcceptedComing
      BY <2>1, <3>1 DEF AcceptedComing
    <3>4. events = << >> /\ Blank
      BY <3>3 DEF Start, Starting
    <3>5. /\ Len(events') = 2 /\ events'[1] = Delivery("control", kind, << >>, << >>)
          /\ events'[2] = Delivery("cacher", kind, << >>, << >>)
      <4>1. Len(events) = 0
        BY <3>4
      <4>2. /\ Len(events') = Len(events) + 2
            /\ events'[Len(events) + 1] = Delivery("control", kind, << >>, << >>)
            /\ events'[Len(events) + 2] = Delivery("cacher", kind, << >>, << >>)
        BY <3>1, EmitIs
      <4> QED
        BY <4>1, <4>2
    <3>6. AcceptedInFront'
      <4>1. events'[1].to = "control" /\ events'[1].kind \in Accepted
        BY <3>5 DEF Delivery
      <4> QED
        BY <3>5, <4>1 DEF AcceptedInFront
    <3>7. Range(events') = Range(events) \cup {Delivery("control", kind, << >>, << >>),
                                               Delivery("cacher", kind, << >>, << >>)}
      BY <3>1, EmitRange
    <3>8. \A e \in Range(events') : e.kind \notin {"history", "text"}
      BY <3>4, <3>7 DEF Blank, Delivery, Accepted
    <3>9. Blank'
      BY <1>1, <2>2, <3>2, <3>4, <3>8 DEF Blank
    <3> QED
      BY <1>1, <2>2, <2>3, <3>6, <3>9 DEF Start
  <2>5. CASE ~ReadAccepted
    <3>1. \/ UNCHANGED events
          \/ \E kind, chs, msgs :
                kind \in {"channels", "history", "text", "joined"} /\ Emit(kind, chs, msgs)
      <4>1. ReadChannels => Emit("channels", Head(toClient).chs, << >>)
        BY DEF ReadChannels
      <4>2. ReadJoined => Emit("joined", Head(toClient).chs, << >>)
        BY DEF ReadJoined
      <4>3. ReadHistory => Emit("history", <<Head(toClient).chs[1]>>, Head(toClient).msgs)
        BY DEF ReadHistory
      <4>4. ReadEcho => \/ UNCHANGED events
                        \/ Emit("text", <<Head(toClient).chs[1]>>, Head(toClient).msgs)
        BY DEF ReadEcho
      <4>5. ReadChannels \/ ReadJoined \/ ReadHistory \/ ReadEcho
        BY <1>3, <2>5 DEF IoStep
      <4> QED
        BY <4>1, <4>2, <4>3, <4>4, <4>5
    <3>2. AcceptedInFront' /\ (Awaited' => Awaited)
      <4>1. CASE UNCHANGED events
        BY <4>1 DEF Start, AcceptedInFront, Awaited
      <4>2. CASE ~UNCHANGED events
        <5>1. PICK kind, chs, msgs :
                 kind \in {"channels", "history", "text", "joined"} /\ Emit(kind, chs, msgs)
          BY <3>1, <4>2
        <5>2. kind \notin Accepted
          BY <5>1 DEF Accepted
        <5> QED
          BY <5>1, <5>2, SignalFollows DEF Start
      <4> QED
        BY <4>1, <4>2
    <3>3. Starting' => Blank'
      <4> SUFFICES ASSUME Starting' PROVE Blank'
        OBVIOUS
      <4>1. Starting /\ Blank
        BY <1>1, <2>2, <2>3, <3>2 DEF Starting, Start
      <4>2. ~ReadHistory
        BY <2>2, <4>1 DEF ReadHistory, Reads, Blank
      <4>3. UNCHANGED <<entries, hist>>
        BY <1>3, <2>5, <4>1, <4>2 DEF IoStep, ReadChannels, ReadEcho, ReadJoined, client, Blank
      <4>4. \/ UNCHANGED events
            \/ \E kind, chs, msgs : kind \in {"channels", "joined"} /\ Emit(kind, chs, msgs)
        BY <1>3, <2>5, <4>1, <4>2 DEF IoStep, ReadChannels, ReadEcho, ReadJoined, Blank
      <4>5. \A e \in Range(events') : e.kind \notin {"history", "text"}
        <5>1. CASE UNCHANGED events
          BY <4>1, <5>1 DEF Blank
        <5>2. CASE ~UNCHANGED events
          <6>1. PICK kind, chs, msgs : kind \in {"channels", "joined"} /\ Emit(kind, chs, msgs)
            BY <4>4, <5>2
          <6>2. Range(events') = Range(events) \cup {Delivery("control", kind, chs, msgs),
                                                     Delivery("cacher", kind, chs, msgs)}
            BY <6>1, EmitRange
          <6> QED
            BY <4>1, <6>1, <6>2 DEF Blank, Delivery
        <5> QED
          BY <5>1, <5>2
      <4> QED
        BY <1>1, <2>2, <4>1, <4>3, <4>5 DEF Blank
    <3> QED
      BY <1>1, <2>2, <2>3, <3>2, <3>3 DEF Start
  <2> QED
    BY <2>4, <2>5
<1> QED
  BY <1>2, <1>3

LEMMA GuiStart ==
  ASSUME TypeOK, Start, GuiStep
  PROVE  Start'
<1>1. events # << >> /\ events' = Tail(events) /\ UNCHANGED <<phase, toClient>>
  BY DEF GuiStep, ChangeWindow, OnAuthorized, OnRegistered, AddChannels, OnChannelsReceived,
         OnJoined, UpdateWidget, SaveMessages, Slot, link, client
<1>2. /\ AcceptedInFront'
      /\ Awaited' => /\ Awaited
                     /\ Head(events).to = "control" /\ Head(events).kind \in Accepted
      /\ Range(events') \subseteq Range(events)
  BY <1>1, CallRuns DEF Start
<1>3. phase # "offline" /\ ~AcceptedComing
  BY <1>1 DEF Start
<1>4. AcceptedLeads' /\ ~AcceptedComing'
  BY <1>1, <1>3 DEF Start, AcceptedLeads, AcceptedComing
<1>5. Starting' => Blank'
  <2> SUFFICES ASSUME Starting' PROVE Blank'
    OBVIOUS
  <2>1. Awaited /\ Head(events).to = "control" /\ Head(events).kind \in Accepted
    BY <1>1, <1>2, <1>3, <1>4 DEF Starting
  <2>2. ChangeWindow
    BY <2>1 DEF GuiStep, OnAuthorized, OnRegistered, AddChannels, OnChannelsReceived, OnJoined,
                UpdateWidget, SaveMessages, Slot, Accepted
  <2>3. UNCHANGED <<entries, hist, loaded, toServer>>
    BY <2>2 DEF ChangeWindow, link, client
  <2>4. Blank
    BY <2>1 DEF Starting, Start
  <2> QED
    BY <1>1, <1>2, <2>3, <2>4 DEF Blank
<1> QED
  BY <1>1, <1>2, <1>3, <1>4, <1>5 DEF Start

LEMMA RestStart ==
  ASSUME TypeOK, Start, UserStep \/ Cut \/ Crash
  PROVE  Start'
<1>1. CASE \E ch \in Channels : Post(ch)
  <2>1. PICK ch \in Channels : Post(ch)
    BY <1>1
  <2>2. UNCHANGED <<phase, toServer, events, entries, hist, loaded>>
    BY <2>1 DEF Post, client
  <2>3. /\ AcceptedLeads' /\ (AcceptedComing' => AcceptedComing)
        /\ \A r \in Range(toClient') : r.kind = "history" => r \in Range(toClient)
        /\ phase = "offline" => UNCHANGED toClient
    <3>1. CASE UNCHANGED toClient
      BY <3>1 DEF Start, AcceptedLeads, AcceptedComing
    <3>2. CASE ~UNCHANGED toClient
      <4> DEFINE r == Response("echo", <<ch>>, <<Len(posted) + 1>>)
      <4>1. toClient' = Append(toClient, r) /\ phase = "online"
        BY <2>1, <3>2 DEF Post
      <4>2. r.kind = "echo" /\ r.kind \notin Accepted
        BY DEF Response, Accepted
      <4> HIDE DEF r
      <4>3. /\ AcceptedLeads' /\ (AcceptedComing' => AcceptedComing)
            /\ Range(toClient') = Range(toClient) \cup {r}
        BY <4>1, <4>2, ResponseFollows DEF Start
      <4> QED
        BY <4>1, <4>2, <4>3
    <3> QED
      BY <3>1, <3>2
  <2>4. AcceptedInFront' /\ (Awaited' => Awaited)
    BY <2>2 DEF Start, AcceptedInFront, Awaited
  <2>5. Starting' => Blank'
    <3> SUFFICES ASSUME Starting' PROVE Blank'
      OBVIOUS
    <3>1. Blank
      BY <2>2, <2>3, <2>4 DEF Starting, Start
    <3> QED
      BY <2>2, <2>3, <3>1 DEF Blank
  <2>6. phase' = "offline" => toClient' = << >> /\ toServer' = << >> /\ events' = << >>
    BY <2>2, <2>3 DEF Start
  <2> QED
    BY <2>2, <2>3, <2>4, <2>5, <2>6 DEF Start
<1>2. CASE \E ch \in Channels : UserJoins(ch)
  <2>1. PICK ch \in Channels : UserJoins(ch)
    BY <1>2
  <2>2. /\ UNCHANGED <<phase, toClient, events, entries, hist, loaded>>
        /\ Send(<<Request("join", ch, NoTime)>>)
    BY <2>1 DEF UserJoins, JoinRequest, client
  <2>3. \A q \in Range(toServer') : q.kind = "history" => q \in Range(toServer)
    <3> DEFINE q == Request("join", ch, NoTime)
    <3>1. q.kind = "join" /\ q \in Requests
      <4>1. idKnown \in BOOLEAN /\ NoTime \in Nat
        BY DEF TypeOK, NoTime
      <4> QED
        BY <4>1, RequestType DEF Request
    <3>2. toServer' = toServer \/ toServer' = toServer \o <<q>>
      BY <2>2 DEF Send
    <3> HIDE DEF q
    <3>3. toServer \in Seq(Requests) /\ <<q>> \in Seq(Requests)
      BY <3>1, OneIsSeq DEF TypeOK
    <3>4. Range(toServer \o <<q>>) = Range(toServer) \cup {q}
      <4>1. Range(toServer \o <<q>>) = Range(toServer) \cup Range(<<q>>)
        BY <3>3, RangeConcat, ZenonT(30)
      <4> QED
        BY <4>1, RangeOne
    <3> QED
      BY <3>1, <3>2, <3>4
  <2>4. phase = "offline" => UNCHANGED toServer
    BY <2>2 DEF Send
  <2>5. /\ AcceptedInFront' /\ (Awaited' => Awaited)
        /\ AcceptedLeads' /\ (AcceptedComing' => AcceptedComing)
    BY <2>2 DEF Start, AcceptedInFront, Awaited, AcceptedLeads, AcceptedComing
  <2>6. Starting' => Blank'
    <3> SUFFICES ASSUME Starting' PROVE Blank'
      OBVIOUS
    <3>1. Blank
      BY <2>2, <2>5 DEF Starting, Start
    <3> QED
      BY <2>2, <2>3, <3>1 DEF Blank
  <2> QED
    BY <2>2, <2>4, <2>5, <2>6 DEF Start
<1>3. CASE Login \/ Register
  <2>1. PICK kind \in Accepted : Connect(kind)
    BY <1>3 DEF Login, Register, Accepted
  <2>2. /\ UNCHANGED <<toServer, events, entries, hist, loaded>>
        /\ phase = "offline" /\ phase' = "online"
    BY <2>1 DEF Connect, client
  <2>3. events = << >> /\ Blank
    BY <2>2 DEF Start, Starting
  <2>4. PICK r : toClient' = <<r>> /\ r.kind = kind
    BY <2>1 DEF Connect, Response
  <2>5. AcceptedLeads' /\ Range(toClient') = {r}
    <3>1. Len(<<r>>) = 1
      OBVIOUS
    <3> QED
      BY <2>4, <3>1, RangeOne DEF AcceptedLeads
  <2>6. Blank' /\ AcceptedInFront'
    <3>1. r.kind # "history"
      BY <2>4 DEF Accepted
    <3>2. Len(events') = 0
      BY <2>2, <2>3
    <3> QED
      BY <2>2, <2>3, <2>5, <3>1, <3>2 DEF Blank, AcceptedInFront
  <2> QED
    BY <2>2, <2>3, <2>5, <2>6 DEF Start
<1>4. CASE Cut
  <2>1. /\ UNCHANGED <<events, entries, hist, loaded>>
        /\ phase = "online" /\ phase' = "cut" /\ toServer' = << >>
    BY <1>4 DEF Cut, client
  <2>2. PICK n \in 0..Len(toClient) : toClient' = SubSeq(toClient, 1, n)
    BY <1>4 DEF Cut
  <2>3. toClient \in Seq(Responses)
    BY DEF TypeOK
  <2>4. /\ Len(toClient') = n /\ toClient' \in Seq(Responses)
        /\ \A i \in 1..n : i \in 1..Len(toClient) /\ toClient'[i] = toClient[i]
        /\ Range(toClient') \subseteq Range(toClient)
    BY <2>2, <2>3, PrefixIs, RangePrefix
  <2>5. AcceptedLeads'
    <3> SUFFICES ASSUME NEW i \in 2..n PROVE toClient'[i].kind \notin Accepted
      BY <2>4 DEF AcceptedLeads
    <3>1. i \in 1..n /\ Len(toClient) \in Nat
      BY <2>3, LenProperties
    <3>2. i \in 2..Len(toClient) /\ toClient'[i] = toClient[i]
      BY <2>4, <3>1
    <3> QED
      BY <3>2 DEF Start, AcceptedLeads
  <2>6. AcceptedComing' => AcceptedComing
    <3> SUFFICES ASSUME AcceptedComing' PROVE AcceptedComing
      OBVIOUS
    <3>1. toClient' # << >> /\ Head(toClient') = toClient'[1] /\ Len(toClient') \in Nat \ {0}
      BY <2>4, TailAt DEF AcceptedComing
    <3>2. toClient'[1] = toClient[1] /\ 1 \in 1..Len(toClient)
      BY <2>4, <3>1, 1 \in 1..n
    <3>3. toClient # << >>
      BY <3>2
    <3>4. Head(toClient) = toClient[1]
      BY <2>3, <3>3, TailAt
    <3> QED
      BY <3>1, <3>2, <3>3, <3>4 DEF AcceptedComing
  <2>7. AcceptedInFront' /\ (Awaited' => Awaited)
    BY <2>1 DEF Start, AcceptedInFront, Awaited
  <2>8. Starting' => Blank'
    <3> SUFFICES ASSUME Starting' PROVE Blank'
      OBVIOUS
    <3>1. Blank
      BY <2>1, <2>6, <2>7 DEF Starting, Start
    <3> QED
      BY <2>1, <2>4, <3>1, RangeOne DEF Blank
  <2> QED
    BY <2>1, <2>5, <2>6, <2>7, <2>8 DEF Start
<1>5. CASE Crash
  <2>1. /\ toServer' = << >> /\ toClient' = << >> /\ events' = << >>
        /\ entries' = {} /\ hist' = [ch \in Channels |-> << >>] /\ loaded' = FALSE
    BY <1>5 DEF Crash, Forgotten
  <2>2. Blank'
    BY <2>1, RangeOne DEF Blank
  <2>3. Len(events') = 0 /\ Len(toClient') = 0
    BY <2>1
  <2> QED
    BY <2>1, <2>2, <2>3 DEF Start, AcceptedInFront, AcceptedLeads
<1> QED
  BY <1>1, <1>2, <1>3, <1>4, <1>5 DEF UserStep

LEMMA InitStart == Init => Start
<1> SUFFICES ASSUME Init PROVE Start
  OBVIOUS
<1>1. /\ toServer = << >> /\ toClient = << >> /\ events = << >>
      /\ entries = {} /\ hist = [ch \in Channels |-> << >>] /\ loaded = FALSE
  BY DEF Init
<1>2. Blank
  BY <1>1, RangeOne DEF Blank
<1>3. Len(events) = 0 /\ Len(toClient) = 0
  BY <1>1
<1> QED
  BY <1>1, <1>2, <1>3 DEF Start, AcceptedInFront, AcceptedLeads

LEMMA StepStart ==
  ASSUME TypeOK, Start, [Next]_vars
  PROVE  Start'
<1>1. CASE Next
  BY <1>1, ServerStart, IoStart, GuiStart, RestStart DEF Next
<1>2. CASE UNCHANGED vars
  <2>1. UNCHANGED <<phase, toServer, toClient, events, entries, hist, loaded>>
    BY <1>2 DEF vars, link, client
  <2> QED
    BY <2>1 DEF Start, AcceptedInFront, AcceptedLeads, AcceptedComing, Starting, Awaited, Blank
<1> QED
  BY <1>1, <1>2

-----------------------------------------------------------------------------
(* The mirror                                                              *)

\* The memory of a channel is saved and then what is to be saved; the cache is
\* older and then the rows of saved.
MirroredBy(ch, saved, older, rows) ==
    /\ saved \in Seq(Nat) /\ older \in Seq(Nat) /\ rows \in Seq(Nat)
    /\ hist[ch] = saved \o Unsaved(ch)
    /\ rows \in Inserted(saved)
    /\ cache[ch] = older \o rows
    /\ loaded => older = << >>

Mirrored == \A ch \in Channels : \E saved, older, rows : MirroredBy(ch, saved, older, rows)

\* Every row could be inserted.
RowsInserted == \A ch \in Channels : \A m \in Range(cache[ch]) : Insertable(m)

Mirror == Mirrored /\ RowsInserted

LEMMA MessagesAreNumbers ==
  ASSUME TypeOK
  PROVE  /\ \A s \in Seq(Messages) : s \in Seq(Nat)
         /\ \A ch \in Channels : hist[ch] \in Seq(Nat) /\ cache[ch] \in Seq(Nat)
         /\ events \in Seq(Calls)
         /\ \A ch : Unsaved(ch) \in Seq(Nat)
<1>1. Messages \subseteq Nat
  BY LenProperties DEF TypeOK, Messages
<1>2. \A s \in Seq(Messages) : s \in Seq(Nat)
  BY <1>1, SeqMonotonic
<1>3. events \in Seq(Calls)
  BY EventsAreCalls, SeqMonotonic DEF TypeOK
<1>4. \A ch : Unsaved(ch) \in Seq(Nat)
  <2>1. \A ch : Due(events, ch) \in Seq(Nat)
    BY <1>3, DueType
  <2> QED
    BY <2>1 DEF Due, Unsaved
<1> QED
  BY <1>2, <1>3, <1>4 DEF TypeOK

LEMMA SameInserted ==
  ASSUME UNCHANGED posted, NEW s
  PROVE  Inserted(s)' = Inserted(s)
  BY DEF Inserted, Insertable

LEMMA NothingInserted ==
  ASSUME UNCHANGED posted
  PROVE  << >> \in Inserted(<< >>)'
<1>1. << >> \in Seq(Nat) /\ \A i \in 1..Len(<< >>) : Insertable(<< >>[i])
  OBVIOUS
<1>2. << >> \in Inserted(<< >>)
  BY <1>1, InsertedAll
<1> QED
  BY <1>2, SameInserted

LEMMA SameMirror ==
  ASSUME Mirror, UNCHANGED <<posted, hist, events, cache, loaded>>
  PROVE  Mirror'
<1>1. Mirrored'
  <2> SUFFICES ASSUME NEW ch \in Channels
               PROVE  \E saved, older, rows : MirroredBy(ch, saved, older, rows)'
    BY DEF Mirrored
  <2>1. PICK saved, older, rows : MirroredBy(ch, saved, older, rows)
    BY DEF Mirror, Mirrored
  <2>2. MirroredBy(ch, saved, older, rows)'
    BY <2>1, SameInserted DEF MirroredBy, Unsaved
  <2> QED
    BY <2>2
<1>2. RowsInserted'
  BY DEF Mirror, RowsInserted, Insertable
<1> QED
  BY <1>1, <1>2 DEF Mirror

\* A signal queues its messages behind what the cacher has to save.
LEMMA EmitDue ==
  ASSUME TypeOK, NEW ch, NEW kind, NEW chs, NEW msgs, Emit(kind, chs, msgs),
         Delivery("control", kind, chs, msgs) \in Events,
         Delivery("cacher", kind, chs, msgs) \in Events
  PROVE  Unsaved(ch)' = Unsaved(ch) \o
            (IF kind \in {"history", "text"} /\ chs = <<ch>> THEN msgs ELSE << >>)
<1> DEFINE d1 == Delivery("control", kind, chs, msgs)
           d2 == Delivery("cacher", kind, chs, msgs)
           half == Append(events, d1)
<1>1. d1 \in Calls /\ d2 \in Calls /\ events \in Seq(Calls)
  BY EventsAreCalls, MessagesAreNumbers
<1>2. SavedBy(d1, ch) = << >>
  BY DEF SavedBy, Delivery
<1>3. SavedBy(d2, ch) = IF kind \in {"history", "text"} /\ chs = <<ch>> THEN msgs ELSE << >>
  BY DEF SavedBy, Delivery
<1>4. events' = Append(half, d2)
  BY DEF Emit
<1> HIDE DEF d1, d2
<1>5. Due(half, ch) = Due(events, ch) \o SavedBy(d1, ch) /\ half \in Seq(Calls)
  <2>1. Due(Append(events, d1), ch) = Due(events, ch) \o SavedBy(d1, ch)
    BY <1>1, DueQueued
  <2>2. Append(events, d1) \in Seq(Calls)
    BY <1>1, AppendAt
  <2> QED
    BY <2>1, <2>2
<1> HIDE DEF half
<1>6. Due(Append(half, d2), ch) = Due(half, ch) \o SavedBy(d2, ch)
  BY <1>1, <1>5, DueQueued
<1>7. Due(events, ch) \o << >> = Due(events, ch)
  <2>1. Due(events, ch) \in Seq(Nat)
    BY <1>1, DueType
  <2> QED
    BY <2>1, ConcatEmptySeq
<1>8. Due(events', ch) = Due(events, ch) \o SavedBy(d2, ch)
  BY <1>2, <1>4, <1>5, <1>6, <1>7
<1> QED
  BY <1>3, <1>8 DEF Due, Unsaved

\* The call that runs has the messages that are saved next.
LEMMA RunDue ==
  ASSUME TypeOK, NEW ch, events # << >>, events' = Tail(events)
  PROVE  Unsaved(ch) = SavedBy(Head(events), ch) \o Unsaved(ch)'
<1>1. Due(events, ch) = SavedBy(Head(events), ch) \o Due(Tail(events), ch)
  BY MessagesAreNumbers, DueRun
<1> QED
  BY <1>1 DEF Due, Unsaved

LEMMA QuietMirror ==
  ASSUME TypeOK, Mirror, UNCHANGED <<posted, hist, cache, loaded>>,
         \A ch \in Channels : Unsaved(ch)' = Unsaved(ch)
  PROVE  Mirror'
<1>1. Mirrored'
  <2> SUFFICES ASSUME NEW ch \in Channels
               PROVE  \E saved, older, rows : MirroredBy(ch, saved, older, rows)'
    BY DEF Mirrored
  <2>1. PICK saved, older, rows : MirroredBy(ch, saved, older, rows)
    BY DEF Mirror, Mirrored
  <2>2. MirroredBy(ch, saved, older, rows)'
    BY <2>1, SameInserted DEF MirroredBy
  <2> QED
    BY <2>2
<1>2. RowsInserted'
  BY DEF Mirror, RowsInserted, Insertable
<1> QED
  BY <1>1, <1>2 DEF Mirror

LEMMA ServerMirror ==
  ASSUME TypeOK, Mirror, ServerStep
  PROVE  Mirror'
<1>1. UNCHANGED <<posted, hist, events, cache, loaded>>
  BY DEF ServerStep, ServeChannels, ServeHistory, ServeJoin, DropUnidentified, server, client
<1> QED
  BY <1>1, SameMirror

\* Messages that come to the memory of a channel are also queued to be saved.
LEMMA ReceivedMirror ==
  ASSUME TypeOK, Mirror, UNCHANGED <<posted, cache, loaded>>,
         NEW c \in Channels, NEW msgs \in Seq(Messages),
         NEW kind \in {"history", "text"}, Emit(kind, <<c>>, msgs),
         hist' = [hist EXCEPT ![c] = hist[c] \o msgs]
  PROVE  Mirror'
<1>1. <<c>> \in One(Channels)
  BY DEF One
<1>2. /\ Delivery("control", kind, <<c>>, msgs) \in Events
      /\ Delivery("cacher", kind, <<c>>, msgs) \in Events
  BY <1>1, DeliveryType, EmptySeq
<1>3. Mirrored'
  <2> SUFFICES ASSUME NEW ch \in Channels
               PROVE  \E saved, older, rows : MirroredBy(ch, saved, older, rows)'
    BY DEF Mirrored
  <2>1. PICK saved, older, rows : MirroredBy(ch, saved, older, rows)
    BY DEF Mirror, Mirrored
  <2>2. Unsaved(ch)' = Unsaved(ch) \o (IF kind \in {"history", "text"} /\ <<c>> = <<ch>>
                                       THEN msgs ELSE << >>)
    BY <1>2, EmitDue
  <2>3. PICK due : due = Unsaved(ch)
    OBVIOUS
  <2>4. due \in Seq(Nat) /\ msgs \in Seq(Nat) /\ saved \in Seq(Nat)
    BY <2>1, <2>3, MessagesAreNumbers DEF MirroredBy
  <2>5. CASE ch = c
    <3>1. Unsaved(ch)' = due \o msgs
      BY <2>2, <2>3, <2>5
    <3>2. hist'[ch] = hist[ch] \o msgs
      BY <2>5 DEF TypeOK
    <3>3. (saved \o due) \o msgs = saved \o (due \o msgs)
      BY <2>4, ConcatAssociative
    <3>4. hist[ch] = saved \o due
      BY <2>1, <2>3 DEF MirroredBy
    <3>5. hist'[ch] = saved \o Unsaved(ch)'
      BY <3>1, <3>2, <3>3, <3>4
    <3>6. MirroredBy(ch, saved, older, rows)'
      BY <2>1, <3>5, SameInserted DEF MirroredBy
    <3> QED
      BY <3>6
  <2>6. CASE ch # c
    <3>1. <<c>> # <<ch>>
      <4>1. <<c>>[1] = c /\ <<ch>>[1] = ch
        OBVIOUS
      <4> QED
        BY <2>6, <4>1
    <3>2. due \o << >> = due
      BY <2>4, ConcatEmptySeq
    <3>3. Unsaved(ch)' = Unsaved(ch)
      BY <2>2, <2>3, <3>1, <3>2
    <3>4. hist'[ch] = hist[ch]
      BY <2>6 DEF TypeOK
    <3>5. MirroredBy(ch, saved, older, rows)'
      BY <2>1, <3>3, <3>4, SameInserted DEF MirroredBy
    <3> QED
      BY <3>5
  <2> QED
    BY <2>5, <2>6
<1>4. RowsInserted'
  BY DEF Mirror, RowsInserted, Insertable
<1> QED
  BY <1>3, <1>4 DEF Mirror

\* A signal without messages leaves nothing to save.
LEMMA SignalMirror ==
  ASSUME TypeOK, Mirror, UNCHANGED <<posted, hist, cache, loaded>>,
         NEW kind \in {"authorized", "registered", "channels", "joined"},
         NEW chs, Emit(kind, chs, << >>),
         Delivery("control", kind, chs, << >>) \in Events,
         Delivery("cacher", kind, chs, << >>) \in Events
  PROVE  Mirror'
<1>1. \A ch \in Channels : Unsaved(ch)' = Unsaved(ch)
  <2> SUFFICES ASSUME NEW ch \in Channels PROVE Unsaved(ch)' = Unsaved(ch)
    OBVIOUS
  <2>1. Unsaved(ch)' = Unsaved(ch) \o (IF kind \in {"history", "text"} /\ chs = <<ch>>
                                       THEN << >> ELSE << >>)
    BY EmitDue
  <2>2. PICK due : due = Unsaved(ch)
    OBVIOUS
  <2>3. due \o << >> = due
    BY <2>2, MessagesAreNumbers, ConcatEmptySeq
  <2> QED
    BY <2>1, <2>2, <2>3
<1> QED
  BY <1>1, QuietMirror

\* The response that is read
LEMMA HeadResponse ==
  ASSUME TypeOK, toClient # << >>
  PROVE  /\ Head(toClient) \in Responses
         /\ Head(toClient).kind \in {"joined", "history", "echo"} =>
               /\ Head(toClient).msgs \in Seq(Messages)
               /\ \E c \in Channels : Head(toClient).chs = <<c>> /\ Head(toClient).chs[1] = c
         /\ Head(toClient).kind = "channels" => Head(toClient).chs \in Seq(Channels)
<1>1. Head(toClient) \in Responses
  BY HeadTailProperties DEF TypeOK
<1>2. Head(toClient).kind \in {"joined", "history", "echo"} =>
         Head(toClient).msgs \in Seq(Messages) /\ Head(toClient).chs \in One(Channels)
  BY <1>1 DEF Responses
<1>3. Head(toClient).kind = "channels" => Head(toClient).chs \in Seq(Channels)
  BY <1>1 DEF Responses
<1>4. \A chs \in One(Channels) : \E c \in Channels : chs = <<c>> /\ chs[1] = c
  BY DEF One
<1> QED
  BY <1>1, <1>2, <1>3, <1>4

LEMMA IoMirror ==
  ASSUME TypeOK, Mirror, IoStep
  PROVE  Mirror'
<1>1. CASE SetLoginId
  <2>1. UNCHANGED <<posted, hist, events, cache, loaded>>
    BY <1>1 DEF SetLoginId, server
  <2> QED
    BY <2>1, SameMirror
<1>2. CASE ReadAccepted
  <2>1. PICK kind \in {"authorized", "registered"} : Emit(kind, << >>, << >>)
    BY <1>2 DEF ReadAccepted
  <2>2. UNCHANGED <<posted, hist, cache, loaded>>
    BY <1>2 DEF ReadAccepted, server
  <2>3. /\ Delivery("control", kind, << >>, << >>) \in Events
        /\ Delivery("cacher", kind, << >>, << >>) \in Events
    BY DEF Delivery, Events
  <2> QED
    BY <2>1, <2>2, <2>3, SignalMirror
<1>3. CASE ReadChannels
  <2>1. Emit("channels", Head(toClient).chs, << >>) /\ UNCHANGED <<posted, hist, cache, loaded>>
    BY <1>3 DEF ReadChannels, server, client
  <2>2. Head(toClient).chs \in Seq(Channels)
    BY <1>3, HeadResponse DEF ReadChannels, Reads
  <2>3. /\ Delivery("control", "channels", Head(toClient).chs, << >>) \in Events
        /\ Delivery("cacher", "channels", Head(toClient).chs, << >>) \in Events
    BY <2>2 DEF Delivery, Events
  <2> QED
    BY <2>1, <2>3, SignalMirror
<1>4. CASE ReadJoined
  <2>1. Emit("joined", Head(toClient).chs, << >>) /\ UNCHANGED <<posted, hist, cache, loaded>>
    BY <1>4 DEF ReadJoined, server, client
  <2>2. PICK c \in Channels : Head(toClient).chs = <<c>>
    BY <1>4, HeadResponse DEF ReadJoined, Reads
  <2>3. <<c>> \in One(Channels) /\ << >> \in Seq(Messages)
    BY DEF One
  <2>4. /\ Delivery("control", "joined", Head(toClient).chs, << >>) \in Events
        /\ Delivery("cacher", "joined", Head(toClient).chs, << >>) \in Events
    BY <2>2, <2>3 DEF Delivery, Events
  <2> QED
    BY <2>1, <2>4, SignalMirror
<1>5. CASE ReadHistory
  <2>1. /\ Emit("history", <<Head(toClient).chs[1]>>, Head(toClient).msgs)
        /\ hist' = [hist EXCEPT ![Head(toClient).chs[1]] = @ \o Head(toClient).msgs]
        /\ UNCHANGED <<posted, cache, loaded>>
    BY <1>5 DEF ReadHistory, server
  <2>2. PICK c \in Channels : Head(toClient).chs[1] = c
    BY <1>5, HeadResponse DEF ReadHistory, Reads
  <2>3. Head(toClient).msgs \in Seq(Messages)
    BY <1>5, HeadResponse DEF ReadHistory, Reads
  <2> QED
    BY <2>1, <2>2, <2>3, ReceivedMirror
<1>6. CASE ReadEcho
  <2>1. UNCHANGED <<posted, cache, loaded>>
    BY <1>6 DEF ReadEcho, server
  <2>2. PICK c \in Channels : Head(toClient).chs[1] = c
    BY <1>6, HeadResponse DEF ReadEcho, Reads
  <2>3. Head(toClient).msgs \in Seq(Messages)
    BY <1>6, HeadResponse DEF ReadEcho, Reads
  <2>4. \/ UNCHANGED <<hist, events>>
        \/ /\ Emit("text", <<Head(toClient).chs[1]>>, Head(toClient).msgs)
           /\ hist' = [hist EXCEPT ![Head(toClient).chs[1]] = @ \o Head(toClient).msgs]
    BY <1>6 DEF ReadEcho
  <2>5. CASE UNCHANGED <<hist, events>>
    BY <2>1, <2>5, SameMirror
  <2>6. CASE ~UNCHANGED <<hist, events>>
    BY <2>1, <2>2, <2>3, <2>4, <2>6, ReceivedMirror
  <2> QED
    BY <2>5, <2>6
<1> QED
  BY <1>1, <1>2, <1>3, <1>4, <1>5, <1>6 DEF IoStep

LEMMA RunLeaves ==
  ASSUME TypeOK, NEW ch, events # << >>, events' = Tail(events)
  PROVE  /\ Unsaved(ch)' \in Seq(Nat)
         /\ SavedBy(Head(events), ch) = << >> => Unsaved(ch)' = Unsaved(ch)
<1>1. Tail(events) \in Seq(Calls)
  BY MessagesAreNumbers, HeadTailProperties
<1>2. Due(Tail(events), ch) \in Seq(Nat)
  BY <1>1, DueType
<1>3. PICK due : due = Unsaved(ch)'
  OBVIOUS
<1>4. due \in Seq(Nat)
  BY <1>2, <1>3 DEF Due, Unsaved
<1>5. Unsaved(ch) = SavedBy(Head(events), ch) \o due
  BY <1>3, RunDue
<1>6. << >> \o due = due
  BY <1>4, ConcatEmptySeq
<1> QED
  BY <1>3, <1>4, <1>5, <1>6

LEMMA SavesInsertable ==
  ASSUME TypeOK, RowsInserted, UNCHANGED posted,
         NEW ch \in Channels, NEW msgs \in Seq(Messages), Save(ch, msgs)
  PROVE  RowsInserted'
<1>1. /\ \A other \in Channels : other # ch => cache'[other] = cache[other]
      /\ Range(cache'[ch]) = Range(cache[ch]) \cup {m \in Range(msgs) : Insertable(m)}
  BY SaveIs
<1> QED
  BY <1>1 DEF RowsInserted, Insertable

\* What runs is saved: it goes from what is to be saved to what has been.
LEMMA SaveMirror ==
  ASSUME TypeOK, Mirror, SaveMessages
  PROVE  Mirror'
<1>1. PICK c, msgs :
         /\ c \in Channels /\ msgs \in Seq(Messages) /\ Save(c, msgs)
         /\ Head(events).to = "cacher" /\ Head(events).chs = <<c>> /\ Head(events).msgs = msgs
  BY SavedIs
<1>2. /\ UNCHANGED <<posted, hist, loaded>>
      /\ events # << >> /\ events' = Tail(events)
      /\ Head(events).kind \in {"history", "text"}
  BY DEF SaveMessages, Slot, server, client
<1>3. PICK new :
         /\ new \in Inserted(msgs) /\ new \in Seq(Messages)
         /\ cache' = [cache EXCEPT ![c] = cache[c] \o new]
  BY <1>1, SaveIs
<1>4. msgs \in Seq(Nat) /\ new \in Seq(Nat)
  BY <1>1, <1>3, MessagesAreNumbers
<1>5. Mirrored'
  <2> SUFFICES ASSUME NEW ch \in Channels
               PROVE  \E saved, older, rows : MirroredBy(ch, saved, older, rows)'
    BY DEF Mirrored
  <2>1. PICK saved, older, rows : MirroredBy(ch, saved, older, rows)
    BY DEF Mirror, Mirrored
  <2>2. PICK due : due = Unsaved(ch)'
    OBVIOUS
  <2>3. due \in Seq(Nat) /\ saved \in Seq(Nat) /\ older \in Seq(Nat) /\ rows \in Seq(Nat)
    BY <1>2, <2>1, <2>2, RunLeaves DEF MirroredBy
  <2>4. CASE ch = c
    <3>1. Unsaved(ch) = msgs \o due
      <4>1. SavedBy(Head(events), ch) = msgs
        BY <1>1, <1>2, <2>4 DEF SavedBy
      <4> QED
        BY <1>2, <2>2, <4>1, RunDue
    <3>2. hist[ch] = (saved \o msgs) \o due
      <4>1. (saved \o msgs) \o due = saved \o (msgs \o due)
        <5>1. saved \in Seq(Nat) /\ msgs \in Seq(Nat) /\ due \in Seq(Nat)
          BY <1>4, <2>3
        <5> QED
          BY <5>1, ConcatAssociative, SMTT(30)
      <4> QED
        BY <2>1, <3>1, <4>1 DEF MirroredBy
    <3>3. cache'[ch] = older \o (rows \o new)
      <4>1. (older \o rows) \o new = older \o (rows \o new)
        <5>1. older \in Seq(Nat) /\ rows \in Seq(Nat) /\ new \in Seq(Nat)
          BY <1>4, <2>3
        <5> QED
          BY <5>1, ConcatAssociative, SMTT(30)
      <4>2. cache'[ch] = cache[ch] \o new
        BY <1>3, <2>4 DEF TypeOK
      <4> QED
        BY <2>1, <4>1, <4>2 DEF MirroredBy
    <3>4. rows \o new \in Inserted(saved \o msgs)
      <4>1. rows \in Inserted(saved)
        BY <2>1 DEF MirroredBy
      <4> QED
        BY <1>3, <1>4, <2>3, <4>1, InsertedConcat
    <3>5. saved \o msgs \in Seq(Nat) /\ rows \o new \in Seq(Nat)
      BY <1>4, <2>3, ConcatProperties
    <3>6. PICK s : s = saved \o msgs
      OBVIOUS
    <3>7. PICK r : r = rows \o new
      OBVIOUS
    <3>8. hist'[ch] = s \o Unsaved(ch)'
      BY <1>2, <2>2, <3>2, <3>6
    <3>9. MirroredBy(ch, s, older, r)'
      <4>1. r \in Inserted(s)'
        BY <1>2, <3>4, <3>6, <3>7, SameInserted
      <4>2. loaded' => older = << >>
        BY <1>2, <2>1 DEF MirroredBy
      <4>3. s \in Seq(Nat) /\ r \in Seq(Nat) /\ cache'[ch] = older \o r
        BY <3>3, <3>5, <3>6, <3>7
      <4> QED
        BY <2>3, <3>8, <4>1, <4>2, <4>3 DEF MirroredBy
    <3> QED
      BY <3>9
  <2>5. CASE ch # c
    <3>1. SavedBy(Head(events), ch) = << >>
      <4>1. <<c>>[1] = c /\ <<ch>>[1] = ch
        OBVIOUS
      <4>2. Head(events).chs # <<ch>>
        BY <1>1, <2>5, <4>1
      <4> QED
        BY <4>2 DEF SavedBy
    <3>2. Unsaved(ch)' = Unsaved(ch)
      BY <1>2, <3>1, RunLeaves
    <3>3. cache'[ch] = cache[ch]
      BY <1>3, <2>5 DEF TypeOK
    <3>4. MirroredBy(ch, saved, older, rows)'
      BY <1>2, <2>1, <3>2, <3>3, SameInserted DEF MirroredBy
    <3> QED
      BY <3>4
  <2> QED
    BY <2>4, <2>5
<1>6. RowsInserted'
  BY <1>1, <1>2, SavesInsertable DEF Mirror
<1> QED
  BY <1>5, <1>6 DEF Mirror

\* The rows are loaded into an empty memory, with nothing to be saved.
LEMMA LoadMirror ==
  ASSUME TypeOK, Start, Mirror, OnAuthorized
  PROVE  Mirror'
<1>1. /\ UNCHANGED <<posted, cache>>
      /\ hist' = [ch \in Channels |-> hist[ch] \o cache[ch]]
      /\ events # << >> /\ events' = Tail(events)
      /\ Head(events).to = "cacher" /\ Head(events).kind = "authorized"
  BY DEF OnAuthorized, Slot, Load, server
<1>2. Blank
  <2>1. Head(events) = events[1] /\ 1 \in 1..Len(events)
    BY <1>1, TailAt DEF TypeOK
  <2>2. AcceptedCall(events[1])
    BY <1>1, <2>1 DEF AcceptedCall, Accepted
  <2> QED
    BY <2>1, <2>2 DEF Awaited, Starting, Start
<1>3. Mirrored'
  <2> SUFFICES ASSUME NEW ch \in Channels
               PROVE  \E saved, older, rows : MirroredBy(ch, saved, older, rows)'
    BY DEF Mirrored
  <2>1. PICK saved, older, rows : MirroredBy(ch, saved, older, rows)
    BY DEF Mirror, Mirrored
  <2>2. PICK due : due = Unsaved(ch)
    OBVIOUS
  <2>3. due \in Seq(Nat) /\ saved \in Seq(Nat) /\ saved \o due = << >>
    BY <1>2, <2>1, <2>2, MessagesAreNumbers DEF MirroredBy, Blank
  <2>4. due = << >>
    BY <2>3, ConcatEqualIffEmpty
  <2>5. Unsaved(ch)' = << >>
    <3>1. SavedBy(Head(events), ch) = << >>
      BY <1>1 DEF SavedBy
    <3> QED
      BY <1>1, <2>2, <2>4, <3>1, RunLeaves
  <2>6. PICK rows2 \in Seq(Nat) : rows2 = cache[ch]
    BY MessagesAreNumbers
  <2>7. << >> \o rows2 = rows2 /\ rows2 \o << >> = rows2 /\ << >> \in Seq(Nat)
    BY ConcatEmptySeq, EmptySeq
  <2>8. hist'[ch] = rows2 \o Unsaved(ch)'
    <3>1. hist'[ch] = << >> \o rows2
      BY <1>1, <1>2, <2>6 DEF Blank
    <3> QED
      BY <2>5, <2>7, <3>1
  <2>9. rows2 \in Inserted(rows2)
    <3>1. \A i \in 1..Len(rows2) : rows2[i] \in Range(cache[ch])
      BY <2>6, RangeIs
    <3>2. \A i \in 1..Len(rows2) : Insertable(rows2[i])
      BY <3>1 DEF Mirror, RowsInserted
    <3> QED
      BY <3>2, InsertedAll
  <2>10. rows2 \in Inserted(rows2)'
    BY <1>1, <2>9, SameInserted
  <2>11. cache'[ch] = << >> \o rows2
    BY <1>1, <2>6, <2>7
  <2>12. MirroredBy(ch, rows2, << >>, rows2)'
    BY <2>7, <2>8, <2>10, <2>11 DEF MirroredBy
  <2> QED
    BY <2>12
<1>4. RowsInserted'
  BY <1>1 DEF Mirror, RowsInserted, Insertable
<1> QED
  BY <1>3, <1>4 DEF Mirror

LEMMA GuiMirror ==
  ASSUME TypeOK, Start, Mirror, GuiStep
  PROVE  Mirror'
<1>1. CASE SaveMessages
  BY <1>1, SaveMirror
<1>2. CASE OnAuthorized
  BY <1>2, LoadMirror
<1>3. CASE ~SaveMessages /\ ~OnAuthorized
  <2>1. UNCHANGED <<posted, hist, cache, loaded>>
    BY <1>3 DEF GuiStep, ChangeWindow, OnRegistered, AddChannels, OnChannelsReceived, OnJoined,
                UpdateWidget, server, client
  <2>2. /\ events # << >> /\ events' = Tail(events)
        /\ \/ Head(events).to = "control"
           \/ Head(events).kind \in {"registered", "channels", "joined"}
    BY <1>3 DEF GuiStep, ChangeWindow, OnRegistered, AddChannels, OnChannelsReceived, OnJoined,
                UpdateWidget, Slot
  <2>3. \A ch \in Channels : SavedBy(Head(events), ch) = << >>
    BY <2>2 DEF SavedBy
  <2>4. \A ch \in Channels : Unsaved(ch)' = Unsaved(ch)
    BY <2>2, <2>3, RunLeaves
  <2> QED
    BY <2>1, <2>4, QuietMirror
<1> QED
  BY <1>1, <1>2, <1>3

LEMMA NothingDue ==
  ASSUME NEW ch
  PROVE  Due(<< >>, ch) = << >>
<1>1. [i \in DOMAIN << >> |-> SavedBy(<< >>[i], ch)] = << >>
  OBVIOUS
<1>2. FlattenSeq(<< >>) = << >>
  BY DEF FlattenSeq
<1> QED
  BY <1>1, <1>2 DEF Due

\* Posting does not change which of the messages there are can be inserted.
LEMMA PostMirror ==
  ASSUME TypeOK, Mirror, NEW c \in Channels, Post(c)
  PROVE  Mirror'
<1>1. UNCHANGED <<hist, events, cache, loaded>>
  BY DEF Post, client
<1>2. \A m \in Messages : Insertable(m)' = Insertable(m)
  <2>1. PICK entry : posted' = Append(posted, entry)
    BY DEF Post
  <2>2. posted \in Seq([ch : Channels, time : Nat, quoted : BOOLEAN])
    BY DEF TypeOK
  <2>3. \A m \in 1..Len(posted) : posted'[m] = posted[m]
    BY <2>1, <2>2, AppendProperties
  <2> QED
    BY <2>3 DEF Messages, Insertable
<1>3. Mirrored'
  <2> SUFFICES ASSUME NEW ch \in Channels
               PROVE  \E saved, older, rows : MirroredBy(ch, saved, older, rows)'
    BY DEF Mirrored
  <2>1. PICK saved, older, rows : MirroredBy(ch, saved, older, rows)
    BY DEF Mirror, Mirrored
  <2>2. PICK due : due = Unsaved(ch)
    OBVIOUS
  <2>3. due \in Seq(Nat) /\ saved \in Seq(Nat) /\ hist[ch] = saved \o due
    BY <2>1, <2>2, MessagesAreNumbers DEF MirroredBy
  <2>4. Range(saved) \subseteq Messages
    <3>1. Range(saved \o due) = Range(saved) \cup Range(due)
      BY <2>3, RangeConcat
    <3> QED
      BY <2>3, <3>1, RangesTyped
  <2>5. \A i \in DOMAIN saved : Insertable(saved[i])' = Insertable(saved[i])
    BY <1>2, <2>4 DEF Range
  <2>6. Inserted(saved)' = Inserted(saved)
    BY <2>5 DEF Inserted
  <2>7. Unsaved(ch)' = Unsaved(ch)
    BY <1>1 DEF Unsaved
  <2>8. MirroredBy(ch, saved, older, rows)'
    BY <1>1, <2>1, <2>6, <2>7 DEF MirroredBy
  <2> QED
    BY <2>8
<1>4. RowsInserted'
  BY <1>1, <1>2, RangesTyped DEF Mirror, RowsInserted
<1> QED
  BY <1>3, <1>4 DEF Mirror

\* After a crash all rows are older ones.
LEMMA CrashMirror ==
  ASSUME TypeOK, TypeOK', Mirror, Crash
  PROVE  Mirror'
<1>1. /\ UNCHANGED posted
      /\ hist' = [ch \in Channels |-> << >>] /\ events' = << >> /\ loaded' = FALSE
  BY DEF Crash, Forgotten, server
<1>2. Mirrored'
  <2> SUFFICES ASSUME NEW ch \in Channels
               PROVE  \E saved, older, rows : MirroredBy(ch, saved, older, rows)'
    BY DEF Mirrored
  <2>1. PICK older \in Seq(Nat) : older = cache'[ch]
    <3>1. cache'[ch] \in Seq(Messages)
      BY <1>1 DEF TypeOK, Messages
    <3> QED
      BY <3>1, MessagesAreNumbers
  <2>2. older \o << >> = older /\ << >> \o << >> = << >> /\ << >> \in Seq(Nat)
    BY <2>1, ConcatEmptySeq, EmptySeq
  <2>3. Unsaved(ch)' = << >>
    <3>1. Due(events', ch) = << >>
      BY <1>1, NothingDue
    <3> QED
      BY <3>1 DEF Due, Unsaved
  <2>4. << >> \in Inserted(<< >>)'
    BY <1>1, NothingInserted
  <2>5. hist'[ch] = << >> \o Unsaved(ch)'
    BY <1>1, <2>2, <2>3
  <2>6. MirroredBy(ch, << >>, older, << >>)'
    BY <1>1, <2>1, <2>2, <2>4, <2>5 DEF MirroredBy
  <2> QED
    BY <2>6
<1>3. RowsInserted'
  <2>1. CASE UNCHANGED cache
    BY <1>1, <2>1 DEF Mirror, RowsInserted, Insertable
  <2>2. CASE ~UNCHANGED cache
    <3>1. PICK c, msgs, n : /\ c \in Channels /\ msgs \in Seq(Messages)
                            /\ n \in 0..Len(msgs) /\ Save(c, SubSeq(msgs, 1, n))
      BY <2>2, CrashSaves
    <3>2. SubSeq(msgs, 1, n) \in Seq(Messages)
      BY <3>1, RangePrefix
    <3> QED
      BY <1>1, <3>1, <3>2, SavesInsertable DEF Mirror
  <2> QED
    BY <2>1, <2>2
<1> QED
  BY <1>2, <1>3 DEF Mirror

LEMMA InitMirror == Init => Mirror
<1> SUFFICES ASSUME Init PROVE Mirror
  OBVIOUS
<1>1. /\ hist = [ch \in Channels |-> << >>] /\ events = << >> /\ loaded = FALSE
      /\ cache = [ch \in Channels |-> << >>]
  BY DEF Init
<1>2. << >> \in Seq(Nat) /\ << >> \o << >> = << >>
  BY EmptySeq, ConcatEmptySeq
<1>3. << >> \in Inserted(<< >>)
  <2>1. \A i \in 1..Len(<< >>) : Insertable(<< >>[i])
    OBVIOUS
  <2> QED
    BY <1>2, <2>1, InsertedAll
<1>4. \A ch \in Channels : MirroredBy(ch, << >>, << >>, << >>)
  <2> SUFFICES ASSUME NEW ch \in Channels PROVE MirroredBy(ch, << >>, << >>, << >>)
    OBVIOUS
  <2>1. Unsaved(ch) = << >>
    BY <1>1, NothingDue DEF Due, Unsaved
  <2> QED
    BY <1>1, <1>2, <1>3, <2>1 DEF MirroredBy
<1>5. RowsInserted
  BY <1>1, RangeOne DEF RowsInserted
<1> QED
  BY <1>4, <1>5 DEF Mirror, Mirrored

LEMMA StepMirror ==
  ASSUME TypeOK, TypeOK', Start, Mirror, [Next]_vars
  PROVE  Mirror'
<1>1. CASE UNCHANGED vars
  <2>1. UNCHANGED <<posted, hist, events, cache, loaded>>
    BY <1>1 DEF vars, server, client
  <2> QED
    BY <2>1, SameMirror
<1>2. CASE Login \/ Register \/ Cut \/ \E ch \in Channels : UserJoins(ch)
  <2>1. UNCHANGED <<posted, hist, events, cache, loaded>>
    BY <1>2 DEF Login, Register, Connect, Cut, UserJoins, server, client
  <2> QED
    BY <2>1, SameMirror
<1>3. CASE \E ch \in Channels : Post(ch)
  BY <1>3, PostMirror
<1>4. CASE Crash
  BY <1>4, CrashMirror
<1> QED
  BY <1>1, <1>2, <1>3, <1>4, ServerMirror, IoMirror, GuiMirror DEF Next, UserStep

\* A sequence of two parts is split where the first ends.
LEMMA SplitAt ==
  ASSUME NEW S, NEW a \in Seq(S), NEW b \in Seq(S)
  PROVE  /\ Len(a) \in 0..Len(a \o b)
         /\ SubSeq(a \o b, 1, Len(a)) = a
         /\ SubSeq(a \o b, Len(a) + 1, Len(a \o b)) = b
<1>1. PICK whole : whole = a \o b
  OBVIOUS
<1>2. PICK m \in Nat, n \in Nat : m = Len(a) /\ n = Len(b)
  BY LenProperties
<1>3. /\ whole \in Seq(S) /\ Len(whole) = m + n
      /\ \A i \in 1..m + n : whole[i] = IF i <= m THEN a[i] ELSE b[i - m]
  BY <1>1, <1>2, ConcatProperties
<1>4. SubSeq(whole, 1, m) = a
  <2>1. /\ SubSeq(whole, 1, m) \in Seq(S) /\ Len(SubSeq(whole, 1, m)) = m
        /\ \A i \in 1..m : SubSeq(whole, 1, m)[i] = whole[i]
    BY <1>3, PrefixIs, m \in 0..Len(whole)
  <2>2. \A i \in 1..m : SubSeq(whole, 1, m)[i] = a[i]
    BY <1>3, <2>1
  <2> QED
    BY <1>2, <2>1, <2>2, SameSeq
<1>5. SubSeq(whole, m + 1, m + n) = b
  <2>1. \A i \in m + 1..m + n : whole[i] \in S
    <3>1. \A i \in 1..Len(whole) : whole[i] \in S
      BY <1>3, ElementOfSeq
    <3> QED
      BY <1>3, <3>1
  <2>2. /\ SubSeq(whole, m + 1, m + n) \in Seq(S)
        /\ Len(SubSeq(whole, m + 1, m + n))
              = IF m + 1 <= m + n THEN (m + n) - (m + 1) + 1 ELSE 0
        /\ \A i \in 1..(m + n) - (m + 1) + 1 :
              SubSeq(whole, m + 1, m + n)[i] = whole[(m + 1) + i - 1]
    BY <2>1, SubSeqProperties, m + 1 \in Int, m + n \in Int
  <2>3. PICK part : part = SubSeq(whole, m + 1, m + n)
    OBVIOUS
  <2>4. part \in Seq(S) /\ Len(part) = n /\ \A i \in 1..n : part[i] = whole[m + i]
    BY <2>2, <2>3
  <2>5. \A i \in 1..n : part[i] = b[i]
    BY <1>3, <2>4
  <2> QED
    BY <1>2, <2>3, <2>4, <2>5, SameSeq
<1> QED
  BY <1>1, <1>2, <1>3, <1>4, <1>5, m \in 0..m + n

LEMMA MirrorIs ==
  ASSUME TypeOK, Mirror
  PROVE  CacheMirrorsHistory
<1> SUFFICES ASSUME NEW ch \in Channels
             PROVE  \E saved \in 0..Len(hist[ch]) :
                      /\ SubSeq(hist[ch], saved + 1, Len(hist[ch])) = Unsaved(ch)
                      /\ \E rows \in Inserted(SubSeq(hist[ch], 1, saved)),
                            older \in 0..Len(cache[ch]) :
                           /\ SubSeq(cache[ch], older + 1, Len(cache[ch])) = rows
                           /\ loaded => older = 0
  BY DEF CacheMirrorsHistory
<1>1. PICK s, o, r : MirroredBy(ch, s, o, r)
  BY DEF Mirror, Mirrored
<1>2. PICK due : due = Unsaved(ch) /\ due \in Seq(Nat)
  BY MessagesAreNumbers
<1>3. hist[ch] = s \o due /\ cache[ch] = o \o r
  BY <1>1, <1>2 DEF MirroredBy
<1>4. /\ Len(s) \in 0..Len(hist[ch]) /\ SubSeq(hist[ch], 1, Len(s)) = s
      /\ SubSeq(hist[ch], Len(s) + 1, Len(hist[ch])) = due
  <2>1. s \in Seq(Nat)
    BY <1>1 DEF MirroredBy
  <2> QED
    BY <1>2, <1>3, <2>1, SplitAt
<1>5. /\ Len(o) \in 0..Len(cache[ch])
      /\ SubSeq(cache[ch], Len(o) + 1, Len(cache[ch])) = r
  <2>1. o \in Seq(Nat) /\ r \in Seq(Nat)
    BY <1>1 DEF MirroredBy
  <2> QED
    BY <1>3, <2>1, SplitAt
<1>6. r \in Inserted(SubSeq(hist[ch], 1, Len(s)))
  BY <1>1, <1>4 DEF MirroredBy
<1>7. loaded => Len(o) = 0
  BY <1>1 DEF MirroredBy
<1> QED
  BY <1>2, <1>4, <1>5, <1>6, <1>7

\* In every schedule, wherever the connection or the program ends: the memory
\* of a channel is what SaveMessages has saved and after it what waits in the
\* queue of the GUI thread to be saved, and the cache has the rows of the former
\* in that order, behind older ones only before on_authorized has loaded them.
THEOREM MemoryIsMirrored == Spec => []CacheMirrorsHistory
<1>1. TypeOK /\ Start /\ [Next]_vars => Start'
  BY StepStart
<1>2. TypeOK /\ TypeOK' /\ Start /\ Mirror /\ [Next]_vars => Mirror'
  BY StepMirror
<1>3. TypeOK /\ Mirror => CacheMirrorsHistory
  BY MirrorIs
<1> QED
  BY <1>1, <1>2, <1>3, InitStart, InitMirror, TypeCorrect, PTL DEF Spec

=============================================================================
