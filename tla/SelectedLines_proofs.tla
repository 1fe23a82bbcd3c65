------------------------ MODULE SelectedLines_proofs ------------------------
(***************************************************************************)
(* What is proved about SelectedLines, for texts of any length: the file   *)
(* made is at every moment a beginning of the right one, and in the end it *)
(* is the right one.  The right file is defined by the places its lines    *)
(* have in an order, so that the proof needs no induction: the line a step *)
(* takes is the one before which there are exactly the lines taken so far. *)
(***************************************************************************)
EXTENDS SelectedLines, FiniteSetTheorems, TLAPS

-----------------------------------------------------------------------------
(* Places in an order.                                                     *)

\* In a finite set that is totally ordered each place from the first to the last is taken by one
\* element, and InOrder lists the elements by their places.
LEMMA OrderIs ==
    ASSUME NEW S, IsFiniteSet(S), NEW R,
           \A x \in S : <<x, x>> \notin R,
           \A x, y, z \in S : <<x, y>> \in R /\ <<y, z>> \in R => <<x, z>> \in R,
           \A x, y \in S : x = y \/ <<x, y>> \in R \/ <<y, x>> \in R
    PROVE  /\ Cardinality(S) \in Nat
           /\ DOMAIN InOrder(S, R) = 1 .. Cardinality(S)
           /\ \A x \in S : Place(x, S, R) \in 1 .. Cardinality(S) /\ InOrder(S, R)[Place(x, S, R)] = x
           /\ \A n \in 1 .. Cardinality(S) :
                 InOrder(S, R)[n] \in S /\ Place(InOrder(S, R)[n], S, R) = n
<1> DEFINE N == Cardinality(S)
<1>1. N \in Nat
      BY FS_CardinalityType
<1>2. PICK below : below = [x \in S |-> {y \in S : <<y, x>> \in R}]
      OBVIOUS
<1>3. \A x \in S : Place(x, S, R) = Cardinality(below[x]) + 1
      BY <1>2 DEF Place
<1>4. \A x \in S : below[x] \in SUBSET S /\ \A y \in S : y \in below[x] <=> <<y, x>> \in R
      BY <1>2
<1>5. \A x \in S : IsFiniteSet(below[x]) /\ Cardinality(below[x]) \in Nat /\ Cardinality(below[x]) < N
  <2> SUFFICES ASSUME NEW x \in S
               PROVE  IsFiniteSet(below[x]) /\ Cardinality(below[x]) \in Nat /\ Cardinality(below[x]) < N
      OBVIOUS
  <2>1. below[x] \in SUBSET S /\ x \notin below[x]
        BY <1>4
  <2>2. IsFiniteSet(below[x]) /\ Cardinality(below[x]) <= N /\ (Cardinality(below[x]) = N => below[x] = S)
        BY <2>1, FS_Subset
  <2> QED
      BY <1>1, <2>1, <2>2, FS_CardinalityType
<1>6. \A x, y \in S : <<x, y>> \in R => Cardinality(below[x]) < Cardinality(below[y])
  <2> SUFFICES ASSUME NEW x \in S, NEW y \in S, <<x, y>> \in R
               PROVE  Cardinality(below[x]) < Cardinality(below[y])
      OBVIOUS
  <2>1. below[x] \in SUBSET below[y] /\ below[x] # below[y]
        BY <1>4
  <2>2. Cardinality(below[x]) <= Cardinality(below[y]) /\ Cardinality(below[x]) # Cardinality(below[y])
        BY <1>5, <2>1, FS_Subset
  <2> QED
      BY <1>5, <2>2
<1>7. PICK place : place = [x \in S |-> Cardinality(below[x]) + 1]
      OBVIOUS
<1> HIDE DEF N
<1>8. place \in [S -> 1 .. N] /\ \A x \in S : Place(x, S, R) = place[x]
      BY <1>1, <1>3, <1>5, <1>7
<1>9. \A x, y \in S : place[x] = place[y] => x = y
  <2> SUFFICES ASSUME NEW x \in S, NEW y \in S, x # y
               PROVE  place[x] # place[y]
      OBVIOUS
  <2>1. Cardinality(below[x]) # Cardinality(below[y])
    <3>1. CASE <<x, y>> \in R
          BY <1>5, <1>6, <3>1
    <3>2. CASE <<y, x>> \in R
          BY <1>5, <1>6, <3>2
    <3> QED
        BY <3>1, <3>2
  <2> QED
      BY <1>5, <1>7, <2>1
<1>10. place \in Injection(S, 1 .. N)
       BY <1>8, <1>9 DEF Injection, IsInjective
<1>11. IsFiniteSet(1 .. N) /\ Cardinality(1 .. N) = N
       BY <1>1, FS_Interval
<1>12. place \in Surjection(S, 1 .. N)
       BY <1>10, <1>11, FS_Injection DEF N
<1>13. \A n \in 1 .. N : \E x \in S : place[x] = n
       BY <1>12 DEF Surjection
<1>14. DOMAIN InOrder(S, R) = 1 .. N /\ \A n \in 1 .. N : InOrder(S, R)[n] = CHOOSE x \in S : Place(x, S, R) = n
       BY DEF InOrder, N
<1>15. \A n \in 1 .. N : InOrder(S, R)[n] \in S /\ Place(InOrder(S, R)[n], S, R) = n
  <2> SUFFICES ASSUME NEW n \in 1 .. N
               PROVE  InOrder(S, R)[n] \in S /\ Place(InOrder(S, R)[n], S, R) = n
      OBVIOUS
  <2>1. \E x \in S : Place(x, S, R) = n
        BY <1>8, <1>13
  <2> QED
      BY <1>14, <2>1
<1>16. \A x \in S : place[x] \in 1 .. N /\ InOrder(S, R)[place[x]] = x
       BY <1>8, <1>9, <1>15
<1> QED
    BY <1>1, <1>8, <1>14, <1>15, <1>16 DEF N

\* How many numbers of a set lie below i.
Count(K, i) == Cardinality({k \in K : k < i})

\* A set of numbers in order: each number is where the number of smaller ones says.
LEMMA SortedIs ==
    ASSUME NEW S \in SUBSET Nat, IsFiniteSet(S)
    PROVE  /\ Cardinality(S) \in Nat /\ DOMAIN Sorted(S) = 1 .. Cardinality(S)
           /\ \A x \in S : /\ Count(S, x) + 1 \in 1 .. Cardinality(S)
                           /\ Sorted(S)[Count(S, x) + 1] = x
           /\ \A n \in 1 .. Cardinality(S) :
                 Sorted(S)[n] \in S /\ Count(S, Sorted(S)[n]) + 1 = n
<1> DEFINE R == {p \in S \X S : p[1] < p[2]}
<1>1. \A x, y \in S : <<x, y>> \in R <=> x < y
      OBVIOUS
<1>2. \A x \in S : {y \in S : <<y, x>> \in R} = {y \in S : y < x}
      BY <1>1
<1>3. \A x \in S : Place(x, S, R) = Count(S, x) + 1
      BY <1>2 DEF Place, Count
<1> HIDE DEF R
<1>4. \A x, y \in S : x = y \/ x < y \/ y < x
      OBVIOUS
<1>5. \A x, y, z \in S : ~(x < x) /\ (x < y /\ y < z => x < z)
      OBVIOUS
<1>6. /\ \A x \in S : <<x, x>> \notin R
      /\ \A x, y, z \in S : <<x, y>> \in R /\ <<y, z>> \in R => <<x, z>> \in R
      /\ \A x, y \in S : x = y \/ <<x, y>> \in R \/ <<y, x>> \in R
      BY <1>1, <1>4, <1>5
<1>7. /\ Cardinality(S) \in Nat
      /\ DOMAIN InOrder(S, R) = 1 .. Cardinality(S)
      /\ \A x \in S : Place(x, S, R) \in 1 .. Cardinality(S) /\ InOrder(S, R)[Place(x, S, R)] = x
      /\ \A n \in 1 .. Cardinality(S) : InOrder(S, R)[n] \in S /\ Place(InOrder(S, R)[n], S, R) = n
      BY ONLY <1>6, OrderIs, IsFiniteSet(S)
<1>8. Sorted(S) = InOrder(S, R)
      BY DEF Sorted, R
<1> QED
    BY <1>3, <1>7, <1>8

\* How many numbers of a set lie below i grows with i, by one for each number of the set.
LEMMA Counting ==
    ASSUME NEW K \in SUBSET Nat, IsFiniteSet(K)
    PROVE  /\ Cardinality(K) \in Nat
           /\ \A i \in Nat : /\ Count(K, i) \in Nat /\ Count(K, i) <= Cardinality(K)
                             /\ Count(K, i + 1) = Count(K, i) + IF i \in K THEN 1 ELSE 0
                             /\ (\A k \in K : k < i) => Count(K, i) = Cardinality(K)
           /\ \A i, j \in Nat : i <= j => Count(K, i) <= Count(K, j)
           /\ \A i, j \in Nat : i \in K /\ i < j => Count(K, i) < Count(K, j)
<1>1. PICK below : below = [i \in Nat |-> {k \in K : k < i}]
      OBVIOUS
<1>2. \A i \in Nat : /\ below[i] = {k \in K : k < i} /\ below[i] \in SUBSET K
                     /\ \A k \in K : k \in below[i] <=> k < i
      BY <1>1
<1>3. \A i \in Nat : IsFiniteSet(below[i]) /\ Cardinality(below[i]) \in Nat
                     /\ Cardinality(below[i]) <= Cardinality(K)
  <2> SUFFICES ASSUME NEW i \in Nat
               PROVE  IsFiniteSet(below[i]) /\ Cardinality(below[i]) \in Nat
                      /\ Cardinality(below[i]) <= Cardinality(K)
      OBVIOUS
  <2> QED
      BY <1>2, FS_Subset, FS_CardinalityType
<1>4. \A i, j \in Nat : i <= j => Cardinality(below[i]) <= Cardinality(below[j])
  <2> SUFFICES ASSUME NEW i \in Nat, NEW j \in Nat, i <= j
               PROVE  Cardinality(below[i]) <= Cardinality(below[j])
      OBVIOUS
  <2>1. \A k \in K : k < i => k < j
        OBVIOUS
  <2>2. below[i] \in SUBSET below[j]
        BY <1>2, <2>1
  <2> QED
      BY <1>3, <2>2, FS_Subset
<1>5. \A i, j \in Nat : i \in K /\ i < j => Cardinality(below[i]) < Cardinality(below[j])
  <2> SUFFICES ASSUME NEW i \in Nat, NEW j \in Nat, i \in K, i < j
               PROVE  Cardinality(below[i]) < Cardinality(below[j])
      OBVIOUS
  <2>1. \A k \in K : k < i => k < j
        OBVIOUS
  <2>2. i \in below[j] /\ i \notin below[i]
        BY <1>2
  <2>3. below[i] \in SUBSET below[j] /\ below[i] # below[j]
        BY <1>2, <2>1, <2>2
  <2>4. Cardinality(below[i]) <= Cardinality(below[j]) /\ Cardinality(below[i]) # Cardinality(below[j])
        BY <1>3, <2>3, FS_Subset
  <2> QED
      BY <1>3, <2>4
<1>6. \A i \in Nat : Cardinality(below[i + 1]) = Cardinality(below[i]) + IF i \in K THEN 1 ELSE 0
  <2> SUFFICES ASSUME NEW i \in Nat
               PROVE  Cardinality(below[i + 1]) = Cardinality(below[i]) + IF i \in K THEN 1 ELSE 0
      OBVIOUS
  <2>1. i + 1 \in Nat /\ i \notin below[i]
        BY <1>2
  <2>2. \A k \in K : k < i + 1 <=> k < i \/ k = i
        OBVIOUS
  <2>3. CASE i \in K
    <3>1. below[i + 1] = below[i] \cup {i}
          BY <1>2, <2>1, <2>2, <2>3
    <3> QED
        BY <1>3, <2>1, <2>3, <3>1, FS_AddElement
  <2>4. CASE i \notin K
    <3>1. below[i + 1] = below[i]
          BY <1>2, <2>1, <2>2, <2>4
    <3> QED
        BY <1>3, <2>4, <3>1
  <2> QED
      BY <2>3, <2>4
<1>7. \A i \in Nat : (\A k \in K : k < i) => Cardinality(below[i]) = Cardinality(K)
  <2> SUFFICES ASSUME NEW i \in Nat, \A k \in K : k < i
               PROVE  below[i] = K
      OBVIOUS
  <2> QED
      BY <1>2
<1>8. Cardinality(K) \in Nat
      BY FS_CardinalityType
<1>9. \A i \in Nat : Cardinality(below[i]) = Count(K, i)
      BY <1>2 DEF Count
<1>10. \A i \in Nat : i + 1 \in Nat
       OBVIOUS
<1>11. \A i \in Nat : Count(K, i) \in Nat /\ Count(K, i) <= Cardinality(K)
       BY <1>3, <1>9
<1>12. \A i \in Nat : Count(K, i + 1) = Count(K, i) + IF i \in K THEN 1 ELSE 0
       BY <1>6, <1>9, <1>10
<1>13. \A i \in Nat : (\A k \in K : k < i) => Count(K, i) = Cardinality(K)
       BY <1>7, <1>9
<1>14. \A i, j \in Nat : i <= j => Count(K, i) <= Count(K, j)
       BY <1>4, <1>9
<1>15. \A i, j \in Nat : i \in K /\ i < j => Count(K, i) < Count(K, j)
       BY <1>5, <1>9
<1> QED
    BY <1>8, <1>11, <1>12, <1>13, <1>14, <1>15

\* The beginnings of a sequence, element by element.
LEMMA PrefixIs ==
    ASSUME NEW S, NEW s \in Seq(S), NEW t \in Seq(S)
    PROVE  IsPrefix(s, t) <=> Len(s) <= Len(t) /\ \A n \in 1 .. Len(s) : s[n] = t[n]
<1>1. Len(s) \in Nat /\ Len(t) \in Nat /\ SubSeq(s, 1, Len(s)) = s
      OBVIOUS
<1>2. SUFFICES ASSUME Len(s) <= Len(t)
               PROVE  s = SubSeq(t, 1, Len(s)) <=> \A n \in 1 .. Len(s) : s[n] = t[n]
      BY <1>1 DEF IsPrefix
<1>3. PICK u : u = SubSeq(t, 1, Len(s))
      OBVIOUS
<1>4. u \in Seq(S) /\ Len(u) = Len(s) /\ \A n \in 1 .. Len(s) : u[n] = t[n]
      BY <1>1, <1>2, <1>3
<1>5. s = u <=> \A n \in 1 .. Len(s) : s[n] = u[n]
      BY <1>1, <1>4
<1> QED
    BY <1>3, <1>4, <1>5

\* A finite set has finite images.
LEMMA ImageIs ==
    ASSUME NEW S, IsFiniteSet(S), NEW f, DOMAIN f = S
    PROVE  IsFiniteSet({f[x] : x \in S})
<1>1. PICK T : T = {f[x] : x \in S}
      OBVIOUS
<1>2. PICK g : g = [x \in S |-> f[x]]
      OBVIOUS
<1>3. g \in Surjection(S, T)
      BY <1>1, <1>2 DEF Surjection
<1>4. IsFiniteSet(T)
      BY <1>3, FS_Surjection
<1> QED
    BY <1>1, <1>4

\* A one-to-one correspondence keeps the size.
LEMMA SameSize ==
    ASSUME NEW S, IsFiniteSet(S), NEW T, NEW f \in [S -> T],
           \A x, y \in S : f[x] = f[y] => x = y, \A t \in T : \E x \in S : f[x] = t
    PROVE  Cardinality(T) = Cardinality(S)
<1>1. f \in Surjection(S, T) /\ f \in Injection(S, T)
      BY DEF Surjection, Injection, IsInjective
<1> QED
    BY <1>1, FS_Surjection

-----------------------------------------------------------------------------
(* The texts and their diff.                                               *)

\* What String.lines makes of a text.
LEMMA TextIs ==
    ASSUME NEW t \in Text
    PROVE  /\ t.lines \in Seq(Line) /\ Len(t.lines) \in Nat /\ t.newline \in BOOLEAN
           /\ ~t.newline => Len(t.lines) # 0
           /\ LinesIn(t) \in Seq(Line)
           /\ Len(LinesIn(t)) = IF t.newline THEN Len(t.lines) + 1 ELSE Len(t.lines)
           /\ \A i \in 1 .. Len(t.lines) : LinesIn(t)[i] = t.lines[i]
           /\ t.newline => LinesIn(t)[Len(t.lines) + 1] = Blank
<1>1. t.lines \in SeqOf(Line, MaxLines) /\ t.newline \in BOOLEAN /\ (~t.newline => t.lines # <<>>)
      BY DEF Text
<1>2. PICK m \in Nat : t.lines \in [1 .. m -> Line]
      BY <1>1, LineAssumption DEF SeqOf
<1>3. t.lines \in Seq(Line)
      BY <1>2
<1>4. PICK s : s = t.lines
      OBVIOUS
<1>5. PICK r : r = LinesIn(t)
      OBVIOUS
<1>6. s \in Seq(Line) /\ Len(s) \in Nat /\ Blank \in Line /\ r = IF t.newline THEN Append(s, Blank) ELSE s
      BY <1>3, <1>4, <1>5, LineAssumption DEF LinesIn
<1>7. /\ r \in Seq(Line) /\ Len(r) = IF t.newline THEN Len(s) + 1 ELSE Len(s)
      /\ \A i \in 1 .. Len(s) : r[i] = s[i]
      /\ t.newline => r[Len(s) + 1] = Blank
      BY <1>6
<1>8. ~t.newline => Len(s) # 0
      BY <1>1, <1>4, <1>6
<1> QED
    BY <1>1, <1>4, <1>5, <1>6, <1>7, <1>8

\* The lines of a file have the numbers from 1 on; one that is not there has none.
LEMMA NumbersAre ==
    ASSUME NEW t \in {NoFile} \cup Text
    PROVE  /\ Numbers(t) \in SUBSET Nat /\ IsFiniteSet(Numbers(t))
           /\ t = NoFile => Numbers(t) = {}
           /\ t # NoFile => t \in Text /\ Numbers(t) = 1 .. Len(t.lines)
<1>1. CASE t = NoFile
      BY <1>1, FS_EmptySet DEF Numbers
<1>2. CASE t # NoFile
  <2>1. t \in Text /\ t.lines \in Seq(Line) /\ Len(t.lines) \in Nat
        BY <1>2, TextIs
  <2>2. Numbers(t) = 1 .. Len(t.lines)
        BY <1>2, <2>1 DEF Numbers
  <2> QED
      BY <1>2, <2>1, <2>2, FS_Interval
<1> QED
    BY <1>1, <1>2

\* The numbers of the lines of t that are not in gone.
Left(t, gone) == Numbers(t) \ gone

\* The lines a diff leaves, by the number of lines that stay before them.
LEMMA WithoutIs ==
    ASSUME NEW t \in {NoFile} \cup Text, NEW gone
    PROVE  /\ Left(t, gone) \in SUBSET Nat /\ IsFiniteSet(Left(t, gone))
           /\ DOMAIN Without(t, gone) = 1 .. Cardinality(Left(t, gone))
           /\ \A k \in Left(t, gone) :
                 /\ Count(Left(t, gone), k) + 1 \in 1 .. Cardinality(Left(t, gone))
                 /\ Without(t, gone)[Count(Left(t, gone), k) + 1] = GitLines(t)[k]
           /\ \A n \in 1 .. Cardinality(Left(t, gone)) :
                 \E k \in Left(t, gone) : Count(Left(t, gone), k) + 1 = n
<1>0. PICK K : K = Left(t, gone)
      OBVIOUS
<1>1. K \in SUBSET Nat /\ IsFiniteSet(K)
      BY <1>0, NumbersAre, FS_Subset DEF Left
<1>2. PICK rest : rest = Sorted(K)
      OBVIOUS
<1>3. /\ DOMAIN rest = 1 .. Cardinality(K)
      /\ \A k \in K : Count(K, k) + 1 \in 1 .. Cardinality(K) /\ rest[Count(K, k) + 1] = k
      /\ \A n \in 1 .. Cardinality(K) : rest[n] \in K /\ Count(K, rest[n]) + 1 = n
      BY <1>1, <1>2, SortedIs
<1>4. Without(t, gone) = [i \in DOMAIN rest |-> GitLines(t)[rest[i]]]
      BY <1>0, <1>2 DEF Without, Left
<1>5. \A k \in K : Without(t, gone)[Count(K, k) + 1] = GitLines(t)[k]
      BY <1>3, <1>4
<1>6. DOMAIN Without(t, gone) = 1 .. Cardinality(K)
      BY <1>3, <1>4
<1>7. \A n \in 1 .. Cardinality(K) : \E k \in K : Count(K, k) + 1 = n
      BY <1>3
<1> QED
    BY <1>0, <1>1, <1>3, <1>5, <1>6, <1>7

\* What Init says of the two files, the diff and the selection: the diff leaves the same lines of
\* both files.  No step changes them.
InputsOK ==
    /\ head \in {NoFile} \cup Text /\ work \in {NoFile} \cup Text /\ head # work
    /\ deleted \subseteq Numbers(head) /\ added \subseteq Numbers(work)
    /\ Without(head, deleted) = Without(work, added)
    /\ selDeleted \subseteq deleted /\ selAdded \subseteq added

\* The lines on disk that stay.
KeptWork == Left(work, added)

\* Gaps are numbers of lines that stay before a line.
LEMMA GapsAre ==
    /\ \A i : GapOfDeleted(i) = Count(KeptHead, i)
    /\ \A j : GapOfAdded(j) = Count(KeptWork, j)
  BY DEF GapOfDeleted, GapOfAdded, Gap, Count, KeptHead, KeptWork, Left

\* A line of HEAD's version that stays is on disk too, in the same gap, and the other way round:
\* the same content, and both with a newline or both without.
LEMMA KeptCorrespond ==
    ASSUME InputsOK
    PROVE  /\ KeptHead \in SUBSET Nat /\ IsFiniteSet(KeptHead)
           /\ KeptWork \in SUBSET Nat /\ IsFiniteSet(KeptWork)
           /\ Cardinality(KeptHead) = Cardinality(KeptWork)
           /\ \A k \in KeptHead : \E j \in KeptWork :
                 GapOfDeleted(k) = GapOfAdded(j) /\ GitLines(head)[k] = GitLines(work)[j]
           /\ \A j \in KeptWork : \E k \in KeptHead :
                 GapOfDeleted(k) = GapOfAdded(j) /\ GitLines(head)[k] = GitLines(work)[j]
<1>1. PICK H : H = KeptHead
      OBVIOUS
<1>2. PICK W : W = KeptWork
      OBVIOUS
<1>3. PICK r : r = Without(head, deleted) /\ r = Without(work, added)
      BY DEF InputsOK
<1>0. /\ head \in {NoFile} \cup Text /\ H = Left(head, deleted)
      /\ work \in {NoFile} \cup Text /\ W = Left(work, added)
      BY <1>1, <1>2 DEF InputsOK, KeptHead, KeptWork, Left
<1>4. /\ H \in SUBSET Nat /\ IsFiniteSet(H) /\ DOMAIN r = 1 .. Cardinality(H)
      /\ \A k \in H : Count(H, k) + 1 \in 1 .. Cardinality(H) /\ r[Count(H, k) + 1] = GitLines(head)[k]
      /\ \A n \in 1 .. Cardinality(H) : \E k \in H : Count(H, k) + 1 = n
  <2>1. /\ H \in SUBSET Nat /\ IsFiniteSet(H) /\ DOMAIN Without(head, deleted) = 1 .. Cardinality(H)
        /\ \A k \in H : /\ Count(H, k) + 1 \in 1 .. Cardinality(H)
                       /\ Without(head, deleted)[Count(H, k) + 1] = GitLines(head)[k]
        /\ \A n \in 1 .. Cardinality(H) : \E k \in H : Count(H, k) + 1 = n
        BY ONLY <1>0, WithoutIs
  <2> QED
      BY <1>3, <2>1
<1>5. /\ W \in SUBSET Nat /\ IsFiniteSet(W) /\ DOMAIN r = 1 .. Cardinality(W)
      /\ \A k \in W : Count(W, k) + 1 \in 1 .. Cardinality(W) /\ r[Count(W, k) + 1] = GitLines(work)[k]
      /\ \A n \in 1 .. Cardinality(W) : \E k \in W : Count(W, k) + 1 = n
  <2>1. /\ W \in SUBSET Nat /\ IsFiniteSet(W) /\ DOMAIN Without(work, added) = 1 .. Cardinality(W)
        /\ \A k \in W : /\ Count(W, k) + 1 \in 1 .. Cardinality(W)
                       /\ Without(work, added)[Count(W, k) + 1] = GitLines(work)[k]
        /\ \A n \in 1 .. Cardinality(W) : \E k \in W : Count(W, k) + 1 = n
        BY ONLY <1>0, WithoutIs
  <2> QED
      BY <1>3, <2>1
<1>6. /\ Cardinality(H) \in Nat /\ \A i \in Nat : Count(H, i) \in Nat
      /\ Cardinality(W) \in Nat /\ \A i \in Nat : Count(W, i) \in Nat
      BY <1>4, <1>5, Counting
<1>7. Cardinality(H) = Cardinality(W)
  <2>1. 1 .. Cardinality(H) = 1 .. Cardinality(W)
        BY <1>4, <1>5
  <2>2. Cardinality(1 .. Cardinality(H)) = Cardinality(H) /\ Cardinality(1 .. Cardinality(W)) = Cardinality(W)
    <3>1. \A n \in Nat : Cardinality(1 .. n) = n
          BY FS_Interval
    <3> QED
        BY <1>6, <3>1
  <2> QED
      BY <2>1, <2>2
<1>8. \A k \in H : \E j \in W : Count(H, k) = Count(W, j) /\ GitLines(head)[k] = GitLines(work)[j]
  <2> SUFFICES ASSUME NEW k \in H
               PROVE  \E j \in W : Count(H, k) = Count(W, j) /\ GitLines(head)[k] = GitLines(work)[j]
      OBVIOUS
  <2>1. PICK j \in W : Count(W, j) + 1 = Count(H, k) + 1
        BY <1>4, <1>5, <1>7
  <2>2. Count(W, j) = Count(H, k)
        BY <1>4, <1>5, <1>6, <2>1
  <2> QED
      BY <1>4, <1>5, <2>1, <2>2
<1>9. \A j \in W : \E k \in H : Count(H, k) = Count(W, j) /\ GitLines(head)[k] = GitLines(work)[j]
  <2> SUFFICES ASSUME NEW j \in W
               PROVE  \E k \in H : Count(H, k) = Count(W, j) /\ GitLines(head)[k] = GitLines(work)[j]
      OBVIOUS
  <2>1. PICK k \in H : Count(W, j) + 1 = Count(H, k) + 1
        BY <1>4, <1>5, <1>7
  <2>2. Count(W, j) = Count(H, k)
        BY <1>4, <1>5, <1>6, <2>1
  <2> QED
      BY <1>4, <1>5, <2>1, <2>2
<1> QED
    BY <1>1, <1>2, <1>4, <1>5, <1>7, <1>8, <1>9, GapsAre

-----------------------------------------------------------------------------
(* The right file.                                                         *)

\* The items that come before x.
Earlier(x) == {y \in Items : Before(y, x)}

\* Whether the right file ends in a newline.
EndsInNewline == IF head = NoFile THEN work.newline ELSE head.newline

\* The files that are there are texts, and changed lines are among their lines.
LEMMA InputsAre ==
    ASSUME InputsOK
    PROVE  /\ head # NoFile => head \in Text /\ Numbers(head) = 1 .. Len(head.lines)
           /\ work # NoFile => work \in Text /\ Numbers(work) = 1 .. Len(work.lines)
           /\ head = NoFile => Numbers(head) = {} /\ work # NoFile
           /\ work = NoFile => Numbers(work) = {}
           /\ deleted \in SUBSET Nat /\ IsFiniteSet(deleted)
           /\ added \in SUBSET Nat /\ IsFiniteSet(added)
           /\ selDeleted \in SUBSET deleted /\ selAdded \in SUBSET added
           /\ KeptHead \in SUBSET Nat /\ KeptHead = Numbers(head) \ deleted
           /\ KeptWork \in SUBSET Nat /\ KeptWork = Numbers(work) \ added
<1>1. head \in {NoFile} \cup Text /\ work \in {NoFile} \cup Text /\ head # work
      BY DEF InputsOK
<1>2. /\ Numbers(head) \in SUBSET Nat /\ IsFiniteSet(Numbers(head))
      /\ Numbers(work) \in SUBSET Nat /\ IsFiniteSet(Numbers(work))
      BY <1>1, NumbersAre
<1>3. deleted \in SUBSET Numbers(head) /\ added \in SUBSET Numbers(work)
      BY DEF InputsOK
<1>4. IsFiniteSet(deleted) /\ IsFiniteSet(added)
      BY <1>2, <1>3, FS_Subset
<1>5. selDeleted \in SUBSET deleted /\ selAdded \in SUBSET added
      BY DEF InputsOK
<1>6. KeptHead = Numbers(head) \ deleted /\ KeptWork = Numbers(work) \ added
      BY DEF KeptHead, KeptWork, Left
<1>7. /\ head # NoFile => head \in Text /\ Numbers(head) = 1 .. Len(head.lines)
      /\ work # NoFile => work \in Text /\ Numbers(work) = 1 .. Len(work.lines)
      /\ head = NoFile => Numbers(head) = {}
      /\ work = NoFile => Numbers(work) = {}
      BY <1>1, NumbersAre
<1> QED
    BY <1>1, <1>2, <1>3, <1>4, <1>5, <1>6, <1>7

\* The items: the gap, the kind and the number of a line that the file is made of.
LEMMA ItemsAre ==
    ASSUME InputsOK
    PROVE  /\ IsFiniteSet(Items)
           /\ \A x \in Items : /\ x = <<x[1], x[2], x[3]>>
                               /\ x[1] \in Nat /\ x[2] \in {1, 2, 3} /\ x[3] \in Nat
                               /\ LineOf(x) \in Line
<1>1. /\ deleted \in SUBSET Nat /\ IsFiniteSet(deleted) /\ selDeleted \in SUBSET deleted
      /\ added \in SUBSET Nat /\ IsFiniteSet(added) /\ selAdded \in SUBSET added
      /\ KeptHead \in SUBSET Nat /\ IsFiniteSet(KeptHead)
      /\ KeptWork \in SUBSET Nat /\ IsFiniteSet(KeptWork)
      BY InputsAre, KeptCorrespond
<1>2. PICK D : D = deleted \ selDeleted
      OBVIOUS
<1>3. D \in SUBSET Nat /\ IsFiniteSet(D) /\ IsFiniteSet(selAdded)
      BY <1>1, <1>2, FS_Subset
<1>4. PICK f, g, h : /\ f = [i \in D |-> <<GapOfDeleted(i), 1, i>>]
                     /\ g = [j \in selAdded |-> <<GapOfAdded(j), 2, j>>]
                     /\ h = [i \in KeptHead |-> <<GapOfDeleted(i), 3, i>>]
      OBVIOUS
<1>5. Items = {f[i] : i \in D} \cup {g[j] : j \in selAdded} \cup {h[i] : i \in KeptHead}
      BY <1>2, <1>4 DEF Items
<1>6. IsFiniteSet(Items)
  <2>1. DOMAIN f = D /\ DOMAIN g = selAdded /\ DOMAIN h = KeptHead
        BY <1>4
  <2>2. IsFiniteSet({f[i] : i \in D})
        BY <1>3, <2>1, ImageIs
  <2>3. IsFiniteSet({g[j] : j \in selAdded})
        BY <1>3, <2>1, ImageIs
  <2>4. IsFiniteSet({h[i] : i \in KeptHead})
        BY <1>1, <2>1, ImageIs
  <2> QED
      BY <1>5, <2>2, <2>3, <2>4, FS_Union
<1>7. \A i \in Nat : GapOfDeleted(i) \in Nat /\ GapOfAdded(i) \in Nat
      BY <1>1, GapsAre, Counting
<1>8. ASSUME NEW x \in Items
      PROVE  /\ x = <<x[1], x[2], x[3]>>
             /\ x[1] \in Nat /\ x[2] \in {1, 2, 3} /\ x[3] \in Nat
             /\ IF x[2] = 2 THEN x[3] \in Numbers(work) ELSE x[3] \in Numbers(head)
  <2>1. \A i \in deleted : i \in Numbers(head)
        BY DEF InputsOK
  <2>2. \A i \in added : i \in Numbers(work)
        BY DEF InputsOK
  <2>3. \A i \in KeptHead : i \in Numbers(head)
        BY InputsAre
  <2>4. CASE \E i \in D : x = <<GapOfDeleted(i), 1, i>>
        BY <1>1, <1>2, <1>3, <1>7, <2>1, <2>4
  <2>5. CASE \E j \in selAdded : x = <<GapOfAdded(j), 2, j>>
        BY <1>1, <1>7, <2>2, <2>5
  <2>6. CASE \E i \in KeptHead : x = <<GapOfDeleted(i), 3, i>>
        BY <1>1, <1>7, <2>3, <2>6
  <2> QED
      BY <1>2, <2>4, <2>5, <2>6 DEF Items
<1>9. ASSUME NEW x \in Items
      PROVE  LineOf(x) \in Line
  <2>1. CASE x[2] = 2
    <3>1. work \in Text /\ x[3] \in 1 .. Len(work.lines)
          BY <1>8, <2>1, InputsAre
    <3>2. work.lines[x[3]] \in Line
          BY <3>1, TextIs
    <3> QED
        BY <2>1, <3>2 DEF LineOf
  <2>2. CASE x[2] # 2
    <3>1. head \in Text /\ x[3] \in 1 .. Len(head.lines)
          BY <1>8, <2>2, InputsAre
    <3>2. head.lines[x[3]] \in Line
          BY <3>1, TextIs
    <3> QED
        BY <2>2, <3>2 DEF LineOf
  <2> QED
      BY <2>1, <2>2
<1> QED
    BY <1>6, <1>8, <1>9

\* The right file: the line of an item is where the number of items before it says, and behind
\* the lines of all items there is at most the empty line.
LEMMA ExpectedIs ==
    ASSUME InputsOK
    PROVE  /\ Cardinality(Items) \in Nat /\ Expected \in Seq(Line)
           /\ Len(Expected) = IF EndsInNewline THEN Cardinality(Items) + 1 ELSE Cardinality(Items)
           /\ EndsInNewline => Expected[Cardinality(Items) + 1] = Blank
           /\ \A x \in Items : /\ Cardinality(Earlier(x)) + 1 \in 1 .. Cardinality(Items)
                               /\ Expected[Cardinality(Earlier(x)) + 1] = LineOf(x)
           /\ \A n \in 1 .. Cardinality(Items) : \E x \in Items : Cardinality(Earlier(x)) + 1 = n
<1>1. PICK S : S = Items
      OBVIOUS
<1>2. PICK R : R = {p \in S \X S : Before(p[1], p[2])}
      OBVIOUS
<1>3. PICK order : order = InOrder(S, R)
      OBVIOUS
<1>4. /\ IsFiniteSet(S)
      /\ \A x \in S : /\ x = <<x[1], x[2], x[3]>>
                      /\ x[1] \in Nat /\ x[2] \in Nat /\ x[3] \in Nat
                      /\ LineOf(x) \in Line
      BY <1>1, ItemsAre
<1>5. \A x, y \in S : <<x, y>> \in R <=> Before(x, y)
      BY <1>2
<1>6. \A x \in S : ~Before(x, x)
      BY <1>4 DEF Before
<1>7. \A x, y, z \in S : Before(x, y) /\ Before(y, z) => Before(x, z)
      BY <1>4 DEF Before
<1>8. \A x, y \in S : x = y \/ Before(x, y) \/ Before(y, x)
  <2> SUFFICES ASSUME NEW x \in S, NEW y \in S, ~Before(x, y), ~Before(y, x)
               PROVE  x = y
      OBVIOUS
  <2>1. x[1] = y[1] /\ x[2] = y[2] /\ x[3] = y[3]
        BY <1>4 DEF Before
  <2> QED
      BY <1>4, <2>1
<1>9. /\ \A x \in S : <<x, x>> \notin R
      /\ \A x, y, z \in S : <<x, y>> \in R /\ <<y, z>> \in R => <<x, z>> \in R
      /\ \A x, y \in S : x = y \/ <<x, y>> \in R \/ <<y, x>> \in R
      BY <1>5, <1>6, <1>7, <1>8
<1>10. /\ Cardinality(S) \in Nat
       /\ DOMAIN order = 1 .. Cardinality(S)
       /\ \A x \in S : Place(x, S, R) \in 1 .. Cardinality(S) /\ order[Place(x, S, R)] = x
       /\ \A n \in 1 .. Cardinality(S) : order[n] \in S /\ Place(order[n], S, R) = n
  <2>1. IsFiniteSet(S)
        BY <1>4
  <2> QED
      BY <1>3, <1>9, <2>1, OrderIs
<1>11. \A x \in S : Place(x, S, R) = Cardinality(Earlier(x)) + 1
  <2>1. \A x \in S : {y \in S : <<y, x>> \in R} = Earlier(x)
        BY <1>1, <1>5 DEF Earlier
  <2> QED
      BY <2>1 DEF Place
<1>12. PICK lines : lines = [n \in DOMAIN order |-> LineOf(order[n])]
       OBVIOUS
<1>13. Expected = IF EndsInNewline THEN Append(lines, Blank) ELSE lines
       BY <1>1, <1>2, <1>3, <1>12 DEF Expected, EndsInNewline
<1>14. /\ lines \in Seq(Line) /\ Len(lines) = Cardinality(S)
       /\ \A n \in 1 .. Cardinality(S) : lines[n] = LineOf(order[n])
       BY <1>4, <1>10, <1>12
<1>15. /\ Expected \in Seq(Line)
       /\ Len(Expected) = IF EndsInNewline THEN Cardinality(S) + 1 ELSE Cardinality(S)
       /\ \A n \in 1 .. Cardinality(S) : Expected[n] = lines[n]
       /\ EndsInNewline => Expected[Cardinality(S) + 1] = Blank
  <2>1. Blank \in Line
        BY LineAssumption
  <2>2. PICK e : e = Expected
        OBVIOUS
  <2>3. CASE EndsInNewline
        BY <1>10, <1>13, <1>14, <2>1, <2>2, <2>3
  <2>4. CASE ~EndsInNewline
        BY <1>10, <1>13, <1>14, <2>2, <2>4
  <2> QED
      BY <2>3, <2>4
<1>16. \A x \in S : /\ Cardinality(Earlier(x)) + 1 \in 1 .. Cardinality(S)
                    /\ Expected[Cardinality(Earlier(x)) + 1] = LineOf(x)
       BY <1>10, <1>11, <1>14, <1>15
<1>17. \A n \in 1 .. Cardinality(S) : \E x \in S : Cardinality(Earlier(x)) + 1 = n
       BY <1>10, <1>11
<1> QED
    BY <1>1, <1>10, <1>15, <1>16, <1>17

-----------------------------------------------------------------------------
(* The walk through a modified file.                                       *)

HeadLen == Len(head.lines)
WorkLen == Len(work.lines)

\* The items whose lines were passed when the loop is at line i of HEAD's version and at line j on
\* disk.
Consumed(i, j) == {x \in Items : IF x[2] = 2 THEN x[3] < j ELSE x[3] < i}

\* At lines i and j, which are in the same gap, s is made of the items passed.  The deletions of a
\* gap are passed before its first added line.
WalkingAt(i, j, s) ==
    /\ i \in 1 .. HeadLen + 1 /\ j \in 1 .. WorkLen + 1
    /\ GapOfDeleted(i) = GapOfAdded(j)
    /\ (\E a \in added : a < j /\ GapOfAdded(a) = GapOfAdded(j)) => i \notin deleted
    /\ s \in Seq(Line) /\ IsPrefix(s, Expected) /\ Len(s) = Cardinality(Consumed(i, j))

\* The loop has also passed the empty lines behind the last newlines.
FinishedAt(i, j, s) ==
    /\ i = HeadLen + 2 /\ j = WorkLen + 2 /\ head.newline /\ work.newline
    /\ s = Expected

\* Lines and gaps of a modified file: a gap ends with a line that stays.
LEMMA ModifiedIs ==
    ASSUME InputsOK, Modified
    PROVE  /\ head \in Text /\ HeadLen \in Nat /\ Numbers(head) = 1 .. HeadLen
           /\ work \in Text /\ WorkLen \in Nat /\ Numbers(work) = 1 .. WorkLen
           /\ \A k \in deleted : k \in Nat /\ 1 <= k /\ k <= HeadLen /\ k \notin KeptHead
           /\ \A k \in KeptHead : k \in Nat /\ 1 <= k /\ k <= HeadLen /\ k \notin deleted
           /\ \A k \in 1 .. HeadLen : k \in deleted \/ k \in KeptHead
           /\ \A k \in added : k \in Nat /\ 1 <= k /\ k <= WorkLen /\ k \notin KeptWork
           /\ \A k \in KeptWork : k \in Nat /\ 1 <= k /\ k <= WorkLen /\ k \notin added
           /\ \A k \in 1 .. WorkLen : k \in added \/ k \in KeptWork
<1>1. /\ head \in Text /\ Numbers(head) = 1 .. HeadLen
      /\ work \in Text /\ Numbers(work) = 1 .. WorkLen
      BY InputsAre DEF Modified, HeadLen, WorkLen
<1>2. HeadLen \in Nat /\ WorkLen \in Nat
      BY <1>1, TextIs DEF HeadLen, WorkLen
<1>3. KeptHead = Numbers(head) \ deleted /\ KeptWork = Numbers(work) \ added
      BY InputsAre
<1>4. deleted \subseteq Numbers(head) /\ added \subseteq Numbers(work)
      BY DEF InputsOK
<1> QED
    BY <1>1, <1>2, <1>3, <1>4

\* Gaps grow along the lines, by one behind each line that stays.
LEMMA GapsGrow ==
    ASSUME InputsOK
    PROVE  /\ \A i \in Nat : GapOfDeleted(i) \in Nat /\ GapOfAdded(i) \in Nat
           /\ \A i, k \in Nat : i <= k => GapOfDeleted(i) <= GapOfDeleted(k) /\ GapOfAdded(i) <= GapOfAdded(k)
           /\ \A i, k \in Nat : i < k => /\ i \in KeptHead => GapOfDeleted(i) < GapOfDeleted(k)
                                         /\ i \in KeptWork => GapOfAdded(i) < GapOfAdded(k)
           /\ \A i \in Nat : /\ GapOfDeleted(i + 1) = GapOfDeleted(i) + IF i \in KeptHead THEN 1 ELSE 0
                             /\ GapOfAdded(i + 1) = GapOfAdded(i) + IF i \in KeptWork THEN 1 ELSE 0
<1>1. PICK H : H = KeptHead
      OBVIOUS
<1>2. PICK W : W = KeptWork
      OBVIOUS
<1>3. H \in SUBSET Nat /\ IsFiniteSet(H) /\ W \in SUBSET Nat /\ IsFiniteSet(W)
      BY <1>1, <1>2, KeptCorrespond
<1>4. /\ \A i \in Nat : Count(H, i) \in Nat /\ Count(W, i) \in Nat
      /\ \A i, k \in Nat : i <= k => Count(H, i) <= Count(H, k) /\ Count(W, i) <= Count(W, k)
      BY <1>3, Counting
<1>5. \A i, k \in Nat : i < k => (i \in H => Count(H, i) < Count(H, k)) /\ (i \in W => Count(W, i) < Count(W, k))
      BY <1>3, Counting
<1>6. \A i \in Nat : /\ Count(H, i + 1) = Count(H, i) + IF i \in H THEN 1 ELSE 0
                     /\ Count(W, i + 1) = Count(W, i) + IF i \in W THEN 1 ELSE 0
      BY <1>3, Counting
<1>7. (\A i : GapOfDeleted(i) = Count(H, i)) /\ (\A i : GapOfAdded(i) = Count(W, i))
      BY <1>1, <1>2, GapsAre
<1> QED
    BY <1>1, <1>2, <1>4, <1>5, <1>6, <1>7

\* Where the walk is at a line that stays, or at the end, in both files, it is the same line.
LEMMA SameLine ==
    ASSUME InputsOK, Modified, NEW i, NEW j, NEW s, WalkingAt(i, j, s), i \notin deleted, j \notin added
    PROVE  \/ i \in KeptHead /\ j \in KeptWork /\ GitLines(head)[i] = GitLines(work)[j]
           \/ i = HeadLen + 1 /\ j = WorkLen + 1
<1>1. i \in Nat /\ j \in Nat /\ (i \in KeptHead \/ i = HeadLen + 1) /\ (j \in KeptWork \/ j = WorkLen + 1)
      BY ModifiedIs DEF WalkingAt
<1>2. GapOfDeleted(i) = GapOfAdded(j)
      BY DEF WalkingAt
<1>3. CASE i \in KeptHead
  <2>1. PICK k \in KeptWork : GapOfDeleted(i) = GapOfAdded(k) /\ GitLines(head)[i] = GitLines(work)[k]
        BY <1>3, KeptCorrespond
  <2>2. k \in Nat /\ k <= WorkLen /\ WorkLen \in Nat
        BY ModifiedIs
  <2>0. GapOfAdded(k) \in Nat /\ GapOfAdded(j) = GapOfAdded(k)
        BY <1>2, <2>1, <2>2, GapsGrow
  <2>3. ~(k < j)
    <3>1. k < j => GapOfAdded(k) < GapOfAdded(j)
          BY <1>1, <2>2, GapsGrow
    <3> QED
        BY <2>0, <3>1
  <2>4. ~(j < k /\ j \in KeptWork)
    <3>1. j < k /\ j \in KeptWork => GapOfAdded(j) < GapOfAdded(k)
          BY <1>1, <2>2, GapsGrow
    <3> QED
        BY <2>0, <3>1
  <2>5. j = k
        BY <1>1, <2>2, <2>3, <2>4
  <2> QED
      BY <1>3, <2>1, <2>5
<1>4. CASE i = HeadLen + 1
  <2>1. SUFFICES ASSUME j \in KeptWork PROVE FALSE
        BY <1>1, <1>4
  <2>2. PICK k \in KeptHead : GapOfDeleted(k) = GapOfAdded(j)
        BY <2>1, KeptCorrespond
  <2>3. k \in Nat /\ k < i
        BY <1>4, ModifiedIs
  <2> QED
      BY <1>1, <1>2, <2>2, <2>3, GapsGrow
<1> QED
    BY <1>1, <1>3, <1>4

\* Where no added line is left in the gap, a deletion that is still to be passed is followed by
\* the line that the walk is at on disk; so they differ.
LEMMA DeletionDiffers ==
    ASSUME InputsOK, Modified, DeletedLinesDiffer, NEW i, NEW j, NEW s, WalkingAt(i, j, s),
           i \in deleted, j \notin added, j <= Len(LinesIn(work))
    PROVE  LinesIn(head)[i] # LinesIn(work)[j]
<1>1. i \in Nat /\ j \in Nat /\ (j \in KeptWork \/ j = WorkLen + 1) /\ i \in 1 .. HeadLen
      BY ModifiedIs DEF WalkingAt
<1>2. GapOfDeleted(i) = GapOfAdded(j)
      BY DEF WalkingAt
<1>3. \A a \in added : GapOfAdded(a) # GapOfDeleted(i)
  <2> SUFFICES ASSUME NEW a \in added, GapOfAdded(a) = GapOfAdded(j)
               PROVE  FALSE
      BY <1>2
  <2>1. a \in Nat /\ a # j /\ (j = WorkLen + 1 => a < j)
        BY ModifiedIs
  <2>2. CASE a < j
        BY <2>2 DEF WalkingAt
  <2>3. CASE j < a /\ j \in KeptWork
        BY <1>1, <2>1, <2>3, GapsGrow
  <2> QED
      BY <1>1, <2>1, <2>2, <2>3
<1> DEFINE next == {k \in KeptHead : k > i}
<1>4. head.lines[i] # IF next = {} THEN Blank ELSE head.lines[Min(next)]
      BY <1>3 DEF DeletedLinesDiffer
<1>5. LinesIn(head)[i] = head.lines[i]
      BY <1>1, ModifiedIs, TextIs DEF HeadLen
<1>6. CASE j \in KeptWork
  <2>1. PICK k \in KeptHead : GapOfDeleted(k) = GapOfAdded(j) /\ GitLines(head)[k] = GitLines(work)[j]
        BY <1>6, KeptCorrespond
  <2>2. k \in Nat /\ k \in 1 .. HeadLen /\ j \in 1 .. WorkLen /\ k # i
        BY <1>6, <2>1, ModifiedIs
  <2>3. k > i
        BY <1>1, <1>2, <2>1, <2>2, GapsGrow
  <2>4. \A m \in next : k <= m
    <3> SUFFICES ASSUME NEW m \in KeptHead, m > i, m < k
                 PROVE  FALSE
        BY <2>2, ModifiedIs
    <3>1. m \in Nat
          BY ModifiedIs
    <3>2. GapOfDeleted(m) < GapOfDeleted(k) /\ GapOfDeleted(i) <= GapOfDeleted(m)
          BY <1>1, <2>2, <3>1, GapsGrow
    <3>3. GapOfDeleted(m) \in Nat /\ GapOfDeleted(k) \in Nat /\ GapOfDeleted(i) \in Nat
          BY <1>1, <2>2, <3>1, GapsGrow
    <3> QED
        BY <1>2, <2>1, <3>2, <3>3
  <2>5. k \in next
        BY <2>1, <2>3
  <2>6. Min(next) = k
    <3>1. \A m \in next : m \in Nat
          BY ModifiedIs
    <3> HIDE DEF next
    <3>2. \A m \in next : (\A n \in next : m <= n) => m = k
          BY <2>2, <2>4, <2>5, <3>1
    <3> QED
        BY <2>4, <2>5, <3>2 DEF Min
  <2>7. head.lines[k] = work.lines[j]
    <3>1. <<head.lines[k], head.newline \/ k < Len(head.lines)>> = <<work.lines[j], work.newline \/ j < Len(work.lines)>>
          BY <2>1, <2>2, ModifiedIs DEF GitLines
    <3> QED
        BY <3>1
  <2>8. LinesIn(work)[j] = work.lines[j]
        BY <2>2, ModifiedIs, TextIs DEF WorkLen
  <2> QED
      BY <1>4, <1>5, <2>5, <2>6, <2>7, <2>8
<1>7. CASE j = WorkLen + 1
  <2>1. next = {}
    <3> SUFFICES ASSUME NEW k \in KeptHead, k > i
                 PROVE  FALSE
        OBVIOUS
    <3>1. PICK m \in KeptWork : GapOfDeleted(k) = GapOfAdded(m)
          BY KeptCorrespond
    <3>2. k \in Nat /\ m \in Nat /\ m < j
          BY <1>7, ModifiedIs
    <3>3. GapOfAdded(m) < GapOfAdded(j) /\ GapOfDeleted(i) <= GapOfDeleted(k)
          BY <1>1, <3>2, GapsGrow
    <3>4. GapOfAdded(m) \in Nat /\ GapOfAdded(j) \in Nat /\ GapOfDeleted(i) \in Nat /\ GapOfDeleted(k) \in Nat
          BY <1>1, <3>2, GapsGrow
    <3> QED
        BY <1>2, <3>1, <3>3, <3>4
  <2>2. LinesIn(work)[j] = Blank
    <3>1. work \in Text /\ Len(work.lines) = WorkLen /\ WorkLen \in Nat
          BY ModifiedIs DEF WorkLen
    <3>2. work.newline
          BY <1>7, <3>1, TextIs
    <3> QED
        BY <1>7, <3>1, <3>2, TextIs
  <2> QED
      BY <1>4, <1>5, <2>1, <2>2
<1> QED
    BY <1>1, <1>6, <1>7

\* An item is a deleted line that stays, an added line that is taken or a line in both files.
LEMMA ItemKinds ==
    ASSUME NEW x \in Items
    PROVE  \/ \E k \in deleted \ selDeleted : x = <<GapOfDeleted(k), 1, k>>
           \/ \E k \in selAdded : x = <<GapOfAdded(k), 2, k>>
           \/ \E k \in KeptHead : x = <<GapOfDeleted(k), 3, k>>
  BY DEF Items

\* When the items passed are those before x, the line of x is the one that comes next.
LEMMA TakeItem ==
    ASSUME InputsOK, NEW x \in Items, NEW s \in Seq(Line), IsPrefix(s, Expected),
           Len(s) = Cardinality(Earlier(x))
    PROVE  /\ Append(s, LineOf(x)) \in Seq(Line) /\ IsPrefix(Append(s, LineOf(x)), Expected)
           /\ Len(Append(s, LineOf(x))) = Cardinality(Earlier(x) \cup {x})
<1>1. /\ Expected \in Seq(Line) /\ Cardinality(Items) \in Nat
      /\ Len(Expected) >= Cardinality(Items)
      /\ Cardinality(Earlier(x)) + 1 \in 1 .. Cardinality(Items)
      /\ Expected[Cardinality(Earlier(x)) + 1] = LineOf(x)
      BY ExpectedIs
<1>2. LineOf(x) \in Line /\ ~Before(x, x) /\ IsFiniteSet(Items)
      BY ItemsAre DEF Before
<1>3. Earlier(x) \in SUBSET Items /\ x \notin Earlier(x)
      BY <1>2 DEF Earlier
<1>4. Cardinality(Earlier(x) \cup {x}) = Cardinality(Earlier(x)) + 1
  <2>1. IsFiniteSet(Earlier(x))
        BY <1>2, <1>3, FS_Subset
  <2> QED
      BY <1>3, <2>1, FS_AddElement
<1>5. PICK e : e = Expected
      OBVIOUS
<1>6. PICK l : l = LineOf(x)
      OBVIOUS
<1>7. PICK u : u = Append(s, l)
      OBVIOUS
<1>8. /\ u \in Seq(Line) /\ Len(s) \in Nat /\ Len(u) = Len(s) + 1 /\ u[Len(s) + 1] = l
      /\ \A n \in 1 .. Len(s) : u[n] = s[n]
      BY <1>2, <1>6, <1>7
<1>9. e \in Seq(Line) /\ Len(e) \in Nat /\ Len(s) + 1 <= Len(e) /\ e[Len(s) + 1] = l
      BY <1>1, <1>5, <1>6, <1>8
<1>10. \A n \in 1 .. Len(s) : s[n] = e[n]
       BY <1>5, <1>9, PrefixIs
<1>11. \A n \in 1 .. Len(u) : u[n] = e[n]
       BY <1>8, <1>9, <1>10
<1>12. IsPrefix(u, e)
       BY <1>8, <1>9, <1>11, PrefixIs
<1> QED
    BY <1>4, <1>5, <1>6, <1>7, <1>8, <1>12

\* A deletion that stays: before it come just the items passed.
LEMMA NextIsDeleted ==
    ASSUME InputsOK, Modified, NEW i, NEW j, NEW s, WalkingAt(i, j, s), i \in deleted \ selDeleted,
           NEW x, x = <<GapOfDeleted(i), 1, i>>
    PROVE  /\ x \in Items /\ LineOf(x) = head.lines[i]
           /\ Consumed(i, j) = Earlier(x) /\ Consumed(i + 1, j) = Earlier(x) \cup {x}
<1>1. x \in Items /\ LineOf(x) = head.lines[i]
      BY DEF Items, LineOf
<1>2. i \in Nat /\ j \in Nat /\ GapOfDeleted(i) = GapOfAdded(j) /\ GapOfDeleted(i) \in Nat
      /\ \A a \in added : a < j => GapOfAdded(a) # GapOfAdded(j)
      BY ModifiedIs, GapsGrow DEF WalkingAt
<1>3. ASSUME NEW y \in Items
      PROVE  /\ (IF y[2] = 2 THEN y[3] < j ELSE y[3] < i) <=> Before(y, x)
             /\ (IF y[2] = 2 THEN y[3] < j ELSE y[3] < i + 1) <=> (Before(y, x) \/ y = x)
  <2>1. CASE \E k \in deleted \ selDeleted : y = <<GapOfDeleted(k), 1, k>>
    <3>1. PICK k \in deleted \ selDeleted : y = <<GapOfDeleted(k), 1, k>>
          BY <2>1
    <3>2. k \in Nat
          BY ModifiedIs
    <3>3. GapOfDeleted(k) \in Nat /\ (k <= i => GapOfDeleted(k) <= GapOfDeleted(i))
          /\ (i <= k => GapOfDeleted(i) <= GapOfDeleted(k))
          BY <1>2, <3>2, GapsGrow
    <3> QED
        BY <1>2, <3>1, <3>2, <3>3 DEF Before
  <2>2. CASE \E k \in selAdded : y = <<GapOfAdded(k), 2, k>>
    <3>1. PICK k \in selAdded : y = <<GapOfAdded(k), 2, k>>
          BY <2>2
    <3>2. k \in Nat /\ k \in added
          BY ModifiedIs DEF InputsOK
    <3>3. GapOfAdded(k) \in Nat /\ (k <= j => GapOfAdded(k) <= GapOfAdded(j))
          /\ (j <= k => GapOfAdded(j) <= GapOfAdded(k))
          BY <1>2, <3>2, GapsGrow
    <3> QED
        BY <1>2, <3>1, <3>2, <3>3 DEF Before
  <2>3. CASE \E k \in KeptHead : y = <<GapOfDeleted(k), 3, k>>
    <3>1. PICK k \in KeptHead : y = <<GapOfDeleted(k), 3, k>>
          BY <2>3
    <3>2. k \in Nat /\ k # i
          BY ModifiedIs
    <3>3. GapOfDeleted(k) \in Nat /\ (k < i => GapOfDeleted(k) < GapOfDeleted(i))
          /\ (i <= k => GapOfDeleted(i) <= GapOfDeleted(k))
          BY <1>2, <3>2, GapsGrow
    <3> QED
        BY <1>2, <3>1, <3>2, <3>3 DEF Before
  <2> QED
      BY <2>1, <2>2, <2>3, ItemKinds
<1> QED
    BY <1>1, <1>3 DEF Consumed, Earlier

\* An added line that is taken, behind the deletions of its gap.
LEMMA NextIsAdded ==
    ASSUME InputsOK, Modified, NEW i, NEW j, NEW s, WalkingAt(i, j, s), i \notin deleted, j \in selAdded,
           NEW x, x = <<GapOfAdded(j), 2, j>>
    PROVE  /\ x \in Items /\ LineOf(x) = work.lines[j]
           /\ Consumed(i, j) = Earlier(x) /\ Consumed(i, j + 1) = Earlier(x) \cup {x}
<1>1. x \in Items /\ LineOf(x) = work.lines[j]
      BY DEF Items, LineOf
<1>2. i \in Nat /\ j \in Nat /\ GapOfDeleted(i) = GapOfAdded(j) /\ GapOfDeleted(i) \in Nat
      /\ (i \in KeptHead \/ i = HeadLen + 1) /\ HeadLen \in Nat
  <2>1. i \in Nat /\ j \in Nat /\ GapOfDeleted(i) = GapOfAdded(j) /\ i \in 1 .. HeadLen + 1 /\ HeadLen \in Nat
        BY ModifiedIs DEF WalkingAt
  <2>2. i \in KeptHead \/ i = HeadLen + 1
        BY <2>1, ModifiedIs
  <2> QED
      BY <2>1, <2>2, GapsGrow
<1>3. ASSUME NEW y \in Items
      PROVE  /\ (IF y[2] = 2 THEN y[3] < j ELSE y[3] < i) <=> Before(y, x)
             /\ (IF y[2] = 2 THEN y[3] < j + 1 ELSE y[3] < i) <=> (Before(y, x) \/ y = x)
  <2>1. CASE \E k \in deleted \ selDeleted : y = <<GapOfDeleted(k), 1, k>>
    <3>1. PICK k \in deleted \ selDeleted : y = <<GapOfDeleted(k), 1, k>>
          BY <2>1
    <3>2. k \in Nat /\ k <= HeadLen /\ k # i
          BY ModifiedIs
    <3>3. GapOfDeleted(k) \in Nat /\ (k <= i => GapOfDeleted(k) <= GapOfDeleted(i))
          BY <1>2, <3>2, GapsGrow
    <3>4. i < k => GapOfDeleted(i) < GapOfDeleted(k)
          BY <1>2, <3>2, GapsGrow
    <3> QED
        BY <1>2, <3>1, <3>2, <3>3, <3>4 DEF Before
  <2>2. CASE \E k \in selAdded : y = <<GapOfAdded(k), 2, k>>
    <3>1. PICK k \in selAdded : y = <<GapOfAdded(k), 2, k>>
          BY <2>2
    <3>2. k \in Nat
          BY ModifiedIs DEF InputsOK
    <3>3. GapOfAdded(k) \in Nat /\ (k <= j => GapOfAdded(k) <= GapOfAdded(j))
          /\ (j <= k => GapOfAdded(j) <= GapOfAdded(k))
          BY <1>2, <3>2, GapsGrow
    <3> QED
        BY <1>2, <3>1, <3>2, <3>3 DEF Before
  <2>3. CASE \E k \in KeptHead : y = <<GapOfDeleted(k), 3, k>>
    <3>1. PICK k \in KeptHead : y = <<GapOfDeleted(k), 3, k>>
          BY <2>3
    <3>2. k \in Nat
          BY ModifiedIs
    <3>3. GapOfDeleted(k) \in Nat /\ (k < i => GapOfDeleted(k) < GapOfDeleted(i))
          /\ (i <= k => GapOfDeleted(i) <= GapOfDeleted(k))
          BY <1>2, <3>2, GapsGrow
    <3> QED
        BY <1>2, <3>1, <3>2, <3>3 DEF Before
  <2> QED
      BY <2>1, <2>2, <2>3, ItemKinds
<1> QED
    BY <1>1, <1>3 DEF Consumed, Earlier

\* A line that stays, at the end of its gap.
LEMMA NextIsKept ==
    ASSUME InputsOK, Modified, NEW i, NEW j, NEW s, WalkingAt(i, j, s), i \in KeptHead, j \in KeptWork,
           NEW x, x = <<GapOfDeleted(i), 3, i>>
    PROVE  /\ x \in Items /\ LineOf(x) = head.lines[i]
           /\ Consumed(i, j) = Earlier(x) /\ Consumed(i + 1, j + 1) = Earlier(x) \cup {x}
<1>1. x \in Items /\ LineOf(x) = head.lines[i]
      BY DEF Items, LineOf
<1>2. i \in Nat /\ j \in Nat /\ GapOfDeleted(i) = GapOfAdded(j) /\ GapOfDeleted(i) \in Nat
      BY ModifiedIs, GapsGrow DEF WalkingAt
<1>3. ASSUME NEW y \in Items
      PROVE  /\ (IF y[2] = 2 THEN y[3] < j ELSE y[3] < i) <=> Before(y, x)
             /\ (IF y[2] = 2 THEN y[3] < j + 1 ELSE y[3] < i + 1) <=> (Before(y, x) \/ y = x)
  <2>1. CASE \E k \in deleted \ selDeleted : y = <<GapOfDeleted(k), 1, k>>
    <3>1. PICK k \in deleted \ selDeleted : y = <<GapOfDeleted(k), 1, k>>
          BY <2>1
    <3>2. k \in Nat /\ k # i
          BY ModifiedIs
    <3>3. GapOfDeleted(k) \in Nat /\ (k <= i => GapOfDeleted(k) <= GapOfDeleted(i))
          BY <1>2, <3>2, GapsGrow
    <3>4. i < k => GapOfDeleted(i) < GapOfDeleted(k)
          BY <1>2, <3>2, GapsGrow
    <3> QED
        BY <1>2, <3>1, <3>2, <3>3, <3>4 DEF Before
  <2>2. CASE \E k \in selAdded : y = <<GapOfAdded(k), 2, k>>
    <3>1. PICK k \in selAdded : y = <<GapOfAdded(k), 2, k>>
          BY <2>2
    <3>2. k \in Nat /\ k # j
          BY ModifiedIs DEF InputsOK
    <3>3. GapOfAdded(k) \in Nat /\ (k <= j => GapOfAdded(k) <= GapOfAdded(j))
          BY <1>2, <3>2, GapsGrow
    <3>4. j < k => GapOfAdded(j) < GapOfAdded(k)
          BY <1>2, <3>2, GapsGrow
    <3> QED
        BY <1>2, <3>1, <3>2, <3>3, <3>4 DEF Before
  <2>3. CASE \E k \in KeptHead : y = <<GapOfDeleted(k), 3, k>>
    <3>1. PICK k \in KeptHead : y = <<GapOfDeleted(k), 3, k>>
          BY <2>3
    <3>2. k \in Nat
          BY ModifiedIs
    <3>3. GapOfDeleted(k) \in Nat /\ (k < i => GapOfDeleted(k) < GapOfDeleted(i))
          BY <1>2, <3>2, GapsGrow
    <3>4. i < k => GapOfDeleted(i) < GapOfDeleted(k)
          BY <1>2, <3>2, GapsGrow
    <3> QED
        BY <1>2, <3>1, <3>2, <3>3, <3>4 DEF Before
  <2> QED
      BY <2>1, <2>2, <2>3, ItemKinds
<1> QED
    BY <1>1, <1>3 DEF Consumed, Earlier

\* Lines that are not taken are no items, and behind the last lines all items were passed.
LEMMA NothingNext ==
    ASSUME InputsOK, Modified, NEW i \in Nat, NEW j \in Nat
    PROVE  /\ i \in selDeleted => Consumed(i + 1, j) = Consumed(i, j)
           /\ j \in added \ selAdded => Consumed(i, j + 1) = Consumed(i, j)
           /\ i > HeadLen /\ j > WorkLen => Consumed(i, j) = Items
<1>1. ASSUME NEW y \in Items
      PROVE  /\ IF y[2] = 2 THEN y[3] \in selAdded ELSE y[3] \in KeptHead \cup (deleted \ selDeleted)
             /\ y[3] \in Nat /\ IF y[2] = 2 THEN y[3] <= WorkLen ELSE y[3] <= HeadLen
  <2>1. \A k \in selAdded : k \in Nat /\ k <= WorkLen
        BY ModifiedIs DEF InputsOK
  <2>2. \A k \in KeptHead \cup (deleted \ selDeleted) : k \in Nat /\ k <= HeadLen
        BY ModifiedIs
  <2> QED
      BY <2>1, <2>2, ItemKinds
<1>2. HeadLen \in Nat /\ WorkLen \in Nat /\ selDeleted \subseteq deleted /\ \A k \in deleted : k \notin KeptHead
      BY ModifiedIs DEF InputsOK
<1>3. ASSUME i \in selDeleted, NEW y \in Items
      PROVE  (IF y[2] = 2 THEN y[3] < j ELSE y[3] < i + 1) <=> (IF y[2] = 2 THEN y[3] < j ELSE y[3] < i)
      BY <1>1, <1>2, <1>3
<1>4. ASSUME j \in added \ selAdded, NEW y \in Items
      PROVE  (IF y[2] = 2 THEN y[3] < j + 1 ELSE y[3] < i) <=> (IF y[2] = 2 THEN y[3] < j ELSE y[3] < i)
      BY <1>1, <1>2, <1>4
<1>5. ASSUME i > HeadLen, j > WorkLen, NEW y \in Items
      PROVE  IF y[2] = 2 THEN y[3] < j ELSE y[3] < i
      BY <1>1, <1>2, <1>5
<1> QED
    BY <1>3, <1>4, <1>5 DEF Consumed

\* Both files have the line: the walk goes on behind it, or has come to the end of both files.
LEMMA TakesBoth ==
    ASSUME InputsOK, Modified, DeletedLinesDiffer, NEW i, NEW j, NEW s, WalkingAt(i, j, s),
           i <= Len(LinesIn(head)), j <= Len(LinesIn(work)),
           LinesIn(head)[i] = LinesIn(work)[j], j \notin added
    PROVE  \/ WalkingAt(i + 1, j + 1, Append(s, LinesIn(work)[j]))
           \/ FinishedAt(i + 1, j + 1, Append(s, LinesIn(work)[j]))
<1>1. i \notin deleted
      BY DeletionDiffers
<1>2. /\ i \in 1 .. HeadLen + 1 /\ j \in 1 .. WorkLen + 1 /\ GapOfDeleted(i) = GapOfAdded(j)
      /\ s \in Seq(Line) /\ IsPrefix(s, Expected) /\ Len(s) = Cardinality(Consumed(i, j))
      /\ HeadLen \in Nat /\ WorkLen \in Nat /\ head \in Text /\ work \in Text
      /\ Len(head.lines) = HeadLen /\ Len(work.lines) = WorkLen
      BY ModifiedIs DEF WalkingAt, HeadLen, WorkLen
<1>3. CASE i \in KeptHead /\ j \in KeptWork
  <2>1. PICK x : x = <<GapOfDeleted(i), 3, i>>
        OBVIOUS
  <2>2. /\ x \in Items /\ LineOf(x) = head.lines[i]
        /\ Consumed(i, j) = Earlier(x) /\ Consumed(i + 1, j + 1) = Earlier(x) \cup {x}
        BY <1>3, <2>1, NextIsKept
  <2>3. i \in 1 .. HeadLen /\ j \in 1 .. WorkLen
        BY <1>2, <1>3, ModifiedIs
  <2>4. LinesIn(work)[j] = LineOf(x)
        BY <1>2, <2>2, <2>3, TextIs
  <2>5. /\ Append(s, LineOf(x)) \in Seq(Line) /\ IsPrefix(Append(s, LineOf(x)), Expected)
        /\ Len(Append(s, LineOf(x))) = Cardinality(Consumed(i + 1, j + 1))
        BY <1>2, <2>2, TakeItem
  <2>6. /\ GapOfDeleted(i + 1) = GapOfAdded(j + 1)
        /\ \A a \in added : a < j + 1 => GapOfAdded(a) # GapOfAdded(j + 1)
    <3>1. i \in Nat /\ j \in Nat
          BY <2>3
    <3>2. GapOfDeleted(i + 1) = GapOfDeleted(i) + 1 /\ GapOfAdded(j + 1) = GapOfAdded(j) + 1
          BY <1>3, <3>1, GapsGrow
    <3>3. ASSUME NEW a \in added, a < j + 1 PROVE GapOfAdded(a) <= GapOfAdded(j) /\ GapOfAdded(a) \in Nat
      <4>1. a \in Nat
            BY ModifiedIs
      <4>2. a <= j
            BY <3>1, <3>3, <4>1
      <4> QED
          BY <3>1, <4>1, <4>2, GapsGrow
    <3>4. GapOfAdded(j) \in Nat
          BY <3>1, GapsGrow
    <3> QED
        BY <1>2, <3>2, <3>3, <3>4
  <2>7. i + 1 \in 1 .. HeadLen + 1 /\ j + 1 \in 1 .. WorkLen + 1
        BY <1>2, <2>3
  <2> QED
      BY <2>4, <2>5, <2>6, <2>7 DEF WalkingAt
<1>4. CASE i = HeadLen + 1 /\ j = WorkLen + 1
  <2>1. head.newline /\ work.newline /\ LinesIn(work)[j] = Blank
    <3>1. head.newline /\ work.newline
          BY <1>2, <1>4, TextIs
    <3> QED
        BY <1>2, <1>4, <3>1, TextIs
  <2>2. Consumed(i, j) = Items
        BY <1>2, <1>4, NothingNext
  <2>3. EndsInNewline
        BY <2>1 DEF EndsInNewline, Modified
  <2>4. PICK e : e = Expected
        OBVIOUS
  <2>5. e \in Seq(Line) /\ Len(s) \in Nat /\ Len(e) = Len(s) + 1 /\ e[Len(s) + 1] = Blank
        BY <1>2, <2>2, <2>3, <2>4, ExpectedIs
  <2>6. \A n \in 1 .. Len(s) : s[n] = e[n]
    <3>1. s \in Seq(Line) /\ e \in Seq(Line) /\ IsPrefix(s, e)
          BY <1>2, <2>4, <2>5
    <3> QED
        BY <3>1, PrefixIs
  <2>7. Append(s, Blank) = e
    <3>1. PICK u : u = Append(s, Blank)
          OBVIOUS
    <3>2. u \in Seq(Line) /\ Len(u) = Len(s) + 1 /\ u[Len(s) + 1] = Blank /\ \A n \in 1 .. Len(s) : u[n] = s[n]
          BY <1>2, <3>1, LineAssumption
    <3>3. \A n \in 1 .. Len(e) : u[n] = e[n]
          BY <2>5, <2>6, <3>2
    <3> QED
        BY <2>5, <3>1, <3>2, <3>3
  <2> QED
      BY <1>2, <1>4, <2>1, <2>4, <2>7 DEF FinishedAt
<1> QED
    BY <1>1, <1>3, <1>4, SameLine

\* A deletion is passed: its line is taken unless it is selected.
LEMMA PassesDeleted ==
    ASSUME InputsOK, Modified, NEW i, NEW j, NEW s, WalkingAt(i, j, s), i \in deleted
    PROVE  /\ i \in selDeleted => WalkingAt(i + 1, j, s)
           /\ i \notin selDeleted => WalkingAt(i + 1, j, Append(s, LinesIn(head)[i]))
<1>1. /\ i \in 1 .. HeadLen /\ i \in Nat /\ j \in Nat /\ j \in 1 .. WorkLen + 1
      /\ HeadLen \in Nat /\ head \in Text /\ Len(head.lines) = HeadLen
      /\ s \in Seq(Line) /\ IsPrefix(s, Expected) /\ Len(s) = Cardinality(Consumed(i, j))
      BY ModifiedIs DEF WalkingAt, HeadLen
<1>2. GapOfDeleted(i + 1) = GapOfAdded(j)
  <2>1. GapOfDeleted(i) = GapOfAdded(j) /\ i \notin KeptHead
        BY ModifiedIs DEF WalkingAt
  <2>2. GapOfDeleted(i) \in Nat
        BY <1>1, GapsGrow
  <2> QED
      BY <1>1, <2>1, <2>2, GapsGrow
<1>3. \A a \in added : a < j => GapOfAdded(a) # GapOfAdded(j)
      BY DEF WalkingAt
<1>4. i + 1 \in 1 .. HeadLen + 1
      BY <1>1
<1>5. ASSUME i \in selDeleted PROVE WalkingAt(i + 1, j, s)
  <2>1. Consumed(i + 1, j) = Consumed(i, j)
        BY <1>1, <1>5, NothingNext
  <2> QED
      BY <1>1, <1>2, <1>3, <1>4, <2>1 DEF WalkingAt
<1>6. ASSUME i \notin selDeleted PROVE WalkingAt(i + 1, j, Append(s, LinesIn(head)[i]))
  <2>1. PICK x : x = <<GapOfDeleted(i), 1, i>>
        OBVIOUS
  <2>2. /\ x \in Items /\ LineOf(x) = head.lines[i]
        /\ Consumed(i, j) = Earlier(x) /\ Consumed(i + 1, j) = Earlier(x) \cup {x}
        BY <1>6, <2>1, NextIsDeleted
  <2>3. LinesIn(head)[i] = LineOf(x)
        BY <1>1, <2>2, TextIs
  <2>4. /\ Append(s, LineOf(x)) \in Seq(Line) /\ IsPrefix(Append(s, LineOf(x)), Expected)
        /\ Len(Append(s, LineOf(x))) = Cardinality(Consumed(i + 1, j))
        BY <1>1, <2>2, TakeItem
  <2> QED
      BY <1>1, <1>2, <1>3, <1>4, <2>3, <2>4 DEF WalkingAt
<1> QED
    BY <1>5, <1>6

\* An added line is passed: it is taken if it is selected.
LEMMA PassesAdded ==
    ASSUME InputsOK, Modified, NEW i, NEW j, NEW s, WalkingAt(i, j, s), i \notin deleted, j \in added
    PROVE  /\ j \notin selAdded => WalkingAt(i, j + 1, s)
           /\ j \in selAdded => WalkingAt(i, j + 1, Append(s, LinesIn(work)[j]))
<1>1. /\ j \in 1 .. WorkLen /\ i \in Nat /\ j \in Nat /\ i \in 1 .. HeadLen + 1
      /\ WorkLen \in Nat /\ work \in Text /\ Len(work.lines) = WorkLen
      /\ s \in Seq(Line) /\ IsPrefix(s, Expected) /\ Len(s) = Cardinality(Consumed(i, j))
      BY ModifiedIs DEF WalkingAt, WorkLen
<1>2. GapOfDeleted(i) = GapOfAdded(j + 1)
  <2>1. GapOfDeleted(i) = GapOfAdded(j) /\ j \notin KeptWork
        BY ModifiedIs DEF WalkingAt
  <2>2. GapOfAdded(j) \in Nat
        BY <1>1, GapsGrow
  <2> QED
      BY <1>1, <2>1, <2>2, GapsGrow
<1>3. j + 1 \in 1 .. WorkLen + 1
      BY <1>1
<1>4. ASSUME j \notin selAdded PROVE WalkingAt(i, j + 1, s)
  <2>1. Consumed(i, j + 1) = Consumed(i, j)
        BY <1>1, <1>4, NothingNext
  <2> QED
      BY <1>1, <1>2, <1>3, <2>1 DEF WalkingAt
<1>5. ASSUME j \in selAdded PROVE WalkingAt(i, j + 1, Append(s, LinesIn(work)[j]))
  <2>1. PICK x : x = <<GapOfAdded(j), 2, j>>
        OBVIOUS
  <2>2. /\ x \in Items /\ LineOf(x) = work.lines[j]
        /\ Consumed(i, j) = Earlier(x) /\ Consumed(i, j + 1) = Earlier(x) \cup {x}
        BY <1>5, <2>1, NextIsAdded
  <2>3. LinesIn(work)[j] = LineOf(x)
        BY <1>1, <2>2, TextIs
  <2>4. /\ Append(s, LineOf(x)) \in Seq(Line) /\ IsPrefix(Append(s, LineOf(x)), Expected)
        /\ Len(Append(s, LineOf(x))) = Cardinality(Consumed(i, j + 1))
        BY <1>1, <2>2, TakeItem
  <2> QED
      BY <1>1, <1>2, <1>3, <2>3, <2>4 DEF WalkingAt
<1> QED
    BY <1>4, <1>5

\* The loop is never left by its break: lines that are neither deleted nor added are the same.
LEMMA NeverBreaks ==
    ASSUME InputsOK, Modified, NEW i, NEW j, NEW s, WalkingAt(i, j, s), i \notin deleted, j \notin added,
           i <= Len(LinesIn(head)), j <= Len(LinesIn(work))
    PROVE  LinesIn(head)[i] = LinesIn(work)[j]
<1>1. /\ HeadLen \in Nat /\ WorkLen \in Nat /\ head \in Text /\ work \in Text
      /\ Len(head.lines) = HeadLen /\ Len(work.lines) = WorkLen
      /\ Numbers(head) = 1 .. HeadLen /\ Numbers(work) = 1 .. WorkLen
      BY ModifiedIs DEF HeadLen, WorkLen
<1>2. CASE i \in KeptHead /\ j \in KeptWork /\ GitLines(head)[i] = GitLines(work)[j]
  <2>1. i \in 1 .. HeadLen /\ j \in 1 .. WorkLen
        BY <1>1, <1>2, ModifiedIs
  <2>2. <<head.lines[i], head.newline \/ i < Len(head.lines)>> = <<work.lines[j], work.newline \/ j < Len(work.lines)>>
        BY <1>1, <1>2, <2>1 DEF GitLines
  <2> QED
      BY <1>1, <2>1, <2>2, TextIs
<1>3. CASE i = HeadLen + 1 /\ j = WorkLen + 1
  <2>1. head.newline /\ work.newline
        BY <1>1, <1>3, TextIs
  <2> QED
      BY <1>1, <1>3, <2>1, TextIs
<1> QED
    BY <1>2, <1>3, SameLine

\* When one of two files that end alike is at its end, so is the other, and all items were passed.
LEMMA EndsRight ==
    ASSUME InputsOK, Modified, EndAlike, NEW i, NEW j, NEW s, WalkingAt(i, j, s) \/ FinishedAt(i, j, s),
           i > Len(LinesIn(head)) \/ j > Len(LinesIn(work))
    PROVE  s = Expected
<1>1. SUFFICES ASSUME WalkingAt(i, j, s) PROVE s = Expected
      BY DEF FinishedAt
<1>2. /\ HeadLen \in Nat /\ WorkLen \in Nat /\ head \in Text /\ work \in Text
      /\ Len(head.lines) = HeadLen /\ Len(work.lines) = WorkLen
      /\ Numbers(head) = 1 .. HeadLen /\ Numbers(work) = 1 .. WorkLen
      BY ModifiedIs DEF HeadLen, WorkLen
<1>3. /\ i \in 1 .. HeadLen + 1 /\ j \in 1 .. WorkLen + 1 /\ GapOfDeleted(i) = GapOfAdded(j)
      /\ i \in Nat /\ j \in Nat
      /\ s \in Seq(Line) /\ IsPrefix(s, Expected) /\ Len(s) = Cardinality(Consumed(i, j))
      BY <1>1, <1>2 DEF WalkingAt
<1>4. ~head.newline /\ ~work.newline /\ HeadLen # 0 /\ WorkLen # 0 /\ (i = HeadLen + 1 \/ j = WorkLen + 1)
  <2>1. head.newline = work.newline /\ head.newline \in BOOLEAN /\ work.newline \in BOOLEAN
        BY <1>2, TextIs DEF EndAlike
  <2>2. ~head.newline
    <3> SUFFICES ASSUME head.newline, work.newline PROVE FALSE
        BY <2>1
    <3>1. Len(LinesIn(head)) = HeadLen + 1 /\ Len(LinesIn(work)) = WorkLen + 1
          BY <1>2, TextIs
    <3> QED
        BY <1>2, <1>3, <3>1
  <2>3. ~work.newline
        BY <2>1, <2>2
  <2>4. Len(LinesIn(head)) = HeadLen /\ Len(LinesIn(work)) = WorkLen /\ HeadLen # 0 /\ WorkLen # 0
        BY <1>2, <2>2, <2>3, TextIs
  <2> QED
      BY <1>2, <1>3, <2>2, <2>3, <2>4
<1>5. HeadLen \in KeptHead /\ WorkLen \in KeptWork
  <2>1. HeadLen \in KeptHead
        BY <1>2, <1>4, ModifiedIs DEF EndAlike
  <2>2. PICK k \in KeptWork : GapOfDeleted(HeadLen) = GapOfAdded(k) /\ GitLines(head)[HeadLen] = GitLines(work)[k]
        BY <2>1, KeptCorrespond
  <2>3. k \in 1 .. WorkLen /\ HeadLen \in 1 .. HeadLen
        BY <1>2, <1>4, ModifiedIs
  <2>4. <<head.lines[HeadLen], head.newline \/ HeadLen < Len(head.lines)>>
          = <<work.lines[k], work.newline \/ k < Len(work.lines)>>
        BY <1>2, <2>2, <2>3 DEF GitLines
  <2>5. (head.newline \/ HeadLen < HeadLen) = (work.newline \/ k < WorkLen)
        BY <1>2, <2>4
  <2>6. k = WorkLen
        BY <1>2, <1>4, <2>3, <2>5
  <2> QED
      BY <2>1, <2>2, <2>6
<1>6. i = HeadLen + 1 /\ j = WorkLen + 1
  <2>1. CASE i = HeadLen + 1 /\ j <= WorkLen
    <3>1. PICK k \in KeptHead : GapOfDeleted(k) = GapOfAdded(WorkLen)
          BY <1>5, KeptCorrespond
    <3>2. k \in Nat /\ k < i
          BY <2>1, ModifiedIs
    <3>3. GapOfDeleted(k) < GapOfDeleted(i) /\ GapOfAdded(j) <= GapOfAdded(WorkLen)
          BY <1>2, <1>3, <2>1, <3>2, GapsGrow
    <3>4. GapOfDeleted(k) \in Nat /\ GapOfDeleted(i) \in Nat
          BY <1>3, <3>2, GapsGrow
    <3> QED
        BY <1>3, <3>1, <3>3, <3>4
  <2>2. CASE j = WorkLen + 1 /\ i <= HeadLen
    <3>1. PICK k \in KeptWork : GapOfDeleted(HeadLen) = GapOfAdded(k)
          BY <1>5, KeptCorrespond
    <3>2. k \in Nat /\ k < j
          BY <2>2, ModifiedIs
    <3>3. GapOfAdded(k) < GapOfAdded(j) /\ GapOfDeleted(i) <= GapOfDeleted(HeadLen)
          BY <1>2, <1>3, <2>2, <3>2, GapsGrow
    <3>4. GapOfAdded(k) \in Nat /\ GapOfAdded(j) \in Nat
          BY <1>3, <3>2, GapsGrow
    <3> QED
        BY <1>3, <3>1, <3>3, <3>4
  <2> QED
      BY <1>2, <1>3, <1>4, <2>1, <2>2
<1>7. Consumed(i, j) = Items
      BY <1>2, <1>3, <1>6, NothingNext
<1>8. PICK e : e = Expected
      OBVIOUS
<1>9. e \in Seq(Line) /\ Len(e) = Len(s) /\ Len(s) \in Nat
  <2>1. ~EndsInNewline
        BY <1>4 DEF EndsInNewline, Modified
  <2> QED
      BY <1>3, <1>7, <1>8, <2>1, ExpectedIs
<1>10. \A n \in 1 .. Len(s) : s[n] = e[n]
       BY <1>3, <1>8, <1>9, PrefixIs
<1> QED
    BY <1>3, <1>8, <1>9, <1>10

-----------------------------------------------------------------------------
(* Deleted and new files: one kind of items, all in one gap.               *)

\* Such items come in the order of their numbers.
LEMMA OneKind ==
    ASSUME NEW D \in SUBSET Nat, IsFiniteSet(D), NEW kind \in Nat, Items = {<<0, kind, k>> : k \in D}
    PROVE  /\ Cardinality(Items) = Cardinality(D)
           /\ \A k \in D : <<0, kind, k>> \in Items /\ Cardinality(Earlier(<<0, kind, k>>)) = Count(D, k)
<1>1. Cardinality(Items) = Cardinality(D)
  <2>1. PICK f : f = [k \in D |-> <<0, kind, k>>]
        OBVIOUS
  <2>2. f \in [D -> Items] /\ \A t \in Items : \E k \in D : f[k] = t
        BY <2>1
  <2>3. \A k, m \in D : f[k] = f[m] => k = m
        BY <2>1
  <2> QED
      BY <2>2, <2>3, SameSize
<1>2. ASSUME NEW k \in D
      PROVE  Cardinality(Earlier(<<0, kind, k>>)) = Count(D, k)
  <2>1. PICK B : B = {m \in D : m < k}
        OBVIOUS
  <2>2. B \in SUBSET D
        BY <2>1
  <2>3. IsFiniteSet(B)
        BY <2>2, FS_Subset
  <2>4. PICK f : f = [m \in B |-> <<0, kind, m>>]
        OBVIOUS
  <2>5. \A y \in Items : Before(y, <<0, kind, k>>) <=> \E m \in B : y = <<0, kind, m>>
        BY <2>1 DEF Before
  <2>6. \A m \in B : <<0, kind, m>> \in Items
        BY <2>2
  <2>7. /\ f \in [B -> Earlier(<<0, kind, k>>)]
        /\ \A t \in Earlier(<<0, kind, k>>) : \E m \in B : f[m] = t
        BY <2>4, <2>5, <2>6 DEF Earlier
  <2>8. \A m, n \in B : f[m] = f[n] => m = n
        BY <2>4
  <2>9. Cardinality(Earlier(<<0, kind, k>>)) = Cardinality(B)
        BY <2>3, <2>7, <2>8, SameSize
  <2> QED
      BY <2>1, <2>9 DEF Count
<1> QED
    BY <1>1, <1>2

\* Of a file that is not there no line stays, and all changes are in gap 0.
LEMMA NothingKept ==
    ASSUME InputsOK, head = NoFile \/ work = NoFile
    PROVE  /\ KeptHead = {} /\ KeptWork = {}
           /\ \A k \in Nat : GapOfDeleted(k) = 0 /\ GapOfAdded(k) = 0
<1>1. KeptHead = {} /\ KeptWork = {}
  <2>1. KeptHead = {} \/ KeptWork = {}
        BY InputsAre
  <2>2. IsFiniteSet(KeptHead) /\ IsFiniteSet(KeptWork) /\ Cardinality(KeptHead) = Cardinality(KeptWork)
        BY KeptCorrespond
  <2> QED
      BY <2>1, <2>2, FS_EmptySet
<1>2. \A k \in Nat : Count({}, k) = 0
  <2>1. \A k \in Nat : {m \in {} : m < k} = {}
        OBVIOUS
  <2> QED
      BY <2>1, FS_EmptySet DEF Count
<1> QED
    BY <1>1, <1>2, GapsAre

\* A file of which all lines are deleted: what is made is the right file.
LEMMA DeletedFileIs ==
    ASSUME InputsOK, work = NoFile, NEW rest, rest = Sorted(DOMAIN LinesIn(head) \ selDeleted)
    PROVE  [i \in DOMAIN rest |-> LinesIn(head)[rest[i]]] = Expected
<1>1. /\ head # NoFile /\ head \in Text /\ HeadLen \in Nat /\ Len(head.lines) = HeadLen
      /\ Numbers(head) = 1 .. HeadLen /\ Numbers(work) = {}
      BY InputsAre, TextIs DEF InputsOK, HeadLen
<1>2. PICK D : D = deleted \ selDeleted
      OBVIOUS
<1>3. D \in SUBSET Nat /\ IsFiniteSet(D) /\ D = (1 .. HeadLen) \ selDeleted
  <2>1. deleted = 1 .. HeadLen
        BY <1>1, NothingKept, InputsAre DEF InputsOK
  <2>2. D \in SUBSET deleted /\ deleted \in SUBSET Nat /\ IsFiniteSet(deleted)
        BY <1>2, InputsAre
  <2> QED
      BY <1>2, <2>1, <2>2, FS_Subset
<1>4. Items = {<<0, 1, k>> : k \in D}
  <2>1. selAdded = {} /\ KeptHead = {}
        BY <1>1, NothingKept DEF InputsOK
  <2>2. \A k \in D : <<GapOfDeleted(k), 1, k>> = <<0, 1, k>>
        BY <1>3, NothingKept
  <2> QED
      BY <1>2, <2>1, <2>2 DEF Items
<1>5. /\ Cardinality(Items) = Cardinality(D)
      /\ \A k \in D : <<0, 1, k>> \in Items /\ Cardinality(Earlier(<<0, 1, k>>)) = Count(D, k)
      BY <1>3, <1>4, OneKind
<1>6. PICK e : e = Expected
      OBVIOUS
<1>7. /\ Cardinality(D) \in Nat /\ e \in Seq(Line)
      /\ Len(e) = IF head.newline THEN Cardinality(D) + 1 ELSE Cardinality(D)
      /\ head.newline => e[Cardinality(D) + 1] = Blank
      /\ \A k \in D : e[Count(D, k) + 1] = head.lines[k]
  <2>1. EndsInNewline = head.newline
        BY <1>1 DEF EndsInNewline
  <2>2. \A k \in D : LineOf(<<0, 1, k>>) = head.lines[k]
        BY DEF LineOf
  <2> QED
      BY <1>5, <1>6, <2>1, <2>2, ExpectedIs
<1>8. PICK R : R = DOMAIN LinesIn(head) \ selDeleted
      OBVIOUS
<1>9. R = IF head.newline THEN D \cup {HeadLen + 1} ELSE D
  <2>1. LinesIn(head) \in Seq(Line) /\ Len(LinesIn(head)) = IF head.newline THEN HeadLen + 1 ELSE HeadLen
        BY <1>1, TextIs
  <2>2. HeadLen + 1 \notin selDeleted
        BY <1>1 DEF InputsOK
  <2>3. DOMAIN LinesIn(head) = IF head.newline THEN 1 .. HeadLen + 1 ELSE 1 .. HeadLen
        BY <2>1
  <2> QED
      BY <1>1, <1>3, <1>8, <2>2, <2>3
<1>10. R \in SUBSET Nat /\ IsFiniteSet(R) /\ HeadLen + 1 \notin D
       /\ Cardinality(R) = IF head.newline THEN Cardinality(D) + 1 ELSE Cardinality(D)
  <2>1. HeadLen + 1 \notin D /\ HeadLen + 1 \in Nat
        BY <1>1, <1>3
  <2> QED
      BY <1>3, <1>9, <2>1, FS_AddElement
<1>11. /\ \A k \in D : k \in Nat /\ k \in 1 .. HeadLen /\ k < HeadLen + 1
       /\ \A k \in D : Count(R, k) = Count(D, k)
       /\ Count(R, HeadLen + 1) = Cardinality(D)
  <2>1. \A k \in D : k \in Nat /\ k \in 1 .. HeadLen /\ k < HeadLen + 1
        BY <1>1, <1>3
  <2>2. \A k \in D : {m \in R : m < k} = {m \in D : m < k}
        BY <1>1, <1>9, <2>1
  <2>3. {m \in R : m < HeadLen + 1} = D
        BY <1>1, <1>9, <2>1
  <2> QED
      BY <2>1, <2>2, <2>3 DEF Count
<1>12. /\ DOMAIN rest = 1 .. Cardinality(R)
       /\ \A n \in 1 .. Cardinality(R) : rest[n] \in R /\ Count(R, rest[n]) + 1 = n
       BY <1>8, <1>10, SortedIs
<1>13. ASSUME NEW n \in 1 .. Cardinality(R)
       PROVE  LinesIn(head)[rest[n]] = e[n]
  <2>1. CASE rest[n] \in D
        BY <1>1, <1>7, <1>11, <1>12, <2>1, TextIs
  <2>2. CASE head.newline /\ rest[n] = HeadLen + 1
    <3>1. n = Cardinality(D) + 1
          BY <1>7, <1>11, <1>12, <2>2
    <3>2. LinesIn(head)[HeadLen + 1] = Blank
          BY <1>1, <2>2, TextIs
    <3> QED
        BY <1>7, <2>2, <3>1, <3>2
  <2> QED
      BY <1>9, <1>12, <2>1, <2>2
<1>14. Cardinality(R) = Len(e) /\ DOMAIN e = 1 .. Len(e) /\ e = [n \in 1 .. Len(e) |-> e[n]]
       BY <1>7, <1>10
<1> QED
    BY <1>6, <1>12, <1>13, <1>14

\* A new file: what is made is the right file but for the newline at the end.
LEMMA AddedFileIs ==
    ASSUME InputsOK, head = NoFile, NEW chosen, chosen = Sorted(selAdded)
    PROVE  [i \in DOMAIN chosen |-> work.lines[chosen[i]]]
               = SubSeq(Expected, 1, Len(Expected) - IF work.newline THEN 1 ELSE 0)
<1>1. Numbers(head) = {} /\ work \in Text
      BY InputsAre
<1>2. selAdded \in SUBSET Nat /\ IsFiniteSet(selAdded)
  <2>1. selAdded \in SUBSET added /\ added \in SUBSET Nat /\ IsFiniteSet(added)
        BY InputsAre
  <2> QED
      BY <2>1, FS_Subset
<1>3. Items = {<<0, 2, k>> : k \in selAdded}
  <2>1. deleted \ selDeleted = {} /\ KeptHead = {}
        BY <1>1, NothingKept DEF InputsOK
  <2>2. \A k \in selAdded : <<GapOfAdded(k), 2, k>> = <<0, 2, k>>
        BY <1>2, NothingKept
  <2> QED
      BY <2>1, <2>2 DEF Items
<1>4. /\ Cardinality(Items) = Cardinality(selAdded)
      /\ \A k \in selAdded : <<0, 2, k>> \in Items /\ Cardinality(Earlier(<<0, 2, k>>)) = Count(selAdded, k)
      BY <1>2, <1>3, OneKind
<1>5. PICK e : e = Expected
      OBVIOUS
<1>6. /\ Cardinality(selAdded) \in Nat /\ e \in Seq(Line) /\ work.newline \in BOOLEAN
      /\ Len(e) = IF work.newline THEN Cardinality(selAdded) + 1 ELSE Cardinality(selAdded)
      /\ \A k \in selAdded : e[Count(selAdded, k) + 1] = work.lines[k]
  <2>1. EndsInNewline = work.newline
        BY DEF EndsInNewline
  <2>2. \A k \in selAdded : LineOf(<<0, 2, k>>) = work.lines[k]
        BY DEF LineOf
  <2> QED
      BY <1>1, <1>4, <1>5, <2>1, <2>2, ExpectedIs, TextIs
<1>7. /\ DOMAIN chosen = 1 .. Cardinality(selAdded)
      /\ \A n \in 1 .. Cardinality(selAdded) : chosen[n] \in selAdded /\ Count(selAdded, chosen[n]) + 1 = n
      BY <1>2, SortedIs
<1>8. \A n \in 1 .. Cardinality(selAdded) : work.lines[chosen[n]] = e[n]
      BY <1>6, <1>7
<1>9. Len(e) - (IF work.newline THEN 1 ELSE 0) = Cardinality(selAdded)
      BY <1>6
<1>10. SubSeq(e, 1, Cardinality(selAdded)) = [n \in 1 .. Cardinality(selAdded) |-> e[n]]
       BY <1>6
<1> QED
    BY <1>5, <1>7, <1>8, <1>9, <1>10

-----------------------------------------------------------------------------
(* The invariant.                                                          *)

\* Where deleted lines differ from the next line, the walk through a modified file is where its
\* result says and does not break off; files that are not modified are made in one step.
MadeInv ==
    /\ InputsOK
    /\ at = "loop" /\ ~Modified => result = <<>>
    /\ Modified /\ DeletedLinesDiffer =>
          /\ at # "break"
          /\ \/ WalkingAt(headLineIndex, currentLineIndex, result)
             \/ FinishedAt(headLineIndex, currentLineIndex, result)
    /\ SelectedChangesMade

\* What is said of the two files and their diff stays true while these do not change.
LEMMA SameInputs ==
    ASSUME UNCHANGED inputs
    PROVE  /\ InputsOK' <=> InputsOK
           /\ Modified' <=> Modified
           /\ DeletedLinesDiffer' <=> DeletedLinesDiffer
           /\ EndAlike' <=> EndAlike
           /\ Expected' = Expected
           /\ WalkingAt(headLineIndex, currentLineIndex, result)'
                 <=> WalkingAt(headLineIndex', currentLineIndex', result')
           /\ FinishedAt(headLineIndex, currentLineIndex, result)'
                 <=> FinishedAt(headLineIndex', currentLineIndex', result')
<1>1. /\ head' = head /\ work' = work /\ deleted' = deleted /\ added' = added
      /\ selDeleted' = selDeleted /\ selAdded' = selAdded
      BY DEF inputs
<1>2. (InputsOK' <=> InputsOK) /\ (Modified' <=> Modified) /\ (EndAlike' <=> EndAlike)
      BY <1>1 DEF InputsOK, Modified, EndAlike
<1>3. KeptHead' = KeptHead /\ HeadLen' = HeadLen /\ WorkLen' = WorkLen
      BY <1>1 DEF KeptHead, HeadLen, WorkLen
<1>4. /\ \A i : GapOfDeleted(i)' = GapOfDeleted(i)
      /\ \A i : GapOfAdded(i)' = GapOfAdded(i)
      BY <1>1 DEF GapOfDeleted, GapOfAdded
<1>5. DeletedLinesDiffer' <=> DeletedLinesDiffer
      BY <1>1, <1>3, <1>4 DEF DeletedLinesDiffer
<1>6. Items' = Items
      BY <1>1, <1>3, <1>4 DEF Items
<1>7. \A x : LineOf(x)' = LineOf(x)
      BY <1>1 DEF LineOf
<1>8. Expected' = Expected
      BY <1>1, <1>6, <1>7 DEF Expected
<1>9. WalkingAt(headLineIndex, currentLineIndex, result)'
          <=> WalkingAt(headLineIndex', currentLineIndex', result')
      BY <1>1, <1>3, <1>4, <1>6, <1>8 DEF WalkingAt, Consumed
<1>10. FinishedAt(headLineIndex, currentLineIndex, result)'
          <=> FinishedAt(headLineIndex', currentLineIndex', result')
       BY <1>1, <1>3, <1>8 DEF FinishedAt
<1> QED
    BY <1>2, <1>5, <1>8, <1>9, <1>10

\* A diff leaves the same lines of both files.
LEMMA DiffsLeave ==
    ASSUME NEW d \in Diffs(head, work)
    PROVE  /\ d[1] \subseteq Numbers(head) /\ d[2] \subseteq Numbers(work)
           /\ Without(head, d[1]) = Without(work, d[2])
  BY DEF Diffs

LEMMA InitMadeInv == Init => MadeInv
<1> SUFFICES ASSUME Init PROVE MadeInv
    OBVIOUS
<1>1. InputsOK
  <2>1. PICK d \in Diffs(head, work) : deleted = d[1] /\ added = d[2]
        BY DEF Init
  <2>2. deleted \subseteq Numbers(head) /\ added \subseteq Numbers(work) /\ Without(head, deleted) = Without(work, added)
        BY <2>1, DiffsLeave
  <2> QED
      BY <2>2 DEF InputsOK, Init
<1>2. at = "loop" /\ result = <<>> /\ headLineIndex = 1 /\ currentLineIndex = 1
      BY DEF Init
<1>3. ASSUME Modified PROVE WalkingAt(1, 1, <<>>)
  <2>1. HeadLen \in Nat /\ WorkLen \in Nat
        BY <1>1, <1>3, ModifiedIs
  <2>2. GapOfDeleted(1) = 0 /\ GapOfAdded(1) = 0
    <3>1. {k \in KeptHead : k < 1} = {} /\ {k \in KeptWork : k < 1} = {}
          BY <1>1, <1>3, ModifiedIs
    <3> QED
        BY <3>1, GapsAre, FS_EmptySet DEF Count
  <2>3. \A a \in added : ~(a < 1)
        BY <1>1, <1>3, ModifiedIs
  <2>4. Consumed(1, 1) = {}
    <3> SUFFICES ASSUME NEW x \in Items, IF x[2] = 2 THEN x[3] < 1 ELSE x[3] < 1
                 PROVE  FALSE
        BY DEF Consumed
    <3>1. \A k \in KeptHead \cup (deleted \ selDeleted) \cup selAdded : k \in Nat /\ 1 <= k
          BY <1>1, <1>3, ModifiedIs DEF InputsOK
    <3>2. x[3] \in KeptHead \cup (deleted \ selDeleted) \cup selAdded
          BY ItemKinds
    <3> QED
        BY <3>1, <3>2
  <2>5. <<>> \in Seq(Line) /\ Len(<<>>) = 0 /\ IsPrefix(<<>>, Expected)
    <3>1. PICK e : e = Expected
          OBVIOUS
    <3>2. e \in Seq(Line) /\ <<>> \in Seq(Line) /\ Len(<<>>) = 0
          BY <1>1, <3>1, ExpectedIs
    <3>3. Len(<<>>) <= Len(e) /\ \A n \in 1 .. Len(<<>>) : <<>>[n] = e[n]
          BY <3>2
    <3> QED
        BY <3>1, <3>2, <3>3, PrefixIs
  <2> QED
      BY <2>1, <2>2, <2>3, <2>4, <2>5, FS_EmptySet DEF WalkingAt
<1> QED
    BY <1>1, <1>2, <1>3 DEF MadeInv, SelectedChangesMade

\* What the loop knows before each of its steps: it is still walking.
LEMMA InLoopIs ==
    ASSUME MadeInv, InLoop, DeletedLinesDiffer
    PROVE  /\ InputsOK /\ Modified /\ at = "loop"
           /\ WalkingAt(headLineIndex, currentLineIndex, result)
           /\ headLineIndex <= Len(LinesIn(head)) /\ currentLineIndex <= Len(LinesIn(work))
<1>1. /\ InputsOK /\ Modified /\ at = "loop"
      /\ headLineIndex <= Len(LinesIn(head)) /\ currentLineIndex <= Len(LinesIn(work))
      BY DEF MadeInv, InLoop
<1>2. ~FinishedAt(headLineIndex, currentLineIndex, result)
  <2> SUFFICES ASSUME headLineIndex = HeadLen + 2, head.newline PROVE FALSE
      BY DEF FinishedAt
  <2>1. HeadLen \in Nat /\ Len(LinesIn(head)) = HeadLen + 1
        BY <1>1, ModifiedIs, TextIs DEF HeadLen
  <2> QED
      BY <1>1, <2>1
<1> QED
    BY <1>1, <1>2 DEF MadeInv

LEMMA StepMadeInv == MadeInv /\ [Next]_vars => MadeInv'
<1> SUFFICES ASSUME MadeInv, [Next]_vars PROVE MadeInv'
    OBVIOUS
<1> DEFINE i == headLineIndex
           j == currentLineIndex
           Walks == \/ WalkingAt(headLineIndex', currentLineIndex', result')
                    \/ FinishedAt(headLineIndex', currentLineIndex', result')
<1>1. UNCHANGED inputs
      BY DEF vars, inputs, Next, TakeBoth, SkipDeleted, KeepDeleted, TakeAdded, SkipAdded, Break, EndOfFile,
             MakeDeleted, MakeAdded
<1>2. InputsOK /\ InputsOK'
      BY <1>1, SameInputs DEF MadeInv
\* A step of the loop that does not leave it.
<1>3. ASSUME InLoop, at' = at, DeletedLinesDiffer => Walks
      PROVE  MadeInv'
  <2>1. at' = "loop" /\ Modified' /\ (DeletedLinesDiffer' <=> DeletedLinesDiffer)
        BY <1>1, <1>3, SameInputs DEF InLoop
  <2>2. DeletedLinesDiffer' => \/ WalkingAt(headLineIndex, currentLineIndex, result)'
                               \/ FinishedAt(headLineIndex, currentLineIndex, result)'
        BY <1>1, <1>3, <2>1, SameInputs
  <2> QED
      BY <1>2, <2>1, <2>2 DEF MadeInv, SelectedChangesMade
<1>4. CASE TakeBoth
  <2>1. ASSUME DeletedLinesDiffer PROVE Walks
    <3>1. LinesIn(head)[i] = LinesIn(work)[j] /\ j \notin added
          BY <1>4 DEF TakeBoth, Match, headFileLine, currentFileLine
    <3>2. InputsOK /\ Modified /\ WalkingAt(i, j, result) /\ i <= Len(LinesIn(head)) /\ j <= Len(LinesIn(work))
          BY <1>4, <2>1, InLoopIs DEF TakeBoth
    <3>3. headLineIndex' = i + 1 /\ currentLineIndex' = j + 1 /\ result' = Append(result, LinesIn(work)[j])
          BY <1>4 DEF TakeBoth, currentFileLine
    <3> QED
        BY <2>1, <3>1, <3>2, <3>3, TakesBoth
  <2> QED
      BY <1>3, <1>4, <2>1 DEF TakeBoth
<1>5. CASE SkipDeleted \/ KeepDeleted
  <2>1. ASSUME DeletedLinesDiffer PROVE Walks
    <3>1. InputsOK /\ Modified /\ WalkingAt(i, j, result)
          BY <1>5, <2>1, InLoopIs DEF SkipDeleted, KeepDeleted
    <3>2. i \in deleted
          BY <1>2, <1>5 DEF SkipDeleted, KeepDeleted, InputsOK
    <3>3. /\ headLineIndex' = i + 1 /\ currentLineIndex' = j
          /\ \/ i \in selDeleted /\ result' = result
             \/ i \notin selDeleted /\ result' = Append(result, LinesIn(head)[i])
          BY <1>5 DEF SkipDeleted, KeepDeleted, headFileLine
    <3> QED
        BY <3>1, <3>2, <3>3, PassesDeleted
  <2> QED
      BY <1>3, <1>5, <2>1 DEF SkipDeleted, KeepDeleted
<1>6. CASE TakeAdded \/ SkipAdded
  <2>1. ASSUME DeletedLinesDiffer PROVE Walks
    <3>1. InputsOK /\ Modified /\ WalkingAt(i, j, result)
          BY <1>6, <2>1, InLoopIs DEF TakeAdded, SkipAdded
    <3>2. i \notin deleted /\ j \in added
          BY <1>2, <1>6 DEF TakeAdded, SkipAdded, InputsOK
    <3>3. /\ headLineIndex' = i /\ currentLineIndex' = j + 1
          /\ \/ j \notin selAdded /\ result' = result
             \/ j \in selAdded /\ result' = Append(result, LinesIn(work)[j])
          BY <1>6 DEF TakeAdded, SkipAdded, currentFileLine
    <3> QED
        BY <3>1, <3>2, <3>3, PassesAdded
  <2> QED
      BY <1>3, <1>6, <2>1 DEF TakeAdded, SkipAdded
<1>7. CASE Break
  <2>1. ~DeletedLinesDiffer
    <3> SUFFICES ASSUME DeletedLinesDiffer PROVE FALSE
        OBVIOUS
    <3>1. /\ InputsOK /\ Modified /\ WalkingAt(i, j, result)
          /\ i <= Len(LinesIn(head)) /\ j <= Len(LinesIn(work))
          BY <1>7, InLoopIs DEF Break
    <3>2. i \notin deleted /\ j \notin added /\ LinesIn(head)[i] # LinesIn(work)[j]
          BY <1>7 DEF Break, Match, headFileLine, currentFileLine
    <3> QED
        BY <3>1, <3>2, NeverBreaks
  <2>2. ~DeletedLinesDiffer' /\ Modified' /\ at' # "loop"
        BY <1>1, <1>7, <2>1, SameInputs DEF Break, InLoop
  <2>3. head' # NoFile /\ work' # NoFile
        BY <2>2 DEF Modified
  <2> QED
      BY <1>2, <2>2, <2>3 DEF MadeInv, SelectedChangesMade
<1>8. CASE EndOfFile
  <2>1. /\ Modified /\ at' = "end" /\ headLineIndex' = i /\ currentLineIndex' = j /\ result' = result
        /\ i > Len(LinesIn(head)) \/ j > Len(LinesIn(work))
        BY <1>8 DEF EndOfFile
  <2>2. DeletedLinesDiffer => WalkingAt(i, j, result) \/ FinishedAt(i, j, result)
        BY <2>1 DEF MadeInv
  <2>3. EndAlike /\ DeletedLinesDiffer => result = Expected
        BY <1>2, <2>1, <2>2, EndsRight
  <2>4. EndAlike' /\ DeletedLinesDiffer' => result' = Expected'
        BY <1>1, <2>1, <2>3, SameInputs
  <2>5. Modified' /\ head' # NoFile /\ work' # NoFile
        BY <1>1, <2>1, SameInputs DEF Modified, inputs
  <2>6. DeletedLinesDiffer' => \/ WalkingAt(headLineIndex, currentLineIndex, result)'
                               \/ FinishedAt(headLineIndex, currentLineIndex, result)'
        BY <1>1, <2>1, <2>2, SameInputs
  <2> QED
      BY <1>2, <2>1, <2>4, <2>5, <2>6 DEF MadeInv, SelectedChangesMade
<1>9. CASE MakeDeleted
  <2>1. work = NoFile /\ result' = Expected /\ at' = "end"
        BY <1>2, <1>9, DeletedFileIs DEF MakeDeleted
  <2>2. ~Modified' /\ result' = Expected' /\ head' # NoFile
    <3>1. head' = head /\ work' = work /\ head # work
          BY <1>1, <1>2 DEF InputsOK, inputs
    <3> QED
        BY <1>1, <2>1, <3>1, SameInputs DEF Modified
  <2> QED
      BY <1>2, <2>1, <2>2 DEF MadeInv, SelectedChangesMade
<1>10. CASE MakeAdded
  <2>1. /\ head = NoFile /\ at' = "end"
        /\ result' = SubSeq(Expected, 1, Len(Expected) - IF work.newline THEN 1 ELSE 0)
        BY <1>2, <1>10, AddedFileIs DEF MakeAdded
  <2>2. /\ ~Modified' /\ work' # NoFile /\ ~EndAlike'
        /\ result' = SubSeq(Expected', 1, Len(Expected') - IF work'.newline THEN 1 ELSE 0)
    <3>1. head' = head /\ work' = work /\ head # work
          BY <1>1, <1>2 DEF InputsOK, inputs
    <3> QED
        BY <1>1, <2>1, <3>1, SameInputs DEF Modified, EndAlike
  <2> QED
      BY <1>2, <2>1, <2>2 DEF MadeInv, SelectedChangesMade
<1>11. CASE UNCHANGED vars
  <2>1. /\ at' = at /\ headLineIndex' = headLineIndex /\ currentLineIndex' = currentLineIndex
        /\ result' = result /\ head' = head /\ work' = work
        BY <1>11 DEF vars
  <2>2. /\ (Modified' <=> Modified) /\ (DeletedLinesDiffer' <=> DeletedLinesDiffer)
        /\ (EndAlike' <=> EndAlike) /\ Expected' = Expected
        BY <1>1, SameInputs
  <2>3. /\ WalkingAt(headLineIndex, currentLineIndex, result)' <=> WalkingAt(headLineIndex, currentLineIndex, result)
        /\ FinishedAt(headLineIndex, currentLineIndex, result)' <=> FinishedAt(headLineIndex, currentLineIndex, result)
        BY <1>1, <2>1, SameInputs
  <2>4. SelectedChangesMade'
        BY <2>1, <2>2 DEF MadeInv, SelectedChangesMade
  <2> QED
      BY <1>2, <2>1, <2>2, <2>3, <2>4 DEF MadeInv
<1> QED
    BY <1>4, <1>5, <1>6, <1>7, <1>8, <1>9, <1>10, <1>11 DEF Next

-----------------------------------------------------------------------------
(* The theorems.                                                           *)

\* The inductive invariant: what was made so far is made of the lines passed, in their order.
THEOREM MadeInvAlways == Spec => []MadeInv
  BY InitMadeInv, StepMadeInv, PTL DEF Spec

\* For texts of any length: what a commit or a discard of selected lines writes to the work
\* directory is HEAD's version with the selected changes, as long as the files end alike and deleted
\* lines differ from the next line; for a deleted file it always is, and for a new one but for the
\* newline at the end.
THEOREM MakesSelectedChanges == Spec => []SelectedChangesMade
<1>1. MadeInv => SelectedChangesMade
      BY DEF MadeInv
<1> QED
    BY <1>1, MadeInvAlways, PTL

\* For texts of any length, and however the files end, as long as deleted lines differ from the
\* next line: no line is out of order, doubled or left out before the end of what is made.
THEOREM MakesABeginning == Spec => []ABeginning
<1>1. MadeInv => ABeginning
  <2> SUFFICES ASSUME MadeInv, DeletedLinesDiffer PROVE IsPrefix(result, Expected)
      BY DEF ABeginning
  <2>1. PICK e : e = Expected
        OBVIOUS
  <2>2. InputsOK /\ e \in Seq(Line) /\ Len(e) \in Nat
        BY <2>1, ExpectedIs DEF MadeInv
  <2>3. CASE Modified
    <3>1. CASE WalkingAt(headLineIndex, currentLineIndex, result)
          BY <3>1 DEF WalkingAt
    <3>2. CASE FinishedAt(headLineIndex, currentLineIndex, result)
      <4>1. result = e
            BY <2>1, <3>2 DEF FinishedAt
      <4> QED
          BY <2>1, <2>2, <4>1, PrefixIs
    <3> QED
        BY <2>3, <3>1, <3>2 DEF MadeInv
  <2>4. CASE ~Modified
    <3>1. CASE at = "loop"
      <4>1. result = <<>> /\ result \in Seq(Line) /\ Len(result) = 0
            BY <2>4, <3>1 DEF MadeInv
      <4>2. Len(result) <= Len(e) /\ \A n \in 1 .. Len(result) : result[n] = e[n]
            BY <2>2, <4>1
      <4> QED
          BY <2>1, <2>2, <4>1, <4>2, PrefixIs
    <3>2. CASE at # "loop" /\ work = NoFile
      <4>1. result = e
            BY <2>1, <3>2 DEF MadeInv, SelectedChangesMade
      <4> QED
          BY <2>1, <2>2, <4>1, PrefixIs
    <3>3. CASE at # "loop" /\ head = NoFile
      <4>1. PICK m : m = Len(e) - IF work.newline THEN 1 ELSE 0
            OBVIOUS
      <4>2. m \in Nat /\ m <= Len(e)
        <5>1. EndsInNewline = work.newline
              BY <3>3 DEF EndsInNewline
        <5> QED
            BY <2>1, <2>2, <4>1, <5>1, ExpectedIs
      <4>3. PICK u : u = SubSeq(e, 1, m)
            OBVIOUS
      <4>4. u \in Seq(Line) /\ Len(u) = m /\ \A n \in 1 .. m : u[n] = e[n]
            BY <2>2, <4>2, <4>3
      <4>5. result = u
            BY <2>1, <3>3, <4>1, <4>3 DEF MadeInv, SelectedChangesMade
      <4>6. IsPrefix(u, e)
            BY <2>2, <4>2, <4>4, PrefixIs
      <4> QED
          BY <2>1, <4>5, <4>6
    <3> QED
        BY <2>4, <3>1, <3>2, <3>3 DEF Modified
  <2> QED
      BY <2>3, <2>4
<1> QED
    BY <1>1, MadeInvAlways, PTL

=============================================================================
