-------------------------- MODULE MemoryRefDB_proofs --------------------------
(***************************************************************************)
(* Proofs about MemoryRefDB for every set of names, every hash and every   *)
(* size of the table: the lists are sound, a name has one entry, an        *)
(* iteration misses nothing, a rename loses nothing, and the table keeps   *)
(* the promises of RefMap.                                                 *)
(***************************************************************************)
EXTENDS MemoryRefDB, SequenceTheorems, WellFoundedInduction, TLAPS

-----------------------------------------------------------------------------
(* Sequences.                                                              *)

\* An element in front moves the others up by one.
LEMMA ConsIs ==
    ASSUME NEW S, NEW s \in Seq(S), NEW a \in S
    PROVE  /\ Cons(a, s) \in Seq(S)
           /\ Len(Cons(a, s)) = Len(s) + 1
           /\ Cons(a, s)[1] = a
           /\ \A i \in 1..Len(s) : Cons(a, s)[i + 1] = s[i]
  BY DEF Cons

\* Without element k the ones behind it move down by one.
LEMMA RemoveAtIs ==
    ASSUME NEW S, NEW s \in Seq(S), NEW k \in 1..Len(s)
    PROVE  /\ RemoveAt(s, k) \in Seq(S)
           /\ Len(RemoveAt(s, k)) = Len(s) - 1
           /\ \A i \in 1..(k - 1) : RemoveAt(s, k)[i] = s[i]
           /\ \A i \in k..(Len(s) - 1) : RemoveAt(s, k)[i] = s[i + 1]
<1>1. PICK f, g : f = SubSeq(s, 1, k - 1) /\ g = SubSeq(s, k + 1, Len(s))
      OBVIOUS
<1>2. /\ k \in Nat /\ Len(s) \in Nat
      /\ f \in Seq(S) /\ Len(f) = k - 1 /\ \A i \in 1..(k - 1) : f[i] = s[i]
      /\ g \in Seq(S) /\ Len(g) = Len(s) - k /\ \A i \in 1..(Len(s) - k) : g[i] = s[k + i]
      BY <1>1
<1>3. PICK r : r = f \o g
      OBVIOUS
<1>4. /\ r \in Seq(S) /\ Len(r) = Len(s) - 1
      /\ \A i \in 1..(Len(s) - 1) : r[i] = IF i <= k - 1 THEN f[i] ELSE g[i - (k - 1)]
  <2>1. /\ r \in Seq(S) /\ Len(r) = Len(f) + Len(g)
        /\ \A i \in 1..(Len(f) + Len(g)) : r[i] = IF i <= Len(f) THEN f[i] ELSE g[i - Len(f)]
        BY <1>2, <1>3, ConcatProperties
  <2> QED
      BY <1>2, <2>1
<1>5. \A i \in k..(Len(s) - 1) : i - (k - 1) \in 1..(Len(s) - k) /\ k + (i - (k - 1)) = i + 1
      BY <1>2
<1>6. /\ \A i \in 1..(k - 1) : r[i] = s[i]
      /\ \A i \in k..(Len(s) - 1) : r[i] = s[i + 1]
      BY <1>2, <1>4, <1>5
<1> QED
    BY <1>1, <1>3, <1>4, <1>6 DEF RemoveAt

-----------------------------------------------------------------------------
(* Tables and entries as values: taking an entry out, putting one in front. *)

Table == [Buckets -> Seq(Address)]
Entries == [Address -> MemoryRef \cup {Nil}]

Put(en, a, e) == [en EXCEPT ![a] = e]

\* ListsSound, of any table and entries.
Sound(t, en) ==
    /\ \A b \in Buckets : \A i \in DOMAIN t[b] :
          t[b][i] \in Address /\ en[t[b][i]] # Nil /\ hash[en[t[b][i]].name] = b
    /\ \A b, c \in Buckets : \A i \in DOMAIN t[b], j \in DOMAIN t[c] :
          t[b][i] = t[c][j] => b = c /\ i = j
    /\ \A a \in Address : en[a] # Nil => \E b \in Buckets : \E i \in DOMAIN t[b] : t[b][i] = a

\* In every list the names differ, but for those of S.
Single(t, en, S) ==
    \A b \in Buckets : \A i, j \in DOMAIN t[b] :
        en[t[b][i]].name \notin S /\ en[t[b][i]].name = en[t[b][j]].name => i = j

\* Where the element at a place of the list was before place i of list b was taken out.
Was(b, i, c, j) == IF c = b /\ j >= i THEN j + 1 ELSE j

\* u is t with place i of list b taken out.
Shorter(t, b, i, u) ==
    /\ \A c \in Buckets : \A j \in DOMAIN u[c] :
          /\ Was(b, i, c, j) \in DOMAIN t[c]
          /\ u[c][j] = t[c][Was(b, i, c, j)]
          /\ c = b => Was(b, i, c, j) # i
    /\ \A c \in Buckets : \A k \in DOMAIN t[c] :
          ~(c = b /\ k = i) => \E j \in DOMAIN u[c] : Was(b, i, c, j) = k

LEMMA TableDomain ==
    ASSUME NEW t \in Table
    PROVE  \A b \in Buckets : /\ t[b] \in Seq(Address) /\ DOMAIN t[b] = 1..Len(t[b])
                             /\ Len(t[b]) \in Nat /\ DOMAIN t[b] \subseteq Nat \ {0}
  BY DEF Table

LEMMA TakenOut ==
    ASSUME NEW t \in Table, NEW b \in Buckets, NEW i \in DOMAIN t[b],
           NEW u, u = Unlinked(t, b, i)
    PROVE  u \in Table /\ Shorter(t, b, i, u)
  <1>1. t[b] \in Seq(Address) /\ i \in 1..Len(t[b]) /\ Len(t[b]) \in Nat
    BY TableDomain
  <1>2. PICK r : r = RemoveAt(t[b], i)
    OBVIOUS
  <1>3. /\ r \in Seq(Address) /\ Len(r) = Len(t[b]) - 1
        /\ \A j \in 1..(i - 1) : r[j] = t[b][j]
        /\ \A j \in i..(Len(t[b]) - 1) : r[j] = t[b][j + 1]
    BY <1>1, <1>2, RemoveAtIs
  <1>4. u \in Table /\ u[b] = r /\ \A c \in Buckets : c # b => u[c] = t[c]
    BY <1>2, <1>3 DEF Table, Unlinked
  <1>5. DOMAIN r = 1..(Len(t[b]) - 1) /\ DOMAIN t[b] = 1..Len(t[b])
    BY <1>1, <1>3
  <1>6. ASSUME NEW c \in Buckets, NEW j \in DOMAIN u[c]
        PROVE  /\ Was(b, i, c, j) \in DOMAIN t[c]
               /\ u[c][j] = t[c][Was(b, i, c, j)]
               /\ c = b => Was(b, i, c, j) # i
    <2>1. CASE c # b
      BY <2>1, <1>4 DEF Was
    <2>2. CASE c = b
      <3>1. j \in 1..(Len(t[b]) - 1) /\ u[c][j] = r[j]
        BY <2>2, <1>4, <1>5
      <3>2. CASE j >= i
        BY <3>1, <3>2, <2>2, <1>1, <1>3, <1>5 DEF Was
      <3>3. CASE ~(j >= i)
        BY <3>1, <3>3, <2>2, <1>1, <1>3, <1>5 DEF Was
      <3> QED BY <3>2, <3>3
    <2> QED BY <2>1, <2>2
  <1>7. ASSUME NEW c \in Buckets, NEW k \in DOMAIN t[c], ~(c = b /\ k = i)
        PROVE  \E j \in DOMAIN u[c] : Was(b, i, c, j) = k
    <2>0. k \in Nat
      BY TableDomain
    <2>1. CASE c # b
      BY <2>1, <1>4 DEF Was
    <2>2. CASE c = b /\ k < i
      <3>1. k \in DOMAIN u[c] /\ Was(b, i, c, k) = k
        BY <2>2, <1>1, <1>4, <1>5 DEF Was
      <3> QED BY <3>1
    <2>3. CASE c = b /\ k > i
      <3>1. k - 1 \in DOMAIN u[c] /\ Was(b, i, c, k - 1) = k
        BY <2>3, <1>1, <1>4, <1>5 DEF Was
      <3> QED BY <3>1
    <2> QED BY <2>0, <2>1, <2>2, <2>3, <1>1, <1>7
  <1> QED BY <1>4, <1>6, <1>7 DEF Shorter

\* Taking the entry out of its list and freeing it.
LEMMA RemoveKeeps ==
    ASSUME NEW t \in Table, NEW en \in Entries, Sound(t, en),
           NEW b \in Buckets, NEW i \in DOMAIN t[b],
           NEW u \in Table, Shorter(t, b, i, u),
           NEW fn, fn = Put(en, t[b][i], Nil), NEW S
    PROVE  /\ fn \in Entries
           /\ Sound(u, fn)
           /\ Single(t, en, S) => Single(u, fn, S)
  <1>1. /\ \A c \in Buckets : DOMAIN t[c] \subseteq Nat /\ DOMAIN u[c] \subseteq Nat
        /\ i \in Nat
    BY TableDomain
  <1>2. fn \in Entries
    BY DEF Entries, Put
  <1>3. \A c \in Buckets : \A j \in DOMAIN u[c] :
          /\ Was(b, i, c, j) \in DOMAIN t[c]
          /\ u[c][j] = t[c][Was(b, i, c, j)]
          /\ c = b => Was(b, i, c, j) # i
    BY DEF Shorter
  <1>4. \A c \in Buckets : \A j \in DOMAIN u[c] :
          u[c][j] \in Address /\ u[c][j] # t[b][i] /\ fn[u[c][j]] = en[u[c][j]]
    BY <1>3 DEF Sound, Entries, Put
  <1>5. ASSUME NEW c \in Buckets, NEW j \in DOMAIN u[c]
        PROVE  u[c][j] \in Address /\ fn[u[c][j]] # Nil /\ hash[fn[u[c][j]].name] = c
    BY <1>3, <1>4 DEF Sound
  <1>6. ASSUME NEW c \in Buckets, NEW d \in Buckets, NEW j \in DOMAIN u[c],
               NEW k \in DOMAIN u[d], u[c][j] = u[d][k]
        PROVE  c = d /\ j = k
    <2>1. c = d /\ Was(b, i, c, j) = Was(b, i, d, k)
      <3>1. /\ Was(b, i, c, j) \in DOMAIN t[c] /\ Was(b, i, d, k) \in DOMAIN t[d]
            /\ t[c][Was(b, i, c, j)] = t[d][Was(b, i, d, k)]
        BY <1>3, <1>6
      <3> QED BY <3>1 DEF Sound
    <2>2. j \in Nat /\ k \in Nat /\ i \in Nat
      BY <1>1
    <2> QED BY <2>1, <2>2 DEF Was
  <1>7. ASSUME NEW a \in Address, fn[a] # Nil
        PROVE  \E c \in Buckets : \E j \in DOMAIN u[c] : u[c][j] = a
    <2>1. a # t[b][i] /\ en[a] # Nil
      BY <1>7 DEF Entries, Put
    <2>2. PICK c \in Buckets : \E k \in DOMAIN t[c] : t[c][k] = a
      BY <2>1 DEF Sound
    <2>3. PICK k \in DOMAIN t[c] : t[c][k] = a
      BY <2>2
    <2>4. PICK j \in DOMAIN u[c] : Was(b, i, c, j) = k
      BY <2>1, <2>3 DEF Shorter
    <2> QED BY <2>3, <2>4, <1>3
  <1>8. ASSUME Single(t, en, S), NEW c \in Buckets, NEW j \in DOMAIN u[c], NEW k \in DOMAIN u[c],
               fn[u[c][j]].name \notin S, fn[u[c][j]].name = fn[u[c][k]].name
        PROVE  j = k
    <2>1. Was(b, i, c, j) = Was(b, i, c, k)
      BY <1>3, <1>4, <1>8 DEF Single
    <2>2. j \in Nat /\ k \in Nat /\ i \in Nat
      BY <1>1
    <2> QED BY <2>1, <2>2 DEF Was
  <1> QED BY <1>2, <1>5, <1>6, <1>7, <1>8 DEF Sound, Single

\* u is t with a put in front of list b.
Before(b, c, j) == IF c = b THEN j - 1 ELSE j
Longer(t, b, a, u) ==
    /\ 1 \in DOMAIN u[b] /\ u[b][1] = a
    /\ \A c \in Buckets : \A j \in DOMAIN u[c] :
          ~(c = b /\ j = 1) => /\ Before(b, c, j) \in DOMAIN t[c]
                              /\ u[c][j] = t[c][Before(b, c, j)]
    /\ \A c \in Buckets : \A k \in DOMAIN t[c] :
          \E j \in DOMAIN u[c] : ~(c = b /\ j = 1) /\ Before(b, c, j) = k

LEMMA PutInFront ==
    ASSUME NEW t \in Table, NEW b \in Buckets, NEW a \in Address,
           NEW u, u = Linked(t, b, a)
    PROVE  u \in Table /\ Longer(t, b, a, u)
  <1>1. t[b] \in Seq(Address) /\ Len(t[b]) \in Nat /\ DOMAIN t[b] = 1..Len(t[b])
    BY TableDomain
  <1>2. PICK r : r = Cons(a, t[b])
    OBVIOUS
  <1>3. /\ r \in Seq(Address) /\ Len(r) = Len(t[b]) + 1 /\ r[1] = a
        /\ \A i \in 1..Len(t[b]) : r[i + 1] = t[b][i]
    <2>1. PICK s \in Seq(Address) : s = t[b]
      BY <1>1
    <2>2. /\ Cons(a, s) \in Seq(Address) /\ Len(Cons(a, s)) = Len(s) + 1 /\ Cons(a, s)[1] = a
          /\ \A i \in 1..Len(s) : Cons(a, s)[i + 1] = s[i]
      BY ONLY ConsIs
    <2> QED BY ONLY <1>2, <2>1, <2>2
  <1>4. u \in Table /\ u[b] = r /\ \A c \in Buckets : c # b => u[c] = t[c]
    BY <1>2, <1>3 DEF Table, Linked
  <1>5. DOMAIN r = 1..(Len(t[b]) + 1)
    BY <1>1, <1>3
  <1>6. 1 \in DOMAIN u[b] /\ u[b][1] = a
    BY <1>1, <1>3, <1>4, <1>5
  <1>7. ASSUME NEW c \in Buckets, NEW j \in DOMAIN u[c], ~(c = b /\ j = 1)
        PROVE  Before(b, c, j) \in DOMAIN t[c] /\ u[c][j] = t[c][Before(b, c, j)]
    <2>1. CASE c # b
      BY <2>1, <1>4 DEF Before
    <2>2. CASE c = b
      <3>1. j \in 1..(Len(t[b]) + 1) /\ j # 1 /\ u[c][j] = r[j]
        BY <2>2, <1>4, <1>5, <1>7
      <3>2. j - 1 \in 1..Len(t[b]) /\ (j - 1) + 1 = j
        BY <3>1, <1>1
      <3>3. r[(j - 1) + 1] = t[b][j - 1]
        BY <3>2, <1>3
      <3> QED BY <2>2, <3>1, <3>2, <3>3, <1>1 DEF Before
    <2> QED BY <2>1, <2>2
  <1>8. ASSUME NEW c \in Buckets, NEW k \in DOMAIN t[c]
        PROVE  \E j \in DOMAIN u[c] : ~(c = b /\ j = 1) /\ Before(b, c, j) = k
    <2>1. CASE c # b
      BY <2>1, <1>4 DEF Before
    <2>2. CASE c = b
      <3>1. k + 1 \in DOMAIN u[c] /\ k + 1 # 1 /\ Before(b, c, k + 1) = k
        BY <2>2, <1>1, <1>4, <1>5 DEF Before
      <3> QED BY <3>1
    <2> QED BY <2>1, <2>2
  <1> QED BY <1>4, <1>6, <1>7, <1>8 DEF Longer

\* Putting a new entry in front of the list of its name.
LEMMA AddKeeps ==
    ASSUME NEW t \in Table, NEW en \in Entries, Sound(t, en),
           NEW a \in Address, en[a] = Nil, NEW e \in MemoryRef,
           NEW u \in Table, Longer(t, hash[e.name], a, u),
           NEW fn, fn = Put(en, a, e), NEW S
    PROVE  /\ fn \in Entries
           /\ Sound(u, fn)
           /\ Single(t, en, S)
              /\ (e.name \in S
                  \/ \A j \in DOMAIN t[hash[e.name]] : en[t[hash[e.name]][j]].name # e.name)
              => Single(u, fn, S)
  <1> DEFINE b == hash[e.name]
  <1>1. /\ \A c \in Buckets : DOMAIN t[c] \subseteq Nat /\ DOMAIN u[c] \subseteq Nat \ {0}
        /\ e.name \in Names /\ b \in Buckets
    BY TableDomain, TableAssumption DEF MemoryRef
  <1>2. fn \in Entries /\ fn[a] = e /\ e # Nil
    BY TableAssumption DEF Entries, Put
  <1>3. /\ 1 \in DOMAIN u[b] /\ u[b][1] = a
        /\ \A c \in Buckets : \A j \in DOMAIN u[c] :
              ~(c = b /\ j = 1) => /\ Before(b, c, j) \in DOMAIN t[c]
                                  /\ u[c][j] = t[c][Before(b, c, j)]
    BY DEF Longer
  <1>4. \A c \in Buckets : \A j \in DOMAIN u[c] : ~(c = b /\ j = 1) =>
          u[c][j] \in Address /\ u[c][j] # a /\ fn[u[c][j]] = en[u[c][j]]
    BY <1>3 DEF Sound, Entries, Put
  <1> HIDE DEF b
  <1>5. ASSUME NEW c \in Buckets, NEW j \in DOMAIN u[c]
        PROVE  u[c][j] \in Address /\ fn[u[c][j]] # Nil /\ hash[fn[u[c][j]].name] = c
    <2>1. CASE c = b /\ j = 1
      BY <2>1, <1>2, <1>3 DEF b
    <2>2. CASE ~(c = b /\ j = 1)
      BY <2>2, <1>3, <1>4 DEF Sound
    <2> QED BY <2>1, <2>2
  <1>6. ASSUME NEW c \in Buckets, NEW d \in Buckets, NEW j \in DOMAIN u[c],
               NEW k \in DOMAIN u[d], u[c][j] = u[d][k]
        PROVE  c = d /\ j = k
    <2>1. CASE (c = b /\ j = 1) \/ (d = b /\ k = 1)
      BY <2>1, <1>3, <1>4, <1>6
    <2>2. CASE ~(c = b /\ j = 1) /\ ~(d = b /\ k = 1)
      <3>1. /\ Before(b, c, j) \in DOMAIN t[c] /\ Before(b, d, k) \in DOMAIN t[d]
            /\ t[c][Before(b, c, j)] = t[d][Before(b, d, k)]
        BY <2>2, <1>3, <1>6
      <3>2. c = d /\ Before(b, c, j) = Before(b, d, k)
        BY <3>1 DEF Sound
      <3> QED BY <3>2, <1>1 DEF Before
    <2> QED BY <2>1, <2>2
  <1>7. ASSUME NEW x \in Address, fn[x] # Nil
        PROVE  \E c \in Buckets : \E j \in DOMAIN u[c] : u[c][j] = x
    <2>1. CASE x = a
      BY <2>1, <1>1, <1>3
    <2>2. CASE x # a
      <3>1. en[x] # Nil
        BY <2>2, <1>7 DEF Entries, Put
      <3>2. PICK c \in Buckets : \E k \in DOMAIN t[c] : t[c][k] = x
        BY <3>1 DEF Sound
      <3>3. PICK k \in DOMAIN t[c] : t[c][k] = x
        BY <3>2
      <3>4. PICK j \in DOMAIN u[c] : ~(c = b /\ j = 1) /\ Before(b, c, j) = k
        BY DEF Longer, b
      <3> QED BY <3>3, <3>4, <1>3
    <2> QED BY <2>1, <2>2
  <1>8. ASSUME Single(t, en, S),
               e.name \in S \/ \A j \in DOMAIN t[b] : en[t[b][j]].name # e.name,
               NEW c \in Buckets, NEW j \in DOMAIN u[c], NEW k \in DOMAIN u[c],
               fn[u[c][j]].name \notin S, fn[u[c][j]].name = fn[u[c][k]].name
        PROVE  j = k
    <2>1. CASE c = b /\ (j = 1 \/ k = 1)
      <3>0. e.name \notin S
        BY <2>1, <1>2, <1>3, <1>8
      <3>1. \A i \in DOMAIN u[c] : i # 1 => fn[u[c][i]].name # e.name
        BY <2>1, <3>0, <1>3, <1>4, <1>8
      <3> QED BY <2>1, <3>1, <1>2, <1>3, <1>8
    <2>2. CASE ~(c = b /\ j = 1) /\ ~(c = b /\ k = 1)
      <3>1. Before(b, c, j) = Before(b, c, k)
        BY <2>2, <1>3, <1>4, <1>8 DEF Single
      <3> QED BY <3>1, <1>1 DEF Before
    <2> QED BY <2>1, <2>2
  <1> QED BY <1>2, <1>5, <1>6, <1>7, <1>8 DEF Sound, Single, b

\* Writing over an entry that keeps its name.
LEMMA OverKeeps ==
    ASSUME NEW t \in Table, NEW en \in Entries, Sound(t, en),
           NEW a \in Address, en[a] # Nil, NEW e \in MemoryRef, e.name = en[a].name,
           NEW fn, fn = Put(en, a, e), NEW S
    PROVE  /\ fn \in Entries
           /\ Sound(t, fn)
           /\ Single(t, en, S) => Single(t, fn, S)
  <1>1. fn \in Entries /\ e # Nil
    BY TableAssumption DEF Entries, Put
  <1>2. \A x \in Address : (fn[x] # Nil <=> en[x] # Nil) /\ (en[x] # Nil => fn[x].name = en[x].name)
    BY <1>1 DEF Entries, Put
  <1>3. Sound(t, fn)
    BY <1>2 DEF Sound
  <1>4. \A b \in Buckets : \A i \in DOMAIN t[b] : fn[t[b][i]].name = en[t[b][i]].name
    BY <1>2 DEF Sound
  <1> QED BY <1>1, <1>3, <1>4 DEF Single

LEMMA SingleMore ==
    ASSUME NEW t, NEW en, NEW S, NEW X \in SUBSET S, Single(t, en, X)
    PROVE  Single(t, en, S)
  BY DEF Single

LEMMA RenamedIs ==
    ASSUME NEW e \in MemoryRef, NEW n \in Names
    PROVE  /\ Renamed(e, n) \in MemoryRef
           /\ Renamed(e, n).name = n
           /\ Value(Renamed(e, n)) = Value(e)
  <1>1. /\ Renamed(e, n) \in MemoryRef
        /\ Renamed(e, n).name = n
    BY DEF Renamed, MemoryRef
  <1>2. /\ Renamed(e, n).type = e.type
        /\ Renamed(e, n).target = e.target
        /\ Renamed(e, n).symbolic_target = e.symbolic_target
    BY DEF Renamed
  <1>3. Value(Renamed(e, n)) = Value(e)
    BY <1>2 DEF Value
  <1> QED BY <1>1, <1>3

LEMMA NewEntryIs ==
    ASSUME NEW n \in Names, NEW v \in Reference
    PROVE  /\ NewEntry(n, v) \in MemoryRef /\ NewEntry(n, v).name = n
           /\ Value(NewEntry(n, v)) = v
  BY DEF NewEntry, MemoryRef, Value, Reference

\* Writing over an entry gives it the new value, unless it was symbolic and the value is direct.
LEMMA UpdatedIs ==
    ASSUME NEW e \in MemoryRef, NEW v \in Reference, Value(e) \in Reference
    PROVE  /\ Updated(e, v) \in MemoryRef /\ Updated(e, v).name = e.name
           /\ Value(Updated(e, v)) \in Reference
           /\ v.type = "symbolic" \/ e.type = "direct" => Value(Updated(e, v)) = v
  BY DEF Updated, MemoryRef, Value, Reference
-----------------------------------------------------------------------------
(* What is ahead of an iterator.                                           *)

\* The entries of X are in later buckets, or behind the entry "at" in its own list.
Ahead(t, X, bucket, at) ==
    \A c \in Buckets : \A j \in DOMAIN t[c] : t[c][j] \in X =>
        c > bucket \/ (c = bucket /\ \E k \in DOMAIN t[c] : k < j /\ t[c][k] = at)

LEMMA AheadRemove ==
    ASSUME NEW t \in Table, NEW b \in Buckets, NEW i \in DOMAIN t[b],
           NEW u \in Table, Shorter(t, b, i, u),
           NEW X, NEW bucket, NEW at, Ahead(t, X, bucket, at), t[b][i] # at
    PROVE  Ahead(u, X, bucket, at)
  <1> SUFFICES ASSUME NEW c \in Buckets, NEW j \in DOMAIN u[c], u[c][j] \in X, ~(c > bucket)
               PROVE  c = bucket /\ \E k \in DOMAIN u[c] : k < j /\ u[c][k] = at
    BY DEF Ahead
  <1>1. PICK o : o = Was(b, i, c, j)
    OBVIOUS
  <1>2. o \in DOMAIN t[c] /\ u[c][j] = t[c][o]
    BY <1>1 DEF Shorter
  <1>3. PICK p \in DOMAIN t[c] : c = bucket /\ p < o /\ t[c][p] = at
    BY <1>2 DEF Ahead
  <1>4. PICK k \in DOMAIN u[c] : Was(b, i, c, k) = p
    BY <1>3 DEF Shorter
  <1>5. u[c][k] = at
    BY <1>3, <1>4 DEF Shorter
  <1>6. j \in Nat /\ k \in Nat /\ i \in Nat /\ o \in Nat /\ p \in Nat
    BY <1>2, TableDomain
  <1>7. k < j
    BY <1>1, <1>3, <1>4, <1>6 DEF Was
  <1> QED BY <1>3, <1>5, <1>7

LEMMA AheadAdd ==
    ASSUME NEW t \in Table, NEW b \in Buckets, NEW a,
           NEW u \in Table, Longer(t, b, a, u),
           NEW X, NEW bucket, NEW at, Ahead(t, X, bucket, at), a \notin X
    PROVE  Ahead(u, X, bucket, at)
  <1> SUFFICES ASSUME NEW c \in Buckets, NEW j \in DOMAIN u[c], u[c][j] \in X, ~(c > bucket)
               PROVE  c = bucket /\ \E k \in DOMAIN u[c] : k < j /\ u[c][k] = at
    BY DEF Ahead
  <1>0. ~(c = b /\ j = 1)
    BY DEF Longer
  <1>1. PICK o : o = Before(b, c, j)
    OBVIOUS
  <1>2. o \in DOMAIN t[c] /\ u[c][j] = t[c][o]
    BY <1>0, <1>1 DEF Longer
  <1>3. PICK p \in DOMAIN t[c] : c = bucket /\ p < o /\ t[c][p] = at
    BY <1>2 DEF Ahead
  <1>4. PICK k \in DOMAIN u[c] : ~(c = b /\ k = 1) /\ Before(b, c, k) = p
    BY <1>3 DEF Longer
  <1>5. u[c][k] = at
    BY <1>3, <1>4 DEF Longer
  <1>6. j \in Nat /\ k \in Nat /\ o \in Nat /\ p \in Nat
    BY <1>2, TableDomain
  <1>7. k < j
    BY <1>1, <1>3, <1>4, <1>6 DEF Before
  <1> QED BY <1>3, <1>5, <1>7

LEMMA AheadLess ==
    ASSUME NEW t, NEW X, NEW Y \in SUBSET X, NEW bucket, NEW at, Ahead(t, X, bucket, at)
    PROVE  Ahead(t, Y, bucket, at)
  BY DEF Ahead

-----------------------------------------------------------------------------
(* The map that a table stands for.                                        *)

Maps == [Names -> Reference \cup {Nil}]
\* The entry at place i of its list is the first one of name n.
Leads(t, en, n, i) ==
    /\ i \in DOMAIN t[hash[n]] /\ en[t[hash[n]][i]].name = n
    /\ \A j \in DOMAIN t[hash[n]] : en[t[hash[n]][j]].name = n => i <= j
Lacks(t, en, n) == \A i \in DOMAIN t[hash[n]] : en[t[hash[n]][i]].name # n
ReadsAs(t, en, n, x) ==
    \/ \E i \in DOMAIN t[hash[n]] : Leads(t, en, n, i) /\ x = Value(en[t[hash[n]][i]])
    \/ Lacks(t, en, n) /\ x = Nil
Reads(R, t, en) == \A n \in Names : ReadsAs(t, en, n, R[n])

\* There is only one such map.
LEMMA ReadsAsOnce ==
    ASSUME NEW t \in Table, NEW en, NEW n \in Names, NEW x, NEW y,
           ReadsAs(t, en, n, x), ReadsAs(t, en, n, y)
    PROVE  x = y
  <1>1. DOMAIN t[hash[n]] \subseteq Nat
    BY TableAssumption, TableDomain
  <1>2. CASE Lacks(t, en, n)
    BY <1>2 DEF ReadsAs, Lacks, Leads
  <1>3. CASE ~Lacks(t, en, n)
    <2>1. PICK i \in DOMAIN t[hash[n]] : Leads(t, en, n, i) /\ x = Value(en[t[hash[n]][i]])
      BY <1>3 DEF ReadsAs
    <2>2. PICK j \in DOMAIN t[hash[n]] : Leads(t, en, n, j) /\ y = Value(en[t[hash[n]][j]])
      BY <1>3 DEF ReadsAs
    <2>3. i = j
      BY <1>1, <2>1, <2>2 DEF Leads
    <2> QED BY <2>1, <2>2, <2>3
  <1> QED BY <1>2, <1>3

LEMMA ReadsOnce ==
    ASSUME NEW t \in Table, NEW en,
           NEW R \in Maps, NEW Q \in Maps, Reads(R, t, en), Reads(Q, t, en)
    PROVE  R = Q
  <1>1. \A n \in Names : R[n] = Q[n]
    BY ReadsAsOnce DEF Reads
  <1> QED BY <1>1 DEF Maps

\* Taking out an entry changes nothing of the other names.
LEMMA ReadsOthers ==
    ASSUME NEW t \in Table, NEW en \in Entries, Sound(t, en),
           NEW b \in Buckets, NEW i \in DOMAIN t[b],
           NEW u \in Table, Shorter(t, b, i, u),
           NEW fn, fn = Put(en, t[b][i], Nil),
           NEW m \in Names, en[t[b][i]].name # m, NEW x, ReadsAs(t, en, m, x)
    PROVE  ReadsAs(u, fn, m, x)
  <1>1. PICK h \in Buckets : h = hash[m]
    BY TableAssumption
  <1>2. DOMAIN t[h] \subseteq Nat /\ DOMAIN u[h] \subseteq Nat /\ i \in Nat
    BY TableDomain
  <1>3. \A j \in DOMAIN u[h] :
          /\ Was(b, i, h, j) \in DOMAIN t[h] /\ u[h][j] = t[h][Was(b, i, h, j)]
          /\ h = b => Was(b, i, h, j) # i
    BY DEF Shorter
  <1>4. \A j \in DOMAIN u[h] : fn[u[h][j]] = en[u[h][j]]
    BY <1>3 DEF Sound, Entries, Put
  <1>5. CASE \E k \in DOMAIN t[h] : Leads(t, en, m, k) /\ x = Value(en[t[h][k]])
    <2>1. PICK k \in DOMAIN t[h] : Leads(t, en, m, k) /\ x = Value(en[t[h][k]])
      BY <1>5
    <2>2. ~(h = b /\ k = i)
      BY <2>1, <1>1 DEF Leads
    <2>3. PICK j \in DOMAIN u[h] : Was(b, i, h, j) = k
      BY <2>2 DEF Shorter
    <2>4. u[h][j] = t[h][k] /\ fn[u[h][j]] = en[t[h][k]]
      BY <2>3, <1>3, <1>4
    <2>5. ASSUME NEW l \in DOMAIN u[h], fn[u[h][l]].name = m
          PROVE  j <= l
      <3>1. Was(b, i, h, l) \in DOMAIN t[h] /\ en[t[h][Was(b, i, h, l)]].name = m
        BY <2>5, <1>3, <1>4
      <3>2. k <= Was(b, i, h, l)
        BY <3>1, <2>1, <1>1 DEF Leads
      <3> QED BY <3>2, <2>3, <1>2 DEF Was
    <2> QED BY <2>1, <2>4, <2>5, <1>1 DEF Leads, ReadsAs
  <1>6. CASE Lacks(t, en, m) /\ x = Nil
    <2>1. Lacks(u, fn, m)
      BY <1>1, <1>6, <1>3, <1>4 DEF Lacks
    <2> QED BY <2>1, <1>6 DEF ReadsAs
  <1> QED BY <1>1, <1>5, <1>6 DEF ReadsAs

\* Without the only entry of a name there is nothing under that name.
LEMMA ReadsRemove ==
    ASSUME NEW t \in Table, NEW en \in Entries, Sound(t, en),
           NEW b \in Buckets, NEW i \in DOMAIN t[b], NEW n \in Names, en[t[b][i]].name = n,
           \A j \in DOMAIN t[b] : en[t[b][j]].name = n => j = i,
           NEW u \in Table, Shorter(t, b, i, u),
           NEW fn, fn = Put(en, t[b][i], Nil),
           NEW R \in Maps, Reads(R, t, en)
    PROVE  Reads([R EXCEPT ![n] = Nil], u, fn)
  <1>1. PICK Q : Q = [R EXCEPT ![n] = Nil]
    OBVIOUS
  <1>2. Q[n] = Nil /\ \A m \in Names : m # n => Q[m] = R[m]
    BY <1>1 DEF Maps
  <1>3. hash[n] = b
    BY DEF Sound
  <1>4. \A j \in DOMAIN u[b] :
          /\ Was(b, i, b, j) \in DOMAIN t[b] /\ u[b][j] = t[b][Was(b, i, b, j)]
          /\ Was(b, i, b, j) # i
    BY DEF Shorter
  <1>5. \A j \in DOMAIN u[b] : fn[u[b][j]] = en[u[b][j]]
    BY <1>4 DEF Sound, Entries, Put
  <1>6. \A j \in DOMAIN u[b] : fn[u[b][j]].name # n
    BY <1>4, <1>5
  <1>7. ASSUME NEW m \in Names, m # n
        PROVE  ReadsAs(u, fn, m, Q[m])
    <2>1. ReadsAs(t, en, m, Q[m])
      BY <1>2, <1>7 DEF Reads
    <2> QED BY <1>7, <2>1, ReadsOthers
  <1>8. Reads(Q, u, fn)
    BY <1>2, <1>3, <1>6, <1>7 DEF Reads, ReadsAs, Lacks
  <1> QED BY <1>1, <1>8

\* What is put in front changes nothing of the other names, and is found whatever else has its
\* name.
LEMMA ReadsBehind ==
    ASSUME NEW t \in Table, NEW en \in Entries, Sound(t, en),
           NEW a \in Address, en[a] = Nil, NEW e \in MemoryRef, NEW n \in Names, e.name = n,
           NEW u \in Table, Longer(t, hash[n], a, u),
           NEW fn, fn = Put(en, a, e),
           NEW m \in Names, m # n, NEW x, ReadsAs(t, en, m, x)
    PROVE  ReadsAs(u, fn, m, x)
  <1>1. PICK h \in Buckets : h = hash[m]
    BY TableAssumption
  <1>2. DOMAIN t[h] \subseteq Nat /\ DOMAIN u[h] \subseteq Nat
    BY TableDomain
  <1>3. hash[n] \in Buckets /\ fn[a] = e /\ u[hash[n]][1] = a
    BY TableAssumption DEF Entries, Put, Longer
  <1>4. \A j \in DOMAIN u[h] : ~(h = hash[n] /\ j = 1) =>
          /\ Before(hash[n], h, j) \in DOMAIN t[h]
          /\ u[h][j] = t[h][Before(hash[n], h, j)]
    BY DEF Longer
  <1>5. \A j \in DOMAIN u[h] : ~(h = hash[n] /\ j = 1) => fn[u[h][j]] = en[u[h][j]]
    BY <1>4 DEF Sound, Entries, Put
  <1>6. CASE \E k \in DOMAIN t[h] : Leads(t, en, m, k) /\ x = Value(en[t[h][k]])
    <2>1. PICK k \in DOMAIN t[h] : Leads(t, en, m, k) /\ x = Value(en[t[h][k]])
      BY <1>6
    <2>2. PICK j \in DOMAIN u[h] : ~(h = hash[n] /\ j = 1) /\ Before(hash[n], h, j) = k
      BY DEF Longer
    <2>3. u[h][j] = t[h][k] /\ fn[u[h][j]] = en[t[h][k]]
      BY <2>2, <1>4, <1>5
    <2>4. ASSUME NEW l \in DOMAIN u[h], fn[u[h][l]].name = m
          PROVE  j <= l
      <3>1. ~(h = hash[n] /\ l = 1)
        BY <2>4, <1>3
      <3>2. /\ Before(hash[n], h, l) \in DOMAIN t[h]
            /\ en[t[h][Before(hash[n], h, l)]].name = m
        BY <3>1, <2>4, <1>4, <1>5
      <3>3. k <= Before(hash[n], h, l)
        BY <3>2, <2>1, <1>1 DEF Leads
      <3> QED BY <3>3, <2>2, <1>2 DEF Before
    <2> QED BY <2>1, <2>3, <2>4, <1>1 DEF Leads, ReadsAs
  <1>7. CASE Lacks(t, en, m) /\ x = Nil
    <2>1. ASSUME NEW j \in DOMAIN u[h]
          PROVE  fn[u[h][j]].name # m
      <3>1. CASE h = hash[n] /\ j = 1
        BY <3>1, <1>3
      <3>2. CASE ~(h = hash[n] /\ j = 1)
        BY <3>2, <1>1, <1>7, <1>4, <1>5 DEF Lacks
      <3> QED BY <3>1, <3>2
    <2> QED BY <2>1, <1>1, <1>7 DEF ReadsAs, Lacks
  <1> QED BY <1>1, <1>6, <1>7 DEF ReadsAs

LEMMA ReadsAdd ==
    ASSUME NEW t \in Table, NEW en \in Entries, Sound(t, en),
           NEW a \in Address, en[a] = Nil, NEW e \in MemoryRef, NEW n \in Names, e.name = n,
           NEW u \in Table, Longer(t, hash[n], a, u),
           NEW fn, fn = Put(en, a, e),
           NEW R \in Maps, \A m \in Names : m # n => ReadsAs(t, en, m, R[m])
    PROVE  Reads([R EXCEPT ![n] = Value(e)], u, fn)
  <1>1. PICK Q : Q = [R EXCEPT ![n] = Value(e)]
    OBVIOUS
  <1>2. Q[n] = Value(e) /\ \A m \in Names : m # n => Q[m] = R[m]
    BY <1>1 DEF Maps
  <1>3. hash[n] \in Buckets /\ fn[a] = e /\ 1 \in DOMAIN u[hash[n]] /\ u[hash[n]][1] = a
    BY TableAssumption DEF Entries, Put, Longer
  <1>4. ReadsAs(u, fn, n, Q[n])
    <2>1. \A j \in DOMAIN u[hash[n]] : 1 <= j
      BY <1>3, TableDomain
    <2> QED BY <2>1, <1>2, <1>3 DEF Leads, ReadsAs
  <1>5. ASSUME NEW m \in Names, m # n
        PROVE  ReadsAs(u, fn, m, Q[m])
    <2>1. ReadsAs(t, en, m, Q[m])
      BY <1>2, <1>5
    <2> QED BY <1>5, <2>1, ReadsBehind
  <1>6. Reads(Q, u, fn)
    BY <1>4, <1>5 DEF Reads
  <1> QED BY <1>1, <1>6

\* Writing over the first entry of a name changes what is found under it.
LEMMA ReadsOver ==
    ASSUME NEW t \in Table, NEW en \in Entries, Sound(t, en),
           NEW n \in Names, NEW i \in DOMAIN t[hash[n]], Leads(t, en, n, i),
           NEW a, a = t[hash[n]][i], NEW e \in MemoryRef, e.name = n,
           NEW fn, fn = Put(en, a, e),
           NEW R \in Maps, Reads(R, t, en)
    PROVE  Reads([R EXCEPT ![n] = Value(e)], t, fn)
  <1>1. PICK Q : Q = [R EXCEPT ![n] = Value(e)]
    OBVIOUS
  <1>2. Q[n] = Value(e) /\ \A m \in Names : m # n => Q[m] = R[m]
    BY <1>1 DEF Maps
  <1>3. hash[n] \in Buckets /\ a \in Address /\ en[a].name = n
    BY TableAssumption DEF Sound, Leads
  <1>4. fn[a] = e /\ \A x \in Address : x # a => fn[x] = en[x]
    BY <1>3 DEF Entries, Put
  <1>5. ASSUME NEW m \in Names
        PROVE  \A j \in DOMAIN t[hash[m]] :
                  /\ fn[t[hash[m]][j]].name = en[t[hash[m]][j]].name
                  /\ en[t[hash[m]][j]].name = m /\ m # n => fn[t[hash[m]][j]] = en[t[hash[m]][j]]
    <2>1. \A j \in DOMAIN t[hash[m]] : t[hash[m]][j] \in Address
      BY TableAssumption DEF Sound
    <2> TAKE j \in DOMAIN t[hash[m]]
    <2>2. PICK x \in Address : x = t[hash[m]][j]
      BY <2>1
    <2>3. fn[x].name = en[x].name /\ (en[x].name = m /\ m # n => fn[x] = en[x])
      BY <1>3, <1>4
    <2> QED BY <2>2, <2>3
  <1>6. ReadsAs(t, fn, n, Q[n])
    BY <1>2, <1>4, <1>5 DEF Leads, ReadsAs
  <1>7. ASSUME NEW m \in Names, m # n
        PROVE  ReadsAs(t, fn, m, Q[m])
    <2>1. ReadsAs(t, en, m, Q[m])
      BY <1>2, <1>7 DEF Reads
    <2>2. \A k \in DOMAIN t[hash[m]] :
            (Leads(t, fn, m, k) <=> Leads(t, en, m, k))
            /\ (Leads(t, en, m, k) => fn[t[hash[m]][k]] = en[t[hash[m]][k]])
      BY <1>5, <1>7 DEF Leads
    <2>3. Lacks(t, fn, m) <=> Lacks(t, en, m)
      BY <1>5 DEF Lacks
    <2> QED BY <2>1, <2>2, <2>3 DEF ReadsAs
  <1>8. Reads(Q, t, fn)
    BY <1>6, <1>7 DEF Reads
  <1> QED BY <1>1, <1>8

-----------------------------------------------------------------------------
(* The inductive invariant.                                                *)

IterInv ==
    /\ stay \subseteq Allocated
    /\ it.state = "open" => Ahead(table, stay \ seen, it.bucket, it.cur)
    /\ it.state = "over" => stay \subseteq seen

IInv ==
    /\ TypeOK
    /\ Sound(table, entry)
    /\ Single(table, entry, shadowed)
    /\ IterInv

LEMMA InitIInv == Init => IInv
  <1> SUFFICES ASSUME Init PROVE IInv
    OBVIOUS
  <1>1. table \in Table /\ \A b \in Buckets : DOMAIN table[b] = {}
    BY DEF Init, EmptyTable, Table
  <1>2. TypeOK
    BY <1>1, TableAssumption
    DEF Init, TypeOK, Table, Allocated, Iterator, NoIterator, Stands, Calls, Callbacks, With, Op,
        Codes
  <1>3. Allocated = {}
    BY DEF Init, Allocated
  <1>4. Sound(table, entry) /\ Single(table, entry, shadowed)
    BY <1>1, <1>3 DEF Sound, Single, Allocated
  <1>5. IterInv
    BY DEF Init, IterInv, NoIterator, Stands
  <1> QED BY <1>2, <1>4, <1>5 DEF IInv

\* What the walk down a list stops at.
LEMMA FirstIs ==
    ASSUME IInv, NEW n \in Names, NEW i \in First(n)
    PROVE  /\ hash[n] \in Buckets /\ i \in DOMAIN table[hash[n]]
           /\ table[hash[n]][i] \in Address
           /\ entry[table[hash[n]][i]] \in MemoryRef
           /\ entry[table[hash[n]][i]].name = n
           /\ entry[table[hash[n]][i]] # Nil
           /\ Value(entry[table[hash[n]][i]]) \in Reference
           /\ There(n)
  <1>1. hash[n] \in Buckets
    BY TableAssumption
  <1>2. i \in DOMAIN table[hash[n]] /\ entry[table[hash[n]][i]].name = n /\ There(n)
    BY DEF First, At, There
  <1>3. table[hash[n]][i] \in Address /\ entry[table[hash[n]][i]] # Nil
    BY <1>1, <1>2 DEF IInv, Sound
  <1>4. entry[table[hash[n]][i]] \in MemoryRef /\ Value(entry[table[hash[n]][i]]) \in Reference
    BY <1>3 DEF IInv, TypeOK, Allocated
  <1> QED BY <1>1, <1>2, <1>3, <1>4

LEMMA StateIs ==
    ASSUME IInv
    PROVE  /\ table \in Table /\ entry \in Entries /\ Sound(table, entry)
           /\ Single(table, entry, shadowed) /\ shadowed \subseteq Names
  BY DEF IInv, TypeOK, Table, Entries

\* TypeOK by its parts.
IterType == it \in Iterator /\ seen \subseteq Address /\ stay \subseteq Address
LastType == last \in [call : Calls, name : Names \cup {Nil}, code : Codes,
                      out : Reference \cup {Nil}]
Valued(en) == \A a \in Address : en[a] # Nil => Value(en[a]) \in Reference

LEMMA TypeParts ==
    TypeOK <=> /\ entry \in Entries /\ Valued(entry) /\ table \in Table
               /\ alive \in BOOLEAN /\ kept \in BOOLEAN
               /\ shadowed \subseteq Names /\ IterType /\ LastType
  BY DEF TypeOK, Entries, Valued, Table, IterType, LastType, Allocated

LEMMA TypePartsNext ==
    TypeOK' <=> /\ entry' \in Entries /\ Valued(entry') /\ table' \in Table
                /\ alive' \in BOOLEAN /\ kept' \in BOOLEAN
                /\ shadowed' \subseteq Names /\ IterType' /\ LastType'
  BY DEF TypeOK, Entries, Valued, Table, IterType, LastType, Allocated

\* The calls that are made.
LEMMA CallsAre ==
    /\ /\ Op("create") \in Calls /\ Op("exists") \in Calls /\ Op("lookup") \in Calls
       /\ Op("write") \in Calls /\ Op("free") \in Calls /\ Op("log") \in Calls
       /\ Op("iterator") \in Calls /\ Op("next") \in Calls /\ Op("next_name") \in Calls
       /\ Op("end") \in Calls
    /\ \A v \in Reference, f \in BOOLEAN, o \in Reference \cup {Nil} :
          With("write", v, f, o) \in Calls
    /\ \A n \in Names, f \in BOOLEAN : With("rename", n, f, Nil) \in Calls
    /\ \A o \in Reference \cup {Nil} : With("delete", Nil, FALSE, o) \in Calls
  BY DEF Calls, Callbacks, With, Op

\* Every answer has its type.
LEMMA AnswerType ==
    ASSUME NEW call \in Calls, NEW n \in Names \cup {Nil}, NEW c \in Codes
    PROVE  /\ Returns(call, n, c) => LastType'
           /\ \A v \in Reference : Answers(call, n, c, v) => LastType'
  BY DEF Returns, Answers, LastType

LEMMA ValuedPut ==
    ASSUME NEW en \in Entries, Valued(en), NEW a \in Address, NEW e,
           e = Nil \/ Value(e) \in Reference
    PROVE  Valued(Put(en, a, e))
  BY DEF Valued, Put, Entries
-----------------------------------------------------------------------------
(* Every operation keeps the invariant.                                    *)

\* A step that leaves the table and the iterator alone.
LEMMA QuietStep ==
    ASSUME IInv, LastType', alive' \in BOOLEAN, kept' \in BOOLEAN,
           UNCHANGED <<entry, table, iterVars, shadowed>>
    PROVE  IInv'
  <1>1. entry' = entry /\ table' = table /\ it' = it /\ seen' = seen /\ stay' = stay
        /\ shadowed' = shadowed
    BY DEF iterVars
  <1>2. TypeOK'
    BY <1>1, TypeParts, TypePartsNext DEF IInv, IterType
  <1>3. IterInv'
    BY <1>1 DEF IInv, IterInv, Allocated
  <1> QED BY <1>1, <1>2, <1>3 DEF IInv

LEMMA WriteOverStep ==
    ASSUME IInv, NEW n \in Names, NEW v \in Reference, NEW force \in BOOLEAN,
           NEW old \in Reference \cup {Nil}, WriteOver(n, v, force, old),
           UNCHANGED <<alive, iterVars, shadowed>>
    PROVE  IInv'
  <1>1. PICK i \in First(n) :
          /\ entry' = [entry EXCEPT ![table[hash[n]][i]] = Updated(@, v)]
          /\ kept' = (v.type = "symbolic" \/ entry[table[hash[n]][i]].type = "direct")
    BY DEF WriteOver
  <1>2. PICK a \in Address : a = table[hash[n]][i] /\ entry[a] \in MemoryRef
                            /\ entry[a] # Nil /\ Value(entry[a]) \in Reference
    BY FirstIs
  <1>3. PICK e \in MemoryRef : /\ e = Updated(entry[a], v) /\ e.name = entry[a].name
                              /\ Value(e) \in Reference
    BY <1>2, UpdatedIs
  <1>4. entry' = Put(entry, a, e) /\ table' = table /\ LastType'
        /\ it' = it /\ seen' = seen /\ stay' = stay /\ alive' = alive /\ shadowed' = shadowed
    BY <1>1, <1>2, <1>3, AnswerType, CallsAre DEF Put, WriteOver, iterVars, Codes
  <1>5. /\ entry' \in Entries
        /\ Sound(table', entry')
        /\ Single(table', entry', shadowed')
    BY <1>2, <1>3, <1>4, StateIs, OverKeeps
  <1>6. Valued(entry')
    BY <1>2, <1>3, <1>4, StateIs, ValuedPut, TypeParts DEF IInv
  <1>7. kept' \in BOOLEAN
    BY <1>1
  <1>8. TypeOK'
    BY <1>4, <1>5, <1>6, <1>7, StateIs, TypeParts, TypePartsNext DEF IInv, IterType
  <1>9. Allocated' = Allocated
    BY <1>2, <1>3, <1>4, StateIs, TableAssumption DEF Allocated, Put, Entries
  <1>10. IterInv'
    BY <1>4, <1>9 DEF IInv, IterInv
  <1> QED BY <1>5, <1>8, <1>10 DEF IInv

LEMMA WriteNewStep ==
    ASSUME IInv, NEW n \in Names, NEW v \in Reference, NEW force \in BOOLEAN,
           NEW old \in Reference \cup {Nil}, WriteNew(n, v, force, old),
           UNCHANGED <<alive, iterVars, shadowed>>
    PROVE  IInv'
  <1>1. CASE Returns(With("write", v, force, old), n, "GIT_ENOMEM") /\ Keeps
             /\ UNCHANGED <<entry, table>>
    <2>1. LastType' /\ kept' \in BOOLEAN /\ alive' \in BOOLEAN
      BY <1>1, AnswerType, CallsAre, TypeParts DEF Codes, Keeps, IInv
    <2> QED BY <1>1, <2>1, QuietStep
  <1>2. CASE /\ \E a \in Address \ Allocated :
                   /\ entry' = [entry EXCEPT ![a] = NewEntry(n, v)]
                   /\ table' = Linked(table, hash[n], a)
             /\ Returns(With("write", v, force, old), n, "GIT_OK")
             /\ kept' = (force \/ old = Nil)
    <2>1. PICK a \in Address \ Allocated :
            /\ entry' = [entry EXCEPT ![a] = NewEntry(n, v)]
            /\ table' = Linked(table, hash[n], a)
      BY <1>2
    <2>2. PICK e \in MemoryRef : e = NewEntry(n, v) /\ e.name = n /\ Value(e) \in Reference
      BY NewEntryIs
    <2>3. hash[n] \in Buckets /\ entry[a] = Nil
      BY TableAssumption DEF Allocated
    <2>4. entry' = Put(entry, a, e) /\ LastType' /\ kept' \in BOOLEAN
          /\ it' = it /\ seen' = seen /\ stay' = stay /\ alive' = alive /\ shadowed' = shadowed
      <3>1. entry' = Put(entry, a, e) /\ LastType'
        BY <1>2, <2>1, <2>2, AnswerType, CallsAre DEF Put, Codes
      <3> QED BY <1>2, <3>1 DEF iterVars
    <2>5. table' \in Table /\ Longer(table, hash[n], a, table')
      BY <2>1, <2>3, StateIs, PutInFront
    <2>6. \A j \in DOMAIN table[hash[n]] : entry[table[hash[n]][j]].name # n
      BY DEF WriteNew, There, At
    <2>7. /\ entry' \in Entries
          /\ Sound(table', entry')
          /\ Single(table', entry', shadowed')
      BY <2>2, <2>3, <2>4, <2>5, <2>6, StateIs, AddKeeps
    <2>8. Valued(entry')
      BY <2>2, <2>4, StateIs, ValuedPut, TypeParts DEF IInv
    <2>9. TypeOK'
      BY <2>4, <2>5, <2>7, <2>8, TypeParts, TypePartsNext DEF IInv, IterType
    <2>10. Allocated \subseteq Allocated' /\ a \notin stay
      BY <2>1, <2>2, <2>4, StateIs, TableAssumption DEF Allocated, Put, Entries, IInv, IterInv
    <2>11. Ahead(table, stay \ seen, it.bucket, it.cur)
           => Ahead(table', stay \ seen, it.bucket, it.cur)
      BY <2>3, <2>5, <2>10, StateIs, AheadAdd
    <2>12. IterInv'
      BY <2>4, <2>10, <2>11 DEF IInv, IterInv
    <2> QED BY <2>7, <2>9, <2>12 DEF IInv
  <1> QED BY <1>1, <1>2 DEF WriteNew

LEMMA FreedStep ==
    ASSUME IInv, NEW n \in Names, NEW i \in First(n), Freed(n, i),
           kept' \in BOOLEAN, LastType', UNCHANGED <<seen, alive, shadowed>>
    PROVE  IInv'
  <1>1. PICK a \in Address : /\ a = table[hash[n]][i]
                            /\ entry' = [entry EXCEPT ![a] = Nil]
                            /\ table' = Unlinked(table, hash[n], i)
                            /\ stay' = stay \ {a}
                            /\ it' = IF a = it.cur THEN Stands("dangling", it.bucket, a) ELSE it
    BY FirstIs DEF Freed
  <1>2. hash[n] \in Buckets /\ i \in DOMAIN table[hash[n]]
    BY FirstIs
  <1>3. entry' = Put(entry, a, Nil)
    BY <1>1 DEF Put
  <1>4. table' \in Table /\ Shorter(table, hash[n], i, table')
    BY <1>1, <1>2, StateIs, TakenOut
  <1>5. /\ entry' \in Entries
        /\ Sound(table', entry')
        /\ Single(table', entry', shadowed')
    <2>1. entry' = Put(entry, table[hash[n]][i], Nil)
      BY <1>1, <1>3
    <2> QED BY <1>2, <1>4, <2>1, StateIs, RemoveKeeps
  <1>6. Valued(entry')
    BY <1>3, StateIs, ValuedPut, TypeParts DEF IInv
  <1>7. IterType'
    BY <1>1, TypeParts DEF IInv, IterType, Iterator, Stands
  <1>8. TypeOK'
    BY <1>4, <1>5, <1>6, <1>7, TypeParts, TypePartsNext DEF IInv
  <1>9. stay' \subseteq Allocated'
    BY <1>1, <1>3, StateIs DEF IInv, IterInv, Allocated, Entries, Put
  <1>10. it'.state = "open" => Ahead(table', stay' \ seen', it'.bucket, it'.cur)
    <2> SUFFICES ASSUME it'.state = "open"
                 PROVE  Ahead(table', stay' \ seen', it'.bucket, it'.cur)
      OBVIOUS
    <2>1. it' = it /\ a # it.cur
      BY <1>1 DEF Stands
    <2>2. Ahead(table, stay \ seen, it.bucket, it.cur)
      BY <2>1 DEF IInv, IterInv
    <2>3. Ahead(table', stay \ seen, it.bucket, it.cur)
      BY <1>1, <1>2, <1>4, <2>1, <2>2, StateIs, AheadRemove
    <2>4. stay' \ seen' \subseteq stay \ seen
      BY <1>1
    <2> QED BY <2>1, <2>3, <2>4, AheadLess
  <1>11. it'.state = "over" => stay' \subseteq seen'
    BY <1>1 DEF IInv, IterInv, Stands
  <1> QED BY <1>5, <1>8, <1>9, <1>10, <1>11 DEF IInv, IterInv

\* Nothing is ahead that has to be visited, whatever the table is.
LEMMA AheadNothing ==
    ASSUME NEW t, NEW bucket, NEW at
    PROVE  Ahead(t, {}, bucket, at)
  BY DEF Ahead

LEMMA MovedStep ==
    ASSUME IInv, NEW old \in Names, NEW new \in Names, NEW i \in First(old), Moved(old, new, i),
           kept' \in BOOLEAN, LastType', UNCHANGED <<seen, alive>>
    PROVE  IInv'
  <1>1. PICK a \in Address :
          /\ a = table[hash[old]][i]
          /\ entry' = [entry EXCEPT ![a] = Renamed(@, new)]
          /\ table' = Linked(Unlinked(table, hash[old], i), hash[new], a)
          /\ stay' = IF a = it.cur THEN {} ELSE stay \ {a}
    BY FirstIs DEF Moved
  <1>2. /\ hash[old] \in Buckets /\ hash[new] \in Buckets /\ i \in DOMAIN table[hash[old]]
        /\ entry[a] \in MemoryRef /\ entry[a] # Nil /\ entry[a].name = old
        /\ Value(entry[a]) \in Reference
    BY <1>1, FirstIs, TableAssumption
  <1>3. /\ it' = it /\ shadowed \subseteq shadowed' /\ shadowed' \subseteq Names
        /\ There(new) /\ new # old => new \in shadowed'
    <2>1. shadowed' = IF There(new) /\ new # old THEN shadowed \cup {new} ELSE shadowed
      BY DEF Moved
    <2> QED BY <2>1, StateIs DEF Moved
  <1>4. PICK e \in MemoryRef : /\ e = Renamed(entry[a], new) /\ e.name = new
                              /\ Value(e) \in Reference
    BY <1>2, RenamedIs
  <1>5. PICK fn : fn = Put(entry, a, Nil)
    OBVIOUS
  <1>6. PICK u : u = Unlinked(table, hash[old], i)
    OBVIOUS
  <1>7. u \in Table /\ Shorter(table, hash[old], i, u)
    BY <1>2, <1>6, StateIs, TakenOut
  <1>8. /\ fn \in Entries
        /\ Sound(u, fn)
        /\ Single(u, fn, shadowed')
    <2>1. Single(table, entry, shadowed')
      BY <1>3, StateIs, SingleMore
    <2> QED BY <1>1, <1>2, <1>5, <1>7, <2>1, StateIs, RemoveKeeps
  <1>9. entry' = Put(fn, a, e) /\ fn[a] = Nil
    BY <1>1, <1>4, <1>5, StateIs DEF Put, Entries
  <1>10. table' \in Table /\ Longer(u, hash[new], a, table')
    BY <1>1, <1>2, <1>6, <1>7, PutInFront
  <1>11. /\ entry' \in Entries
         /\ Sound(table', entry')
         /\ new \in shadowed' \/ (\A j \in DOMAIN u[hash[new]] : fn[u[hash[new]][j]].name # new)
            => Single(table', entry', shadowed')
    BY <1>4, <1>7, <1>8, <1>9, <1>10, AddKeeps
  <1>12. ASSUME new \notin shadowed'
         PROVE  \A j \in DOMAIN u[hash[new]] : fn[u[hash[new]][j]].name # new
    <2> TAKE j \in DOMAIN u[hash[new]]
    <2>1. PICK k \in DOMAIN table[hash[new]] :
            /\ k = Was(hash[old], i, hash[new], j)
            /\ u[hash[new]][j] = table[hash[new]][k]
            /\ hash[new] = hash[old] => k # i
      BY <1>2, <1>7 DEF Shorter
    <2>2. table[hash[new]][k] \in Address /\ table[hash[new]][k] # a
      BY <1>1, <1>2, <2>1, StateIs DEF Sound
    <2>3. fn[u[hash[new]][j]] = entry[table[hash[new]][k]]
      BY <1>5, <2>1, <2>2, StateIs DEF Put, Entries
    <2>4. CASE ~There(new)
      BY <2>3, <2>4 DEF There, At
    <2>5. CASE new = old
      <3>1. Single(table, entry, shadowed) /\ new \notin shadowed
        BY <1>3, <1>12, StateIs
      <3> QED BY <1>1, <1>2, <2>1, <2>3, <2>5, <3>1 DEF Single
    <2> QED BY <2>4, <2>5, <1>3, <1>12
  <1>13. Single(table', entry', shadowed')
    BY <1>11, <1>12
  <1>14. Valued(fn)
    BY <1>5, StateIs, ValuedPut, TypeParts DEF IInv
  <1>15. Valued(entry')
    BY <1>4, <1>8, <1>9, <1>14, ValuedPut
  <1>16. IterType'
    BY <1>1, <1>3, TypeParts DEF IInv, IterType
  <1>17. TypeOK'
    BY <1>3, <1>10, <1>11, <1>15, <1>16, TypeParts, TypePartsNext DEF IInv
  <1>18. stay' \subseteq Allocated' /\ a \notin stay'
    BY <1>1, <1>4, <1>9, <1>8, <1>5, StateIs, TableAssumption
    DEF IInv, IterInv, Allocated, Entries, Put
  <1>19. ASSUME it'.state = "open"
         PROVE  Ahead(table', stay' \ seen', it'.bucket, it'.cur)
    <2>1. CASE a = it.cur
      <3>1. stay' \ seen' = {}
        BY <1>1, <2>1
      <3> QED BY <3>1, AheadNothing
    <2>2. CASE a # it.cur
      <3>1. Ahead(table, stay \ seen, it.bucket, it.cur)
        BY <1>3, <1>19 DEF IInv, IterInv
      <3>2. Ahead(u, stay \ seen, it.bucket, it.cur)
        BY <1>1, <1>2, <1>7, <2>2, <3>1, StateIs, AheadRemove
      <3>3. stay' \ seen' \subseteq stay \ seen /\ a \notin stay' \ seen'
        BY <1>1, <1>18
      <3>4. Ahead(u, stay' \ seen', it.bucket, it.cur)
        BY <3>2, <3>3, AheadLess
      <3>5. Ahead(table', stay' \ seen', it.bucket, it.cur)
        BY <1>2, <1>7, <1>10, <3>3, <3>4, AheadAdd
      <3> QED BY <1>3, <3>5
    <2> QED BY <2>1, <2>2
  <1>20. it'.state = "over" => stay' \subseteq seen'
    BY <1>1, <1>3 DEF IInv, IterInv
  <1> QED BY <1>11, <1>13, <1>17, <1>18, <1>19, <1>20 DEF IInv, IterInv

LEMMA FreeStep ==
    ASSUME IInv, memory_ref_free
    PROVE  IInv'
  <1>1. /\ entry' = [a \in Address |-> Nil] /\ table' = EmptyTable /\ alive' = FALSE
        /\ it' = NoIterator /\ seen' = {} /\ stay' = {} /\ shadowed' = {} /\ kept' = TRUE
    BY DEF memory_ref_free, Keeps
  <1>2. LastType'
    BY AnswerType, CallsAre DEF memory_ref_free, Codes
  <1>3. table' \in Table /\ \A b \in Buckets : DOMAIN table'[b] = {}
    BY <1>1 DEF EmptyTable, Table
  <1>4. entry' \in Entries /\ \A a \in Address : entry'[a] = Nil
    BY <1>1 DEF Entries
  <1>5. Sound(table', entry') /\ Single(table', entry', shadowed')
    BY <1>3, <1>4 DEF Sound, Single
  <1>6. Valued(entry') /\ IterType'
    BY <1>1, <1>4, TableAssumption DEF Valued, IterType, Iterator, NoIterator, Stands
  <1>7. TypeOK'
    BY <1>1, <1>2, <1>3, <1>4, <1>6, TypeParts, TypePartsNext DEF IInv
  <1>8. IterInv'
    BY <1>1 DEF IterInv, NoIterator, Stands
  <1> QED BY <1>5, <1>7, <1>8 DEF IInv

-----------------------------------------------------------------------------
(* The iterator.                                                           *)

\* A step of the iterator leaves the table alone.
LEMMA IterStep ==
    ASSUME IInv, LastType', IterType', IterInv', kept' \in BOOLEAN,
           UNCHANGED <<entry, table, alive, shadowed>>
    PROVE  IInv'
  <1>1. TypeOK'
    BY TypeParts, TypePartsNext DEF IInv
  <1> QED BY <1>1 DEF IInv

LEMMA ClosedStep ==
    ASSUME IInv, LastType', it' = NoIterator, seen' = {}, stay' = {},
           kept' \in BOOLEAN, UNCHANGED <<entry, table, alive, shadowed>>
    PROVE  IInv'
  <1>1. IterType'
    BY TableAssumption DEF IterType, Iterator, NoIterator, Stands
  <1>2. IterInv'
    BY DEF IterInv, NoIterator, Stands
  <1> QED BY <1>1, <1>2, IterStep

LEMMA OpenStep ==
    ASSUME IInv, memory_ref_iterator
    PROVE  IInv'
  <1>1. LastType' /\ kept' \in BOOLEAN /\ UNCHANGED <<entry, table, alive, shadowed>>
    BY AnswerType, CallsAre DEF memory_ref_iterator, Keeps, Codes
  <1>2. CASE UNCHANGED iterVars
    BY <1>1, <1>2, QuietStep, TypeParts DEF IInv, iterVars
  <1>3. CASE it' = Stands("open", 0, Nil) /\ seen' = {} /\ stay' = Allocated
    <2>1. IterType'
      BY <1>3, TableAssumption DEF IterType, Iterator, Stands, Allocated
    <2>2. Ahead(table', stay' \ seen', 0, Nil)
      BY DEF Ahead, Buckets
    <2>3. IterInv'
      BY <1>1, <1>3, <2>2 DEF IterInv, Stands, Allocated
    <2> QED BY <1>1, <2>1, <2>3, IterStep
  <1> QED BY <1>2, <1>3 DEF memory_ref_iterator

\* What is ahead is behind the current entry, so that there is a next one, or in a later list.
LEMMA AheadIs ==
    ASSUME IInv, it.state = "open", NEW c \in Buckets, NEW j \in DOMAIN table[c],
           table[c][j] \in stay \ seen
    PROVE  \/ c \in Filled
           \/ \E k \in DOMAIN table[c] :
                 c = it.bucket /\ k < j /\ table[c][k] = it.cur /\ table[c][k + 1] \in After(it.cur)
  <1>1. Ahead(table, stay \ seen, it.bucket, it.cur)
    BY DEF IInv, IterInv
  <1>2. /\ table[c] \in Seq(Address) /\ DOMAIN table[c] = 1..Len(table[c])
        /\ Len(table[c]) \in Nat
    BY StateIs, TableDomain
  <1>3. CASE c > it.bucket
    <2>1. table[c] # <<>>
      BY <1>2
    <2> QED BY <1>3, <2>1 DEF Filled
  <1>4. CASE c = it.bucket /\ \E k \in DOMAIN table[c] : k < j /\ table[c][k] = it.cur
    <2>1. PICK k \in DOMAIN table[c] : k < j /\ table[c][k] = it.cur
      BY <1>4
    <2>2. k \in 1..(Len(table[c]) - 1) /\ k + 1 \in DOMAIN table[c]
      BY <1>2, <2>1
    <2>3. table[c][k + 1] \in Address
      BY <2>2, StateIs DEF Sound
    <2>4. table[c][k + 1] \in After(it.cur)
      BY <2>1, <2>2, <2>3 DEF After
    <2> QED BY <1>4, <2>1, <2>4
  <1> QED BY <1>1, <1>3, <1>4 DEF Ahead

LEMMA AdvanceStep ==
    ASSUME IInv, it.state = "open", Advance, LastType',
           kept' \in BOOLEAN, UNCHANGED <<entry, table, alive, shadowed>>
    PROVE  IInv'
  <1>0. \A c \in Buckets : /\ DOMAIN table[c] = 1..Len(table[c]) /\ Len(table[c]) \in Nat
                          /\ table[c] \in Seq(Address)
    BY StateIs, TableDomain
  <1>1. it.bucket \in 0..Size
    BY TypeParts DEF IInv, IterType, Iterator
  <1>2. CASE \E a \in After(it.cur) : Stand(it.bucket, a)
    <2>1. PICK a \in After(it.cur) : Stand(it.bucket, a)
      BY <1>2
    <2>2. PICK d \in Buckets : \E i \in 1..(Len(table[d]) - 1) :
            table[d][i] = it.cur /\ table[d][i + 1] = a
      BY <2>1 DEF After
    <2>3. PICK i \in 1..(Len(table[d]) - 1) : table[d][i] = it.cur /\ table[d][i + 1] = a
      BY <2>2
    <2>4. it' = Stands("open", it.bucket, a) /\ seen' = seen \cup {a} /\ stay' = stay
          /\ a \in Address
      BY <2>1 DEF Stand, After
    <2>5. i \in DOMAIN table[d] /\ i + 1 \in DOMAIN table[d]
      BY <1>0, <2>3
    <2>6. ASSUME NEW c \in Buckets, NEW j \in DOMAIN table[c],
                 table[c][j] \in stay \ (seen \cup {a})
          PROVE  c > it.bucket
                 \/ (c = it.bucket /\ \E k \in DOMAIN table[c] : k < j /\ table[c][k] = a)
      <3>1. CASE c \in Filled
        BY <3>1 DEF Filled
      <3>2. CASE \E k \in DOMAIN table[c] : c = it.bucket /\ k < j /\ table[c][k] = it.cur
        <4>1. PICK k \in DOMAIN table[c] : c = it.bucket /\ k < j /\ table[c][k] = it.cur
          BY <3>2
        <4>2. c = d /\ k = i
          BY <2>3, <2>5, <4>1, StateIs DEF Sound
        <4>3. j # i + 1
          BY <2>3, <2>6, <4>2
        <4>4. i + 1 < j
          BY <1>0, <2>3, <4>1, <4>2, <4>3
        <4> QED BY <2>3, <2>5, <4>1, <4>2, <4>4
      <3> QED BY <2>6, <3>1, <3>2, AheadIs
    <2>7. Ahead(table', stay' \ seen', it.bucket, a)
      BY <2>4, <2>6 DEF Ahead
    <2>8. IterType'
      BY <1>1, <2>4, TypeParts DEF IInv, IterType, Iterator, Stands
    <2>9. IterInv'
      BY <2>4, <2>7 DEF IInv, IterInv, Stands, Allocated
    <2> QED BY <2>8, <2>9, IterStep
  <1>3. CASE After(it.cur) = {}
             /\ \E b \in Filled : (\A c \in Filled : b <= c) /\ Stand(b, table[b][1])
    <2>1. PICK b \in Filled : (\A c \in Filled : b <= c) /\ Stand(b, table[b][1])
      BY <1>3
    <2>2. b \in Buckets /\ b \in 0..Size /\ table[b] # <<>>
      BY DEF Filled, Buckets
    <2>3. 1 \in DOMAIN table[b]
      BY <1>0, <2>2
    <2>4. PICK a \in Address : a = table[b][1]
      BY <2>2, <2>3, StateIs DEF Sound
    <2>5. it' = Stands("open", b, a) /\ seen' = seen \cup {a} /\ stay' = stay
      BY <2>1, <2>4 DEF Stand
    <2>6. ASSUME NEW c \in Buckets, NEW j \in DOMAIN table[c],
                 table[c][j] \in stay \ (seen \cup {a})
          PROVE  c > b \/ (c = b /\ \E k \in DOMAIN table[c] : k < j /\ table[c][k] = a)
      <3>1. c \in Filled
        BY <1>3, <2>6, AheadIs
      <3>2. b <= c /\ b \in Nat /\ c \in Nat
        BY <2>1, <2>2, <3>1, TableAssumption DEF Buckets
      <3>3. CASE c = b
        <4>1. j # 1 /\ j \in Nat \ {0}
          BY <1>0, <2>4, <2>6, <3>3
        <4> QED BY <2>3, <2>4, <3>3, <4>1
      <3> QED BY <3>2, <3>3
    <2>7. Ahead(table', stay' \ seen', b, a)
      BY <2>5, <2>6 DEF Ahead
    <2>8. IterType'
      BY <2>2, <2>5, TypeParts DEF IInv, IterType, Iterator, Stands
    <2>9. IterInv'
      BY <2>5, <2>7 DEF IInv, IterInv, Stands, Allocated
    <2> QED BY <2>8, <2>9, IterStep
  <1> QED BY <1>2, <1>3 DEF Advance

LEMMA AtEndStep ==
    ASSUME IInv, it.state = "open", AtEnd, LastType', kept' \in BOOLEAN,
           UNCHANGED <<entry, table, alive, shadowed>>
    PROVE  IInv'
  <1>1. After(it.cur) = {} /\ Filled = {} /\ it' = Stands("over", Size, it.cur)
        /\ seen' = seen /\ stay' = stay
    BY DEF AtEnd
  <1>2. ASSUME NEW a \in stay
        PROVE  a \in seen
    <2>1. a \in Address /\ entry[a] # Nil
      BY DEF IInv, IterInv, Allocated
    <2>2. PICK c \in Buckets : \E j \in DOMAIN table[c] : table[c][j] = a
      BY <2>1, StateIs DEF Sound
    <2> QED BY <1>1, <2>2, AheadIs
  <1>3. IterType'
    BY <1>1, TypeParts, TableAssumption DEF IInv, IterType, Iterator, Stands
  <1>4. IterInv'
    BY <1>1, <1>2 DEF IInv, IterInv, Stands, Allocated
  <1> QED BY <1>3, <1>4, IterStep
-----------------------------------------------------------------------------
(* All of it.                                                              *)

\* A callback that only answers.
LEMMA OnlyAnswers ==
    ASSUME IInv, NEW call \in Calls, NEW n \in Names \cup {Nil}, NEW c \in Codes,
           Returns(call, n, c), alive' \in BOOLEAN, kept' \in BOOLEAN,
           UNCHANGED <<entry, table, iterVars, shadowed>>
    PROVE  IInv'
  BY AnswerType, QuietStep

LEMMA AliveType == IInv => alive \in BOOLEAN /\ kept \in BOOLEAN
  BY TypeParts DEF IInv

LEMMA ExistsStep ==
    ASSUME IInv, NEW n \in Names, memory_ref_exists(n)
    PROVE  IInv'
  BY OnlyAnswers, AliveType, CallsAre DEF memory_ref_exists, Keeps, Codes

LEMMA LookupStep ==
    ASSUME IInv, NEW n \in Names, memory_ref_lookup(n)
    PROVE  IInv'
  <1>1. UNCHANGED <<entry, table, iterVars, shadowed>> /\ alive' \in BOOLEAN /\ kept' \in BOOLEAN
    BY AliveType DEF memory_ref_lookup, Keeps
  <1>2. ASSUME NEW i \in First(n),
               Answers(Op("lookup"), n, "GIT_OK", Value(entry[table[hash[n]][i]]))
        PROVE  IInv'
    <2>1. PICK v \in Reference : v = Value(entry[table[hash[n]][i]])
      BY FirstIs
    <2>2. LastType'
      BY <1>2, <2>1, AnswerType, CallsAre DEF Codes
    <2> QED BY <1>1, <2>2, QuietStep
  <1>3. CASE Returns(Op("lookup"), n, "GIT_ENOMEM") \/ Returns(Op("lookup"), n, "GIT_ENOTFOUND")
    BY <1>1, <1>3, OnlyAnswers, CallsAre DEF Codes
  <1> QED BY <1>2, <1>3 DEF memory_ref_lookup

LEMMA WriteStep ==
    ASSUME IInv, NEW n \in Names, NEW v \in Reference, NEW force \in BOOLEAN,
           NEW old \in Reference \cup {Nil}, memory_ref_write(n, v, force, old)
    PROVE  IInv'
  <1>1. CASE WriteRefused(n, v, force, old)
    <2>1. kept' \in BOOLEAN
      BY <1>1 DEF WriteRefused
    <2> QED BY <1>1, <2>1, OnlyAnswers, AliveType, CallsAre
            DEF memory_ref_write, WriteRefused, Codes
  <1>2. CASE WriteOver(n, v, force, old)
    BY <1>2, WriteOverStep DEF memory_ref_write
  <1>3. CASE WriteNew(n, v, force, old)
    BY <1>3, WriteNewStep DEF memory_ref_write
  <1> QED BY <1>1, <1>2, <1>3 DEF memory_ref_write

\* The two ways in which a rename that finds its entry ends, and the two errors.
RenameMoved(old, new, force) ==
    /\ force \/ ~There(new)
    /\ \E i \in First(old) : Moved(old, new, i)
    /\ Returns(With("rename", new, force, Nil), old, "GIT_ERROR")
    /\ kept' = FALSE /\ UNCHANGED <<seen, alive>>
RenameFreed(old, new, force) ==
    /\ \E i \in First(old) : Freed(old, i)
    /\ Returns(With("rename", new, force, Nil), old, "GIT_ENOMEM")
    /\ kept' = FALSE /\ UNCHANGED <<seen, alive, shadowed>>
RenameRefused(old, new, force) ==
    /\ \/ ~force /\ There(new) /\ Returns(With("rename", new, force, Nil), old, "GIT_EEXISTS")
       \/ ~There(old) /\ Returns(With("rename", new, force, Nil), old, "GIT_ENOTFOUND")
    /\ kept' = TRUE /\ UNCHANGED <<entry, table, iterVars, alive, shadowed>>

LEMMA RenameIs ==
    ASSUME NEW old, NEW new, NEW force, memory_ref_rename(old, new, force)
    PROVE  \/ RenameMoved(old, new, force) \/ RenameFreed(old, new, force)
           \/ RenameRefused(old, new, force)
  BY DEF memory_ref_rename, RenameMoved, RenameFreed, RenameRefused, Keeps

LEMMA RenameStep ==
    ASSUME IInv, NEW old \in Names, NEW new \in Names, NEW force \in BOOLEAN,
           memory_ref_rename(old, new, force)
    PROVE  IInv'
  <1>1. CASE RenameMoved(old, new, force)
    <2>1. LastType' /\ kept' \in BOOLEAN
      BY <1>1, AnswerType, CallsAre DEF RenameMoved, Codes
    <2> QED BY <1>1, <2>1, MovedStep DEF RenameMoved
  <1>2. CASE RenameFreed(old, new, force)
    <2>1. LastType' /\ kept' \in BOOLEAN
      BY <1>2, AnswerType, CallsAre DEF RenameFreed, Codes
    <2> QED BY <1>2, <2>1, FreedStep DEF RenameFreed
  <1>3. CASE RenameRefused(old, new, force)
    <2>1. LastType' /\ kept' \in BOOLEAN
      BY <1>3, AnswerType, CallsAre DEF RenameRefused, Codes
    <2> QED BY <1>3, <2>1, QuietStep, AliveType DEF RenameRefused
  <1> QED BY <1>1, <1>2, <1>3, RenameIs

LEMMA DeleteStep ==
    ASSUME IInv, NEW n \in Names, NEW old \in Reference \cup {Nil}, memory_ref_delete(n, old)
    PROVE  IInv'
  <1>1. ASSUME NEW i \in First(n), Freed(n, i),
               Returns(With("delete", Nil, FALSE, old), n, "GIT_OK"),
               kept' \in BOOLEAN, UNCHANGED <<seen, alive, shadowed>>
        PROVE  IInv'
    BY <1>1, FreedStep, AnswerType, CallsAre DEF Codes
  <1>2. ASSUME \/ Returns(With("delete", Nil, FALSE, old), n, "GIT_EMODIFIED")
               \/ Returns(With("delete", Nil, FALSE, old), n, "GIT_ENOTFOUND"),
               kept' \in BOOLEAN, UNCHANGED <<entry, table, iterVars, alive, shadowed>>
        PROVE  IInv'
    BY <1>2, OnlyAnswers, AliveType, CallsAre DEF Codes
  <1>3. kept' \in BOOLEAN
    BY DEF memory_ref_delete, Keeps
  <1> QED BY <1>1, <1>2, <1>3 DEF memory_ref_delete

LEMMA NextNameStep ==
    ASSUME IInv, memory_ref_iterator_next_name
    PROVE  IInv'
  <1>1. /\ LastType' /\ it.state = "open" /\ kept' \in BOOLEAN
        /\ UNCHANGED <<entry, table, alive, shadowed>>
    BY AnswerType, CallsAre DEF memory_ref_iterator_next_name, Keeps, Codes
  <1> QED BY <1>1, AdvanceStep, AtEndStep DEF memory_ref_iterator_next_name

LEMMA NextRefStep ==
    ASSUME IInv, memory_ref_iterator_next
    PROVE  IInv'
  <1>1. /\ LastType' /\ it.state = "open" /\ kept' \in BOOLEAN
        /\ UNCHANGED <<entry, table, alive, shadowed>>
    BY AnswerType, CallsAre DEF memory_ref_iterator_next, Keeps, Codes
  <1> QED BY <1>1, AdvanceStep, AtEndStep DEF memory_ref_iterator_next

LEMMA EndStep ==
    ASSUME IInv, IteratorDangles \/ memory_ref_iterator_free
    PROVE  IInv'
  <1>1. LastType' /\ kept' \in BOOLEAN
    BY AnswerType, CallsAre DEF IteratorDangles, memory_ref_iterator_free, Keeps, Codes
  <1> QED BY <1>1, ClosedStep DEF IteratorDangles, memory_ref_iterator_free

LEMMA NextIInv == IInv /\ [Next]_vars => IInv'
  <1> SUFFICES ASSUME IInv, [Next]_vars PROVE IInv'
    OBVIOUS
  <1>1. ASSUME NEW n \in Names, memory_ref_exists(n) \/ memory_ref_lookup(n) \/ WriteInvalid(n)
        PROVE  IInv'
    <2>1. CASE WriteInvalid(n)
      BY <2>1, OnlyAnswers, AliveType, CallsAre DEF WriteInvalid, Keeps, Codes
    <2> QED BY <1>1, <2>1, ExistsStep, LookupStep
  <1>2. CASE Unlogged
    BY <1>2, OnlyAnswers, AliveType, CallsAre DEF Unlogged, Keeps, Codes
  <1>3. CASE create_memory_refdb
    BY <1>3, OnlyAnswers, AliveType, CallsAre DEF create_memory_refdb, Keeps, Codes
  <1>4. CASE UNCHANGED vars
    <2>1. /\ LastType' /\ alive' \in BOOLEAN /\ kept' \in BOOLEAN
          /\ UNCHANGED <<entry, table, iterVars, shadowed>>
      BY <1>4, TypeParts DEF vars, IInv, LastType
    <2> QED BY <2>1, QuietStep
  <1> QED BY <1>1, <1>2, <1>3, <1>4, WriteStep, RenameStep, DeleteStep, FreeStep, OpenStep,
             NextNameStep, NextRefStep, EndStep DEF Next, Call

THEOREM Inductive == Spec => []IInv
  BY InitIInv, NextIInv, PTL DEF Spec

\* The table, its lists and the entries keep their shape.
THEOREM TypeCorrect == Spec => []TypeOK
  <1>1. IInv => TypeOK
    BY DEF IInv
  <1> QED BY <1>1, Inductive, PTL

\* Every allocated entry is in one list, the one of its name, and no list has a freed one: no
\* sequence of writes, renames, deletes and iterations leaks an entry or frees one twice.
THEOREM ListsAreSound == Spec => []ListsSound
  <1>1. IInv => ListsSound
    <2> SUFFICES ASSUME IInv PROVE ListsSound
      OBVIOUS
    <2>1. \A b \in Buckets : \A i \in DOMAIN table[b] :
            table[b][i] \in Allocated /\ hash[entry[table[b][i]].name] = b
      BY DEF IInv, Sound, Allocated
    <2>2. \A a \in Allocated : \E b \in Buckets : \E i \in DOMAIN table[b] : table[b][i] = a
      BY DEF IInv, Sound, Allocated
    <2> QED BY <2>1, <2>2 DEF IInv, Sound, ListsSound
  <1> QED BY <1>1, Inductive, PTL

\* Unless a forced rename hit a name that was there, no name has two entries.
THEOREM OneEntry == Spec => []OneEntryPerName
  <1>1. IInv => OneEntryPerName
    <2> SUFFICES ASSUME IInv, NEW n \in Names \ shadowed, NEW i \in At(n), NEW j \in At(n)
                 PROVE  i = j
      BY DEF OneEntryPerName
    <2>1. hash[n] \in Buckets
      BY TableAssumption
    <2> QED BY <2>1 DEF IInv, Single, At
  <1> QED BY <1>1, Inductive, PTL

\* An iteration visits every entry that stays where it is from its beginning to its end.
THEOREM IterationComplete == Spec => []IterationSeesAll
  <1>1. IInv => IterationSeesAll
    BY DEF IInv, IterInv, IterationSeesAll
  <1> QED BY <1>1, Inductive, PTL
-----------------------------------------------------------------------------
(* The table keeps the promises of RefMap: Refs is the one map that Reads  *)
(* speaks of, and a callback that does not break the contract changes it   *)
(* as promised.                                                            *)

RefsAre == Refs \in Maps /\ Reads(Refs, table, entry)

LEMMA Least ==
    ASSUME NEW S \in SUBSET Nat, S # {}
    PROVE  \E m \in S : \A k \in S : m <= k
  <1>1. PICK m \in S : \A k \in S : ~(<<k, m>> \in OpToRel(<, Nat))
    BY NatLessThanWellFounded, WFMin
  <1>2. \A k \in S : ~(k < m)
    BY <1>1 DEF OpToRel
  <1> QED BY <1>2

\* The walk down a list stops at the first entry of the name, if there is one.
LEMMA FirstLeads ==
    ASSUME IInv, NEW n \in Names
    PROVE  /\ \A i \in First(n) : Leads(table, entry, n, i) /\ First(n) = {i}
           /\ There(n) => First(n) # {}
           /\ ~There(n) => Lacks(table, entry, n)
  <1>1. At(n) \subseteq Nat
    BY TableAssumption, StateIs, TableDomain DEF At
  <1>2. ASSUME NEW i \in First(n)
        PROVE  Leads(table, entry, n, i) /\ First(n) = {i}
    <2>1. Leads(table, entry, n, i)
      BY DEF First, At, Leads
    <2>2. \A j \in First(n) : j = i
      <3> TAKE j \in First(n)
      <3>1. i \in At(n) /\ j \in At(n) /\ i <= j /\ j <= i
        BY DEF First
      <3> QED BY <1>1, <3>1
    <2>3. First(n) = {i}
      BY ONLY <2>2, i \in First(n)
    <2> QED BY <2>1, <2>3
  <1>3. There(n) => First(n) # {}
    <2> SUFFICES ASSUME There(n) PROVE First(n) # {}
      OBVIOUS
    <2>1. PICK m \in At(n) : \A k \in At(n) : m <= k
      BY <1>1, Least DEF There
    <2> QED BY <2>1 DEF First
  <1>4. ~There(n) => Lacks(table, entry, n)
    BY DEF There, At, Lacks
  <1> QED BY <1>2, <1>3, <1>4

\* What the map says of a name, and of the entry the walk stops at.
LEMMA RefIs ==
    ASSUME IInv, NEW n \in Names
    PROVE  /\ There(n) <=> Refs[n] # Nil
           /\ Refs[n] \in Reference \cup {Nil}
           /\ \A i \in First(n) : Refs[n] = Value(entry[table[hash[n]][i]])
           /\ ReadsAs(table, entry, n, Refs[n])
  <1>1. CASE There(n)
    <2>1. PICK i \in First(n) : Leads(table, entry, n, i) /\ First(n) = {i}
      BY <1>1, FirstLeads
    <2>2. Refs[n] = Value(entry[table[hash[n]][i]])
      <3>1. (CHOOSE j \in First(n) : TRUE) = i
        BY <2>1
      <3> QED BY <1>1, <3>1 DEF Refs, Holder
    <2>3. Refs[n] \in Reference /\ Nil \notin Reference
      BY <2>2, FirstIs, TableAssumption
    <2>4. ReadsAs(table, entry, n, Refs[n])
      BY <2>1, <2>2, FirstIs DEF ReadsAs
    <2> QED BY <1>1, <2>1, <2>2, <2>3, <2>4
  <1>2. CASE ~There(n)
    <2>1. Refs[n] = Nil
      BY <1>2 DEF Refs
    <2>2. First(n) = {}
      BY <1>2 DEF First, There
    <2>3. Lacks(table, entry, n)
      BY <1>2, FirstLeads
    <2> QED BY <1>2, <2>1, <2>2, <2>3 DEF ReadsAs
  <1> QED BY <1>1, <1>2

LEMMA RefsRead == IInv => RefsAre
  <1> SUFFICES ASSUME IInv
               PROVE  Refs \in Maps /\ Reads(Refs, table, entry)
    BY DEF RefsAre
  <1>1. Refs = [n \in Names |-> Refs[n]]
    BY DEF Refs
  <1>2. \A n \in Names : Refs[n] \in Reference \cup {Nil}
    BY RefIs
  <1>3. Refs \in Maps
    BY ONLY <1>1, <1>2 DEF Maps
  <1>4. Reads(Refs, table, entry)
    BY RefIs DEF Reads
  <1> QED BY <1>3, <1>4

LEMMA RefsReadNext == IInv' => Refs' \in Maps /\ Reads(Refs', table', entry') /\ table' \in Table
  <1>1. IInv' => RefsAre'
    BY RefsRead, PTL
  <1>2. IInv' => table' \in Table
    BY TypePartsNext DEF IInv
  <1> QED BY <1>1, <1>2 DEF RefsAre

\* The map after a step is Q if the new table reads as Q.
LEMMA RefsBecome ==
    ASSUME IInv', NEW Q \in Maps, Reads(Q, table', entry')
    PROVE  Refs' = Q
  BY RefsReadNext, ReadsOnce

\* Whatever leaves the table and the entries alone leaves the map alone.
LEMMA RefsSame ==
    ASSUME IInv, IInv', UNCHANGED <<entry, table>>
    PROVE  Refs' = Refs
  <1>1. PICK R \in Maps : R = Refs /\ Reads(R, table', entry')
    BY RefsRead DEF RefsAre
  <1> QED BY <1>1, RefsBecome

\* A forced write changes what is found of its name, to what was written if it keeps the promise.
LEMMA OverReads ==
    ASSUME IInv, IInv', NEW n \in Names, NEW v \in Reference, NEW old,
           WriteOver(n, v, TRUE, old)
    PROVE  /\ \A m \in Names : m # n => Refs'[m] = Refs[m]
           /\ kept' = TRUE => Refs' = [Refs EXCEPT ![n] = v]
  <1>1. PICK i \in First(n) :
          /\ entry' = [entry EXCEPT ![table[hash[n]][i]] = Updated(@, v)]
          /\ kept' = (v.type = "symbolic" \/ entry[table[hash[n]][i]].type = "direct")
    BY DEF WriteOver
  <1>2. PICK a \in Address : /\ a = table[hash[n]][i] /\ entry[a] \in MemoryRef
                            /\ entry[a].name = n /\ Value(entry[a]) \in Reference
    BY FirstIs
  <1>3. PICK e \in MemoryRef : /\ e = Updated(entry[a], v) /\ e.name = n
                               /\ Value(e) \in Reference
                               /\ kept' = TRUE => Value(e) = v
    <2>1. kept' = TRUE => v.type = "symbolic" \/ entry[a].type = "direct"
      BY <1>1, <1>2
    <2> QED BY <1>2, <2>1, UpdatedIs
  <1>4. entry' = Put(entry, a, e) /\ table' = table
    BY <1>1, <1>2, <1>3 DEF Put, WriteOver
  <1>5. PICK R \in Maps : R = Refs /\ Reads(R, table, entry)
    BY RefsRead DEF RefsAre
  <1>6. i \in DOMAIN table[hash[n]] /\ Leads(table, entry, n, i)
    BY FirstIs, FirstLeads
  <1>7. Reads([R EXCEPT ![n] = Value(e)], table, entry')
    BY <1>2, <1>3, <1>4, <1>5, <1>6, StateIs, ReadsOver
  <1>8. PICK Q : Q = [R EXCEPT ![n] = Value(e)]
    OBVIOUS
  <1>9. Q \in Maps /\ Reads(Q, table', entry')
    BY <1>3, <1>4, <1>7, <1>8 DEF Maps
  <1>10. Refs' = Q
    BY <1>9, RefsBecome
  <1>11. \A m \in Names : m # n => Q[m] = R[m]
    BY <1>8 DEF Maps
  <1>12. kept' = TRUE => Q = [R EXCEPT ![n] = v]
    BY <1>3, <1>8
  <1> QED BY <1>5, <1>10, <1>11, <1>12

LEMMA NewReads ==
    ASSUME IInv, IInv', NEW n \in Names, NEW v \in Reference,
           NEW a \in Address \ Allocated,
           entry' = [entry EXCEPT ![a] = NewEntry(n, v)],
           table' = Linked(table, hash[n], a)
    PROVE  Refs' = [Refs EXCEPT ![n] = v]
  <1>1. PICK e \in MemoryRef : e = NewEntry(n, v) /\ e.name = n /\ Value(e) = v
    BY NewEntryIs
  <1>2. entry' = Put(entry, a, e) /\ entry[a] = Nil /\ hash[n] \in Buckets
    BY <1>1, TableAssumption DEF Put, Allocated
  <1>3. table' \in Table /\ Longer(table, hash[n], a, table')
    BY <1>2, StateIs, PutInFront
  <1>4. PICK R \in Maps : R = Refs /\ Reads(R, table, entry)
    BY RefsRead DEF RefsAre
  <1>5. \A m \in Names : m # n => ReadsAs(table, entry, m, R[m])
    BY <1>4 DEF Reads
  <1>6. Reads([R EXCEPT ![n] = Value(e)], table', entry')
    BY <1>1, <1>2, <1>3, <1>5, StateIs, ReadsAdd
  <1>7. PICK Q : Q = [R EXCEPT ![n] = v]
    OBVIOUS
  <1>8. Q \in Maps /\ Reads(Q, table', entry')
    BY <1>1, <1>6, <1>7 DEF Maps
  <1> QED BY <1>4, <1>7, <1>8, RefsBecome

LEMMA FreedReads ==
    ASSUME IInv, IInv', NEW n \in Names, NEW i \in First(n), At(n) = {i}, Freed(n, i)
    PROVE  Refs' = [Refs EXCEPT ![n] = Nil]
  <1>1. PICK a \in Address : /\ a = table[hash[n]][i] /\ entry[a].name = n
                            /\ entry' = Put(entry, a, Nil)
                            /\ table' = Unlinked(table, hash[n], i)
    BY FirstIs DEF Freed, Put
  <1>2. hash[n] \in Buckets /\ i \in DOMAIN table[hash[n]]
    BY FirstIs
  <1>3. table' \in Table /\ Shorter(table, hash[n], i, table')
    BY <1>1, <1>2, StateIs, TakenOut
  <1>4. PICK R \in Maps : R = Refs /\ Reads(R, table, entry)
    BY RefsRead DEF RefsAre
  <1>5. Reads([R EXCEPT ![n] = Nil], table', entry')
    <2>1. entry' = Put(entry, table[hash[n]][i], Nil) /\ entry[table[hash[n]][i]].name = n
      BY <1>1
    <2>2. \A j \in DOMAIN table[hash[n]] : entry[table[hash[n]][j]].name = n => j = i
      BY DEF At
    <2> QED BY <1>2, <1>3, <1>4, <2>1, <2>2, StateIs, ReadsRemove
  <1>6. PICK Q : Q = [R EXCEPT ![n] = Nil]
    OBVIOUS
  <1>7. Q \in Maps /\ Reads(Q, table', entry')
    BY <1>5, <1>6 DEF Maps
  <1> QED BY <1>4, <1>6, <1>7, RefsBecome

\* What one name is found to be after a step.
LEMMA RefBecomes ==
    ASSUME IInv', NEW m \in Names, NEW x, ReadsAs(table', entry', m, x)
    PROVE  Refs'[m] = x
  <1>1. ReadsAs(table', entry', m, Refs'[m]) /\ table' \in Table
    BY RefsReadNext DEF Reads
  <1> QED BY <1>1, ReadsAsOnce

\* Freeing or moving an entry changes nothing of other names, whatever else is in the lists.
LEMMA FreedOthers ==
    ASSUME IInv, IInv', NEW n \in Names, NEW i \in First(n), Freed(n, i),
           NEW m \in Names, m # n
    PROVE  Refs'[m] = Refs[m]
  <1>1. /\ entry' = Put(entry, table[hash[n]][i], Nil) /\ entry[table[hash[n]][i]].name = n
        /\ table' = Unlinked(table, hash[n], i)
    BY FirstIs DEF Freed, Put
  <1>2. hash[n] \in Buckets /\ i \in DOMAIN table[hash[n]]
    BY FirstIs
  <1>3. table' \in Table /\ Shorter(table, hash[n], i, table')
    BY <1>1, <1>2, StateIs, TakenOut
  <1>4. ReadsAs(table, entry, m, Refs[m])
    BY RefIs
  <1>5. ReadsAs(table', entry', m, Refs[m])
    BY <1>1, <1>2, <1>3, <1>4, StateIs, ReadsOthers
  <1> QED BY <1>5, RefBecomes

LEMMA MovedOthers ==
    ASSUME IInv, IInv', NEW old \in Names, NEW new \in Names, NEW i \in First(old),
           Moved(old, new, i), NEW m \in Names, m # old, m # new
    PROVE  Refs'[m] = Refs[m]
  <1>1. PICK a \in Address :
          /\ a = table[hash[old]][i]
          /\ entry' = [entry EXCEPT ![a] = Renamed(@, new)]
          /\ table' = Linked(Unlinked(table, hash[old], i), hash[new], a)
    BY FirstIs DEF Moved
  <1>2. /\ hash[old] \in Buckets /\ hash[new] \in Buckets /\ i \in DOMAIN table[hash[old]]
        /\ entry[a] \in MemoryRef /\ entry[a].name = old
    BY <1>1, FirstIs, TableAssumption
  <1>3. PICK e \in MemoryRef : e = Renamed(entry[a], new) /\ e.name = new
    BY <1>2, RenamedIs
  <1>4. PICK fn : fn = Put(entry, a, Nil)
    OBVIOUS
  <1>5. PICK u : u = Unlinked(table, hash[old], i)
    OBVIOUS
  <1>6. u \in Table /\ Shorter(table, hash[old], i, u)
    BY <1>2, <1>5, StateIs, TakenOut
  <1>7. fn = Put(entry, table[hash[old]][i], Nil) /\ entry[table[hash[old]][i]].name = old
    BY <1>1, <1>2, <1>4
  <1>8. fn \in Entries /\ Sound(u, fn)
    BY <1>2, <1>6, <1>7, StateIs, RemoveKeeps
  <1>9. entry' = Put(fn, a, e) /\ fn[a] = Nil
    BY <1>1, <1>3, <1>4, StateIs DEF Put, Entries
  <1>10. table' \in Table /\ Longer(u, hash[new], a, table')
    BY <1>1, <1>2, <1>5, <1>6, PutInFront
  <1>11. ReadsAs(table, entry, m, Refs[m])
    BY RefIs
  <1>12. ReadsAs(u, fn, m, Refs[m])
    BY <1>2, <1>6, <1>7, <1>11, StateIs, ReadsOthers
  <1>13. ReadsAs(table', entry', m, Refs[m])
    BY <1>2, <1>3, <1>6, <1>8, <1>9, <1>10, <1>12, ReadsBehind
  <1> QED BY <1>13, RefBecomes

LEMMA MovedReads ==
    ASSUME IInv, IInv', NEW old \in Names, NEW new \in Names, NEW i \in First(old),
           old \notin shadowed, Moved(old, new, i)
    PROVE  Refs' = [Refs EXCEPT ![old] = Nil, ![new] = Refs[old]]
  <1>1. PICK a \in Address :
          /\ a = table[hash[old]][i]
          /\ entry' = [entry EXCEPT ![a] = Renamed(@, new)]
          /\ table' = Linked(Unlinked(table, hash[old], i), hash[new], a)
    BY FirstIs DEF Moved
  <1>2. /\ hash[old] \in Buckets /\ hash[new] \in Buckets /\ i \in DOMAIN table[hash[old]]
        /\ entry[a] \in MemoryRef /\ entry[a] # Nil /\ entry[a].name = old
    BY <1>1, FirstIs, TableAssumption
  <1>3. PICK e \in MemoryRef : e = Renamed(entry[a], new) /\ e.name = new
                              /\ Value(e) = Value(entry[a])
    BY <1>2, RenamedIs
  <1>4. PICK fn : fn = Put(entry, a, Nil)
    OBVIOUS
  <1>5. PICK u : u = Unlinked(table, hash[old], i)
    OBVIOUS
  <1>6. u \in Table /\ Shorter(table, hash[old], i, u)
    BY <1>2, <1>5, StateIs, TakenOut
  <1>7. fn = Put(entry, table[hash[old]][i], Nil) /\ entry[table[hash[old]][i]].name = old
    BY <1>1, <1>2, <1>4
  <1>8. fn \in Entries /\ Sound(u, fn)
    BY <1>2, <1>6, <1>7, StateIs, RemoveKeeps
  <1>9. entry' = Put(fn, a, e) /\ fn[a] = Nil
    BY <1>1, <1>3, <1>4, StateIs DEF Put, Entries
  <1>10. table' \in Table /\ Longer(u, hash[new], a, table')
    BY <1>1, <1>2, <1>5, <1>6, PutInFront
  <1>11. PICK R \in Maps : R = Refs /\ Reads(R, table, entry)
    BY RefsRead DEF RefsAre
  <1>12. \A j \in DOMAIN table[hash[old]] : entry[table[hash[old]][j]].name = old => j = i
    BY <1>2, <1>7, StateIs DEF Single
  <1>13. PICK P : P = [R EXCEPT ![old] = Nil]
    OBVIOUS
  <1>14. P \in Maps /\ Reads(P, u, fn)
    <2>1. Reads([R EXCEPT ![old] = Nil], u, fn)
      BY <1>2, <1>6, <1>7, <1>11, <1>12, StateIs, ReadsRemove
    <2> QED BY <1>13, <2>1 DEF Maps
  <1>15. \A m \in Names : m # new => ReadsAs(u, fn, m, P[m])
    BY <1>14 DEF Reads
  <1>16. Reads([P EXCEPT ![new] = Value(e)], table', entry')
    BY <1>1, <1>2, <1>3, <1>6, <1>8, <1>9, <1>10, <1>14, <1>15, ReadsAdd
  <1>17. R[old] = Value(e)
    BY <1>1, <1>3, <1>11, RefIs
  <1>18. PICK Q : Q = [P EXCEPT ![new] = R[old]]
    OBVIOUS
  <1>19. Q \in Maps /\ Reads(Q, table', entry')
    BY <1>11, <1>14, <1>16, <1>17, <1>18 DEF Maps
  <1>20. Refs' = Q
    BY <1>19, RefsBecome
  <1> QED BY <1>11, <1>13, <1>18, <1>20

\* Only a rename is answered as one.
LEMMA OnlyRenames ==
    ASSUME Next, last'.call.op = "rename"
    PROVE  \E old, new \in Names, force \in BOOLEAN : memory_ref_rename(old, new, force)
  <1>1. ASSUME NEW n \in Names, memory_ref_exists(n) \/ memory_ref_lookup(n) \/ WriteInvalid(n)
        PROVE  FALSE
    BY <1>1 DEF memory_ref_exists, memory_ref_lookup, WriteInvalid, Returns, Answers, Op, With
  <1>2. ASSUME NEW n \in Names, NEW v \in Reference, NEW force \in BOOLEAN,
               NEW old \in Reference \cup {Nil}, memory_ref_write(n, v, force, old)
        PROVE  FALSE
    BY <1>2 DEF memory_ref_write, WriteRefused, WriteOver, WriteNew, Returns, Answers, With
  <1>3. ASSUME NEW n \in Names, NEW old \in Reference \cup {Nil}, memory_ref_delete(n, old)
        PROVE  FALSE
    BY <1>3 DEF memory_ref_delete, Returns, Answers, With
  <1>4. ASSUME \/ memory_ref_free \/ Unlogged \/ create_memory_refdb \/ memory_ref_iterator
               \/ memory_ref_iterator_next_name \/ memory_ref_iterator_next
               \/ IteratorDangles \/ memory_ref_iterator_free
        PROVE  FALSE
    BY <1>4 DEF memory_ref_free, Unlogged, create_memory_refdb, memory_ref_iterator,
       memory_ref_iterator_next_name, memory_ref_iterator_next, IteratorDangles,
       memory_ref_iterator_free, Returns, Answers, Op, With
  <1> QED BY <1>1, <1>2, <1>3, <1>4 DEF Next, Call

\* A rename that says it failed has moved what was found under the old name to the new one, and
\* changed nothing else: nothing is lost, unless the old name was shadowed.
THEOREM RenamesMove == Spec => RenameMoves
  <1>1. ASSUME IInv, IInv', Next, last'.call.op = "rename", last'.code = "GIT_ERROR",
               last'.name \notin shadowed
        PROVE  Refs' = [Refs EXCEPT ![last'.name] = Nil, ![last'.call.arg] = Refs[last'.name]]
    <2>1. PICK old \in Names, new \in Names, force \in BOOLEAN :
            memory_ref_rename(old, new, force)
      BY <1>1, OnlyRenames
    <2>2. RenameMoved(old, new, force)
      <3>1. ~RenameFreed(old, new, force)
        BY <1>1 DEF RenameFreed, Returns, Answers
      <3>2. ~RenameRefused(old, new, force)
        BY <1>1 DEF RenameRefused, Returns, Answers
      <3> QED BY <2>1, <3>1, <3>2, RenameIs
    <2>3. last'.name = old /\ last'.call.arg = new
      BY <2>2 DEF RenameMoved, Returns, Answers, With
    <2> QED BY <1>1, <2>2, <2>3, MovedReads DEF RenameMoved
  <1>2. IInv /\ IInv' /\ [Next]_vars =>
          [LET old == last'.name  new == last'.call.arg IN
           last'.call.op = "rename" /\ last'.code = "GIT_ERROR" /\ old \notin shadowed
           => Refs' = [Refs EXCEPT ![old] = Nil, ![new] = Refs[old]]]_vars
    BY <1>1
  <1> QED BY <1>2, Inductive, PTL DEF Spec, RenameMoves

\* A step of the map about one name.
LEMMA PromiseKept ==
    ASSUME NEW n \in Names, NEW o, NEW x, NEW f \in BOOLEAN, NEW v \in Reference \cup {Nil},
           last'.name = n, last'.call = With(o, x, f, v),
           \/ Map!Exists(n) \/ Map!Lookup(n) \/ Map!WriteInvalid(n) \/ Map!Delete(n, v)
           \/ x \in Reference /\ Map!Write(n, x, f, v)
           \/ x \in Names /\ Map!Rename(n, x, f)
    PROVE  Map!Promised
  <1>1. last'.call.arg = x /\ last'.call.force = f /\ last'.call.old = v
    BY DEF With
  <1> QED BY <1>1 DEF Map!Promised

\* A call that breaks the contract changes only what it is about.
LEMMA BreaksItsOwn ==
    ASSUME IInv, IInv', Next, kept' = FALSE
    PROVE  Map!Broken
  <1>1. UNCHANGED <<entry, table>> => Map!Broken
    BY RefsSame DEF Map!Broken
  <1>2. ASSUME NEW n \in Names, memory_ref_exists(n) \/ memory_ref_lookup(n) \/ WriteInvalid(n)
        PROVE  Map!Broken
    BY <1>1, <1>2 DEF memory_ref_exists, memory_ref_lookup, WriteInvalid
  <1>3. ASSUME NEW n \in Names, NEW v \in Reference, NEW force \in BOOLEAN,
               NEW old \in Reference \cup {Nil}, memory_ref_write(n, v, force, old)
        PROVE  Map!Broken
    <2>0. last'.name = n
      BY <1>3 DEF memory_ref_write, WriteRefused, WriteOver, WriteNew, Returns, Answers
    <2>1. CASE WriteRefused(n, v, force, old)
      BY <1>1, <2>1 DEF WriteRefused
    <2>2. CASE WriteOver(n, v, force, old)
      <3>1. WriteOver(n, v, TRUE, old)
        BY <2>2 DEF WriteOver
      <3> QED BY <2>0, <3>1, OverReads DEF Map!Broken
    <2>3. CASE WriteNew(n, v, force, old)
      <3>1. PICK a \in Address \ Allocated :
              /\ entry' = [entry EXCEPT ![a] = NewEntry(n, v)]
              /\ table' = Linked(table, hash[n], a)
        BY <2>3 DEF WriteNew, Keeps
      <3>2. Refs' = [Refs EXCEPT ![n] = v]
        BY <3>1, NewReads
      <3>3. \A m \in Names : m # n => Refs'[m] = Refs[m]
        BY <3>2 DEF Refs
      <3> QED BY <2>0, <3>3 DEF Map!Broken
    <2> QED BY <1>3, <2>1, <2>2, <2>3 DEF memory_ref_write
  <1>4. ASSUME NEW old \in Names, NEW new \in Names, NEW force \in BOOLEAN,
               memory_ref_rename(old, new, force)
        PROVE  Map!Broken
    <2>1. CASE RenameMoved(old, new, force)
      <3>1. last'.name = old /\ last'.call.arg = new
        BY <2>1 DEF RenameMoved, Returns, Answers, With
      <3>2. \A m \in Names : m # old /\ m # new => Refs'[m] = Refs[m]
        BY <2>1, MovedOthers DEF RenameMoved
      <3> QED BY <3>1, <3>2 DEF Map!Broken
    <2>2. CASE RenameFreed(old, new, force)
      <3>1. last'.name = old
        BY <2>2 DEF RenameFreed, Returns, Answers
      <3>2. \A m \in Names : m # old => Refs'[m] = Refs[m]
        BY <2>2, FreedOthers DEF RenameFreed
      <3> QED BY <3>1, <3>2 DEF Map!Broken
    <2>3. CASE RenameRefused(old, new, force)
      BY <2>3 DEF RenameRefused
    <2> QED BY <1>4, <2>1, <2>2, <2>3, RenameIs
  <1>5. ASSUME NEW n \in Names, NEW old \in Reference \cup {Nil}, memory_ref_delete(n, old)
        PROVE  Map!Broken
    <2>1. PICK i \in First(n) : Freed(n, i)
      BY <1>5 DEF memory_ref_delete, Keeps
    <2>2. last'.name = n
      <3>1. \E c \in Codes : Returns(With("delete", Nil, FALSE, old), n, c)
        BY <1>5 DEF memory_ref_delete, Codes
      <3> QED BY <3>1 DEF Returns, Answers
    <2>3. \A m \in Names : m # n => Refs'[m] = Refs[m]
      BY <2>1, FreedOthers
    <2> QED BY <2>2, <2>3 DEF Map!Broken
  <1>6. ASSUME \/ memory_ref_free \/ Unlogged \/ create_memory_refdb \/ memory_ref_iterator
               \/ memory_ref_iterator_next_name \/ memory_ref_iterator_next
               \/ IteratorDangles \/ memory_ref_iterator_free
        PROVE  Map!Broken
    BY <1>6 DEF memory_ref_free, Unlogged, create_memory_refdb, memory_ref_iterator,
       memory_ref_iterator_next_name, memory_ref_iterator_next, IteratorDangles,
       memory_ref_iterator_free, Keeps
  <1> QED BY <1>2, <1>3, <1>4, <1>5, <1>6 DEF Next, Call

\* Every step of the table is one of the map.
LEMMA StepRefines ==
    ASSUME IInv, IInv', [Next]_vars
    PROVE  [Map!Next]_Map!vars
  <1>1. CASE kept' = FALSE /\ Next
    BY <1>1, BreaksItsOwn DEF Map!Next
  <1>2. CASE UNCHANGED vars
    <2>1. Refs' = Refs
      BY <1>2, RefsSame DEF vars
    <2> QED BY <1>2, <2>1 DEF vars, Map!vars
  <1>3. CASE kept' = TRUE /\ Next
    <2>1. UNCHANGED <<entry, table>> => Refs' = Refs
      BY RefsSame
    <2>2. ASSUME NEW n \in Names, memory_ref_exists(n)
          PROVE  Map!Promised
      <3>1. last'.name = n /\ last'.call = With("exists", Nil, FALSE, Nil)
        BY <2>2 DEF memory_ref_exists, Op, Returns, Answers
      <3>2. Map!Exists(n)
        BY <2>1, <2>2, RefIs
        DEF memory_ref_exists, Op, With, Map!Op, Map!With, Returns, Answers, Map!Exists, Map!There,
            Map!Returns, Map!Answers
      <3> QED BY <3>1, <3>2, PromiseKept
    <2>3. ASSUME NEW n \in Names, memory_ref_lookup(n)
          PROVE  Map!Promised
      <3>1. Refs' = Refs
        BY <2>1, <2>3 DEF memory_ref_lookup
      <3>2. ASSUME NEW i \in First(n),
                   Answers(Op("lookup"), n, "GIT_OK", Value(entry[table[hash[n]][i]]))
            PROVE  Map!Lookup(n)
        <4>1. Refs[n] = Value(entry[table[hash[n]][i]]) /\ Refs[n] # Nil
          BY RefIs, FirstIs
        <4>2. Answers(Op("lookup"), n, "GIT_OK", Refs[n])
          BY <3>2, <4>1
        <4> QED BY <3>1, <4>1, <4>2
            DEF Op, With, Map!Op, Map!With, Answers, Map!Lookup, Map!There, Map!Answers
      <3>3. ASSUME \/ There(n) /\ Returns(Op("lookup"), n, "GIT_ENOMEM")
                   \/ ~There(n) /\ Returns(Op("lookup"), n, "GIT_ENOTFOUND")
            PROVE  Map!Lookup(n)
        BY <3>1, <3>3, RefIs
        DEF Op, With, Map!Op, Map!With, Returns, Answers, Map!Lookup, Map!There, Map!Returns,
            Map!Answers
      <3>4. Map!Lookup(n)
        BY <2>3, <3>2, <3>3 DEF memory_ref_lookup
      <3>5. last'.name = n /\ last'.call = With("lookup", Nil, FALSE, Nil)
        <4>1. \E c \in Codes, x \in Reference \cup {Nil} : Answers(Op("lookup"), n, c, x)
          BY <2>3, FirstIs DEF memory_ref_lookup, Returns, Codes
        <4> QED BY <4>1 DEF Op, Answers
      <3> QED BY <3>4, <3>5, PromiseKept
    <2>4. ASSUME NEW n \in Names, WriteInvalid(n)
          PROVE  Map!Promised
      <3>1. last'.name = n /\ last'.call = With("write", Nil, FALSE, Nil)
        BY <2>4 DEF WriteInvalid, Op, Returns, Answers
      <3>2. Map!WriteInvalid(n)
        BY <2>1, <2>4
        DEF WriteInvalid, Op, With, Map!Op, Map!With, Returns, Answers, Map!WriteInvalid,
            Map!Returns, Map!Answers
      <3> QED BY <3>1, <3>2, PromiseKept
    <2>5. ASSUME NEW n \in Names, NEW v \in Reference, NEW force \in BOOLEAN,
                 NEW old \in Reference \cup {Nil}, memory_ref_write(n, v, force, old)
          PROVE  Map!Promised
      <3>1. ASSUME WriteRefused(n, v, force, old)
            PROVE  Map!Write(n, v, force, old)
        <4>1. ~force /\ Refs[n] # old /\ Refs' = Refs
          BY <1>3, <2>1, <3>1 DEF WriteRefused
        <4>2. Answers(With("write", v, force, old), n, "GIT_EEXISTS", Nil)
          BY <3>1 DEF WriteRefused, Returns
        <4> QED BY <4>1, <4>2
            DEF Op, With, Map!With, Answers, Map!Write, Map!Returns, Map!Answers
      <3>2. ASSUME WriteOver(n, v, force, old)
            PROVE  Map!Write(n, v, force, old)
        <4>1. force /\ WriteOver(n, v, TRUE, old)
          BY <3>2 DEF WriteOver
        <4>2. Refs' = [Refs EXCEPT ![n] = v]
          BY <1>3, <4>1, OverReads
        <4>3. Answers(With("write", v, force, old), n, "GIT_OK", Nil)
          BY <3>2 DEF WriteOver, Returns
        <4> QED BY <4>1, <4>2, <4>3
            DEF With, Map!With, Answers, Map!Write, Map!Returns, Map!Answers
      <3>3. ASSUME WriteNew(n, v, force, old)
            PROVE  Map!Write(n, v, force, old)
        <4>1. Refs[n] = Nil
          BY <3>3, RefIs DEF WriteNew
        <4>2. ASSUME NEW a \in Address \ Allocated,
                     entry' = [entry EXCEPT ![a] = NewEntry(n, v)],
                     table' = Linked(table, hash[n], a)
              PROVE  Refs' = [Refs EXCEPT ![n] = v]
          BY <4>2, NewReads
        <4>3. \/ /\ Returns(With("write", v, force, old), n, "GIT_OK")
                 /\ Refs' = [Refs EXCEPT ![n] = v]
                 /\ force \/ old = Nil
              \/ Returns(With("write", v, force, old), n, "GIT_ENOMEM") /\ Refs' = Refs
          BY <1>3, <2>1, <3>3, <4>2 DEF WriteNew
        <4> QED BY <4>1, <4>3
            DEF With, Map!With, Returns, Answers, Map!Write, Map!Returns, Map!Answers
      <3>4. Map!Write(n, v, force, old)
        BY <2>5, <3>1, <3>2, <3>3 DEF memory_ref_write
      <3>5. last'.name = n /\ last'.call = With("write", v, force, old)
        BY <2>5 DEF memory_ref_write, WriteRefused, WriteOver, WriteNew, Returns, Answers
      <3> QED BY <3>4, <3>5, PromiseKept
    <2>6. ASSUME NEW old \in Names, NEW new \in Names, NEW force \in BOOLEAN,
                 memory_ref_rename(old, new, force)
          PROVE  Map!Promised
      <3>1. RenameRefused(old, new, force)
        BY <1>3, <2>6, RenameIs DEF RenameMoved, RenameFreed
      <3>2. Refs' = Refs /\ (There(new) <=> Refs[new] # Nil) /\ (There(old) <=> Refs[old] # Nil)
        BY <2>1, <3>1, RefIs DEF RenameRefused
      <3>3. Map!Rename(old, new, force)
        BY <3>1, <3>2
        DEF RenameRefused, With, Map!With, Returns, Answers, Map!Rename, Map!There, Map!Returns,
            Map!Answers
      <3>4. last'.name = old /\ last'.call = With("rename", new, force, Nil)
        BY <3>1 DEF RenameRefused, Returns, Answers
      <3> QED BY <3>3, <3>4, PromiseKept
    <2>7. ASSUME NEW n \in Names, NEW old \in Reference \cup {Nil}, memory_ref_delete(n, old)
          PROVE  Map!Promised
      <3>1. ASSUME NEW i \in First(n), Freed(n, i), old \in {Nil, Value(entry[table[hash[n]][i]])},
                   At(n) = {i}, Returns(With("delete", Nil, FALSE, old), n, "GIT_OK")
            PROVE  Map!Delete(n, old)
        <4>1. Refs' = [Refs EXCEPT ![n] = Nil]
          BY <3>1, FreedReads
        <4>2. Refs[n] # Nil /\ old \in {Nil, Refs[n]}
          BY <3>1, FirstIs, RefIs
        <4> QED BY <3>1, <4>1, <4>2
            DEF With, Map!With, Returns, Answers, Map!Delete, Map!There, Map!Returns, Map!Answers
      <3>2. ASSUME NEW i \in First(n), ~Expected(entry[table[hash[n]][i]], old),
                   Returns(With("delete", Nil, FALSE, old), n, "GIT_EMODIFIED"),
                   UNCHANGED <<entry, table>>
            PROVE  Map!Delete(n, old)
        <4>1. Refs[n] # Nil /\ Refs[n] = Value(entry[table[hash[n]][i]])
          BY FirstIs, RefIs
        <4>2. old \notin {Nil, Refs[n]}
          BY <3>2, <4>1 DEF Expected
        <4> QED BY <2>1, <3>2, <4>1, <4>2
            DEF With, Map!With, Returns, Answers, Map!Delete, Map!There, Map!Returns, Map!Answers
      <3>3. ASSUME ~There(n), Returns(With("delete", Nil, FALSE, old), n, "GIT_ENOTFOUND"),
                   UNCHANGED <<entry, table>>
            PROVE  Map!Delete(n, old)
        BY <2>1, <3>3, RefIs
        DEF With, Map!With, Returns, Answers, Map!Delete, Map!There, Map!Returns, Map!Answers
      <3>4. Map!Delete(n, old)
        BY <1>3, <2>7, <3>1, <3>2, <3>3 DEF memory_ref_delete
      <3>5. last'.name = n /\ last'.call = With("delete", Nil, FALSE, old)
        <4>1. \E c \in Codes : Returns(With("delete", Nil, FALSE, old), n, c)
          BY <2>7 DEF memory_ref_delete, Codes
        <4> QED BY <4>1 DEF Returns, Answers
      <3> QED BY <3>4, <3>5, PromiseKept
    <2>8. ASSUME memory_ref_free
          PROVE  Map!Promised
      <3>1. PICK Q \in Maps : Q = [n \in Names |-> Nil]
        BY DEF Maps
      <3>2. \A b \in Buckets : DOMAIN table'[b] = {}
        BY <2>8 DEF memory_ref_free, EmptyTable
      <3>3. Reads(Q, table', entry')
        BY <3>1, <3>2, TableAssumption DEF Reads, ReadsAs, Lacks
      <3>4. Refs' = [n \in Names |-> Nil]
        BY <3>1, <3>3, RefsBecome
      <3>5. Map!Free
        BY <2>8, <3>4
        DEF memory_ref_free, Op, With, Map!Op, Map!With, Returns, Answers, Map!Free, Map!Returns,
            Map!Answers
      <3> QED BY <3>5 DEF Map!Promised
    <2>9. ASSUME \/ Unlogged \/ create_memory_refdb \/ memory_ref_iterator
                 \/ memory_ref_iterator_next_name \/ memory_ref_iterator_next \/ IteratorDangles
                 \/ memory_ref_iterator_free
          PROVE  Map!Promised
      <3>1. UNCHANGED <<entry, table>>
        BY <2>9 DEF Unlogged, create_memory_refdb, memory_ref_iterator,
           memory_ref_iterator_next_name, memory_ref_iterator_next, IteratorDangles,
           memory_ref_iterator_free
      <3>2. \E o \in {"create", "log", "iterator", "next", "next_name", "end"}, c \in Codes :
               Returns(Op(o), Nil, c)
        BY <2>9 DEF Unlogged, create_memory_refdb, memory_ref_iterator,
           memory_ref_iterator_next_name, memory_ref_iterator_next, IteratorDangles,
           memory_ref_iterator_free, Codes
      <3>3. Map!Other
        BY <2>1, <3>1, <3>2 DEF Op, With, Returns, Answers, Map!Other
      <3> QED BY <3>3 DEF Map!Promised
    <2>10. Map!Promised
      BY <1>3, <2>2, <2>3, <2>4, <2>5, <2>6, <2>7, <2>8, <2>9 DEF Next, Call
    <2> QED BY <1>3, <2>10 DEF Map!Next
  <1>4. kept' \in BOOLEAN
    BY TypePartsNext DEF IInv
  <1> QED BY <1>1, <1>2, <1>3, <1>4

LEMMA InitRefines == Init => Map!Init
  <1> SUFFICES ASSUME Init PROVE Map!Init
    OBVIOUS
  <1>1. ASSUME NEW n \in Names
        PROVE  ~There(n)
    BY TableAssumption DEF Init, EmptyTable, There, At
  <1>2. Refs = [n \in Names |-> Nil]
    BY <1>1 DEF Refs
  <1> QED BY <1>2 DEF Init, Map!Init, Op, With, Map!Op, Map!With

\* What the walks find follows the contract of git_refdb_backend: every call, after whatever
\* sequence of calls, answers and does what RefMap promises, or is one of the five kinds that
\* "kept" marks, and those change no name but their own.
THEOREM Implements == Spec => Contract
  <1>1. IInv /\ IInv' /\ [Next]_vars => [Map!Next]_Map!vars
    BY StepRefines
  <1> QED BY <1>1, InitRefines, Inductive, PTL DEF Spec, Contract, Map!Spec
=============================================================================
