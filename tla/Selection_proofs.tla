---------------------------- MODULE Selection_proofs ----------------------------
(***************************************************************************)
(* What Selection guarantees for any repositories, launches and number of  *)
(* steps of the user, and any order in which the Tasks get to the main     *)
(* actor.                                                                  *)
(***************************************************************************)
EXTENDS Selection, SequenceTheorems, TLAPS

-----------------------------------------------------------------------------
(* Sequences.                                                              *)

\* Without element k the ones behind it move down by one.
LEMMA RemoveAtIs ==
    ASSUME NEW S, NEW s \in Seq(S), NEW k \in 1..Len(s)
    PROVE  /\ RemoveAt(s, k) \in Seq(S)
           /\ Len(RemoveAt(s, k)) = Len(s) - 1
           /\ \A i \in 1..(k - 1) : RemoveAt(s, k)[i] = s[i]
           /\ \A i \in k..(Len(s) - 1) : RemoveAt(s, k)[i] = s[i + 1]
<1>1. PICK f, g : f = SubSeq(s, 1, k - 1) /\ g = SubSeq(s, k + 1, Len(s))
      OBVIOUS
<1>2. /\ k \in Nat /\ Len(s) \in Nat
      /\ f \in Seq(S) /\ Len(f) = k - 1 /\ \A i \in 1..(k - 1) : f[i] = s[i]
      /\ g \in Seq(S) /\ Len(g) = Len(s) - k /\ \A i \in 1..(Len(s) - k) : g[i] = s[k + i]
      BY <1>1
<1>3. PICK r : r = f \o g
      OBVIOUS
<1>4. /\ r \in Seq(S) /\ Len(r) = Len(s) - 1
      /\ \A i \in 1..(Len(s) - 1) : r[i] = IF i <= k - 1 THEN f[i] ELSE g[i - (k - 1)]
  <2>1. /\ r \in Seq(S) /\ Len(r) = Len(f) + Len(g)
        /\ \A i \in 1..(Len(f) + Len(g)) : r[i] = IF i <= Len(f) THEN f[i] ELSE g[i - Len(f)]
        BY <1>2, <1>3, ConcatProperties
  <2> QED
      BY <1>2, <2>1
<1>5. \A i \in k..(Len(s) - 1) : i - (k - 1) \in 1..(Len(s) - k) /\ k + (i - (k - 1)) = i + 1
      BY <1>2
<1>6. /\ \A i \in 1..(k - 1) : r[i] = s[i]
      /\ \A i \in k..(Len(s) - 1) : r[i] = s[i + 1]
      BY <1>2, <1>4, <1>5
<1> QED
    BY <1>1, <1>3, <1>4, <1>6 DEF RemoveAt

\* An element at the end leaves the others where they are.
LEMMA AppendIs ==
    ASSUME NEW S, NEW s \in Seq(S), NEW a \in S
    PROVE  /\ Append(s, a) \in Seq(S)
           /\ Len(Append(s, a)) = Len(s) + 1
           /\ Append(s, a)[Len(s) + 1] = a
           /\ \A i \in 1..Len(s) : Append(s, a)[i] = s[i]
  OBVIOUS

\* Cutting off the first element moves the others down by one.
LEMMA TailIs ==
    ASSUME NEW S, NEW s \in Seq(S), s # <<>>
    PROVE  /\ Tail(s) \in Seq(S) /\ Head(s) = s[1] /\ Head(s) \in S
           /\ Len(s) \in Nat \ {0} /\ Len(Tail(s)) = Len(s) - 1
           /\ \A i \in 1..(Len(s) - 1) : Tail(s)[i] = s[i + 1]
  OBVIOUS

\* Of Tasks s, j answers, which makes those before it late: m.  If j was the last, only late ones
\* are left, or else the last as it was.
LEMMA AnsweredIs ==
    ASSUME NEW S, NEW s \in Seq(S), NEW m \in Seq(S), NEW j \in 1..Len(s), Len(m) = Len(s),
           \A k \in 1..Len(s) : (k < j \/ s[k].late => m[k].late) /\ (~(k < j) => m[k] = s[k])
    PROVE  /\ RemoveAt(m, j) \in Seq(S) /\ Len(RemoveAt(m, j)) = Len(s) - 1
           /\ (\A k \in 1..Len(s) : s[k].late) =>
                \A i \in 1..(Len(s) - 1) : RemoveAt(m, j)[i].late
           /\ j = Len(s) => \A i \in 1..(Len(s) - 1) : RemoveAt(m, j)[i].late
           /\ j # Len(s) => RemoveAt(m, j) # <<>> /\ RemoveAt(m, j)[Len(s) - 1] = s[Len(s)]
<1>1. PICK n \in Nat : n = Len(s)
      OBVIOUS
<1>2. PICK r : r = RemoveAt(m, j)
      OBVIOUS
<1>3. /\ r \in Seq(S) /\ Len(r) = n - 1 /\ j \in 1..n
      /\ \A i \in 1..(j - 1) : r[i] = m[i]
      /\ \A i \in j..(n - 1) : r[i] = m[i + 1]
  <2>1. j \in 1..Len(m) /\ Len(m) = n
        BY <1>1
  <2> QED
      BY <1>1, <1>2, <2>1, RemoveAtIs
<1>4. \A i \in 1..(n - 1) : \E k \in 1..n : r[i] = m[k] /\ (k < j \/ k = i + 1)
  <2> SUFFICES ASSUME NEW i \in 1..(n - 1)
               PROVE  \E k \in 1..n : r[i] = m[k] /\ (k < j \/ k = i + 1)
      OBVIOUS
  <2>1. CASE i < j
        BY <1>3, <2>1
  <2>2. CASE ~(i < j)
        BY <1>3, <2>2
  <2> QED
      BY <2>1, <2>2
<1>5. (\A k \in 1..n : s[k].late) => \A i \in 1..(n - 1) : r[i].late
      BY <1>1, <1>4
<1>6. j = n => \A i \in 1..(n - 1) : r[i].late
      BY <1>1, <1>3
<1>7. j # n => r # <<>> /\ r[n - 1] = s[n]
  <2> SUFFICES ASSUME j # n PROVE r # <<>> /\ r[n - 1] = s[n]
      OBVIOUS
  <2>1. n - 1 \in j..(n - 1) /\ (n - 1) + 1 = n /\ n \in 1..n /\ ~(n < j) /\ Len(r) # 0
        BY <1>3
  <2> QED
      BY <1>1, <1>3, <2>1
<1> QED
    BY <1>1, <1>2, <1>3, <1>5, <1>6, <1>7

WipTask == [item : Item, late : BOOLEAN]

-----------------------------------------------------------------------------
(* The repositories of the window as a sequence *)

\* A sequence of repositories has only those among its elements.
LEMMA ElementsAre ==
  ASSUME NEW list \in Seq(Repos)
  PROVE  /\ ToSet(list) \subseteq Repos
         /\ list # <<>> => Head(list) \in ToSet(list) /\ Head(list) \in Repos
         /\ ToSet(<<>>) = {}
  BY DEF ToSet

\* A repository that is appended becomes an element, and the only one like it.
LEMMA AppendKey ==
  ASSUME NEW list \in Seq(Repos), IsInjective(list), NEW r \in Repos, r \notin ToSet(list)
  PROVE  /\ Append(list, r) \in Seq(Repos) /\ IsInjective(Append(list, r))
         /\ ToSet(Append(list, r)) = ToSet(list) \cup {r}
         /\ list = <<>> => Len(Append(list, r)) = 1
<1> DEFINE new == Append(list, r)
<1>1. /\ new \in Seq(Repos) /\ Len(new) = Len(list) + 1 /\ new[Len(list) + 1] = r
      /\ \A i \in 1..Len(list) : new[i] = list[i]
      BY AppendIs
<1>2. DOMAIN list = 1..Len(list) /\ DOMAIN new = 1..(Len(list) + 1) /\ Len(list) \in Nat
      BY <1>1
<1> HIDE DEF new
<1>3. \A i \in DOMAIN list : list[i] # r
      BY DEF ToSet
<1>4. IsInjective(new)
  <2> SUFFICES ASSUME NEW i \in DOMAIN new, NEW j \in DOMAIN new, new[i] = new[j] PROVE i = j
      BY DEF IsInjective
  <2>1. i \in 1..Len(list) \/ i = Len(list) + 1
        BY <1>2
  <2>2. j \in 1..Len(list) \/ j = Len(list) + 1
        BY <1>2
  <2> QED
      BY <1>1, <1>2, <1>3, <2>1, <2>2 DEF IsInjective
<1>5. ToSet(new) = ToSet(list) \cup {r}
  <2>1. ASSUME NEW x \in ToSet(new) PROVE x \in ToSet(list) \cup {r}
    <3>1. PICK i \in DOMAIN new : new[i] = x
          BY DEF ToSet
    <3>2. i \in 1..Len(list) \/ i = Len(list) + 1
          BY <1>2
    <3> QED
        BY <1>1, <1>2, <3>1, <3>2 DEF ToSet
  <2>2. ASSUME NEW x \in ToSet(list) PROVE x \in ToSet(new)
    <3>1. PICK i \in DOMAIN list : list[i] = x
          BY DEF ToSet
    <3>2. i \in DOMAIN new /\ new[i] = x
          BY <1>1, <1>2, <3>1
    <3> QED
        BY <3>2 DEF ToSet
  <2>3. r \in ToSet(new)
    <3>1. Len(list) + 1 \in DOMAIN new
          BY <1>2
    <3> QED
        BY <1>1, <3>1 DEF ToSet
  <2> QED
      BY <2>1, <2>2, <2>3
<1>6. list = <<>> => Len(new) = 1
      BY <1>1
<1> QED
    BY <1>1, <1>4, <1>5, <1>6 DEF new

\* A key that is taken out is gone, and the others stay.
LEMMA WithoutIs ==
  ASSUME NEW list \in Seq(Repos), IsInjective(list), NEW r \in Repos
  PROVE  /\ Without(list, r) \in Seq(Repos) /\ IsInjective(Without(list, r))
         /\ ToSet(Without(list, r)) = ToSet(list) \ {r}
<1>1. CASE Places(list, r) = {}
  <2>1. Without(list, r) = list
        BY <1>1 DEF Without
  <2>2. r \notin ToSet(list)
        BY <1>1 DEF Places, ToSet
  <2> QED
      BY <2>1, <2>2
<1>2. CASE Places(list, r) # {}
  <2> DEFINE new == Without(list, r)
  <2>1. PICK k \in DOMAIN list : list[k] = r /\ new = RemoveAt(list, k)
        BY <1>2 DEF Without, Places
  <2>2. k \in 1..Len(list) /\ Len(list) \in Nat /\ DOMAIN list = 1..Len(list)
        BY <2>1
  <2>3. /\ new \in Seq(Repos) /\ Len(new) = Len(list) - 1
        /\ \A i \in 1..(k - 1) : new[i] = list[i]
        /\ \A i \in k..(Len(list) - 1) : new[i] = list[i + 1]
        BY <2>1, <2>2, RemoveAtIs
  <2> HIDE DEF new
  <2> DEFINE was(i) == IF i < k THEN i ELSE i + 1
  <2>4. DOMAIN new = 1..(Len(list) - 1)
        BY <2>3
  <2>5. \A i \in DOMAIN new : was(i) \in DOMAIN list /\ was(i) # k /\ new[i] = list[was(i)]
        BY <2>2, <2>3, <2>4
  <2>6. \A i, j \in DOMAIN new : was(i) = was(j) => i = j
        BY <2>2, <2>4
  <2>7. \A i \in DOMAIN list : i # k => \E j \in DOMAIN new : was(j) = i
    <3> SUFFICES ASSUME NEW i \in DOMAIN list, i # k PROVE \E j \in DOMAIN new : was(j) = i
        OBVIOUS
    <3>1. CASE i < k
      <4>1. i \in DOMAIN new /\ was(i) = i
            BY <2>2, <2>4, <3>1
      <4> QED
          BY <4>1
    <3>2. CASE ~(i < k)
      <4>1. i - 1 \in DOMAIN new /\ was(i - 1) = i
            BY <2>2, <2>4, <3>2
      <4> QED
          BY <4>1
    <3> QED
        BY <3>1, <3>2
  <2> HIDE DEF was
  <2>8. IsInjective(new)
        BY <2>5, <2>6 DEF IsInjective
  <2>9. ToSet(new) \subseteq ToSet(list) \ {r}
    <3> SUFFICES ASSUME NEW i \in DOMAIN new PROVE new[i] \in ToSet(list) /\ new[i] # r
        BY DEF ToSet
    <3>1. was(i) \in DOMAIN list /\ was(i) # k /\ new[i] = list[was(i)]
          BY <2>5
    <3> QED
        BY <2>1, <3>1 DEF IsInjective, ToSet
  <2>10. ToSet(list) \ {r} \subseteq ToSet(new)
    <3> SUFFICES ASSUME NEW i \in DOMAIN list, list[i] # r PROVE list[i] \in ToSet(new)
        BY DEF ToSet
    <3>1. PICK j \in DOMAIN new : was(j) = i
          BY <2>1, <2>7
    <3>2. new[j] = list[i]
          BY <2>5, <3>1
    <3> QED
        BY <3>2 DEF ToSet
  <2> QED
      BY <2>3, <2>8, <2>9, <2>10 DEF new
<1> QED
    BY <1>1, <1>2

\* What the launch has still to add, without the first.
LEMMA TailKeys ==
  ASSUME NEW list \in Seq(Repos), IsInjective(list), list # <<>>
  PROVE  /\ Tail(list) \in Seq(Repos) /\ IsInjective(Tail(list))
         /\ ToSet(Tail(list)) = ToSet(list) \ {Head(list)}
<1> DEFINE new == Tail(list)
<1>1. /\ new \in Seq(Repos) /\ Head(list) = list[1]
      /\ Len(list) \in Nat \ {0} /\ Len(new) = Len(list) - 1
      /\ \A i \in 1..(Len(list) - 1) : new[i] = list[i + 1]
      BY TailIs
<1>2. DOMAIN list = 1..Len(list) /\ DOMAIN new = 1..(Len(list) - 1)
      BY <1>1
<1> HIDE DEF new
<1>3. \A i \in DOMAIN new : i + 1 \in DOMAIN list /\ new[i] = list[i + 1] /\ i + 1 # 1 /\ i \in Nat
      BY <1>1, <1>2
<1>4. \A i \in DOMAIN list : i # 1 => i - 1 \in DOMAIN new /\ new[i - 1] = list[i]
      BY <1>1, <1>2
<1>5. 1 \in DOMAIN list
      BY <1>1, <1>2
<1>6. IsInjective(new)
  <2> SUFFICES ASSUME NEW i \in DOMAIN new, NEW j \in DOMAIN new, new[i] = new[j] PROVE i = j
      BY DEF IsInjective
  <2>1. i + 1 = j + 1
        BY <1>3 DEF IsInjective
  <2> QED
      BY <1>3, <2>1
<1>7. ToSet(new) = ToSet(list) \ {Head(list)}
  <2>1. \A i \in DOMAIN new : new[i] \in ToSet(list) /\ new[i] # list[1]
        BY <1>3, <1>5 DEF IsInjective, ToSet
  <2>2. \A i \in DOMAIN list : list[i] # list[1] => list[i] \in ToSet(new)
        BY <1>4 DEF ToSet
  <2>3. \A x \in ToSet(new) : x \in ToSet(list) /\ x # list[1]
        BY <2>1 DEF ToSet
  <2>4. \A x \in ToSet(list) : x # list[1] => x \in ToSet(new)
        BY <2>2 DEF ToSet
  <2> QED
      BY <1>1, <2>3, <2>4
<1> QED
    BY <1>1, <1>6, <1>7 DEF new

-----------------------------------------------------------------------------
(* The wip commits on their way *)

Marked(j) == [k \in DOMAIN wipTasks |-> [wipTasks[k] EXCEPT !.late = @ \/ k < j]]

\* Showing the result of Task j makes those before it late and leaves the others as they are.
LEMMA MarkedIs ==
  ASSUME wipTasks \in Seq(WipTask), NEW j \in 1..Len(wipTasks)
  PROVE  /\ Marked(j) \in Seq(WipTask) /\ Len(Marked(j)) = Len(wipTasks)
         /\ \A k \in 1..Len(wipTasks) :
              /\ k < j \/ wipTasks[k].late => Marked(j)[k].late
              /\ ~(k < j) => Marked(j)[k] = wipTasks[k]
<1> DEFINE mark(k) == [wipTasks[k] EXCEPT !.late = @ \/ k < j]
<1>1. ASSUME NEW k \in 1..Len(wipTasks)
      PROVE  /\ mark(k) \in WipTask
             /\ k < j \/ wipTasks[k].late => mark(k).late
             /\ ~(k < j) => mark(k) = wipTasks[k]
  <2>1. wipTasks[k] \in WipTask
        OBVIOUS
  <2>2. PICK r \in WipTask : r = wipTasks[k]
        BY <2>1
  <2>3. PICK b \in BOOLEAN : b = (k < j)
    <3>1. (k < j) \in BOOLEAN
          OBVIOUS
    <3> QED
        BY <3>1, Zenon
  <2>4. mark(k) = [r EXCEPT !.late = r.late \/ b]
        BY <2>2, <2>3
  <2>5. r.late \in BOOLEAN /\ r.item \in Item /\ r = [item |-> r.item, late |-> r.late]
        BY DEF WipTask
  <2>6. mark(k) = [item |-> r.item, late |-> r.late \/ b]
        BY <2>4, <2>5
  <2>7. mark(k) \in WipTask
        BY <2>5, <2>6 DEF WipTask
  <2>8. mark(k).late = (r.late \/ b)
        BY <2>6
  <2>9. k < j \/ wipTasks[k].late => mark(k).late
        BY <2>2, <2>3, <2>8
  <2>10. ~b => (r.late \/ b) = r.late
         BY <2>5
  <2>11. ~(k < j) => mark(k) = wipTasks[k]
         BY <2>2, <2>3, <2>5, <2>6, <2>10
  <2> QED
      BY <2>7, <2>9, <2>11
<1> HIDE DEF mark
<1>2. Marked(j) = [k \in 1..Len(wipTasks) |-> mark(k)]
      BY DEF Marked, mark
<1>3. Len(wipTasks) \in Nat
      OBVIOUS
<1> QED
    BY <1>1, <1>2, <1>3

\* What is left after the result of Task j was shown: if that was the last, only late ones, or else
\* the last as it was.
LEMMA LeftIs ==
  ASSUME wipTasks \in Seq(WipTask), NEW j \in 1..Len(wipTasks), wipTasks' = RemoveAt(Marked(j), j)
  PROVE  /\ wipTasks' \in Seq(WipTask)
         /\ (\A k \in 1..Len(wipTasks) : wipTasks[k].late) => \A i \in 1..Len(wipTasks') : wipTasks'[i].late
         /\ j = Len(wipTasks) => \A i \in 1..Len(wipTasks') : wipTasks'[i].late
         /\ j # Len(wipTasks) => wipTasks' # <<>> /\ wipTasks'[Len(wipTasks')] = wipTasks[Len(wipTasks)]
<1> DEFINE m == Marked(j)
<1>1. /\ m \in Seq(WipTask) /\ Len(m) = Len(wipTasks)
      /\ \A k \in 1..Len(wipTasks) :
           (k < j \/ wipTasks[k].late => m[k].late) /\ (~(k < j) => m[k] = wipTasks[k])
      BY MarkedIs
<1>2. wipTasks' = RemoveAt(m, j)
      OBVIOUS
<1> HIDE DEF m
<1>3. /\ wipTasks' \in Seq(WipTask) /\ Len(wipTasks') = Len(wipTasks) - 1
      /\ (\A k \in 1..Len(wipTasks) : wipTasks[k].late) =>
           \A i \in 1..(Len(wipTasks) - 1) : wipTasks'[i].late
      /\ j = Len(wipTasks) => \A i \in 1..(Len(wipTasks) - 1) : wipTasks'[i].late
      /\ j # Len(wipTasks) => wipTasks' # <<>> /\ wipTasks'[Len(wipTasks) - 1] = wipTasks[Len(wipTasks)]
      BY <1>1, <1>2, AnsweredIs
<1> QED
    BY <1>3

-----------------------------------------------------------------------------
(* Types *)

\* The parts of TypeOK: what is selected, the lists, and the Tasks and histories.
SelTypes ==
    /\ item \in Item \cup {NoItem} /\ cur = item.repo /\ last \in Repos \cup {None}
    /\ wip \in Item \cup {NoItem} /\ wipTasks \in Seq(WipTask) /\ crossed \in BOOLEAN
ListTypes ==
    /\ projects \subseteq Repos /\ infos \in Seq(Repos) /\ IsInjective(infos)
    /\ launch \in Seq(Repos) /\ adding \in [Repos -> {"none", "load", "count"}] /\ setups \in Nat
TaskTypes ==
    /\ given \in Launches /\ taps \subseteq Item /\ deletes \in [Repos -> Nat] /\ events \subseteq Repos
    /\ late \in BOOLEAN /\ raced \in BOOLEAN /\ doubled \subseteq Repos /\ used \in 0..MaxUser

\* TypeOK is its parts, before a step and after it.
LEMMA TypeParts ==
  /\ TypeOK <=> SelTypes /\ ListTypes /\ TaskTypes
  /\ TypeOK' <=> SelTypes' /\ ListTypes' /\ TaskTypes'
  BY DEF TypeOK, SelTypes, ListTypes, TaskTypes, WipTask

\* Types and what is listed, at first.
LEMMA InitTypeOK == Init => TypeOK
<1> SUFFICES ASSUME Init PROVE TypeOK
    OBVIOUS
<1>1. given \in Seq(Repos) /\ IsInjective(given) /\ ToSet(given) \subseteq Repos
      BY ReposAssumption, ElementsAre DEF Init
<1>2. SelTypes
  <2>1. item = NoItem /\ cur = None /\ last = GivenLast /\ wip = NoItem /\ wipTasks = <<>>
        BY DEF Init
  <2>2. crossed \in BOOLEAN
        BY DEF Init
  <2>3. NoItem.repo = None /\ <<>> \in Seq(WipTask) /\ GivenLast \in Repos \cup {None}
        BY ReposAssumption DEF NoItem
  <2> QED
      BY <2>1, <2>2, <2>3 DEF SelTypes
<1>3. infos = <<>> /\ IsInjective(infos)
  <2>1. infos = <<>> /\ DOMAIN <<>> = {}
        BY DEF Init
  <2> QED
      BY <2>1 DEF IsInjective
<1>4. ListTypes
      BY <1>1, <1>3 DEF Init, ListTypes
<1>5. TaskTypes
  <2>1. given \in Launches /\ taps = {} /\ events = {} /\ doubled = {} /\ used = 0 /\ MaxUser \in Nat
        BY ReposAssumption DEF Init
  <2>2. deletes \in [Repos -> Nat]
        BY DEF Init
  <2>3. late \in BOOLEAN /\ raced \in BOOLEAN
        BY DEF Init
  <2> QED
      BY <2>1, <2>2, <2>3 DEF TaskTypes
<1> QED
    BY <1>2, <1>4, <1>5, TypeParts

\* Selecting an item keeps the types of what is selected, and so does selecting none.
LEMMA SelectTypes ==
  ASSUME SelTypes, NEW i \in Item, Select(i) PROVE SelTypes' /\ item' = i /\ cur' = i.repo /\ i.repo \in Repos
<1>1. i.repo \in Repos
      BY DEF Item
<1>2. [item |-> i, late |-> FALSE] \in WipTask
      BY DEF WipTask
<1>3. PICK w \in WipTask : w = [item |-> i, late |-> FALSE]
      BY <1>2
<1>4. wipTasks' \in {Append(wipTasks, w), wipTasks}
      BY <1>3 DEF Select
<1>5. wipTasks' \in Seq(WipTask)
      BY <1>4, AppendIs DEF SelTypes
<1> QED
    BY <1>1, <1>5 DEF Select, SelTypes

\* Selecting none makes the Tasks late and starts one more that selects.
LEMMA DeselectTypes ==
  ASSUME SelTypes, setups \in Nat, Deselect PROVE SelTypes' /\ setups' \in Nat
<1> DEFINE mark(j) == [wipTasks[j] EXCEPT !.late = TRUE]
<1>1. ASSUME NEW j \in DOMAIN wipTasks PROVE mark(j) \in WipTask
  <2>1. wipTasks[j] \in WipTask
        BY <1>1 DEF SelTypes
  <2>2. PICK w \in WipTask : w = wipTasks[j]
        BY <2>1
  <2> QED
      BY <2>2 DEF WipTask
<1> HIDE DEF mark
<1>2. wipTasks' = [j \in 1..Len(wipTasks) |-> mark(j)]
      BY DEF Deselect, mark, SelTypes
<1>3. wipTasks' \in Seq(WipTask)
      BY <1>1, <1>2 DEF SelTypes
<1>4. /\ item' = NoItem /\ cur' = None /\ wip' = NoItem
      /\ last' = last /\ setups' = setups + 1
      BY DEF Deselect
<1>5. crossed' \in BOOLEAN
      BY DEF Deselect
<1>6. NoItem.repo = None
      BY DEF NoItem
<1>7. setups' \in Nat
      BY <1>4
<1> QED
    BY <1>3, <1>4, <1>5, <1>6, <1>7 DEF SelTypes

\* Showing the result of a Task shows an item's wip commits.
LEMMA ShowWipTypes ==
  ASSUME SelTypes, NEW j \in 1..Len(wipTasks), ShowWip(j) PROVE SelTypes'
<1>1. wipTasks' = RemoveAt(Marked(j), j) /\ wip' = wipTasks[j].item /\ crossed' = wipTasks[j].late
      /\ UNCHANGED <<item, cur, last>>
      BY DEF ShowWip, Marked, tasks
<1>2. wipTasks' \in Seq(WipTask)
      BY <1>1, LeftIs DEF SelTypes
<1>3. wipTasks[j] \in WipTask
      BY DEF SelTypes
<1>4. wipTasks[j].item \in Item /\ wipTasks[j].late \in BOOLEAN
      BY <1>3 DEF WipTask
<1> QED
    BY <1>1, <1>2, <1>4 DEF SelTypes

\* The item the app selects by itself is the status of a repository of the window.
LEMMA InitialIs ==
  ASSUME ListTypes, infos # <<>>
  PROVE  Initial \in Listed /\ Initial \in Repos /\ [kind |-> "status", repo |-> Initial] \in Item
<1>1. Head(infos) \in Listed /\ Listed \subseteq Repos
      BY ElementsAre DEF ListTypes, Listed
<1>2. Initial \in Listed /\ Initial \in Repos
      BY <1>1 DEF Initial
<1> QED
    BY <1>2 DEF Item, Kinds

\* What a step of adding a repository does to the lists.
LEMMA CountTypes ==
  ASSUME ListTypes, NEW r \in Repos, Count(r) PROVE ListTypes'
<1> DEFINE only == IF Len(infos) = 1 THEN 1 ELSE 0
           all == IF (launch # <<>> /\ r = Head(launch)) /\ Tail(launch) = <<>> THEN 1 ELSE 0
<1>1. only \in Nat /\ all \in Nat
      OBVIOUS
<1>2. setups' = setups + only + all
      BY DEF Count
<1> HIDE DEF only, all
<1>3. setups' \in Nat
      BY <1>1, <1>2 DEF ListTypes
<1>4. launch' \in {launch, Tail(launch)} /\ (launch' # launch => launch # <<>>)
      BY DEF Count
<1>5. launch' \in Seq(Repos)
      BY <1>4, TailIs DEF ListTypes
<1>6. adding' \in [Repos -> {"none", "load", "count"}] /\ UNCHANGED <<projects, infos>>
      BY DEF Count, ListTypes
<1> QED
    BY <1>3, <1>5, <1>6 DEF ListTypes

\* Every step keeps the types.
LEMMA StepTypeOK == TypeOK /\ [Next]_vars => TypeOK'
<1> SUFFICES ASSUME TypeOK, [Next]_vars PROVE TypeOK'
    OBVIOUS
<1> USE DEF selection, tasks
<1>0. SelTypes /\ ListTypes /\ TaskTypes /\ MaxUser \in Nat
      BY TypeParts, ReposAssumption
<1>1. CASE UNCHANGED vars
      BY <1>0, <1>1, TypeParts DEF vars, SelTypes, ListTypes, TaskTypes
<1>2. CASE LaunchNext
  <2>1. launch # <<>> /\ Head(launch) \in Repos
        BY <1>0, <1>2, TailIs DEF LaunchNext, ListTypes
  <2> QED
      BY <1>0, <1>2, <2>1, TypeParts DEF LaunchNext, SelTypes, ListTypes, TaskTypes
<1>3. CASE Setup
  <2>1. setups' \in Nat /\ TaskTypes'
        BY <1>0, <1>3 DEF Setup, ListTypes, TaskTypes
  <2>2. ListTypes'
        BY <1>0, <1>3, <2>1 DEF Setup, ListTypes
  <2>3. SelTypes'
    <3>1. CASE item = NoItem /\ infos # <<>>
          BY <1>0, <1>3, <3>1, InitialIs, SelectTypes DEF Setup
    <3>2. CASE ~(item = NoItem /\ infos # <<>>)
          BY <1>0, <1>3, <3>2 DEF Setup, SelTypes
    <3> QED
        BY <3>1, <3>2
  <2> QED
      BY <2>1, <2>2, <2>3, TypeParts
<1>4. ASSUME NEW j \in 1..Len(wipTasks), ShowWip(j) PROVE TypeOK'
      BY <1>0, <1>4, ShowWipTypes, TypeParts DEF ShowWip, ListTypes, TaskTypes
<1>5. ASSUME NEW r \in Repos, Insert(r) PROVE TypeOK'
  <2>1. infos' \in Seq(Repos) /\ IsInjective(infos')
        BY <1>0, <1>5, AppendKey DEF Insert, ListTypes, Listed
  <2>2. raced' \in BOOLEAN
        BY <1>5 DEF Insert
  <2> QED
      BY <1>0, <1>5, <2>1, <2>2, TypeParts DEF Insert, SelTypes, ListTypes, TaskTypes
<1>6. ASSUME NEW r \in Repos, Count(r) PROVE TypeOK'
      BY <1>0, <1>6, CountTypes, TypeParts DEF Count, SelTypes, TaskTypes
<1>7. ASSUME NEW r \in Repos, RunDelete(r) PROVE TypeOK'
  <2>1. infos' \in Seq(Repos) /\ IsInjective(infos')
        BY <1>0, <1>7, WithoutIs DEF RunDelete, ListTypes
  <2>2. SelTypes' /\ setups' \in Nat /\ late' \in BOOLEAN
    <3>1. CASE item # NoItem /\ cur = r
          BY <1>0, <1>7, <3>1, DeselectTypes DEF RunDelete, ListTypes
    <3>2. CASE ~(item # NoItem /\ cur = r)
          BY <1>0, <1>7, <3>2 DEF RunDelete, SelTypes, ListTypes, TaskTypes
    <3> QED
        BY <3>1, <3>2
  <2>3. deletes' \in [Repos -> Nat]
        BY <1>0, <1>7 DEF RunDelete, TaskTypes
  <2> QED
      BY <1>0, <1>7, <2>1, <2>2, <2>3, TypeParts DEF RunDelete, ListTypes, TaskTypes
<1>8. ASSUME NEW r \in Repos, RunEvent(r) PROVE TypeOK'
  <2>1. [kind |-> "status", repo |-> r] \in Item
        BY DEF Item, Kinds
  <2>2. SelTypes' /\ late' \in BOOLEAN
    <3>1. CASE item.kind = "status"
          BY <1>0, <1>8, <2>1, <3>1, SelectTypes DEF RunEvent
    <3>2. CASE item.kind # "status"
          BY <1>0, <1>8, <3>2 DEF RunEvent, SelTypes, TaskTypes
    <3> QED
        BY <3>1, <3>2
  <2> QED
      BY <1>0, <1>8, <2>2, TypeParts DEF RunEvent, ListTypes, TaskTypes
<1>9. ASSUME NEW r \in Repos, DropEvent(r) PROVE TypeOK'
      BY <1>0, <1>9, TypeParts DEF DropEvent, SelTypes, ListTypes, TaskTypes
<1>10. ASSUME NEW i \in Item, RunTap(i) PROVE TypeOK'
  <2>1. SelTypes' /\ late' \in BOOLEAN
        BY <1>0, <1>10, SelectTypes DEF RunTap
  <2> QED
      BY <1>0, <1>10, <2>1, TypeParts DEF RunTap, ListTypes, TaskTypes
<1>11. ASSUME NEW r \in Repos, AddProject(r) PROVE TypeOK'
       BY <1>0, <1>11, TypeParts DEF AddProject, SelTypes, ListTypes, TaskTypes
<1>12. ASSUME NEW r \in Repos, DeleteTap(r) PROVE TypeOK'
       BY <1>0, <1>12, TypeParts DEF DeleteTap, SelTypes, ListTypes, TaskTypes
<1>13. ASSUME NEW r \in Repos, GitChange(r) PROVE TypeOK'
       BY <1>0, <1>13, TypeParts DEF GitChange, SelTypes, ListTypes, TaskTypes
<1>14. ASSUME NEW i \in Item, Tap(i) PROVE TypeOK'
       BY <1>0, <1>14, TypeParts DEF Tap, SelTypes, ListTypes, TaskTypes
<1>15. CASE ListAgain
  <2>1. item \in Item /\ wipTasks' = Append(wipTasks, [item |-> item, late |-> FALSE])
        BY <1>0, <1>15 DEF ListAgain, SelTypes, NoItem, HasWip
  <2>2. wipTasks' \in Seq(WipTask)
        BY <1>0, <2>1 DEF SelTypes, WipTask
  <2>3. SelTypes'
        BY <1>0, <1>15, <2>2 DEF ListAgain, SelTypes
  <2> QED
      BY <1>0, <1>15, <2>3, TypeParts DEF ListAgain, ListTypes, TaskTypes
<1> QED
    BY <1>1, <1>2, <1>3, <1>4, <1>5, <1>6, <1>7, <1>8, <1>9, <1>10, <1>11, <1>12, <1>13, <1>14, <1>15
    DEF Next, Work, User

\* The type of the state holds for any repositories and any launch; above all, the repository
\* and the item selected belong together, which the removal of a repository relies on.
THEOREM TypeCorrect == Spec => []TypeOK
  BY InitTypeOK, StepTypeOK, PTL DEF Spec

-----------------------------------------------------------------------------
(* What a step does to the window *)

\* The repositories of the window after a step.
LEMMA ListedMoves ==
  ASSUME TypeOK, NEW r \in Repos
  PROVE  /\ Insert(r) => Listed' = Listed \cup {r}
         /\ RunDelete(r) => Listed' = Listed \ {r}
         /\ infos' = infos => Listed' = Listed
<1>1. Insert(r) => Listed' = Listed \cup {r}
      BY AppendKey DEF Insert, Listed, TypeOK
<1>2. RunDelete(r) => Listed' = Listed \ {r}
      BY WithoutIs DEF RunDelete, Listed, TypeOK
<1>3. infos' = infos => Listed' = Listed
      BY DEF Listed
<1> QED
    BY <1>1, <1>2, <1>3

-----------------------------------------------------------------------------
(* The item selected *)

\* SelectedIsListed is inductive once the types are known.
SelectedInv == TypeOK /\ SelectedIsListed

\* Only a late Task selects what is not listed, and a removal deselects what it removes.
LEMMA StepSelected == SelectedInv /\ [Next]_vars => SelectedInv'
<1> SUFFICES ASSUME SelectedInv, [Next]_vars PROVE SelectedIsListed'
    BY StepTypeOK DEF SelectedInv
<1> USE DEF selection, tasks
<1>0. TypeOK /\ SelTypes /\ ListTypes /\ (cur # None /\ ~late => cur \in Listed)
      BY TypeParts DEF SelectedInv, SelectedIsListed
<1>1. ASSUME UNCHANGED <<cur, late, infos>> PROVE SelectedIsListed'
      BY <1>0, <1>1, ListedMoves DEF SelectedIsListed, Listed
<1>2. CASE Setup
  <2>1. CASE item = NoItem /\ infos # <<>>
    <3>1. cur' = Initial /\ Initial \in Listed /\ Listed' = Listed
          BY <1>0, <1>2, <2>1, InitialIs, SelectTypes DEF Setup, Listed
    <3> QED
        BY <3>1 DEF SelectedIsListed
  <2>2. CASE ~(item = NoItem /\ infos # <<>>)
        BY <1>1, <1>2, <2>2 DEF Setup
  <2> QED
      BY <2>1, <2>2
<1>3. ASSUME NEW r \in Repos, Insert(r) PROVE SelectedIsListed'
      BY <1>0, <1>3, ListedMoves DEF Insert, SelectedIsListed
<1>4. ASSUME NEW r \in Repos, RunDelete(r) PROVE SelectedIsListed'
  <2>1. CASE item # NoItem /\ cur = r
    <3>1. cur' = None
          BY <1>4, <2>1 DEF RunDelete, Deselect
    <3> QED
        BY <3>1 DEF SelectedIsListed
  <2>2. CASE ~(item # NoItem /\ cur = r)
    <3>1. cur # r
          BY <1>0, <2>2, ReposAssumption DEF SelTypes, NoItem
    <3>2. cur' = cur /\ late' = late /\ Listed' = Listed \ {r}
          BY <1>0, <1>4, <2>2, ListedMoves DEF RunDelete
    <3> QED
        BY <1>0, <3>1, <3>2 DEF SelectedIsListed
  <2> QED
      BY <2>1, <2>2
<1>5. ASSUME NEW r \in Repos, RunEvent(r) PROVE SelectedIsListed'
  <2>1. CASE item.kind = "status"
    <3>1. cur' = r /\ late' = (r \notin Listed) /\ Listed' = Listed
          BY <1>5, <2>1 DEF RunEvent, Select, Listed
    <3> QED
        BY <3>1 DEF SelectedIsListed
  <2>2. CASE item.kind # "status"
        BY <1>1, <1>5, <2>2 DEF RunEvent
  <2> QED
      BY <2>1, <2>2
<1>6. ASSUME NEW i \in Item, RunTap(i) PROVE SelectedIsListed'
  <2>1. cur' = i.repo /\ late' = (i.repo \notin Listed) /\ Listed' = Listed
        BY <1>6 DEF RunTap, Select, Listed
  <2> QED
      BY <2>1 DEF SelectedIsListed
<1>7. CASE UNCHANGED vars \/ LaunchNext \/ ListAgain
      BY <1>1, <1>7 DEF vars, LaunchNext, ListAgain
<1>8. ASSUME NEW r \in Repos, Count(r) \/ DropEvent(r) \/ AddProject(r) \/ DeleteTap(r) \/ GitChange(r)
      PROVE  SelectedIsListed'
      BY <1>1, <1>8 DEF Count, DropEvent, AddProject, DeleteTap, GitChange
<1>9. ASSUME NEW i \in Item, Tap(i) PROVE SelectedIsListed'
      BY <1>1, <1>9 DEF Tap
<1>10. ASSUME NEW j \in 1..Len(wipTasks), ShowWip(j) PROVE SelectedIsListed'
       BY <1>1, <1>10 DEF ShowWip
<1> QED
    BY <1>2, <1>3, <1>4, <1>5, <1>6, <1>7, <1>8, <1>9, <1>10 DEF Next, Work, User

\* The selection never is a repository the window no longer has, but after a tap or an event that
\* came to the main actor behind the removal: whatever else is added, removed and selected.
THEOREM SelectedStaysListed == Spec => []SelectedIsListed
<1>1. Init => SelectedInv
  <2>1. Init => SelectedIsListed
        BY DEF Init, SelectedIsListed
  <2> QED
      BY <2>1, InitTypeOK DEF SelectedInv
<1>2. SelectedInv => SelectedIsListed
      BY DEF SelectedInv
<1> QED
    BY <1>1, <1>2, StepSelected, PTL DEF Spec

\* No Task but a tap of the user's and a removal the user asked for replaces a commit or a tag.
THEOREM UserLeavesItem == Spec => OnlyUserLeavesItem
<1> DEFINE Leaves == item.kind \in {"commit", "tag"} /\ item' # item => taps' # taps \/ deletes' # deletes
<1>1. TypeOK /\ [Next]_vars => Leaves
  <2> SUFFICES ASSUME TypeOK, [Next]_vars, item.kind \in {"commit", "tag"}, item' # item
               PROVE  taps' # taps \/ deletes' # deletes
      OBVIOUS
  <2> USE DEF selection, tasks
  <2>1. CASE Setup
        BY <2>1 DEF Setup, NoItem
  <2>2. ASSUME NEW r \in Repos, RunDelete(r) PROVE deletes' # deletes
    <3>1. deletes \in [Repos -> Nat] /\ deletes' = [deletes EXCEPT ![r] = deletes[r] - 1]
          BY <2>2 DEF RunDelete, TypeOK
    <3>2. deletes'[r] # deletes[r]
          BY <3>1
    <3> QED
        BY <3>2
  <2>3. ASSUME NEW r \in Repos, RunEvent(r) PROVE FALSE
        BY <2>3 DEF RunEvent
  <2>4. ASSUME NEW i \in Item, RunTap(i) PROVE taps' # taps
        BY <2>4 DEF RunTap
  <2>5. CASE UNCHANGED vars \/ LaunchNext \/ ListAgain
        BY <2>5 DEF vars, LaunchNext, ListAgain
  <2>6. ASSUME NEW r \in Repos, Insert(r) \/ Count(r) \/ DropEvent(r) \/ AddProject(r) \/ DeleteTap(r) \/ GitChange(r)
        PROVE  FALSE
        BY <2>6 DEF Insert, Count, DropEvent, AddProject, DeleteTap, GitChange
  <2>7. ASSUME NEW i \in Item, Tap(i) PROVE FALSE
        BY <2>7 DEF Tap
  <2>8. ASSUME NEW j \in 1..Len(wipTasks), ShowWip(j) PROVE FALSE
        BY <2>8 DEF ShowWip
  <2> QED
      BY <2>1, <2>2, <2>3, <2>4, <2>5, <2>6, <2>7, <2>8 DEF Next, Work, User
<1>2. Spec => [][Leaves]_vars
      BY <1>1, TypeCorrect, PTL DEF Spec
<1> QED
    BY <1>2 DEF OnlyUserLeavesItem

-----------------------------------------------------------------------------
(* Something is selected *)

\* While nothing is selected though there is something, a Task that will select is started, or
\* the first repository has still to be counted, or the launch goes on.
Settling ==
    \/ infos = <<>> \/ item # NoItem \/ raced
    \/ setups > 0 \/ launch # <<>>
    \/ Len(infos) = 1 /\ \E r \in Repos : adding[r] = "count"
SettleInv == TypeOK /\ Settling

\* A repository that comes in while none is counted is the first, or something was settling
\* already; one that comes in while another is counted has raced.
LEMMA InsertSettles ==
  ASSUME SettleInv, NEW r \in Repos, Insert(r) PROVE Settling'
<1> USE DEF selection, tasks
<1>0. TypeOK /\ Settling /\ ListTypes
      BY TypeParts DEF SettleInv
<1>1. /\ adding' = [adding EXCEPT ![r] = "count"] /\ UNCHANGED <<item, setups, launch>>
      /\ infos' = IF r \in Listed THEN infos ELSE Append(infos, r)
      BY <1>0 DEF Insert
<1>2. adding'[r] = "count" /\ adding[r] = "load"
      BY <1>0, <1>1 DEF ListTypes, Insert
<1>3. raced => raced'
      BY DEF Insert
<1>4. CASE \E q \in Repos : adding[q] = "count"
  <2>1. raced'
        BY <1>4 DEF Insert
  <2> QED
      BY <2>1 DEF Settling
<1>5. CASE ~(\E q \in Repos : adding[q] = "count")
  <2>1. CASE infos = <<>>
    <3>1. r \notin Listed
          BY <2>1 DEF Listed, ToSet
    <3>2. Len(infos') = 1
          BY <1>0, <1>1, <2>1, <3>1, AppendKey DEF ListTypes, Listed
    <3> QED
        BY <1>2, <3>2 DEF Settling
  <2>2. CASE infos # <<>>
        BY <1>0, <1>1, <1>3, <1>5, <2>2 DEF Settling
  <2> QED
      BY <2>1, <2>2
<1> QED
    BY <1>4, <1>5

\* Counting the first repository, or adding the last of the launch, starts a Task that selects.
LEMMA CountSettles ==
  ASSUME SettleInv, NEW r \in Repos, Count(r) PROVE Settling'
<1> USE DEF selection, tasks
<1>0. TypeOK /\ Settling /\ ListTypes /\ ListTypes'
      BY TypeParts, CountTypes DEF SettleInv
<1> DEFINE only == IF Len(infos) = 1 THEN 1 ELSE 0
           all == IF (launch # <<>> /\ r = Head(launch)) /\ Tail(launch) = <<>> THEN 1 ELSE 0
<1>1. only \in Nat /\ all \in Nat /\ (Len(infos) = 1 => only = 1)
      /\ (launch # <<>> /\ r = Head(launch) /\ Tail(launch) = <<>> => all = 1)
      OBVIOUS
<1>2. setups' = setups + only + all /\ UNCHANGED <<infos, item, raced>>
      BY DEF Count
<1>3. launch' = IF launch # <<>> /\ r = Head(launch) THEN Tail(launch) ELSE launch
      BY DEF Count
<1> HIDE DEF only, all
<1>4. setups \in Nat
      BY <1>0 DEF ListTypes
<1>5. CASE infos = <<>> \/ item # NoItem \/ raced
      BY <1>2, <1>5 DEF Settling
<1>6. CASE setups > 0 \/ Len(infos) = 1
  <2>1. setups' > 0
        BY <1>1, <1>2, <1>4, <1>6
  <2> QED
      BY <2>1 DEF Settling
<1>7. CASE launch # <<>>
  <2>1. launch' # <<>> \/ all = 1
        BY <1>1, <1>3, <1>7
  <2>2. all = 1 => setups' > 0
        BY <1>1, <1>2, <1>4
  <2> QED
      BY <2>1, <2>2 DEF Settling
<1> QED
    BY <1>0, <1>5, <1>6, <1>7 DEF Settling

\* Removing the selected repository starts a Task that selects; removing another one while
\* nothing is selected leaves none, or what was settling.
LEMMA DeleteSettles ==
  ASSUME SettleInv, NEW r \in Repos, RunDelete(r) PROVE Settling'
<1> USE DEF selection, tasks
<1>0. TypeOK /\ Settling /\ ListTypes
      BY TypeParts DEF SettleInv
<1>1. CASE item # NoItem /\ cur = r
  <2>1. setups \in Nat /\ setups' = setups + 1
        BY <1>0, <1>1 DEF RunDelete, Deselect, ListTypes
  <2>2. setups' > 0
        BY <2>1
  <2> QED
      BY <2>2 DEF Settling
<1>2. CASE ~(item # NoItem /\ cur = r)
  <2>1. UNCHANGED <<item, setups, launch, adding, raced>> /\ infos' = Without(infos, r)
        BY <1>2 DEF RunDelete
  <2>2. ASSUME infos # <<>>, Len(infos) = 1 PROVE infos' = <<>> \/ infos' = infos
    <3>1. CASE Places(infos, r) = {}
          BY <2>1, <3>1 DEF Without
    <3>2. CASE Places(infos, r) # {}
      <4>1. PICK k \in DOMAIN infos : infos' = RemoveAt(infos, k)
            BY <2>1, <3>2 DEF Without, Places
      <4>2. infos \in Seq(Repos) /\ k \in 1..Len(infos)
            BY <1>0, <4>1 DEF ListTypes
      <4>3. infos' \in Seq(Repos) /\ Len(infos') = 0
            BY <2>2, <4>1, <4>2, RemoveAtIs
      <4> QED
          BY <4>3
    <3> QED
        BY <3>1, <3>2
  <2>3. infos = <<>> => infos' = <<>>
        BY <2>1 DEF Without, Places
  <2> QED
      BY <1>0, <2>1, <2>2, <2>3 DEF Settling
<1> QED
    BY <1>1, <1>2

\* Every step leaves something selected, nothing listed, or something that will select.
LEMMA StepSettles == SettleInv /\ [Next]_vars => SettleInv'
<1> SUFFICES ASSUME SettleInv, [Next]_vars PROVE Settling'
    BY StepTypeOK DEF SettleInv
<1> USE DEF selection, tasks
<1>0. TypeOK /\ Settling /\ ListTypes /\ SelTypes
      BY TypeParts DEF SettleInv
<1>1. ASSUME UNCHANGED <<infos, raced, setups, launch>>,
             \A r \in Repos : adding[r] = "count" => adding'[r] = "count",
             item # NoItem => item' # NoItem
      PROVE  Settling'
      BY <1>0, <1>1 DEF Settling
<1>2. ASSUME NEW i \in Item, Select(i) PROVE item' # NoItem
      BY <1>2 DEF Select, Item, Kinds, NoItem
<1>3. CASE Setup
  <2>1. CASE item = NoItem /\ infos # <<>>
    <3>1. item' # NoItem
          BY <1>0, <1>2, <1>3, <2>1, InitialIs DEF Setup
    <3> QED
        BY <3>1 DEF Settling
  <2>2. CASE ~(item = NoItem /\ infos # <<>>)
    <3>1. UNCHANGED <<item, infos>>
          BY <1>3, <2>2 DEF Setup
    <3> QED
        BY <2>2, <3>1 DEF Settling
  <2> QED
      BY <2>1, <2>2
<1>4. CASE LaunchNext
  <2>1. launch' # <<>>
        BY <1>4 DEF LaunchNext
  <2> QED
      BY <2>1 DEF Settling
<1>5. ASSUME NEW r \in Repos, Insert(r) \/ Count(r) \/ RunDelete(r) PROVE Settling'
      BY <1>5, InsertSettles, CountSettles, DeleteSettles DEF SettleInv
<1>6. ASSUME NEW r \in Repos, RunEvent(r) PROVE Settling'
  <2>1. [kind |-> "status", repo |-> r] \in Item
        BY DEF Item, Kinds
  <2>2. item # NoItem => item' # NoItem
        BY <1>2, <1>6, <2>1 DEF RunEvent
  <2> QED
      BY <1>1, <1>6, <2>2 DEF RunEvent
<1>7. ASSUME NEW i \in Item, RunTap(i) PROVE Settling'
      BY <1>1, <1>2, <1>7 DEF RunTap
<1>8. ASSUME NEW r \in Repos, AddProject(r) PROVE Settling'
  <2>1. \A q \in Repos : adding[q] = "count" => adding'[q] = "count"
        BY <1>0, <1>8 DEF AddProject, ListTypes
  <2> QED
      BY <1>1, <1>8, <2>1 DEF AddProject
<1>9. CASE UNCHANGED vars \/ ListAgain
      BY <1>1, <1>9 DEF vars, ListAgain
<1>10. ASSUME NEW r \in Repos, DropEvent(r) \/ DeleteTap(r) \/ GitChange(r) PROVE Settling'
       BY <1>1, <1>10 DEF DropEvent, DeleteTap, GitChange
<1>11. ASSUME NEW i \in Item, Tap(i) PROVE Settling'
       BY <1>1, <1>11 DEF Tap
<1>12. ASSUME NEW j \in 1..Len(wipTasks), ShowWip(j) PROVE Settling'
       BY <1>1, <1>12 DEF ShowWip
<1> QED
    BY <1>3, <1>4, <1>5, <1>6, <1>7, <1>8, <1>9, <1>10, <1>11, <1>12 DEF Next, Work, User

\* Once launch and additions are over and no Task is left that would select, the window shows
\* something if it has anything, unless two repositories came in at once.
THEOREM SettlesSelected == Spec => []SomethingSelected
<1>1. Init => SettleInv
  <2>1. Init => Settling
        BY DEF Init, Settling
  <2> QED
      BY <2>1, InitTypeOK DEF SettleInv
<1>2. SettleInv => SomethingSelected
  <2> SUFFICES ASSUME SettleInv, AddsDone, setups = 0, infos # <<>>, ~raced PROVE item # NoItem
      BY DEF SomethingSelected
  <2>1. launch = <<>> /\ \A r \in Repos : adding[r] # "count"
        BY DEF AddsDone, Adding
  <2> QED
      BY <2>1 DEF SettleInv, Settling
<1> QED
    BY <1>1, <1>2, StepSettles, PTL DEF Spec

-----------------------------------------------------------------------------
(* The wip commits shown *)

\* The Task of the selected item is the last and on time; or its result was shown, and what is
\* left is late and would show as crossed.
Awaited == wipTasks # <<>> /\ wipTasks[Len(wipTasks)] = [item |-> item, late |-> FALSE]
Answered == (\A k \in 1..Len(wipTasks) : wipTasks[k].late) /\ (crossed \/ wip = item)
WipFollows == item.kind \in HasWip => Awaited \/ Answered
WipInv == TypeOK /\ WipFollows

\* An item with wip commits that is listed starts the last of the Tasks.
LEMMA ListFollows ==
  ASSUME SelTypes, NEW i \in Item, item' = i,
         wipTasks' = IF i.kind \in HasWip
                     THEN Append(wipTasks, [item |-> i, late |-> FALSE]) ELSE wipTasks
  PROVE  WipFollows'
<1> DEFINE w == [item |-> i, late |-> FALSE]
<1>1. item' = i /\ wipTasks' = IF i.kind \in HasWip THEN Append(wipTasks, w) ELSE wipTasks
      OBVIOUS
<1>2. w \in WipTask
      BY DEF WipTask
<1> HIDE DEF w
<1>3. CASE i.kind \in HasWip
  <2>1. wipTasks' = Append(wipTasks, w)
        BY <1>1, <1>3
  <2>2. wipTasks \in Seq(WipTask) /\ Len(wipTasks) \in Nat
        BY DEF SelTypes
  <2>3. Len(wipTasks') = Len(wipTasks) + 1 /\ wipTasks'[Len(wipTasks) + 1] = w
        BY <1>2, <2>1, <2>2, AppendIs
  <2>4. wipTasks' # <<>> /\ wipTasks'[Len(wipTasks')] = w
        BY <2>2, <2>3
  <2>5. w = [item |-> item', late |-> FALSE]
        BY <1>1 DEF w
  <2>6. Awaited'
        BY <2>4, <2>5 DEF Awaited
  <2> QED
      BY <2>6 DEF WipFollows
<1>4. CASE i.kind \notin HasWip
      BY <1>1, <1>4 DEF WipFollows
<1> QED
    BY <1>3, <1>4

\* A selection does so.
LEMMA SelectFollows ==
  ASSUME SelTypes, NEW i \in Item, Select(i) PROVE WipFollows'
<1> QED
    BY ListFollows DEF Select

\* Showing the result of the last Task leaves late ones; showing that of another leaves the last.
LEMMA ShowFollows ==
  ASSUME WipInv, NEW j \in 1..Len(wipTasks), ShowWip(j) PROVE WipFollows'
<1> USE DEF selection, tasks
<1>0. SelTypes /\ WipFollows /\ wipTasks \in Seq(WipTask) /\ item' = item
      BY TypeParts DEF WipInv, SelTypes, ShowWip
<1>1. wipTasks' = RemoveAt(Marked(j), j)
      BY DEF ShowWip, Marked
<1>2. /\ (\A k \in 1..Len(wipTasks) : wipTasks[k].late) => \A k \in 1..Len(wipTasks') : wipTasks'[k].late
      /\ j = Len(wipTasks) => \A k \in 1..Len(wipTasks') : wipTasks'[k].late
      /\ j # Len(wipTasks) => wipTasks' # <<>> /\ wipTasks'[Len(wipTasks')] = wipTasks[Len(wipTasks)]
      BY <1>0, <1>1, LeftIs
<1>3. wip' = wipTasks[j].item /\ crossed' = wipTasks[j].late
      BY DEF ShowWip
<1>4. CASE Awaited /\ j # Len(wipTasks)
  <2>1. Awaited'
        BY <1>0, <1>2, <1>4 DEF Awaited
  <2> QED
      BY <2>1 DEF WipFollows
<1>5. CASE Awaited /\ j = Len(wipTasks)
  <2>1. wipTasks[j].item = item
        BY <1>5 DEF Awaited
  <2>2. wip' = item'
        BY <1>0, <1>3, <2>1
  <2>3. Answered'
        BY <1>2, <1>5, <2>2 DEF Answered
  <2> QED
      BY <2>3 DEF WipFollows
<1>6. CASE Answered
  <2>1. crossed'
        BY <1>3, <1>6 DEF Answered
  <2>2. \A k \in 1..Len(wipTasks') : wipTasks'[k].late
        BY <1>2, <1>6 DEF Answered
  <2>3. Answered'
        BY <2>1, <2>2 DEF Answered
  <2> QED
      BY <2>3 DEF WipFollows
<1>7. CASE item.kind \notin HasWip
      BY <1>0, <1>7 DEF WipFollows
<1> QED
    BY <1>0, <1>4, <1>5, <1>6, <1>7 DEF WipFollows

\* Every step leaves the Task of the selected item to come, or its result shown.
LEMMA StepWip == WipInv /\ [Next]_vars => WipInv'
<1> SUFFICES ASSUME WipInv, [Next]_vars PROVE WipFollows'
    BY StepTypeOK DEF WipInv
<1> USE DEF selection, tasks
<1>0. TypeOK /\ WipFollows /\ ListTypes /\ SelTypes
      BY TypeParts DEF WipInv
<1>1. ASSUME UNCHANGED <<item, wip, wipTasks, crossed>> PROVE WipFollows'
      BY <1>0, <1>1 DEF WipFollows, Awaited, Answered
<1>2. CASE Setup
  <2>1. CASE item = NoItem /\ infos # <<>>
        BY <1>0, <1>2, <2>1, InitialIs, SelectFollows DEF Setup
  <2>2. CASE ~(item = NoItem /\ infos # <<>>)
        BY <1>1, <1>2, <2>2 DEF Setup
  <2> QED
      BY <2>1, <2>2
<1>3. ASSUME NEW r \in Repos, RunDelete(r) PROVE WipFollows'
  <2>1. CASE item # NoItem /\ cur = r
    <3>1. item' = NoItem
          BY <1>3, <2>1 DEF RunDelete, Deselect
    <3> QED
        BY <3>1 DEF WipFollows, NoItem, HasWip
  <2>2. CASE ~(item # NoItem /\ cur = r)
        BY <1>1, <1>3, <2>2 DEF RunDelete
  <2> QED
      BY <2>1, <2>2
<1>4. ASSUME NEW r \in Repos, RunEvent(r) PROVE WipFollows'
  <2>1. [kind |-> "status", repo |-> r] \in Item
        BY DEF Item, Kinds
  <2> QED
      BY <1>0, <1>1, <1>4, <2>1, SelectFollows DEF RunEvent
<1>5. ASSUME NEW i \in Item, RunTap(i) PROVE WipFollows'
      BY <1>0, <1>5, SelectFollows DEF RunTap
<1>6. ASSUME NEW j \in 1..Len(wipTasks), ShowWip(j) PROVE WipFollows'
      BY <1>6, ShowFollows DEF WipInv
<1>7. CASE UNCHANGED vars \/ LaunchNext
      BY <1>1, <1>7 DEF vars, LaunchNext
<1>8. ASSUME NEW r \in Repos,
             Insert(r) \/ Count(r) \/ DropEvent(r) \/ AddProject(r) \/ DeleteTap(r) \/ GitChange(r)
      PROVE  WipFollows'
      BY <1>1, <1>8 DEF Insert, Count, DropEvent, AddProject, DeleteTap, GitChange
<1>9. ASSUME NEW i \in Item, Tap(i) PROVE WipFollows'
      BY <1>1, <1>9 DEF Tap
<1>10. CASE ListAgain
  <2>1. item \in Item /\ item' = item /\ item.kind \in HasWip
        BY <1>0, <1>10 DEF ListAgain, SelTypes, NoItem, HasWip
  <2>2. wipTasks' = Append(wipTasks, [item |-> item, late |-> FALSE])
        BY <1>10 DEF ListAgain
  <2> QED
      BY <1>0, <2>1, <2>2, ListFollows
<1> QED
    BY <1>2, <1>3, <1>4, <1>5, <1>6, <1>7, <1>8, <1>9, <1>10 DEF Next, Work, User

\* When no listing is under way, the wip commits shown belong to the item selected, unless an
\* older listing came in after its own.
THEOREM WipFollowsSelection == Spec => []WipOfSelection
<1>1. Init => WipInv
  <2>1. Init => WipFollows
        BY DEF Init, WipFollows, NoItem, HasWip
  <2> QED
      BY <2>1, InitTypeOK DEF WipInv
<1>2. WipInv => WipOfSelection
      BY DEF WipInv, WipFollows, WipOfSelection, Awaited, Answered
<1> QED
    BY <1>1, <1>2, StepWip, PTL DEF Spec

-----------------------------------------------------------------------------
(* What is listed is a project *)

\* The launch has still to insert q.
Waiting(q) == q \in ToSet(launch) /\ ~(q = Head(launch) /\ adding[q] = "count")

\* Of a repository: listed or read, it is a project; before the launch has inserted it, nobody
\* can have asked for its removal; a removal under way is of one that is listed and not read
\* again.  Removals asked for twice are left out.
Kept(q) ==
    /\ (q \in Listed \/ adding[q] = "load") /\ q \notin doubled => q \in projects
    /\ Waiting(q) => /\ q \in projects /\ q \notin Listed /\ q \notin doubled /\ deletes[q] = 0
                     /\ adding[q] = "none" \/ (q = Head(launch) /\ adding[q] = "load")
    /\ deletes[q] > 0 /\ q \notin doubled => q \in Listed /\ deletes[q] = 1
    /\ q \in Listed /\ q \notin doubled => adding[q] # "load"
KeptInv == TypeOK /\ IsInjective(launch) /\ \A q \in Repos : Kept(q)

\* The launch starts to read the next of its repositories, which waits before and after.
LEMMA LaunchKeeps ==
  ASSUME KeptInv, LaunchNext PROVE \A q \in Repos : Kept(q)'
<1> USE DEF selection, tasks
<1>0. ListTypes /\ \A q \in Repos : Kept(q)
      BY TypeParts DEF KeptInv
<1>h. PICK r \in Repos : r = Head(launch)
      BY <1>0, ElementsAre DEF LaunchNext, ListTypes
<1>1. adding[r] = "none" /\ r \in ToSet(launch)
      BY <1>0, <1>h, ElementsAre DEF LaunchNext, ListTypes
<1>2. adding' = [adding EXCEPT ![r] = "load"] /\ UNCHANGED <<launch, infos, projects, deletes, doubled>>
      BY <1>h DEF LaunchNext
<1>3. adding'[r] = "load" /\ \A q \in Repos : q # r => adding'[q] = adding[q]
      BY <1>0, <1>1, <1>2 DEF ListTypes
<1>4. Waiting(r) /\ r = Head(launch')
      BY <1>1, <1>2, <1>h DEF Waiting
<1>5. r \in projects /\ r \notin Listed /\ r \notin doubled /\ deletes[r] = 0
      BY <1>0, <1>1, <1>4 DEF Kept
<1>6. Kept(r)'
      BY <1>2, <1>3, <1>4, <1>5 DEF Kept, Waiting, Listed
<1>7. ASSUME NEW q \in Repos, q # r PROVE Kept(q)'
  <2>1. Kept(q)
        BY <1>0
  <2> QED
      BY <1>2, <1>3, <1>7, <2>1 DEF Kept, Waiting, Listed
<1> QED
    BY <1>6, <1>7

\* A project is added that is neither listed nor waiting.
LEMMA AddKeeps ==
  ASSUME KeptInv, NEW r \in Repos, AddProject(r) PROVE \A q \in Repos : Kept(q)'
<1> USE DEF selection, tasks
<1>0. ListTypes /\ \A q \in Repos : Kept(q)
      BY TypeParts DEF KeptInv
<1>1. /\ adding' = [adding EXCEPT ![r] = "load"] /\ UNCHANGED <<launch, infos, deletes, doubled>>
      /\ r \notin projects /\ projects' = projects \cup {r}
      BY DEF AddProject
<1>2. adding'[r] = "load" /\ \A q \in Repos : q # r => adding'[q] = adding[q]
      BY <1>0, <1>1 DEF ListTypes
<1>3. Kept(r)
      BY <1>0
<1>4. ~Waiting(r) /\ (r \in Listed => r \in doubled) /\ adding[r] = "none"
      BY <1>1, <1>3 DEF Kept, AddProject
<1>5. r \notin ToSet(launch)
      BY <1>4 DEF Waiting
<1>6. Kept(r)'
      BY <1>1, <1>2, <1>3, <1>4, <1>5 DEF Kept, Waiting, Listed
<1>7. ASSUME NEW q \in Repos, q # r PROVE Kept(q)'
  <2>1. Kept(q)
        BY <1>0
  <2> QED
      BY <1>1, <1>2, <1>7, <2>1 DEF Kept, Waiting, Listed
<1> QED
    BY <1>6, <1>7

\* A repository that was read is listed; the launch no longer waits for it.
LEMMA InsertKeeps ==
  ASSUME KeptInv, NEW r \in Repos, Insert(r) PROVE \A q \in Repos : Kept(q)'
<1> USE DEF selection, tasks
<1>0. ListTypes /\ \A q \in Repos : Kept(q)
      BY TypeParts DEF KeptInv
<1>1. /\ adding' = [adding EXCEPT ![r] = "count"] /\ adding[r] = "load"
      /\ UNCHANGED <<launch, projects, deletes, doubled>>
      BY DEF Insert
<1>2. adding'[r] = "count" /\ \A q \in Repos : q # r => adding'[q] = adding[q]
      BY <1>0, <1>1 DEF ListTypes
<1>3. Listed' = Listed \cup {r}
  <2>1. infos' = IF r \in Listed THEN infos ELSE Append(infos, r)
        BY DEF Insert
  <2> QED
      BY <1>0, <2>1, AppendKey DEF ListTypes, Listed
<1>4. Kept(r)
      BY <1>0
<1>5. r \in ToSet(launch) => r = Head(launch)
      BY <1>1, <1>4 DEF Kept, Waiting
<1>6. ~Waiting(r)'
      BY <1>1, <1>2, <1>5 DEF Waiting
<1>7. Kept(r)'
      BY <1>1, <1>2, <1>3, <1>4, <1>6 DEF Kept
<1>8. ASSUME NEW q \in Repos, q # r PROVE Kept(q)'
  <2>1. Kept(q)
        BY <1>0
  <2>2. Waiting(q)' = Waiting(q)
        BY <1>1, <1>2, <1>8 DEF Waiting
  <2> QED
      BY <1>1, <1>2, <1>3, <1>8, <2>1, <2>2 DEF Kept
<1> QED
    BY <1>7, <1>8

\* When its first repository is counted, the launch goes on to the next.
LEMMA CountKeeps ==
  ASSUME KeptInv, NEW r \in Repos, Count(r) PROVE IsInjective(launch)' /\ \A q \in Repos : Kept(q)'
<1> USE DEF selection, tasks
<1>0. ListTypes /\ IsInjective(launch) /\ \A q \in Repos : Kept(q)
      BY TypeParts DEF KeptInv
<1>1. /\ adding' = [adding EXCEPT ![r] = "none"] /\ adding[r] = "count"
      /\ UNCHANGED <<infos, projects, deletes, doubled>>
      /\ launch' = IF launch # <<>> /\ r = Head(launch) THEN Tail(launch) ELSE launch
      BY DEF Count
<1>2. adding'[r] = "none" /\ \A q \in Repos : q # r => adding'[q] = adding[q]
      BY <1>0, <1>1 DEF ListTypes
<1>3. Listed' = Listed
      BY <1>1 DEF Listed
<1>4. launch = <<>> => ToSet(launch) = {}
      BY <1>0, ElementsAre DEF ListTypes
<1>5. CASE launch # <<>> /\ r = Head(launch)
  <2>1. launch' = Tail(launch)
        BY <1>1, <1>5
  <2>2. IsInjective(Tail(launch)) /\ ToSet(Tail(launch)) = ToSet(launch) \ {r}
        BY <1>0, <1>5, TailKeys DEF ListTypes
  <2>3. ASSUME NEW q \in Repos, Waiting(q)' PROVE Waiting(q) /\ q # r /\ adding[q] = "none"
    <3>1. q \in ToSet(launch) /\ q # r
          BY <2>1, <2>2, <2>3 DEF Waiting
    <3>2. Waiting(q)
          BY <1>5, <3>1 DEF Waiting
    <3> QED
        BY <1>0, <1>5, <3>1, <3>2 DEF Kept
  <2>4. ASSUME NEW q \in Repos PROVE Kept(q)'
    <3>1. Kept(q)
          BY <1>0
    <3>2. adding'[q] = "load" => adding[q] = "load"
          BY <1>2
    <3>3. Waiting(q)' => adding'[q] = "none"
          BY <1>2, <2>3
    <3> QED
        BY <1>1, <1>3, <2>3, <3>1, <3>2, <3>3 DEF Kept
  <2> QED
      BY <2>1, <2>2, <2>4
<1>6. CASE ~(launch # <<>> /\ r = Head(launch))
  <2>1. launch' = launch
        BY <1>1, <1>6
  <2>2. Kept(r)
        BY <1>0
  <2>3. r \notin ToSet(launch)
    <3>1. r \in ToSet(launch) => Waiting(r) /\ r # Head(launch)
          BY <1>4, <1>6 DEF Waiting
    <3> QED
        BY <1>1, <2>2, <3>1 DEF Kept
  <2>4. Kept(r)'
        BY <1>1, <1>2, <1>3, <2>1, <2>2, <2>3 DEF Kept, Waiting
  <2>5. ASSUME NEW q \in Repos, q # r PROVE Kept(q)'
    <3>1. Kept(q)
          BY <1>0
    <3> QED
        BY <1>1, <1>2, <1>3, <2>1, <2>5, <3>1 DEF Kept, Waiting
  <2>6. IsInjective(launch')
        BY <1>0, <2>1
  <2> QED
      BY <2>4, <2>5, <2>6
<1> QED
    BY <1>5, <1>6

\* The removal of a listed repository is asked for.
LEMMA DeleteTapKeeps ==
  ASSUME KeptInv, NEW r \in Repos, DeleteTap(r) PROVE \A q \in Repos : Kept(q)'
<1> USE DEF selection, tasks
<1>0. deletes \in [Repos -> Nat] /\ \A q \in Repos : Kept(q)
      BY TypeParts DEF KeptInv, TaskTypes
<1>1. /\ deletes' = [deletes EXCEPT ![r] = deletes[r] + 1] /\ r \in Listed
      /\ doubled' = IF deletes[r] > 0 THEN doubled \cup {r} ELSE doubled
      /\ UNCHANGED <<launch, infos, projects, adding>>
      BY DEF DeleteTap
<1>2. deletes'[r] = deletes[r] + 1 /\ \A q \in Repos : q # r => deletes'[q] = deletes[q]
      BY <1>0, <1>1
<1>3. Listed' = Listed /\ \A q \in Repos : Waiting(q)' = Waiting(q)
      BY <1>1 DEF Listed, Waiting
<1>4. \A q \in Repos : q # r => (q \in doubled' <=> q \in doubled)
      BY <1>1
<1>5. Kept(r)'
  <2>1. Kept(r) /\ deletes[r] \in Nat
        BY <1>0
  <2>2. ~Waiting(r)
        BY <1>1, <2>1 DEF Kept
  <2>3. r \notin doubled' => deletes[r] = 0 /\ r \notin doubled
        BY <1>1, <2>1
  <2> QED
      BY <1>1, <1>2, <1>3, <2>1, <2>2, <2>3 DEF Kept
<1>6. ASSUME NEW q \in Repos, q # r PROVE Kept(q)'
  <2>1. Kept(q)
        BY <1>0
  <2> QED
      BY <1>1, <1>2, <1>3, <1>4, <1>6, <2>1 DEF Kept
<1> QED
    BY <1>5, <1>6

\* A removal takes the repository out of the window and the projects at once.
LEMMA DeleteKeeps ==
  ASSUME KeptInv, NEW r \in Repos, RunDelete(r) PROVE \A q \in Repos : Kept(q)'
<1> USE DEF selection, tasks
<1>0. ListTypes /\ deletes \in [Repos -> Nat] /\ \A q \in Repos : Kept(q)
      BY TypeParts DEF KeptInv, TaskTypes
<1>1. /\ deletes' = [deletes EXCEPT ![r] = deletes[r] - 1] /\ deletes[r] > 0
      /\ infos' = Without(infos, r) /\ projects' = projects \ {r}
      /\ UNCHANGED <<launch, adding, doubled>>
      BY DEF RunDelete
<1>2. deletes'[r] = deletes[r] - 1 /\ \A q \in Repos : q # r => deletes'[q] = deletes[q]
      BY <1>0, <1>1
<1>3. Listed' = Listed \ {r}
      BY <1>0, <1>1, WithoutIs DEF ListTypes, Listed
<1>4. \A q \in Repos : Waiting(q)' = Waiting(q)
      BY <1>1 DEF Waiting
<1>5. Kept(r)'
  <2>1. Kept(r) /\ deletes[r] \in Nat
        BY <1>0
  <2>2. ~Waiting(r)
        BY <1>1, <2>1 DEF Kept
  <2>3. r \notin doubled => adding[r] # "load" /\ deletes[r] = 1
        BY <1>1, <2>1 DEF Kept
  <2> QED
      BY <1>1, <1>2, <1>3, <1>4, <2>2, <2>3 DEF Kept
<1>6. ASSUME NEW q \in Repos, q # r PROVE Kept(q)'
  <2>1. Kept(q)
        BY <1>0
  <2> QED
      BY <1>1, <1>2, <1>3, <1>4, <1>6, <2>1 DEF Kept
<1> QED
    BY <1>5, <1>6

\* The other Tasks and taps change none of this.
LEMMA StepKeeps == KeptInv /\ [Next]_vars => KeptInv'
<1> SUFFICES ASSUME KeptInv, [Next]_vars PROVE IsInjective(launch)' /\ \A q \in Repos : Kept(q)'
    BY StepTypeOK DEF KeptInv
<1> USE DEF selection, tasks
<1>0. IsInjective(launch) /\ \A q \in Repos : Kept(q)
      BY DEF KeptInv
<1>1. ASSUME UNCHANGED launch PROVE IsInjective(launch)'
      BY <1>0, <1>1
<1>2. ASSUME UNCHANGED <<launch, infos, projects, adding, deletes, doubled>>
      PROVE  IsInjective(launch)' /\ \A q \in Repos : Kept(q)'
      BY <1>0, <1>1, <1>2 DEF Kept, Waiting, Listed
<1>3. CASE LaunchNext
      BY <1>1, <1>3, LaunchKeeps DEF LaunchNext
<1>4. ASSUME NEW r \in Repos, AddProject(r) PROVE IsInjective(launch)' /\ \A q \in Repos : Kept(q)'
      BY <1>1, <1>4, AddKeeps DEF AddProject
<1>5. ASSUME NEW r \in Repos, Insert(r) PROVE IsInjective(launch)' /\ \A q \in Repos : Kept(q)'
      BY <1>1, <1>5, InsertKeeps DEF Insert
<1>6. ASSUME NEW r \in Repos, Count(r) PROVE IsInjective(launch)' /\ \A q \in Repos : Kept(q)'
      BY <1>6, CountKeeps
<1>7. ASSUME NEW r \in Repos, DeleteTap(r) PROVE IsInjective(launch)' /\ \A q \in Repos : Kept(q)'
      BY <1>1, <1>7, DeleteTapKeeps DEF DeleteTap
<1>8. ASSUME NEW r \in Repos, RunDelete(r) PROVE IsInjective(launch)' /\ \A q \in Repos : Kept(q)'
      BY <1>1, <1>8, DeleteKeeps DEF RunDelete
<1>9. CASE Setup \/ ListAgain \/ UNCHANGED vars
      BY <1>2, <1>9 DEF Setup, ListAgain, vars
<1>10. ASSUME NEW r \in Repos, RunEvent(r) \/ DropEvent(r) \/ GitChange(r)
       PROVE  IsInjective(launch)' /\ \A q \in Repos : Kept(q)'
       BY <1>2, <1>10 DEF RunEvent, DropEvent, GitChange
<1>11. ASSUME NEW i \in Item, RunTap(i) \/ Tap(i) PROVE IsInjective(launch)' /\ \A q \in Repos : Kept(q)'
       BY <1>2, <1>11 DEF RunTap, Tap
<1>12. ASSUME NEW j \in 1..Len(wipTasks), ShowWip(j) PROVE IsInjective(launch)' /\ \A q \in Repos : Kept(q)'
       BY <1>2, <1>12 DEF ShowWip
<1> QED
    BY <1>3, <1>4, <1>5, <1>6, <1>7, <1>8, <1>9, <1>10, <1>11, <1>12 DEF Next, Work, User

\* No repository gets listed behind its removal from the projects, in whatever order the
\* additions and removals come to the main actor, unless the user asked for one twice.
THEOREM ListedStayProjects == Spec => []ListedAreProjects
<1>1. Init => KeptInv
  <2> SUFFICES ASSUME Init PROVE IsInjective(launch) /\ \A q \in Repos : Kept(q)
      BY InitTypeOK DEF KeptInv
  <2>1. /\ launch = given /\ IsInjective(given) /\ projects = ToSet(launch) /\ infos = <<>> /\ doubled = {}
        /\ \A q \in Repos : adding[q] = "none" /\ deletes[q] = 0
        BY ReposAssumption DEF Init
  <2>2. Listed = {}
        BY <2>1 DEF Listed, ToSet
  <2> QED
      BY <2>1, <2>2 DEF Kept, Waiting
<1>2. KeptInv => ListedAreProjects
  <2> SUFFICES ASSUME KeptInv, NEW q \in Listed \cup {r \in Repos : adding[r] = "load"}, q \notin doubled
               PROVE  q \in projects
      BY DEF ListedAreProjects
  <2>1. q \in Repos
        BY TypeParts, ElementsAre DEF KeptInv, ListTypes, Listed
  <2>2. Kept(q)
        BY <2>1 DEF KeptInv
  <2> QED
      BY <2>2 DEF Kept
<1> QED
    BY <1>1, <1>2, StepKeeps, PTL DEF Spec

=============================================================================
