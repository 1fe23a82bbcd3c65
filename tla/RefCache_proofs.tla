--------------------------- MODULE RefCache_proofs ---------------------------
(***************************************************************************)
(* What RefCache guarantees for any set of refs, any number of operations  *)
(* and any interleaving of git, the two threads and the main actor.        *)
(***************************************************************************)
EXTENDS RefCache, TLAPS

\* The refs of one kind are refs.
LEMMA OnlyKindType ==
  ASSUME NEW k \in Kinds, NEW r \in Refs
  PROVE  OnlyKind(k, r) \in Refs
  BY DEF OnlyKind, Refs, Gone

\* The paths of a ref are of a class GitWatcher knows.
LEMMA SeenType ==
  ASSUME NEW r \in Ref, NEW whole \in BOOLEAN, NEW p \in Seen(r, whole)
  PROVE  p \subseteq {"local", "remote", "tags"}
  BY DEF Seen

\* A ref that moves leaves the refs well-typed.
LEMMA RefsType ==
  ASSUME refs \in Refs, NEW r \in Ref, NEW v \in Nat
  PROVE  [refs EXCEPT ![r] = v] \in Refs
  BY DEF Refs

\* The checks of a batch are checks.
LEMMA ChecksType ==
  ASSUME NEW paths
  PROVE  Checks(paths) \in Seq(Kinds)
<1> DEFINE check(k) == IF k \in paths THEN <<k>> ELSE <<>>
<1>1. \A k \in Kinds : check(k) \in Seq(Kinds)
      OBVIOUS
<1>2. check("local") \in Seq(Kinds) /\ check("remote") \in Seq(Kinds) /\ check("tags") \in Seq(Kinds)
      BY <1>1 DEF Kinds
<1>3. Checks(paths) = check("local") \o check("remote") \o check("tags")
      BY DEF Checks
<1> HIDE DEF check
<1> QED
    BY <1>2, <1>3

\* Every state the program starts in has the types TypeOK states.
LEMMA InitTypeOK == Init => TypeOK
<1> SUFFICES ASSUME Init PROVE TypeOK
    OBVIOUS
<1>1. refs \in Refs
      BY DEF Init, Refs, Gone
<1>2. cache \in [Kinds -> Refs]
      BY <1>1 DEF Init, Refs, Gone
<1>3. shown \in [Kinds -> Refs]
      BY <1>1, OnlyKindType DEF Init
<1>4. /\ todo \in [Threads -> Seq(Kinds)] /\ new \in [Threads -> Seq(Refs)]
      /\ \A t \in Threads : new[t] = <<>>
      BY DEF Init
<1> QED
    BY <1>1, <1>2, <1>3, <1>4, RefAssumption DEF Init, TypeOK

\* The operations of git keep the types.
LEMMA GitTypeOK == TypeOK /\ Git => TypeOK'
<1> SUFFICES ASSUME TypeOK, Git PROVE TypeOK'
    OBVIOUS
<1> USE DEF TypeOK, repoVars, streamVars, monitorVars, checkVars, infoVars, Operate
<1>0. Local \subseteq Ref
      BY DEF Ref
<1>1. CASE Commit
  <2>1. refs' \in Refs
    <3>1. refs' = [refs EXCEPT ![head] = ops + 2] /\ ops + 2 \in Nat
          BY <1>1 DEF Commit
    <3> QED
        BY <1>0, <3>1, RefsType
  <2>2. PICK p \in Seen(head, FALSE) : changed' = changed \cup {"HEAD"} \cup p
        BY <1>1 DEF Commit
  <2>3. p \subseteq {"local", "remote", "tags"}
        BY <1>0, SeenType
  <2> QED
      BY <1>1, <2>1, <2>2, <2>3 DEF Commit
<1>2. CASE PackRefs
  <2>1. fired' \in BOOLEAN /\ armed' \in BOOLEAN
        BY <1>2 DEF PackRefs, Repack
  <2> QED
      BY <1>2, <2>1 DEF PackRefs
<1>3. CASE TouchIndex
      BY <1>3 DEF TouchIndex
<1>4. ASSUME NEW r \in Ref, Create(r) PROVE TypeOK'
  <2>1. refs' \in Refs
    <3>1. refs' = [refs EXCEPT ![r] = refs[head]] /\ refs[head] \in Nat
          BY <1>0, <1>4 DEF Create, Refs
    <3> QED
        BY <3>1, RefsType
  <2>2. PICK p \in Seen(r, TRUE) : changed' = changed \cup p
        BY <1>4 DEF Create
  <2>3. p \subseteq {"local", "remote", "tags"}
        BY SeenType
  <2> QED
      BY <1>4, <2>1, <2>2, <2>3 DEF Create
<1>5. ASSUME NEW r \in Ref, Fetch(r) PROVE TypeOK'
  <2>1. refs' \in Refs
    <3>1. refs' = [refs EXCEPT ![r] = ops + 2] /\ ops + 2 \in Nat
          BY <1>5 DEF Fetch
    <3> QED
        BY <3>1, RefsType
  <2>2. PICK p \in Seen(r, refs[r] = Gone) : changed' = changed \cup {"HEAD"} \cup p
        BY <1>5 DEF Fetch
  <2>3. p \subseteq {"local", "remote", "tags"}
        BY SeenType
  <2> QED
      BY <1>5, <2>1, <2>2, <2>3 DEF Fetch
<1>6. ASSUME NEW r \in Ref, Delete(r) PROVE TypeOK'
  <2>1. refs' \in Refs
    <3>1. refs' = [refs EXCEPT ![r] = Gone] /\ Gone \in Nat
          BY <1>6 DEF Delete, Gone
    <3> QED
        BY <3>1, RefsType
  <2>2. PICK p \in Seen(r, TRUE) : changed' = changed \cup p
        BY <1>6 DEF Delete
  <2>3. p \subseteq {"local", "remote", "tags"}
        BY SeenType
  <2>4. fired' \in BOOLEAN /\ armed' \in BOOLEAN
        BY <1>6 DEF Delete, Repack
  <2> QED
      BY <1>6, <2>1, <2>2, <2>3, <2>4 DEF Delete
<1>7. ASSUME NEW b \in Local, Checkout(b) PROVE TypeOK'
      BY <1>7 DEF Checkout
<1> QED
    BY <1>1, <1>2, <1>3, <1>4, <1>5, <1>6, <1>7 DEF Git

\* The watchers keep the types.
LEMMA WatchTypeOK == TypeOK /\ (DropEvents \/ Watch) => TypeOK'
<1> SUFFICES ASSUME TypeOK, DropEvents \/ Watch PROVE TypeOK'
    OBVIOUS
<1> USE DEF TypeOK, repoVars, streamVars, monitorVars, checkVars, infoVars
<1>1. CASE DropEvents
      BY <1>1 DEF DropEvents
<1>2. CASE ObserveEvents
      BY <1>2, ChecksType DEF ObserveEvents, MainFree, Threads
<1>3. CASE MonitorEvent
  <2>1. <<"local", "remote", "remote">> \in Seq(Kinds)
        BY DEF Kinds
  <2>2. /\ todo' = [todo EXCEPT !["monitor"] = <<"local", "remote", "remote">>]
        /\ "monitor" \in Threads /\ todo["monitor"] = <<>>
        BY <1>3 DEF MonitorEvent, Threads
  <2>3. todo' \in [Threads -> Seq(Kinds)]
        BY <2>1, <2>2
  <2>4. todo'["monitor"] # <<>> /\ \A t \in Threads : t # "monitor" => todo'[t] = todo[t]
        BY <2>1, <2>2
  <2>5. \A t \in Threads :
          new'[t] # <<>> => Len(new'[t]) = 1 /\ todo'[t] # <<>>
        BY <1>3, <2>4 DEF MonitorEvent
  <2> QED
      BY <1>3, <2>3, <2>5 DEF MonitorEvent
<1>4. ASSUME NEW t \in Threads, ReadRefs(t) PROVE TypeOK'
  <2>1. Head(todo[t]) \in Kinds
        BY <1>4 DEF ReadRefs
  <2>2. OnlyKind(Head(todo[t]), refs) \in Refs
        BY <2>1, OnlyKindType
  <2> QED
      BY <1>4, <2>2 DEF ReadRefs
<1>5. ASSUME NEW t \in Threads, CompareRefs(t) PROVE TypeOK'
  <2>1. todo[t] # <<>> /\ new[t][1] \in Refs
        BY <1>5 DEF CompareRefs
  <2>2. Head(todo[t]) \in Kinds /\ Tail(todo[t]) \in Seq(Kinds)
        BY <2>1
  <2>3. posted' \subseteq Kinds \cup {"head", "index"} /\ cache' \in [Kinds -> Refs]
        BY <1>5, <2>1, <2>2 DEF CompareRefs
  <2>4. /\ todo' = [todo EXCEPT ![t] = Tail(todo[t])] /\ new' = [new EXCEPT ![t] = <<>>]
        /\ armed' \in BOOLEAN /\ new' \in [Threads -> Seq(Refs)]
        BY <1>5 DEF CompareRefs
  <2>5. todo' \in [Threads -> Seq(Kinds)]
        BY <2>2, <2>4
  <2>6. \A u \in Threads :
          new'[u] # <<>> => Len(new'[u]) = 1 /\ todo'[u] # <<>>
    <3> SUFFICES ASSUME NEW u \in Threads, new'[u] # <<>>
                 PROVE  Len(new'[u]) = 1 /\ todo'[u] # <<>>
        OBVIOUS
    <3>1. u # t /\ new'[u] = new[u]
          BY <2>4
    <3>2. todo'[u] = todo[u]
          BY <2>4, <3>1
    <3> QED
        BY <3>1, <3>2
  <2> QED
      BY <1>5, <2>3, <2>4, <2>5, <2>6 DEF CompareRefs
<1> QED
    BY <1>1, <1>2, <1>3, <1>4, <1>5 DEF Watch

\* The Tasks on the main actor keep the types.
LEMMA RefreshTypeOK == TypeOK /\ Refresh => TypeOK'
<1> SUFFICES ASSUME TypeOK, Refresh PROVE TypeOK'
    OBVIOUS
<1> USE DEF TypeOK, repoVars, streamVars, monitorVars, checkVars, infoVars
<1>1. CASE RefreshHead
      BY <1>1 DEF RefreshHead, Refs, Ref
<1>2. ASSUME NEW k \in Kinds, RefreshList(k) PROVE TypeOK'
      BY <1>2, OnlyKindType DEF RefreshList
<1>3. CASE ReadStatus
      BY <1>3 DEF ReadStatus
<1>4. CASE AssignStatus
      BY <1>4 DEF AssignStatus
<1> QED
    BY <1>1, <1>2, <1>3, <1>4 DEF Refresh

\* Every step keeps the types.
LEMMA StepTypeOK == TypeOK /\ [Next]_vars => TypeOK'
<1> SUFFICES ASSUME TypeOK, [Next]_vars PROVE TypeOK'
    OBVIOUS
<1>1. CASE UNCHANGED vars
      BY <1>1 DEF TypeOK, vars, repoVars, streamVars, monitorVars, checkVars, infoVars
<1> QED
    BY <1>1, GitTypeOK, WatchTypeOK, RefreshTypeOK DEF Next

\* Every variable keeps to the values its counterpart in the source may hold.
THEOREM TypeCorrect == Spec => []TypeOK
  BY InitTypeOK, StepTypeOK, PTL DEF Spec

----------------------------------------------------------------------------
(* HEAD.                                                                   *)

\* Why HEAD is never left behind: until it is shown as it is, its path is in the window, or the
\* Task that reads it is on its way, or events were dropped.
HeadInv ==
    /\ TypeOK
    /\ \/ info = [branch |-> head, oid |-> refs[head]]
       \/ "HEAD" \in changed \/ "head" \in posted \/ lost

\* HeadInv is inductive.
LEMMA StepHeadInv == HeadInv /\ [Next]_vars => HeadInv'
<1> SUFFICES ASSUME HeadInv, [Next]_vars PROVE HeadInv'
    OBVIOUS
<1> USE DEF repoVars, streamVars, monitorVars, checkVars, infoVars
<1>0. TypeOK' /\ head \in Local /\ Local \subseteq Ref /\ refs \in [Ref -> Nat]
      BY StepTypeOK DEF HeadInv, TypeOK, Refs, Ref
<1>1. CASE UNCHANGED vars
      BY <1>0, <1>1 DEF HeadInv, vars
<1>2. CASE Commit \/ (\E b \in Local : Checkout(b)) \/ (\E r \in Ref : Fetch(r))
      BY <1>0, <1>2 DEF HeadInv, Commit, Checkout, Fetch
<1>3. ASSUME NEW r \in Ref, Create(r) PROVE HeadInv'
      BY <1>0, <1>3 DEF HeadInv, Create
<1>4. ASSUME NEW r \in Ref, Delete(r) PROVE HeadInv'
      BY <1>0, <1>4 DEF HeadInv, Delete
<1>5. CASE PackRefs \/ TouchIndex \/ DropEvents
      BY <1>0, <1>5 DEF HeadInv, PackRefs, TouchIndex, DropEvents
<1>6. CASE ObserveEvents
      BY <1>0, <1>6 DEF HeadInv, ObserveEvents
<1>7. ASSUME MonitorEvent \/ \E t \in Threads : ReadRefs(t) \/ CompareRefs(t) PROVE HeadInv'
      BY <1>0, <1>7 DEF HeadInv, MonitorEvent, ReadRefs, CompareRefs
<1>8. CASE RefreshHead
      BY <1>0, <1>8 DEF HeadInv, RefreshHead
<1>9. CASE (\E k \in Kinds : RefreshList(k)) \/ ReadStatus \/ AssignStatus
      BY <1>0, <1>9 DEF HeadInv, RefreshList, ReadStatus, AssignStatus, Kinds
<1> QED
    BY <1>1, <1>2, <1>3, <1>4, <1>5, <1>6, <1>7, <1>8, <1>9 DEF Next, Git, Watch, Refresh

\* Unless events are dropped, RepositoryInfo.head is the repository's HEAD whenever everything
\* has settled, whatever git does while it is read.
THEOREM HeadFollowed == Spec => []QuietMeansHead
<1>1. Init => HeadInv
      BY InitTypeOK, RefAssumption DEF HeadInv, Init, Ref
<1>2. HeadInv => QuietMeansHead
      BY DEF HeadInv, QuietMeansHead, Quiet
<1> QED
    BY <1>1, <1>2, StepHeadInv, PTL DEF Spec

----------------------------------------------------------------------------
(* The lists.                                                              *)

\* Ages: without deletions a ref only moves to commits newer than any before, and nothing a thread
\* has read or cached is newer than the ref.
AgeInv ==
    /\ TypeOK
    /\ refs[head] # Gone /\ \A r \in Ref : refs[r] <= ops + 1
    /\ ~deleted => \A r \in Ref :
         /\ \A k \in Kinds : cache[k][r] <= refs[r]
         /\ \A t \in Threads : new[t] # <<>> => new[t][1][r] <= refs[r]

\* Thread t has still to compare the list of kind k with r as it is now.
WillCompare(t, k, r) ==
    \E i \in 1..Len(todo[t]) :
        /\ todo[t][i] = k
        /\ i = 1 => new[t] = <<>> \/ new[t][1][r] = refs[r]

\* Why a list is not left behind: if it shows a ref as it was, a Task that reads it is on its way,
\* or the cache is behind too and either the path is in the window or a check is still to come
\* that finds the difference.
Pursued(k, r) ==
    \/ shown[k][r] = refs[r]
    \/ k \in posted
    \/ /\ cache[k][r] # refs[r]
       /\ k \in changed \/ \E t \in Threads : WillCompare(t, k, r)

ListInv ==
    /\ AgeInv
    /\ ~lost /\ ~deleted => \A k \in Kinds : \A r \in Followed \cap OfKind(k) : Pursued(k, r)

\* A path in the batch has its kind checked.
LEMMA ChecksFind ==
  ASSUME NEW paths, NEW k \in Kinds, k \in paths
  PROVE  \E i \in 1..Len(Checks(paths)) : Checks(paths)[i] = k
<1> DEFINE check(x) == IF x \in paths THEN <<x>> ELSE <<>>
           a == check("local")
           b == check("remote")
           c == check("tags")
<1>0. \A x \in Kinds : check(x) \in Seq(Kinds)
      OBVIOUS
<1>1. a \in Seq(Kinds) /\ b \in Seq(Kinds) /\ c \in Seq(Kinds)
      BY <1>0 DEF Kinds
<1>2. Checks(paths) = (a \o b) \o c
      BY DEF Checks
<1>3. a \o b \in Seq(Kinds) /\ Len(a \o b) = Len(a) + Len(b)
      BY <1>1
<1>4. Len((a \o b) \o c) = Len(a) + Len(b) + Len(c)
      BY <1>1, <1>3
<1>5. CASE k = "local"
  <2>1. Len(a) = 1 /\ a[1] = k
        BY <1>5
  <2>2. (a \o b)[1] = k
        BY <1>1, <2>1
  <2>3. ((a \o b) \o c)[1] = k
        BY <1>1, <1>3, <2>1, <2>2
  <2> QED
      BY <1>1, <1>2, <1>4, <2>1, <2>3
<1>6. CASE k = "remote"
  <2>1. Len(b) = 1 /\ b[1] = k
        BY <1>6
  <2>2. (a \o b)[Len(a) + 1] = k
        BY <1>1, <2>1
  <2>3. ((a \o b) \o c)[Len(a) + 1] = k
        BY <1>1, <1>3, <2>1, <2>2
  <2> QED
      BY <1>1, <1>2, <1>4, <2>1, <2>3
<1>7. CASE k = "tags"
  <2>1. Len(c) = 1 /\ c[1] = k
        BY <1>7
  <2>2. ((a \o b) \o c)[Len(a) + Len(b) + 1] = k
        BY <1>1, <1>3, <2>1
  <2> QED
      BY <1>1, <1>2, <1>4, <2>1, <2>2
<1> QED
    BY <1>5, <1>6, <1>7 DEF Kinds

\* AgeInv is inductive.
LEMMA StepAgeInv == AgeInv /\ [Next]_vars => AgeInv'
<1> SUFFICES ASSUME AgeInv, [Next]_vars PROVE AgeInv'
    OBVIOUS
<1> USE DEF repoVars, streamVars, monitorVars, checkVars, infoVars
<1>0. /\ TypeOK /\ TypeOK' /\ head \in Ref /\ refs \in [Ref -> Nat] /\ ops \in Nat
      /\ cache \in [Kinds -> [Ref -> Nat]] /\ new \in [Threads -> Seq([Ref -> Nat])]
      BY StepTypeOK DEF AgeInv, TypeOK, Refs, Ref
<1>1. CASE UNCHANGED vars
      BY <1>0, <1>1 DEF AgeInv, vars
<1>2. ASSUME refs' = refs, head' = head \/ refs[head'] # Gone, ops' \in {ops, ops + 1}, cache' = cache,
             new' = new, deleted' = deleted
      PROVE  AgeInv'
      BY <1>0, <1>2 DEF AgeInv
<1>3. ASSUME \A x \in Ref : refs[x] <= refs'[x] /\ refs'[x] <= ops' + 1,
             refs'[head'] # Gone, cache' = cache, new' = new, deleted' = deleted
      PROVE  AgeInv'
  <2>1. refs' \in [Ref -> Nat]
        BY <1>0 DEF TypeOK, Refs
  <2>2. ASSUME ~deleted', NEW x \in Ref, NEW k \in Kinds PROVE cache'[k][x] <= refs'[x]
    <3>1. cache[k][x] <= refs[x] /\ cache[k][x] \in Nat
          BY <1>0, <1>3, <2>2 DEF AgeInv
    <3> QED
        BY <1>0, <1>3, <2>1, <3>1
  <2>3. ASSUME ~deleted', NEW x \in Ref, NEW t \in Threads, new'[t] # <<>> PROVE new'[t][1][x] <= refs'[x]
    <3>1. new[t][1][x] <= refs[x] /\ new[t][1] \in [Ref -> Nat]
          BY <1>0, <1>3, <2>3 DEF AgeInv
    <3> QED
        BY <1>0, <1>3, <2>1, <3>1
  <2> QED
      BY <1>0, <1>3, <2>2, <2>3 DEF AgeInv
<1>4. CASE Commit
  <2>1. /\ refs' = [refs EXCEPT ![head] = ops + 2] /\ ops' = ops + 1 /\ head' = head
        /\ UNCHANGED <<cache, new, deleted>>
        BY <1>4 DEF Commit, Operate
  <2>2. \A x \in Ref : refs[x] <= refs'[x] /\ refs'[x] <= ops' + 1
        BY <1>0, <2>1 DEF AgeInv
  <2>3. refs'[head'] # Gone
        BY <1>0, <2>1 DEF Gone
  <2> QED
      BY <1>3, <2>1, <2>2, <2>3
<1>5. ASSUME NEW r \in Ref, Create(r) PROVE AgeInv'
  <2>1. /\ refs' = [refs EXCEPT ![r] = refs[head]] /\ refs[r] = Gone /\ ops' = ops + 1 /\ head' = head
        /\ UNCHANGED <<cache, new, deleted>>
        BY <1>5 DEF Create, Operate
  <2>2. \A x \in Ref : refs[x] <= refs'[x] /\ refs'[x] <= ops' + 1
        BY <1>0, <2>1 DEF AgeInv, Gone
  <2>3. refs'[head'] # Gone
        BY <1>0, <2>1 DEF AgeInv
  <2> QED
      BY <1>3, <2>1, <2>2, <2>3
<1>6. ASSUME NEW r \in Ref, Fetch(r) PROVE AgeInv'
  <2>1. /\ refs' = [refs EXCEPT ![r] = ops + 2] /\ ops' = ops + 1 /\ head' = head
        /\ UNCHANGED <<cache, new, deleted>>
        BY <1>6 DEF Fetch, Operate
  <2>2. \A x \in Ref : refs[x] <= refs'[x] /\ refs'[x] <= ops' + 1
        BY <1>0, <2>1 DEF AgeInv
  <2>3. refs'[head'] # Gone
        BY <1>0, <2>1 DEF AgeInv, Gone
  <2> QED
      BY <1>3, <2>1, <2>2, <2>3
<1>7. ASSUME NEW r \in Ref, Delete(r) PROVE AgeInv'
  <2>1. /\ r # head /\ refs' = [refs EXCEPT ![r] = Gone] /\ ops' = ops + 1 /\ head' = head /\ deleted'
        BY <1>7 DEF Delete, Operate
  <2>2. refs'[head'] # Gone /\ \A x \in Ref : refs'[x] <= ops' + 1
        BY <1>0, <2>1 DEF AgeInv, Gone
  <2> QED
      BY <1>0, <2>1, <2>2 DEF AgeInv
<1>8. ASSUME NEW b \in Local, Checkout(b) PROVE AgeInv'
      BY <1>2, <1>8 DEF Checkout, Operate
<1>9. CASE PackRefs \/ TouchIndex
      BY <1>2, <1>9 DEF PackRefs, TouchIndex, Operate
<1>10. CASE DropEvents \/ ObserveEvents \/ MonitorEvent
       BY <1>2, <1>10 DEF DropEvents, ObserveEvents, MonitorEvent
<1>11. ASSUME NEW t \in Threads, ReadRefs(t) PROVE AgeInv'
  <2> DEFINE n == OnlyKind(Head(todo[t]), refs)
  <2>1. new' = [new EXCEPT ![t] = <<n>>]
        BY <1>11 DEF ReadRefs
  <2>2. \A r \in Ref : n[r] <= refs[r]
        BY <1>0 DEF OnlyKind, Gone
  <2> HIDE DEF n
  <2>3. \A u \in Threads : new'[u] = IF u = t THEN <<n>> ELSE new[u]
        BY <1>0, <2>1
  <2>4. ~deleted => \A r \in Ref : \A u \in Threads : new'[u] # <<>> => new'[u][1][r] <= refs[r]
        BY <2>2, <2>3 DEF AgeInv
  <2> QED
      BY <1>0, <1>11, <2>4 DEF AgeInv, ReadRefs
<1>12. ASSUME NEW t \in Threads, CompareRefs(t) PROVE AgeInv'
  <2> DEFINE k == Head(todo[t])
  <2>1. /\ new[t] # <<>> /\ cache' = [cache EXCEPT ![k] = new[t][1]] /\ new' = [new EXCEPT ![t] = <<>>]
        /\ UNCHANGED <<refs, head, ops, deleted>>
        BY <1>12 DEF CompareRefs
  <2> HIDE DEF k
  <2>2. ~deleted => \A r \in Ref : \A u \in Threads : new'[u] # <<>> => new'[u][1][r] <= refs[r]
        BY <1>0, <2>1 DEF AgeInv
  <2>3. ~deleted => \A r \in Ref : \A j \in Kinds : cache'[j][r] <= refs[r]
        BY <1>0, <2>1 DEF AgeInv
  <2> QED
      BY <1>0, <2>1, <2>2, <2>3 DEF AgeInv
<1>13. CASE Refresh
       BY <1>2, <1>13 DEF Refresh, RefreshHead, RefreshList, ReadStatus, AssignStatus
<1> QED
    BY <1>1, <1>4, <1>5, <1>6, <1>7, <1>8, <1>9, <1>10, <1>11, <1>12, <1>13 DEF Next, Git, Watch

\* A followed ref is of kind local or tags, and a change to it is seen as such.
LEMMA FollowedSeen ==
  ASSUME NEW k \in Kinds, NEW r \in Followed \cap OfKind(k), NEW whole \in BOOLEAN
  PROVE  r \in Ref /\ \A p \in Seen(r, whole) : k \in p
  BY RefAssumption DEF Followed, Kinds, OfKind, Seen, Ref

\* A step that leaves the ref, its list, its cache and the checks alone, and hides neither a Task
\* nor a path of its kind, keeps it pursued.
LEMMA StillPursued ==
  ASSUME NEW k \in Kinds, NEW r \in Ref, Pursued(k, r),
         refs'[r] = refs[r], shown'[k] = shown[k], cache'[k] = cache[k], todo' = todo, new' = new,
         k \in posted => k \in posted', k \in changed => k \in changed'
  PROVE  Pursued(k, r)'
  BY DEF Pursued, WillCompare

\* A ref that moves where its kind is seen is pursued: the cache cannot be where it moves to.
LEMMA MovedPursued ==
  ASSUME AgeInv, ~deleted, NEW k \in Kinds, NEW r \in Ref, refs'[r] \in Nat, refs[r] < refs'[r],
         cache' = cache, k \in changed'
  PROVE  Pursued(k, r)'
<1>1. cache[k][r] \in Nat /\ refs[r] \in Nat /\ cache[k][r] <= refs[r]
      BY DEF AgeInv, TypeOK, Refs
<1>2. cache'[k][r] # refs'[r]
      BY <1>1
<1> QED
    BY <1>2 DEF Pursued

\* The operations of git keep every followed ref pursued.
LEMMA GitPursued ==
  ASSUME ListInv, Git, ~lost', ~deleted', NEW k \in Kinds, NEW r \in Followed \cap OfKind(k)
  PROVE  Pursued(k, r)'
<1> USE DEF repoVars, streamVars, monitorVars, checkVars, infoVars
<1>0. AgeInv /\ TypeOK /\ head \in Ref /\ refs \in [Ref -> Nat] /\ ops \in Nat /\ r \in Ref
      BY FollowedSeen DEF ListInv, AgeInv, TypeOK, Refs, Ref
<1>1. CASE Commit
  <2>1. PICK p \in Seen(head, FALSE) : changed' = changed \cup {"HEAD"} \cup p
        BY <1>1 DEF Commit
  <2>2. CASE r = head
    <3>1. k \in changed'
          BY <2>1, <2>2, FollowedSeen
    <3>2. refs'[r] \in Nat /\ refs[r] < refs'[r] /\ cache' = cache /\ ~deleted
          BY <1>0, <1>1, <2>2 DEF Commit, AgeInv
    <3> QED
        BY <1>0, <3>1, <3>2, MovedPursued
  <2>3. CASE r # head
    <3>1. Pursued(k, r) /\ refs'[r] = refs[r]
          BY <1>0, <1>1, <2>3 DEF Commit, ListInv
    <3> QED
        BY <1>0, <1>1, <2>1, <3>1, StillPursued DEF Commit
  <2> QED
      BY <2>2, <2>3
<1>2. ASSUME NEW x \in Ref, Create(x) PROVE Pursued(k, r)'
  <2>1. PICK p \in Seen(x, TRUE) : changed' = changed \cup p
        BY <1>2 DEF Create
  <2>2. CASE r = x
    <3>1. k \in changed'
          BY <2>1, <2>2, FollowedSeen
    <3>2. refs'[r] \in Nat /\ refs[r] < refs'[r] /\ cache' = cache /\ ~deleted
          BY <1>0, <1>2, <2>2 DEF Create, AgeInv, Gone
    <3> QED
        BY <1>0, <3>1, <3>2, MovedPursued
  <2>3. CASE r # x
    <3>1. Pursued(k, r) /\ refs'[r] = refs[r]
          BY <1>0, <1>2, <2>3 DEF Create, ListInv
    <3> QED
        BY <1>0, <1>2, <2>1, <3>1, StillPursued DEF Create
  <2> QED
      BY <2>2, <2>3
<1>3. ASSUME NEW x \in Ref, Fetch(x) PROVE Pursued(k, r)'
  <2>1. Pursued(k, r) /\ r # x
        BY <1>3, RefAssumption DEF Fetch, ListInv, Followed
  <2>2. refs'[r] = refs[r] /\ changed \subseteq changed'
        BY <1>0, <1>3, <2>1 DEF Fetch
  <2> QED
      BY <1>0, <1>3, <2>1, <2>2, StillPursued DEF Fetch
<1>4. ASSUME (\E x \in Ref : Delete(x)) PROVE Pursued(k, r)'
      BY <1>4 DEF Delete
<1>5. CASE PackRefs \/ TouchIndex \/ \E b \in Local : Checkout(b)
  <2>1. Pursued(k, r) /\ changed \subseteq changed' /\ UNCHANGED <<refs, shown, cache, todo, new, posted>>
        BY <1>5 DEF ListInv, PackRefs, TouchIndex, Checkout
  <2> QED
      BY <1>0, <2>1, StillPursued
<1> QED
    BY <1>1, <1>2, <1>3, <1>4, <1>5 DEF Git

\* The watchers keep every followed ref pursued.
LEMMA WatchPursued ==
  ASSUME ListInv, DropEvents \/ Watch, ~lost', ~deleted', NEW k \in Kinds, NEW r \in Followed \cap OfKind(k)
  PROVE  Pursued(k, r)'
<1> USE DEF repoVars, streamVars, monitorVars, checkVars, infoVars
<1>0. /\ TypeOK /\ r \in Ref /\ refs \in [Ref -> Nat] /\ todo \in [Threads -> Seq(Kinds)]
      /\ new \in [Threads -> Seq(Refs)] /\ cache \in [Kinds -> Refs]
      BY FollowedSeen DEF ListInv, AgeInv, TypeOK, Refs
<1>1. CASE DropEvents
      BY <1>1 DEF DropEvents
<1>2. CASE ObserveEvents
  <2>1. /\ Pursued(k, r) /\ posted \subseteq posted' /\ todo["main"] = <<>> /\ new["main"] = <<>>
        /\ todo' = [todo EXCEPT !["main"] = Checks(changed)]
        /\ UNCHANGED <<refs, shown, cache, new>>
        BY <1>0, <1>2 DEF ObserveEvents, ListInv, MainFree, TypeOK, Threads
  <2>2. CASE k \in changed
    <3>1. todo'["main"] = Checks(changed) /\ new'["main"] = <<>>
          BY <1>0, <2>1 DEF Threads
    <3>2. WillCompare("main", k, r)'
          BY <2>2, <3>1, ChecksFind DEF WillCompare
    <3> QED
        BY <2>1, <3>2 DEF Pursued, Threads
  <2>3. CASE k \notin changed
    <3>1. ASSUME NEW t \in Threads, WillCompare(t, k, r) PROVE WillCompare(t, k, r)'
      <4>1. t # "main"
            BY <2>1, <3>1 DEF WillCompare
      <4>2. todo'[t] = todo[t]
            BY <1>0, <2>1, <4>1
      <4> QED
          BY <2>1, <3>1, <4>2 DEF WillCompare
    <3> QED
        BY <2>1, <2>3, <3>1 DEF Pursued
  <2> QED
      BY <2>2, <2>3
<1>3. CASE MonitorEvent
  <2>1. /\ Pursued(k, r) /\ todo["monitor"] = <<>>
        /\ todo' = [todo EXCEPT !["monitor"] = <<"local", "remote", "remote">>]
        /\ UNCHANGED <<refs, shown, cache, new, posted, changed>>
        BY <1>3 DEF MonitorEvent, ListInv
  <2>2. ASSUME NEW t \in Threads, WillCompare(t, k, r) PROVE WillCompare(t, k, r)'
    <3>1. t # "monitor"
          BY <2>1, <2>2 DEF WillCompare
    <3>2. todo'[t] = todo[t]
          BY <1>0, <2>1, <3>1
    <3> QED
        BY <2>1, <2>2, <3>2 DEF WillCompare
  <2> QED
      BY <2>1, <2>2 DEF Pursued
<1>4. ASSUME NEW t \in Threads, ReadRefs(t) PROVE Pursued(k, r)'
  <2> DEFINE n == OnlyKind(Head(todo[t]), refs)
  <2>1. /\ Pursued(k, r) /\ todo[t] # <<>> /\ new[t] = <<>> /\ new' = [new EXCEPT ![t] = <<n>>]
        /\ UNCHANGED <<refs, shown, cache, todo, posted, changed>>
        BY <1>4 DEF ReadRefs, ListInv
  <2>2. ASSUME NEW u \in Threads, WillCompare(u, k, r) PROVE WillCompare(u, k, r)'
    <3>1. CASE u = t
      <4>1. PICK i \in 1..Len(todo[t]) : todo[t][i] = k
            BY <2>2, <3>1 DEF WillCompare
      <4>2. i = 1 => n[r] = refs[r]
            BY <1>0, <2>1, <4>1 DEF OnlyKind
      <4> HIDE DEF n
      <4>3. i = 1 => new'[t][1][r] = refs'[r]
            BY <1>0, <2>1, <4>2
      <4> QED
          BY <2>1, <3>1, <4>1, <4>3 DEF WillCompare
    <3>2. CASE u # t
      <4>1. new'[u] = new[u]
            BY <1>0, <2>1, <3>2
      <4> QED
          BY <2>1, <2>2, <4>1 DEF WillCompare
    <3> QED
        BY <3>1, <3>2
  <2> QED
      BY <2>1, <2>2 DEF Pursued
<1>5. ASSUME NEW t \in Threads, CompareRefs(t) PROVE Pursued(k, r)'
  <2> DEFINE j == Head(todo[t])
  <2>1. /\ Pursued(k, r) /\ new[t] # <<>> /\ todo[t] # <<>>
        /\ posted' = (IF new[t][1] # cache[j] THEN posted \cup {j} ELSE posted)
        /\ cache' = [cache EXCEPT ![j] = new[t][1]]
        /\ new' = [new EXCEPT ![t] = <<>>] /\ todo' = [todo EXCEPT ![t] = Tail(todo[t])]
        /\ UNCHANGED <<refs, shown, changed>>
        BY <1>0, <1>5 DEF CompareRefs, ListInv, TypeOK
  <2>2. j = todo[t][1] /\ j \in Kinds /\ todo[t] \in Seq(Kinds)
        BY <1>0, <2>1
  <2> HIDE DEF j
  <2>3. CASE j = k /\ new[t][1] # cache[k]
        BY <2>1, <2>3 DEF Pursued
  <2>4. CASE ~(j = k /\ new[t][1] # cache[k])
    <3>1. cache'[k] = cache[k] /\ posted \subseteq posted'
          BY <1>0, <2>1, <2>2, <2>4
    <3>2. ASSUME NEW u \in Threads, WillCompare(u, k, r), cache[k][r] # refs[r] PROVE WillCompare(u, k, r)'
      <4>1. CASE u = t
        <5>1. PICK i \in 1..Len(todo[t]) : todo[t][i] = k /\ (i = 1 => new[t] = <<>> \/ new[t][1][r] = refs[r])
              BY <3>2, <4>1 DEF WillCompare
        <5>2. i # 1
              BY <2>1, <2>2, <2>4, <3>2, <5>1
        <5>3. todo'[t] = Tail(todo[t]) /\ new'[t] = <<>>
              BY <1>0, <2>1
        <5>4. i - 1 \in 1..Len(Tail(todo[t])) /\ Tail(todo[t])[i - 1] = k
              BY <2>1, <2>2, <5>1, <5>2
        <5> QED
            BY <4>1, <5>3, <5>4 DEF WillCompare
      <4>2. CASE u # t
        <5>1. todo'[u] = todo[u] /\ new'[u] = new[u]
              BY <1>0, <2>1, <4>2
        <5> QED
            BY <2>1, <3>2, <5>1 DEF WillCompare
      <4> QED
          BY <4>1, <4>2
    <3> QED
        BY <2>1, <3>1, <3>2 DEF Pursued
  <2> QED
      BY <2>3, <2>4
<1> QED
    BY <1>1, <1>2, <1>3, <1>4, <1>5 DEF Watch

\* The Tasks on the main actor keep every followed ref pursued.
LEMMA RefreshPursued ==
  ASSUME ListInv, Refresh, ~lost', ~deleted', NEW k \in Kinds, NEW r \in Followed \cap OfKind(k)
  PROVE  Pursued(k, r)'
<1> USE DEF repoVars, streamVars, monitorVars, checkVars, infoVars
<1>0. r \in Ref /\ shown \in [Kinds -> Refs] /\ refs \in [Ref -> Nat]
      BY FollowedSeen DEF ListInv, AgeInv, TypeOK, Refs
<1>1. CASE RefreshHead \/ ReadStatus \/ AssignStatus
  <2>1. Pursued(k, r) /\ (k \in posted => k \in posted') /\ UNCHANGED <<refs, shown, cache, todo, new, changed>>
        BY <1>1 DEF ListInv, RefreshHead, ReadStatus, AssignStatus, Kinds
  <2> QED
      BY <1>0, <2>1, StillPursued
<1>2. ASSUME NEW j \in Kinds, RefreshList(j) PROVE Pursued(k, r)'
  <2>1. /\ Pursued(k, r) /\ posted' = posted \ {j} /\ shown' = [shown EXCEPT ![j] = OnlyKind(j, refs)]
        /\ UNCHANGED <<refs, cache, todo, new, changed>>
        BY <1>2 DEF RefreshList, ListInv
  <2>2. CASE j = k
    <3>1. shown'[k][r] = refs'[r]
          BY <1>0, <2>1, <2>2 DEF OnlyKind
    <3> QED
        BY <3>1 DEF Pursued
  <2>3. CASE j # k
    <3>1. shown'[k] = shown[k] /\ (k \in posted => k \in posted')
          BY <1>0, <2>1, <2>3
    <3> QED
        BY <1>0, <2>1, <3>1, StillPursued
  <2> QED
      BY <2>2, <2>3
<1> QED
    BY <1>1, <1>2 DEF Refresh

\* ListInv is inductive.
LEMMA StepListInv == ListInv /\ [Next]_vars => ListInv'
<1> SUFFICES ASSUME ListInv, [Next]_vars PROVE ListInv'
    OBVIOUS
<1>1. CASE UNCHANGED vars
  <2> USE DEF vars, repoVars, streamVars, monitorVars, checkVars, infoVars
  <2>1. AgeInv'
        BY <1>1, StepAgeInv DEF ListInv
  <2> QED
      BY <1>1, <2>1 DEF ListInv, Pursued, WillCompare
<1>2. CASE Next
  <2>1. AgeInv'
        BY <1>2, StepAgeInv DEF ListInv
  <2>2. ASSUME ~lost', ~deleted', NEW k \in Kinds, NEW r \in Followed \cap OfKind(k) PROVE Pursued(k, r)'
        BY <1>2, <2>2, GitPursued, WatchPursued, RefreshPursued DEF Next
  <2> QED
      BY <2>1, <2>2 DEF ListInv
<1> QED
    BY <1>1, <1>2

\* Unless events are dropped or a ref is deleted, the lists of local branches and of tags show
\* every ref GitWatcher follows as it is whenever everything has settled: for any number of refs
\* and operations, though the caches are shared by two threads that read, compare and write them
\* with nothing to keep them apart.
THEOREM ListsFollow == Spec => []QuietMeansListed
<1>1. Init => ListInv
  <2> SUFFICES ASSUME Init PROVE ListInv
      OBVIOUS
  <2>1. TypeOK
        BY InitTypeOK
  <2>2. AgeInv
    <3>1. refs[head] # Gone /\ \A r \in Ref : refs[r] <= ops + 1
      <4>1. head \in Ref /\ head \in Existing
            BY RefAssumption DEF Init, Ref
      <4> QED
          BY <4>1 DEF Init, Gone
    <3>2. \A r \in Ref : \A k \in Kinds : cache[k][r] <= refs[r]
          BY DEF Init, Gone
    <3>3. \A t \in Threads : new[t] = <<>>
          BY DEF Init
    <3> QED
        BY <2>1, <3>1, <3>2, <3>3 DEF AgeInv
  <2>3. ASSUME NEW k \in Kinds, NEW r \in Followed \cap OfKind(k) PROVE Pursued(k, r)
    <3>1. r \in Ref
          BY FollowedSeen
    <3>2. shown[k][r] = refs[r]
          BY <3>1 DEF Init, OnlyKind
    <3> QED
        BY <3>2 DEF Pursued
  <2> QED
      BY <2>2, <2>3 DEF ListInv
<1>2. ListInv => QuietMeansListed
  <2> SUFFICES ASSUME ListInv, Quiet, ~lost, ~deleted, NEW r \in Followed PROVE Listed(r)
      BY DEF QuietMeansListed
  <2>1. KindOf(r) \in Kinds /\ r \in OfKind(KindOf(r))
        BY DEF KindOf, Followed, Kinds, OfKind
  <2>2. Pursued(KindOf(r), r)
        BY <2>1 DEF ListInv
  <2>3. \A t \in Threads : ~WillCompare(t, KindOf(r), r)
        BY DEF Quiet, WillCompare
  <2> QED
      BY <2>2, <2>3 DEF Pursued, Quiet, Listed
<1> QED
    BY <1>1, <1>2, StepListInv, PTL DEF Spec

----------------------------------------------------------------------------
(* The lists when refs are deleted too.                                    *)

\* What is left of Pursued with deletions: a ref the list shows as it was may be cached as it is.
Caught(k, r) ==
    \/ shown[k][r] = refs[r]
    \/ cache[k][r] = refs[r]
    \/ k \in posted \/ k \in changed
    \/ WillCompare("main", k, r)

CacheInv ==
    /\ TypeOK
    /\ ~lost => \A k \in Kinds : \A r \in Followed \cap OfKind(k) : Caught(k, r)

\* A step that leaves the ref, its list, its cache and the checks alone, and hides neither a Task
\* nor a path of its kind, keeps it caught.
LEMMA StillCaught ==
  ASSUME NEW k \in Kinds, NEW r \in Ref, Caught(k, r),
         refs'[r] = refs[r], shown'[k] = shown[k], cache'[k] = cache[k], todo' = todo, new' = new,
         k \in posted => k \in posted', k \in changed => k \in changed'
  PROVE  Caught(k, r)'
  BY DEF Caught, WillCompare

\* The operations of git: they see that the path of a followed ref they move is in the window.
LEMMA GitCaught ==
  ASSUME CacheInv, Git, ~lost', NEW k \in Kinds, NEW r \in Followed \cap OfKind(k)
  PROVE  Caught(k, r)'
<1> USE DEF repoVars, streamVars, monitorVars, checkVars, infoVars
<1>0. TypeOK /\ head \in Ref /\ refs \in [Ref -> Nat] /\ r \in Ref
      BY FollowedSeen DEF CacheInv, TypeOK, Refs, Ref
<1>1. ~lost /\ UNCHANGED <<shown, cache, todo, new, posted>> /\ changed \subseteq changed'
  <2>1. CASE Commit
        BY <2>1 DEF Commit
  <2>2. ASSUME NEW x \in Ref, Create(x) \/ Fetch(x) \/ Delete(x)
        PROVE  ~lost /\ UNCHANGED <<shown, cache, todo, new, posted>> /\ changed \subseteq changed'
    <3>1. CASE Create(x)
          BY <3>1 DEF Create
    <3>2. CASE Fetch(x)
          BY <3>2 DEF Fetch
    <3>3. CASE Delete(x)
          BY <3>3 DEF Delete
    <3> QED
        BY <2>2, <3>1, <3>2, <3>3
  <2>3. CASE PackRefs \/ TouchIndex \/ \E b \in Local : Checkout(b)
        BY <2>3 DEF PackRefs, TouchIndex, Checkout
  <2> QED
      BY <2>1, <2>2, <2>3 DEF Git
<1>2. Caught(k, r)
      BY <1>1 DEF CacheInv
<1>3. refs'[r] = refs[r] \/ k \in changed'
  <2>1. CASE Commit
    <3>1. PICK p \in Seen(head, FALSE) : changed' = changed \cup {"HEAD"} \cup p
          BY <2>1 DEF Commit
    <3> QED
        BY <1>0, <2>1, <3>1, FollowedSeen DEF Commit
  <2>2. ASSUME NEW x \in Ref, Create(x) PROVE refs'[r] = refs[r] \/ k \in changed'
    <3>1. PICK p \in Seen(x, TRUE) : changed' = changed \cup p
          BY <2>2 DEF Create
    <3> QED
        BY <1>0, <2>2, <3>1, FollowedSeen DEF Create
  <2>3. ASSUME NEW x \in Ref, Fetch(x) PROVE refs'[r] = refs[r]
        BY <1>0, <2>3, RefAssumption DEF Fetch, Followed
  <2>4. ASSUME NEW x \in Ref, Delete(x) PROVE refs'[r] = refs[r] \/ k \in changed'
    <3>1. PICK p \in Seen(x, TRUE) : changed' = changed \cup p
          BY <2>4 DEF Delete
    <3> QED
        BY <1>0, <2>4, <3>1, FollowedSeen DEF Delete
  <2>5. CASE PackRefs \/ TouchIndex \/ \E b \in Local : Checkout(b)
        BY <2>5 DEF PackRefs, TouchIndex, Checkout
  <2> QED
      BY <2>1, <2>2, <2>3, <2>4, <2>5 DEF Git
<1> QED
    BY <1>0, <1>1, <1>2, <1>3, StillCaught DEF Caught

\* The watchers: whichever thread overwrites a cache that was right with older refs publishes
\* the change, since they differ from it.
LEMMA WatchCaught ==
  ASSUME CacheInv, DropEvents \/ Watch, ~lost', NEW k \in Kinds, NEW r \in Followed \cap OfKind(k)
  PROVE  Caught(k, r)'
<1> USE DEF repoVars, streamVars, monitorVars, checkVars, infoVars
<1>0. /\ TypeOK /\ r \in Ref /\ refs \in [Ref -> Nat] /\ todo \in [Threads -> Seq(Kinds)]
      /\ new \in [Threads -> Seq(Refs)] /\ cache \in [Kinds -> Refs] /\ "main" \in Threads
      BY FollowedSeen DEF CacheInv, TypeOK, Refs, Threads
<1>1. CASE DropEvents
      BY <1>1 DEF DropEvents
<1>2. CASE ObserveEvents
  <2>1. /\ Caught(k, r) /\ posted \subseteq posted' /\ todo["main"] = <<>> /\ new["main"] = <<>>
        /\ todo' = [todo EXCEPT !["main"] = Checks(changed)]
        /\ UNCHANGED <<refs, shown, cache, new>>
        BY <1>0, <1>2 DEF ObserveEvents, CacheInv, MainFree, TypeOK
  <2>2. CASE k \in changed
    <3>1. todo'["main"] = Checks(changed) /\ new'["main"] = <<>>
          BY <1>0, <2>1
    <3>2. WillCompare("main", k, r)'
          BY <2>2, <3>1, ChecksFind DEF WillCompare
    <3> QED
        BY <3>2 DEF Caught
  <2>3. CASE k \notin changed
    <3>1. ~WillCompare("main", k, r)
          BY <2>1 DEF WillCompare
    <3> QED
        BY <2>1, <2>3, <3>1 DEF Caught
  <2> QED
      BY <2>2, <2>3
<1>3. CASE MonitorEvent
  <2>1. /\ Caught(k, r) /\ todo' = [todo EXCEPT !["monitor"] = <<"local", "remote", "remote">>]
        /\ UNCHANGED <<refs, shown, cache, new, posted, changed>>
        BY <1>3 DEF MonitorEvent, CacheInv
  <2>2. todo'["main"] = todo["main"]
        BY <1>0, <2>1
  <2> QED
      BY <2>1, <2>2 DEF Caught, WillCompare
<1>4. ASSUME NEW t \in Threads, ReadRefs(t) PROVE Caught(k, r)'
  <2> DEFINE n == OnlyKind(Head(todo[t]), refs)
  <2>1. /\ Caught(k, r) /\ todo[t] # <<>> /\ new' = [new EXCEPT ![t] = <<n>>]
        /\ UNCHANGED <<refs, shown, cache, todo, posted, changed>>
        BY <1>4 DEF ReadRefs, CacheInv
  <2>2. ASSUME WillCompare("main", k, r) PROVE WillCompare("main", k, r)'
    <3>1. CASE t = "main"
      <4>1. PICK i \in 1..Len(todo[t]) : todo[t][i] = k
            BY <2>2, <3>1 DEF WillCompare
      <4>2. i = 1 => n[r] = refs[r]
            BY <1>0, <2>1, <4>1 DEF OnlyKind
      <4> HIDE DEF n
      <4>3. i = 1 => new'[t][1][r] = refs'[r]
            BY <1>0, <2>1, <4>2
      <4> QED
          BY <2>1, <3>1, <4>1, <4>3 DEF WillCompare
    <3>2. CASE t # "main"
      <4>1. new'["main"] = new["main"]
            BY <1>0, <2>1, <3>2
      <4> QED
          BY <2>1, <2>2, <4>1 DEF WillCompare
    <3> QED
        BY <3>1, <3>2
  <2> QED
      BY <2>1, <2>2 DEF Caught
<1>5. ASSUME NEW t \in Threads, CompareRefs(t) PROVE Caught(k, r)'
  <2> DEFINE j == Head(todo[t])
  <2>1. /\ Caught(k, r) /\ new[t] # <<>> /\ todo[t] # <<>>
        /\ posted' = (IF new[t][1] # cache[j] THEN posted \cup {j} ELSE posted)
        /\ cache' = [cache EXCEPT ![j] = new[t][1]]
        /\ new' = [new EXCEPT ![t] = <<>>] /\ todo' = [todo EXCEPT ![t] = Tail(todo[t])]
        /\ UNCHANGED <<refs, shown, changed>>
        BY <1>0, <1>5 DEF CompareRefs, CacheInv, TypeOK
  <2>2. j = todo[t][1] /\ j \in Kinds /\ todo[t] \in Seq(Kinds)
        BY <1>0, <2>1
  <2> HIDE DEF j
  <2>3. CASE j = k /\ new[t][1] # cache[k]
        BY <2>1, <2>3 DEF Caught
  <2>4. CASE ~(j = k /\ new[t][1] # cache[k])
    <3>1. cache'[k] = cache[k] /\ posted \subseteq posted'
          BY <1>0, <2>1, <2>2, <2>4
    <3>2. ASSUME WillCompare("main", k, r), cache[k][r] # refs[r] PROVE WillCompare("main", k, r)'
      <4>1. CASE t = "main"
        <5>1. PICK i \in 1..Len(todo[t]) : todo[t][i] = k /\ (i = 1 => new[t] = <<>> \/ new[t][1][r] = refs[r])
              BY <3>2, <4>1 DEF WillCompare
        <5>2. i # 1
              BY <2>1, <2>2, <2>4, <3>2, <5>1
        <5>3. todo'[t] = Tail(todo[t]) /\ new'[t] = <<>>
              BY <1>0, <2>1
        <5>4. i - 1 \in 1..Len(Tail(todo[t])) /\ Tail(todo[t])[i - 1] = k
              BY <2>1, <2>2, <5>1, <5>2
        <5> QED
            BY <4>1, <5>3, <5>4 DEF WillCompare
      <4>2. CASE t # "main"
        <5>1. todo'["main"] = todo["main"] /\ new'["main"] = new["main"]
              BY <1>0, <2>1, <4>2
        <5> QED
            BY <2>1, <3>2, <5>1 DEF WillCompare
      <4> QED
          BY <4>1, <4>2
    <3> QED
        BY <2>1, <3>1, <3>2 DEF Caught
  <2> QED
      BY <2>3, <2>4
<1> QED
    BY <1>1, <1>2, <1>3, <1>4, <1>5 DEF Watch

\* The Tasks on the main actor: the one that takes a kind reads its refs as they are.
LEMMA RefreshCaught ==
  ASSUME CacheInv, Refresh, ~lost', NEW k \in Kinds, NEW r \in Followed \cap OfKind(k)
  PROVE  Caught(k, r)'
<1> USE DEF repoVars, streamVars, monitorVars, checkVars, infoVars
<1>0. r \in Ref /\ shown \in [Kinds -> Refs] /\ refs \in [Ref -> Nat]
      BY FollowedSeen DEF CacheInv, TypeOK, Refs
<1>1. CASE RefreshHead \/ ReadStatus \/ AssignStatus
  <2>1. Caught(k, r) /\ (k \in posted => k \in posted') /\ UNCHANGED <<refs, shown, cache, todo, new, changed>>
        BY <1>1 DEF CacheInv, RefreshHead, ReadStatus, AssignStatus, Kinds
  <2> QED
      BY <1>0, <2>1, StillCaught
<1>2. ASSUME NEW j \in Kinds, RefreshList(j) PROVE Caught(k, r)'
  <2>1. /\ Caught(k, r) /\ posted' = posted \ {j} /\ shown' = [shown EXCEPT ![j] = OnlyKind(j, refs)]
        /\ UNCHANGED <<refs, cache, todo, new, changed>>
        BY <1>2 DEF RefreshList, CacheInv
  <2>2. CASE j = k
    <3>1. shown'[k][r] = refs'[r]
          BY <1>0, <2>1, <2>2 DEF OnlyKind
    <3> QED
        BY <3>1 DEF Caught
  <2>3. CASE j # k
    <3>1. shown'[k] = shown[k] /\ (k \in posted => k \in posted')
          BY <1>0, <2>1, <2>3
    <3> QED
        BY <1>0, <2>1, <3>1, StillCaught
  <2> QED
      BY <2>2, <2>3
<1> QED
    BY <1>1, <1>2 DEF Refresh

\* CacheInv is inductive.
LEMMA StepCacheInv == CacheInv /\ [Next]_vars => CacheInv'
<1> SUFFICES ASSUME CacheInv, [Next]_vars PROVE CacheInv'
    OBVIOUS
<1>1. TypeOK'
      BY StepTypeOK DEF CacheInv
<1>2. CASE UNCHANGED vars
  <2> USE DEF vars, repoVars, streamVars, monitorVars, checkVars, infoVars
  <2> QED
      BY <1>1, <1>2 DEF CacheInv, Caught, WillCompare
<1>3. CASE Next
  <2>1. ASSUME ~lost', NEW k \in Kinds, NEW r \in Followed \cap OfKind(k) PROVE Caught(k, r)'
        BY <1>3, <2>1, GitCaught, WatchCaught, RefreshCaught DEF Next
  <2> QED
      BY <1>1, <2>1 DEF CacheInv
<1> QED
    BY <1>2, <1>3

\* Unless events are dropped, no followed ref is ever missed by its list and by the cache that a
\* later check compares with, deleted or not: the next change of its kind brings the list right.
THEOREM ListOrCacheRight == Spec => []ListOrCache
<1>1. Init => CacheInv
  <2> SUFFICES ASSUME Init, NEW k \in Kinds, NEW r \in Followed \cap OfKind(k) PROVE shown[k][r] = refs[r]
      BY InitTypeOK DEF CacheInv, Caught
  <2>1. r \in Ref
        BY FollowedSeen
  <2> QED
      BY <2>1 DEF Init, OnlyKind
<1>2. CacheInv => ListOrCache
  <2> SUFFICES ASSUME CacheInv, Quiet, ~lost, NEW r \in Followed
               PROVE  Listed(r) \/ cache[KindOf(r)][r] = refs[r]
      BY DEF ListOrCache
  <2>1. KindOf(r) \in Kinds /\ r \in OfKind(KindOf(r))
        BY DEF KindOf, Followed, Kinds, OfKind
  <2>2. Caught(KindOf(r), r)
        BY <2>1 DEF CacheInv
  <2>3. ~WillCompare("main", KindOf(r), r)
        BY DEF Quiet, WillCompare, Threads
  <2> QED
      BY <2>2, <2>3 DEF Caught, Quiet, Listed
<1> QED
    BY <1>1, <1>2, StepCacheInv, PTL DEF Spec

=============================================================================
