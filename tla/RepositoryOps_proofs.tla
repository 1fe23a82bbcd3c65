------------------------- MODULE RepositoryOps_proofs -------------------------
(***************************************************************************)
(* What RepositoryOps guarantees for any repository, any set of requests,  *)
(* any number of operations and any interleaving of them with the user's   *)
(* own work.                                                               *)
(***************************************************************************)
EXTENDS RepositoryOps, SequenceTheorems, TLAPS

-----------------------------------------------------------------------------
(* Sequences.                                                              *)

\* Without element k the ones behind it move down by one.
LEMMA RemoveAtIs ==
    ASSUME NEW S, NEW s \in Seq(S), NEW k \in 1..Len(s)
    PROVE  /\ RemoveAt(s, k) \in Seq(S)
           /\ Len(RemoveAt(s, k)) = Len(s) - 1
           /\ \A i \in 1..(k - 1) : RemoveAt(s, k)[i] = s[i]
           /\ \A i \in k..(Len(s) - 1) : RemoveAt(s, k)[i] = s[i + 1]
<1>1. PICK f, g : f = SubSeq(s, 1, k - 1) /\ g = SubSeq(s, k + 1, Len(s))
      OBVIOUS
<1>2. /\ k \in Nat /\ Len(s) \in Nat
      /\ f \in Seq(S) /\ Len(f) = k - 1 /\ \A i \in 1..(k - 1) : f[i] = s[i]
      /\ g \in Seq(S) /\ Len(g) = Len(s) - k /\ \A i \in 1..(Len(s) - k) : g[i] = s[k + i]
      BY <1>1
<1>3. PICK r : r = f \o g
      OBVIOUS
<1>4. /\ r \in Seq(S) /\ Len(r) = Len(s) - 1
      /\ \A i \in 1..(Len(s) - 1) : r[i] = IF i <= k - 1 THEN f[i] ELSE g[i - (k - 1)]
  <2>1. /\ r \in Seq(S) /\ Len(r) = Len(f) + Len(g)
        /\ \A i \in 1..(Len(f) + Len(g)) : r[i] = IF i <= Len(f) THEN f[i] ELSE g[i - Len(f)]
        BY <1>2, <1>3, ConcatProperties
  <2> QED
      BY <1>2, <2>1
<1>5. \A i \in k..(Len(s) - 1) : i - (k - 1) \in 1..(Len(s) - k) /\ k + (i - (k - 1)) = i + 1
      BY <1>2
<1>6. /\ \A i \in 1..(k - 1) : r[i] = s[i]
      /\ \A i \in k..(Len(s) - 1) : r[i] = s[i + 1]
      BY <1>2, <1>4, <1>5
<1> QED
    BY <1>1, <1>3, <1>4, <1>6 DEF RemoveAt

\* An element at the end leaves the others where they are.
LEMMA AppendIs ==
    ASSUME NEW S, NEW s \in Seq(S), NEW a \in S
    PROVE  /\ Append(s, a) \in Seq(S)
           /\ Len(Append(s, a)) = Len(s) + 1
           /\ Append(s, a)[Len(s) + 1] = a
           /\ \A i \in 1..Len(s) : Append(s, a)[i] = s[i]
  OBVIOUS

\* Of Tasks s, j answers, which makes those before it late: m.  If j was the last, only late ones
\* are left, or else the last as it was.
LEMMA AnsweredIs ==
    ASSUME NEW S, NEW s \in Seq(S), NEW m \in Seq(S), NEW j \in 1..Len(s), Len(m) = Len(s),
           \A k \in 1..Len(s) : (k < j \/ s[k].late => m[k].late) /\ (~(k < j) => m[k] = s[k])
    PROVE  /\ RemoveAt(m, j) \in Seq(S) /\ Len(RemoveAt(m, j)) = Len(s) - 1
           /\ (\A k \in 1..Len(s) : s[k].late) =>
                \A i \in 1..(Len(s) - 1) : RemoveAt(m, j)[i].late
           /\ j = Len(s) => \A i \in 1..(Len(s) - 1) : RemoveAt(m, j)[i].late
           /\ j # Len(s) => RemoveAt(m, j) # <<>> /\ RemoveAt(m, j)[Len(s) - 1] = s[Len(s)]
<1>1. PICK n \in Nat : n = Len(s)
      OBVIOUS
<1>2. PICK r : r = RemoveAt(m, j)
      OBVIOUS
<1>3. /\ r \in Seq(S) /\ Len(r) = n - 1 /\ j \in 1..n
      /\ \A i \in 1..(j - 1) : r[i] = m[i]
      /\ \A i \in j..(n - 1) : r[i] = m[i + 1]
  <2>1. j \in 1..Len(m) /\ Len(m) = n
        BY <1>1
  <2> QED
      BY <1>1, <1>2, <2>1, RemoveAtIs
<1>4. \A i \in 1..(n - 1) : \E k \in 1..n : r[i] = m[k] /\ (k < j \/ k = i + 1)
  <2> SUFFICES ASSUME NEW i \in 1..(n - 1)
               PROVE  \E k \in 1..n : r[i] = m[k] /\ (k < j \/ k = i + 1)
      OBVIOUS
  <2>1. CASE i < j
        BY <1>3, <2>1
  <2>2. CASE ~(i < j)
        BY <1>3, <2>2
  <2> QED
      BY <2>1, <2>2
<1>5. (\A k \in 1..n : s[k].late) => \A i \in 1..(n - 1) : r[i].late
      BY <1>1, <1>4
<1>6. j = n => \A i \in 1..(n - 1) : r[i].late
      BY <1>1, <1>3
<1>7. j # n => r # <<>> /\ r[n - 1] = s[n]
  <2> SUFFICES ASSUME j # n PROVE r # <<>> /\ r[n - 1] = s[n]
      OBVIOUS
  <2>1. n - 1 \in j..(n - 1) /\ (n - 1) + 1 = n /\ n \in 1..n /\ ~(n < j) /\ Len(r) # 0
        BY <1>3
  <2> QED
      BY <1>1, <1>3, <2>1
<1> QED
    BY <1>1, <1>2, <1>3, <1>5, <1>6, <1>7

-----------------------------------------------------------------------------
(* What a step does to the operations *)

\* The program counter of an operation, its request and its history move only so.
Moves(p) ==
    /\ pc'[p] = "git" => (pc[p] = "git" \/ (pc[p] = "check" /\ ~Refused(req[p]) /\ UNCHANGED repo))
    /\ pc[p] # "idle" => req'[p] = req[p]
    /\ pc'[p] = "idle" => pc[p] = "idle"
    /\ misled'[p] = misled[p] \/ (pc[p] = "git" /\ misled'[p] = Unwanted(req[p]))
OpsMove == Watch /\ \A p \in Ops : Moves(p)

OpTypes ==
    /\ pc \in [Ops -> {"idle", "check", "git", "push", "unpushed", "refresh", "done"}]
    /\ misled \in [Ops -> BOOLEAN] /\ DOMAIN req = Ops

\* A step that leaves the operations alone.
LEMMA IdleMove ==
  ASSUME OpTypes, Watch, UNCHANGED <<req, pc, misled>> PROVE OpsMove
  BY DEF OpsMove, Moves

\* A step that ends the git command of an operation.
LEMMA FinishMove ==
  ASSUME OpTypes, NEW o \in Ops, pc[o] = "git", Watch, req' = req,
         pc' = [pc EXCEPT ![o] = "done"], misled' = [misled EXCEPT ![o] = Unwanted(req[o])]
  PROVE  OpsMove
  BY DEF OpsMove, Moves, OpTypes

\* Every step moves the operations as Moves says.
LEMMA NextMoves == OpTypes /\ Next => OpsMove
<1> SUFFICES ASSUME OpTypes, Next PROVE OpsMove
    OBVIOUS
<1>1. ASSUME NEW o \in Ops, Tap(o) PROVE OpsMove
      BY <1>1 DEF Tap, OpsMove, Moves, OpTypes
<1>2. ASSUME NEW o \in Ops, Check(o) PROVE OpsMove
      BY <1>2 DEF Check, OpsMove, Moves, OpTypes
<1>3. ASSUME NEW o \in Ops, Git(o) PROVE OpsMove
  <2>1. CASE Create(o)
        BY <2>1, FinishMove DEF Create, Running, Finish
  <2>2. CASE CreateOut(o)
        BY <2>2, FinishMove DEF CreateOut, Running, Finish
  <2>3. CASE Checkout(o)
        BY <2>3, FinishMove DEF Checkout, Running, Finish
  <2>4. CASE CheckoutDetached(o)
        BY <2>4, FinishMove DEF CheckoutDetached, Running, Finish
  <2>5. CASE CheckoutGuessed(o)
        BY <2>5, FinishMove DEF CheckoutGuessed, Running, Finish
  <2>6. CASE CheckoutNew(o)
        BY <2>6, FinishMove DEF CheckoutNew, Running, Finish
  <2>7. CASE Delete(o)
        BY <2>7, FinishMove DEF Delete, Running, Finish
  <2>8. CASE DeleteRemote(o)
        BY <2>8, FinishMove DEF DeleteRemote, Running, Finish
  <2>9. CASE FastForward(o)
        BY <2>9, FinishMove DEF FastForward, Running, Finish
  <2>10. CASE Merge(o)
        BY <2>10, FinishMove DEF Merge, Running, Finish
  <2>11. CASE Rebase(o)
        BY <2>11, FinishMove DEF Rebase, Running, Finish
  <2>12. CASE PopoverDelete(o)
        BY <2>12 DEF PopoverDelete, OpsMove, Moves, OpTypes, Running
  <2>13. CASE Tag(o)
        BY <2>13 DEF Tag, OpsMove, Moves, OpTypes, Running
  <2>14. CASE PushTag(o)
        BY <2>14 DEF PushTag, OpsMove, Moves, OpTypes
  <2>15. CASE Conflict(o)
        BY <2>15 DEF Conflict, OpsMove, Moves, OpTypes, Running
  <2>16. CASE Fails(o)
        BY <2>16 DEF Fails, OpsMove, Moves, OpTypes, MayFail, Running
  <2> QED
      BY <1>3, <2>1, <2>2, <2>3, <2>4, <2>5, <2>6, <2>7, <2>8, <2>9, <2>10, <2>11, <2>12,
         <2>13, <2>14, <2>15, <2>16 DEF Git
<1>4. ASSUME NEW o \in Ops, Refresh(o) PROVE OpsMove
      BY <1>4 DEF Refresh, OpsMove, Moves, OpTypes
<1>5. CASE StartRead
      BY <1>5, IdleMove DEF StartRead
<1>6. ASSUME NEW i \in 1..MaxReads, Assign(i) PROVE OpsMove
      BY <1>6, IdleMove DEF Assign
<1>7. CASE RefreshHead \/ RefreshLists
      BY <1>7, IdleMove DEF RefreshHead, RefreshLists
<1>8. CASE Save
      BY <1>8, IdleMove DEF Save, UserStep
<1>9. CASE Commit
      BY <1>9, IdleMove DEF Commit, UserStep
<1>10. ASSUME NEW n \in LocalNames, Switch(n) PROVE OpsMove
      BY <1>10, IdleMove DEF Switch, UserStep
<1>11. CASE Continue
      BY <1>11, IdleMove DEF Continue, UserStep
<1>12. CASE Abort
      BY <1>12, IdleMove DEF Abort, UserStep
<1> QED
    BY <1>1, <1>2, <1>3, <1>4, <1>5, <1>6, <1>7, <1>8, <1>9, <1>10, <1>11, <1>12 DEF Next

-----------------------------------------------------------------------------
(* Types *)

RepoTypes ==
    /\ local \in [LocalNames -> Branches] /\ tracking \in [RemoteNames -> Branches]
    /\ server \subseteq Names /\ head \in LocalNames \cup {Absent} /\ at \in SUBSET Nat
    /\ tags \subseteq Tags /\ pushedTags \subseteq tags
    /\ fresh \in Nat /\ changed \in BOOLEAN
    /\ stopped \in [by : {"none", "merge", "rebase"}, on : LocalNames \cup {Absent},
                    was : SUBSET Nat, with : SUBSET Nat]
ShownTypes ==
    /\ info \in [head : LocalNames \cup {Absent}, status : BOOLEAN, locals : SUBSET LocalNames]
    /\ event \in BOOLEAN /\ reads \in Seq([dirty : BOOLEAN, late : BOOLEAN]) /\ Len(reads) <= MaxReads
    /\ crossed \in BOOLEAN
ActorTypes ==
    /\ req \in [Ops -> Taps \cup {NoRequest}]
    /\ pc \in [Ops -> {"idle", "check", "git", "push", "unpushed", "refresh", "done"}]
    /\ \A o \in Ops : pc[o] # "idle" => req[o] \in Taps
    /\ stale \in [Ops -> BOOLEAN] /\ misled \in [Ops -> BOOLEAN]
    /\ used \in 0..MaxUser /\ crashed \in BOOLEAN

\* The type of the state is the types of its three parts.
LEMMA TypeParts == TypeOK <=> RepoTypes /\ ShownTypes /\ ActorTypes
  BY DEF TypeOK, RepoTypes, ShownTypes, ActorTypes

\* What a request names is of the kind its operation takes.
LEMMA RequestFields ==
  ASSUME NEW r \in Request
  PROVE  /\ r.op \in {"create", "createOut"} => r.name \in Names /\ r.other \in LocalNames
         /\ r.op \in {"checkout", "delete", "popover", "merge", "rebase"} => r.name \in LocalNames
         /\ r.op \in {"checkoutRemote", "deleteRemote"} => r.name \in RemoteNames
         /\ r.op \in {"tag", "tagPush"} => r.name \in Tags
  BY DEF Request

\* An operation that was tapped has a request.
LEMMA RunningRequest ==
  ASSUME ActorTypes, NEW o \in Ops, pc[o] # "idle" PROVE req[o] \in Request
  BY NamesAssumption DEF ActorTypes

\* What git takes a name for is a history, or none.
LEMMA CommitsType ==
  ASSUME RepoTypes, NEW n \in LocalNames PROVE Commits(n) \in Branches
  BY DEF RepoTypes, Commits

\* HEAD's history is a set of commits.
LEMMA HeadCommitsType ==
  ASSUME RepoTypes PROVE HeadCommits \in SUBSET Nat
  BY DEF RepoTypes, HeadCommits, Branches

\* Moving HEAD to a history keeps the types of the branches and of HEAD.
LEMMA HeadMovesType ==
  ASSUME RepoTypes, NEW c \in SUBSET Nat, HeadMoves(c)
  PROVE  local' \in [LocalNames -> Branches] /\ at' \in SUBSET Nat
  BY DEF RepoTypes, HeadMoves, Branches

\* The branch git guesses a name to mean has a history.
LEMMA TrackingType ==
  ASSUME RepoTypes, NEW n, NEW c \in Guessed(n) PROVE c \in Branches
  BY DEF RepoTypes, Guessed

\* A tag that is being pushed, or that could not be pushed, is there, not on the server, and
\* no other operation's.
Pushing(p) == pc[p] \in {"push", "unpushed"}
OwnTags ==
    /\ \A p \in Ops : Pushing(p) => req[p].name \in tags /\ req[p].name \notin pushedTags
    /\ \A p, q \in Ops : p # q /\ Pushing(p) /\ Pushing(q) => req[p].name # req[q].name

\* A git command keeps the types of the repository.
LEMMA GitRepoTypes ==
  ASSUME RepoTypes, ActorTypes, OwnTags, NEW o \in Ops, Git(o) PROVE RepoTypes'
<1> USE NamesAssumption DEF LocalNames
<1>1. pc[o] # "idle" => req[o] \in Request
      BY RunningRequest
<1>2. CASE Create(o)
      BY <1>2, <1>1, RequestFields, CommitsType DEF Create, Running, CanCreate, RepoTypes
<1>3. CASE CreateOut(o)
      BY <1>3, <1>1, RequestFields, CommitsType DEF CreateOut, Running, HeadTo, RepoTypes
<1>4. CASE Checkout(o)
      BY <1>4, <1>1, RequestFields DEF Checkout, Running, HeadTo, RepoTypes
<1>5. CASE CheckoutDetached(o)
      BY <1>5, <1>1, RequestFields, CommitsType DEF CheckoutDetached, Running, Branches, RepoTypes
<1>6. CASE CheckoutGuessed(o)
      BY <1>6, <1>1, RequestFields, TrackingType DEF CheckoutGuessed, Running, HeadTo, RepoTypes
<1>7. CASE CheckoutNew(o)
      BY <1>7, <1>1, RequestFields, HeadCommitsType DEF CheckoutNew, Running, HeadTo, Branches,
         RepoTypes
<1>8. CASE Delete(o)
      BY <1>8, <1>1, RequestFields DEF Delete, Running, Branches, RepoTypes
<1>9. CASE DeleteRemote(o)
      BY <1>9, <1>1, RequestFields DEF DeleteRemote, Running, Branches, RepoTypes
<1>10. CASE PopoverDelete(o)
      BY <1>10, <1>1, RequestFields DEF PopoverDelete, Running, Branches, RepoTypes
<1>11. CASE Tag(o)
      BY <1>11, <1>1, RequestFields DEF Tag, Running, RepoTypes
<1>12. CASE PushTag(o)
      BY <1>12, <1>1, RequestFields DEF PushTag, RepoTypes, OwnTags, Pushing
<1>13. CASE FastForward(o)
      BY <1>13, <1>1, RequestFields, CommitsType, HeadCommitsType, HeadMovesType DEF
         FastForward, Running, Target, Branches, RepoTypes
<1>14. CASE Merge(o)
      BY <1>14, <1>1, RequestFields, CommitsType, HeadCommitsType, HeadMovesType DEF Merge,
         Running, Target, Branches, RepoTypes
<1>15. CASE Rebase(o)
      BY <1>15, <1>1, RequestFields, CommitsType, HeadCommitsType, HeadMovesType DEF Rebase,
         Running, Target, Branches, RepoTypes
<1>16. CASE Conflict(o)
  <2>1. Target(o) \in SUBSET Nat /\ req[o].op \in {"merge", "rebase"}
        BY <1>16, <1>1, RequestFields, CommitsType DEF Conflict, Running, Target, Branches
  <2>2. stopped' \in [by : {"none", "merge", "rebase"}, on : LocalNames \cup {Absent},
                       was : SUBSET Nat, with : SUBSET Nat]
        BY <1>16, <2>1, HeadCommitsType DEF Conflict, RepoTypes
  <2>3. head' \in LocalNames \cup {Absent} /\ at' \in SUBSET Nat
        BY <1>16, <2>1 DEF Conflict, RepoTypes
  <2> QED
      BY <1>16, <2>2, <2>3 DEF Conflict, RepoTypes
<1>17. CASE Fails(o)
      BY <1>17, <1>1, RequestFields DEF Fails, MayFail, Running, repo, refs, RepoTypes
<1> QED
    BY <1>2, <1>3, <1>4, <1>5, <1>6, <1>7, <1>8, <1>9, <1>10, <1>11, <1>12, <1>13, <1>14,
       <1>15, <1>16, <1>17 DEF Git

\* Saving keeps the types of the repository.
LEMMA SaveTypes == ASSUME RepoTypes, Save PROVE RepoTypes'
  BY DEF Save, UserStep, RepoTypes

\* So does committing,
LEMMA CommitTypes == ASSUME RepoTypes, Commit PROVE RepoTypes'
<1>1. HeadCommits \cup {fresh} \in SUBSET Nat
      BY HeadCommitsType DEF RepoTypes
<1>2. local' \in [LocalNames -> Branches] /\ at' \in SUBSET Nat
      BY <1>1, HeadMovesType DEF Commit
<1>3. fresh \in Nat /\ fresh' = fresh + 1 /\ changed' = FALSE
      BY DEF Commit, RepoTypes
<1>4. fresh' \in Nat
      BY <1>3
<1>5. changed' \in BOOLEAN
      BY <1>3
<1> QED
    BY <1>2, <1>4, <1>5 DEF Commit, UserStep, RepoTypes

\* switching to another branch,
LEMMA SwitchTypes == ASSUME RepoTypes, NEW n \in LocalNames, Switch(n) PROVE RepoTypes'
  BY DEF Switch, UserStep, RepoTypes

\* going on with a stopped merge or rebase,
LEMMA ContinueTypes == ASSUME RepoTypes, Continue PROVE RepoTypes'
<1>1. /\ stopped.with \cup {fresh} \in SUBSET Nat /\ stopped.on \in LocalNames \cup {Absent}
      /\ stopped.was \cup stopped.with \cup {fresh} \in SUBSET Nat
      BY DEF RepoTypes
<1>2. stopped' \in [by : {"none", "merge", "rebase"}, on : LocalNames \cup {Absent},
                    was : SUBSET Nat, with : SUBSET Nat]
      BY DEF Continue, NotStopped
<1>3. local' \in [LocalNames -> Branches] /\ at' \in SUBSET Nat /\ head' \in LocalNames \cup {Absent}
  <2>1. CASE stopped.by = "rebase"
        BY <1>1, <2>1 DEF Continue, RepoTypes, Branches
  <2>2. CASE stopped.by # "rebase"
        BY <1>1, <2>2, HeadMovesType DEF Continue, RepoTypes
  <2> QED
      BY <2>1, <2>2
<1>4. fresh \in Nat /\ fresh' = fresh + 1 /\ changed' = FALSE
      BY DEF Continue, RepoTypes
<1>5. fresh' \in Nat
      BY <1>4
<1>6. changed' \in BOOLEAN
      BY <1>4
<1> QED
    BY <1>2, <1>3, <1>5, <1>6 DEF Continue, UserStep, RepoTypes

\* and giving it up.
LEMMA AbortTypes == ASSUME RepoTypes, Abort PROVE RepoTypes'
<1>1. stopped.was \in SUBSET Nat /\ stopped.on \in LocalNames \cup {Absent}
      BY DEF RepoTypes
<1>2. stopped' \in [by : {"none", "merge", "rebase"}, on : LocalNames \cup {Absent},
                    was : SUBSET Nat, with : SUBSET Nat]
      BY DEF Abort, NotStopped
<1> QED
    BY <1>1, <1>2 DEF Abort, UserStep, RepoTypes, Branches

\* What RepositoryInfo does not see of the repository stays as it is.
LEMMA QuietTypes ==
  ASSUME RepoTypes, UNCHANGED repo PROVE RepoTypes'
  BY DEF RepoTypes, repo, refs

\* Every step keeps the types of the repository.
LEMMA NextRepoTypes == RepoTypes /\ ActorTypes /\ OwnTags /\ Next => RepoTypes'
<1> SUFFICES ASSUME RepoTypes, ActorTypes, OwnTags, Next PROVE RepoTypes'
    OBVIOUS
<1>1. ASSUME NEW o \in Ops, Tap(o) \/ Check(o) \/ Refresh(o) PROVE RepoTypes'
      BY <1>1, QuietTypes DEF Tap, Check, Refresh
<1>2. ASSUME NEW o \in Ops, Git(o) PROVE RepoTypes'
      BY <1>2, GitRepoTypes
<1>3. CASE StartRead \/ RefreshHead \/ RefreshLists
      BY <1>3, QuietTypes DEF StartRead, RefreshHead, RefreshLists
<1>4. ASSUME NEW i \in 1..MaxReads, Assign(i) PROVE RepoTypes'
      BY <1>4, QuietTypes DEF Assign
<1>5. ASSUME NEW n \in LocalNames, Switch(n) PROVE RepoTypes'
      BY <1>5, SwitchTypes
<1> QED
    BY <1>1, <1>2, <1>3, <1>4, <1>5, SaveTypes, CommitTypes, ContinueTypes, AbortTypes DEF Next

-----------------------------------------------------------------------------

ReadType == [dirty : BOOLEAN, late : BOOLEAN]

\* A read that starts is a read.
LEMMA SampleType ==
  ASSUME RepoTypes, ShownTypes, Len(reads) < MaxReads
  PROVE  Sample \in Seq(ReadType) /\ Len(Sample) <= MaxReads
<1>1. [dirty |-> Dirty, late |-> FALSE] \in ReadType
      BY DEF ReadType, Dirty, Stopped, RepoTypes
<1>2. reads \in Seq(ReadType)
      BY DEF ShownTypes, ReadType
<1> DEFINE r == [dirty |-> Dirty, late |-> FALSE]
<1>3. Sample = Append(reads, r)
      BY DEF Sample
<1>4. r \in ReadType
      BY <1>1
<1> HIDE DEF r
<1> QED
    BY <1>2, <1>3, <1>4, NamesAssumption

\* Taking a read away leaves reads.
LEMMA RemoveRead ==
  ASSUME NEW s \in Seq(ReadType), NEW i \in 1..Len(s)
  PROVE  RemoveAt(s, i) \in Seq(ReadType) /\ Len(RemoveAt(s, i)) <= Len(s)
<1>1. RemoveAt(s, i) \in Seq(ReadType) /\ Len(RemoveAt(s, i)) = Len(s) - 1
      BY RemoveAtIs
<1>2. Len(s) \in Nat
      OBVIOUS
<1> QED
    BY <1>1, <1>2

\* Showing what a read found keeps the types of what is shown,
LEMMA AssignTypes ==
  ASSUME ShownTypes, NEW i \in 1..MaxReads, Assign(i) PROVE ShownTypes'
<1> DEFINE marked == [j \in DOMAIN reads |-> [reads[j] EXCEPT !.late = @ \/ j < i]]
<1>1. reads \in Seq(ReadType) /\ i \in 1..Len(reads)
      BY DEF ShownTypes, ReadType, Assign
<1>2. ASSUME NEW j \in DOMAIN reads PROVE [reads[j] EXCEPT !.late = @ \/ j < i] \in ReadType
  <2>1. reads[j] \in ReadType
        BY <1>1, <1>2
  <2>2. PICK r \in ReadType : r = reads[j]
        BY <2>1
  <2>3. [r EXCEPT !.late = @ \/ j < i] \in ReadType
        BY DEF ReadType
  <2> QED
      BY <2>2, <2>3
<1>3. marked \in Seq(ReadType) /\ Len(marked) = Len(reads)
      BY <1>1, <1>2
<1>4. reads' = RemoveAt(marked, i)
      BY DEF Assign
<1>5. reads' \in Seq(ReadType) /\ Len(reads') <= Len(reads)
  <2> HIDE DEF marked
  <2> QED
      BY <1>1, <1>3, <1>4, RemoveRead
<1>6. reads[i] \in ReadType
      BY <1>1
<1>7. reads[i].dirty \in BOOLEAN /\ reads[i].late \in BOOLEAN
      BY <1>6 DEF ReadType
<1>8. PICK d \in BOOLEAN : d = reads[i].dirty
      BY <1>7
<1>9. info' = [info EXCEPT !.status = d]
      BY <1>8 DEF Assign
<1>10. info' \in [head : LocalNames \cup {Absent}, status : BOOLEAN, locals : SUBSET LocalNames]
      BY <1>9 DEF ShownTypes
<1>11. crossed' \in BOOLEAN /\ event' = event
      BY <1>7 DEF Assign
<1>12. Len(reads) \in Nat /\ Len(reads') \in Nat /\ Len(reads) <= MaxReads
      BY <1>1, <1>5 DEF ShownTypes
<1> QED
    BY <1>5, <1>10, <1>11, <1>12, NamesAssumption DEF ShownTypes, ReadType

\* as does starting a read,
LEMMA ReadTypes ==
  ASSUME RepoTypes, ShownTypes, StartRead \/ \E o \in Ops : Refresh(o) PROVE ShownTypes'
<1>1. Len(reads) < MaxReads /\ reads' = Sample /\ info' = info /\ crossed' = crossed
      BY DEF StartRead, Refresh
<1>2. event' \in BOOLEAN
      BY DEF StartRead, Refresh, ShownTypes
<1>3. reads' \in Seq(ReadType) /\ Len(reads') <= MaxReads
      BY <1>1, SampleType
<1> QED
    BY <1>1, <1>2, <1>3 DEF ShownTypes, ReadType

\* and taking over HEAD or the lists.
LEMMA RefreshTypes ==
  ASSUME RepoTypes, ShownTypes, RefreshHead \/ RefreshLists PROVE ShownTypes'
<1>1. head \in LocalNames \cup {Absent} /\ Listed \in SUBSET LocalNames
      BY DEF RepoTypes, Listed
<1>2. PICK h \in LocalNames \cup {Absent}, l \in SUBSET LocalNames : h = head /\ l = Listed
      BY <1>1
<1>3. info' = [info EXCEPT !.head = h] \/ info' = [info EXCEPT !.locals = l]
      BY <1>2 DEF RefreshHead, RefreshLists
<1>4. info' \in [head : LocalNames \cup {Absent}, status : BOOLEAN, locals : SUBSET LocalNames]
      BY <1>3 DEF ShownTypes
<1> QED
    BY <1>4 DEF RefreshHead, RefreshLists, ShownTypes

\* A git command only sends an event.
LEMMA GitShows ==
  ASSUME NEW o \in Ops, Git(o)
  PROVE  UNCHANGED <<info, reads, crossed>> /\ event' \in {event, TRUE}
<1>1. CASE Create(o)
      BY <1>1 DEF Create, Finish
<1>2. CASE CreateOut(o)
      BY <1>2 DEF CreateOut, Finish, HeadTo
<1>3. CASE Checkout(o)
      BY <1>3 DEF Checkout, Finish, HeadTo
<1>4. CASE CheckoutDetached(o)
      BY <1>4 DEF CheckoutDetached, Finish
<1>5. CASE CheckoutGuessed(o)
      BY <1>5 DEF CheckoutGuessed, Finish, HeadTo
<1>6. CASE CheckoutNew(o)
      BY <1>6 DEF CheckoutNew, Finish, HeadTo
<1>7. CASE Delete(o)
      BY <1>7 DEF Delete, Finish
<1>8. CASE DeleteRemote(o)
      BY <1>8 DEF DeleteRemote, Finish
<1>9. CASE FastForward(o)
      BY <1>9 DEF FastForward, Finish
<1>10. CASE Merge(o)
      BY <1>10 DEF Merge, Finish
<1>11. CASE Rebase(o)
      BY <1>11 DEF Rebase, Finish
<1>12. CASE PopoverDelete(o)
      BY <1>12 DEF PopoverDelete, shown
<1>13. CASE Tag(o)
      BY <1>13 DEF Tag, shown
<1>14. CASE PushTag(o)
      BY <1>14 DEF PushTag, shown
<1>15. CASE Conflict(o)
      BY <1>15 DEF Conflict, shown
<1>16. CASE Fails(o)
      BY <1>16 DEF Fails, shown
<1> QED
    BY <1>1, <1>2, <1>3, <1>4, <1>5, <1>6, <1>7, <1>8, <1>9, <1>10, <1>11, <1>12, <1>13, <1>14,
       <1>15, <1>16 DEF Git

\* Every step keeps the types of what RepositoryInfo shows.
LEMMA NextShownTypes == RepoTypes /\ ShownTypes /\ Next => ShownTypes'
<1> SUFFICES ASSUME RepoTypes, ShownTypes, Next PROVE ShownTypes'
    OBVIOUS
<1>1. ASSUME UNCHANGED <<info, reads, crossed>>, event' \in {event, TRUE} PROVE ShownTypes'
      BY <1>1 DEF ShownTypes
<1>2. ASSUME NEW o \in Ops, Tap(o) \/ Check(o) PROVE ShownTypes'
      BY <1>2, <1>1 DEF Tap, Check, shown
<1>3. ASSUME NEW o \in Ops, Git(o) PROVE ShownTypes'
      BY <1>3, <1>1, GitShows
<1>4. ASSUME NEW o \in Ops, StartRead \/ Refresh(o) PROVE ShownTypes'
      BY <1>4, ReadTypes
<1>5. ASSUME NEW n \in LocalNames, Save \/ Commit \/ Switch(n) \/ Continue \/ Abort PROVE ShownTypes'
      BY <1>5, <1>1 DEF Save, Commit, Switch, Continue, Abort, UserStep
<1>6. ASSUME Save \/ Commit \/ Continue \/ Abort PROVE ShownTypes'
      BY <1>6, <1>1 DEF Save, Commit, Continue, Abort, UserStep
<1>7. CASE StartRead
      BY <1>7, ReadTypes
<1> QED
    BY <1>2, <1>3, <1>4, <1>5, <1>6, <1>7, AssignTypes, RefreshTypes DEF Next

-----------------------------------------------------------------------------

\* The history of what was looked at is Boolean.
LEMMA StaleType == ASSUME Watch PROVE stale' \in [Ops -> BOOLEAN]
  BY DEF Watch

\* So is the one of what git then worked on.
LEMMA MisledType ==
  ASSUME ActorTypes, NEW o \in Ops, misled' = [misled EXCEPT ![o] = Unwanted(req[o])]
  PROVE  misled' \in [Ops -> BOOLEAN]
<1>1. Unwanted(req[o]) \in BOOLEAN
      BY DEF Unwanted
<1>2. PICK b \in BOOLEAN : b = Unwanted(req[o])
      BY <1>1
<1> QED
    BY <1>2 DEF ActorTypes

\* An operation under way goes on; what else there is keeps its type.
LEMMA StepTypes ==
  ASSUME ActorTypes, Watch, NEW o \in Ops, pc[o] # "idle",
         NEW x \in {"git", "push", "unpushed", "refresh", "done"}, pc' = [pc EXCEPT ![o] = x],
         req' = req, used' = used, crashed' \in BOOLEAN, misled' \in [Ops -> BOOLEAN]
  PROVE  ActorTypes'
  BY StaleType DEF ActorTypes

\* A step that leaves the operations alone keeps their types.
LEMMA RestTypes ==
  ASSUME ActorTypes, Watch, UNCHANGED <<req, pc, misled, crashed>>, used' \in 0..MaxUser
  PROVE  ActorTypes'
  BY StaleType DEF ActorTypes

\* A tap keeps the types of the operations,
LEMMA TapTypes == ASSUME ActorTypes, NEW o \in Ops, Tap(o) PROVE ActorTypes'
<1>1. stale' \in [Ops -> BOOLEAN]
      BY StaleType DEF Tap
<1>2. req' \in [Ops -> Taps \cup {NoRequest}] /\ \A p \in Ops : pc'[p] # "idle" => req'[p] \in Taps
      BY DEF Tap, ActorTypes
<1> QED
    BY <1>1, <1>2 DEF Tap, ActorTypes

\* and so do the steps of the user,
LEMMA UserTypes == ASSUME ActorTypes, UserStep, Watch PROVE ActorTypes'
<1>1. used' \in 0..MaxUser
      BY NamesAssumption DEF UserStep, ActorTypes
<1> QED
    BY <1>1, RestTypes DEF UserStep

\* the end of a git command
LEMMA FinishTypes ==
  ASSUME ActorTypes, NEW o \in Ops, pc[o] = "git", Finish(o) PROVE ActorTypes'
<1>1. misled' \in [Ops -> BOOLEAN]
      BY MisledType DEF Finish
<1>2. crashed' \in BOOLEAN
      BY DEF Finish, ActorTypes
<1> QED
    BY <1>1, <1>2, StepTypes DEF Finish

\* and every git command.
LEMMA GitTypes == ASSUME ActorTypes, NEW o \in Ops, Git(o) PROVE ActorTypes'
<1>a. misled \in [Ops -> BOOLEAN] /\ crashed \in BOOLEAN
      BY DEF ActorTypes
<1>1. CASE Create(o)
      BY <1>1, FinishTypes DEF Create, Running
<1>2. CASE CreateOut(o)
      BY <1>2, FinishTypes DEF CreateOut, Running
<1>3. CASE Checkout(o)
      BY <1>3, FinishTypes DEF Checkout, Running
<1>4. CASE CheckoutDetached(o)
      BY <1>4, FinishTypes DEF CheckoutDetached, Running
<1>5. CASE CheckoutGuessed(o)
      BY <1>5, FinishTypes DEF CheckoutGuessed, Running
<1>6. CASE CheckoutNew(o)
      BY <1>6, FinishTypes DEF CheckoutNew, Running
<1>7. CASE Delete(o)
      BY <1>7, FinishTypes DEF Delete, Running
<1>8. CASE DeleteRemote(o)
      BY <1>8, FinishTypes DEF DeleteRemote, Running
<1>9. CASE FastForward(o)
      BY <1>9, FinishTypes DEF FastForward, Running
<1>10. CASE Merge(o)
      BY <1>10, FinishTypes DEF Merge, Running
<1>11. CASE Rebase(o)
      BY <1>11, FinishTypes DEF Rebase, Running
<1>12. CASE PopoverDelete(o)
      BY <1>12, StepTypes, <1>a DEF PopoverDelete, Running
<1>13. CASE Tag(o)
      BY <1>13, StepTypes, <1>a DEF Tag, Running
<1>14. CASE PushTag(o)
      BY <1>14, StepTypes, <1>a DEF PushTag
<1>15. CASE Conflict(o)
      BY <1>15, StepTypes, MisledType, <1>a DEF Conflict, Running
<1>16. CASE Fails(o)
      BY <1>16, StepTypes, <1>a DEF Fails, MayFail, Running
<1> QED
    BY <1>1, <1>2, <1>3, <1>4, <1>5, <1>6, <1>7, <1>8, <1>9, <1>10, <1>11, <1>12, <1>13, <1>14,
       <1>15, <1>16 DEF Git

\* Every step keeps the types of the operations.
LEMMA NextActorTypes == ActorTypes /\ Next => ActorTypes'
<1> SUFFICES ASSUME ActorTypes, Next PROVE ActorTypes'
    OBVIOUS
<1>1. misled \in [Ops -> BOOLEAN] /\ crashed \in BOOLEAN /\ used \in 0..MaxUser
      BY DEF ActorTypes
<1>2. ASSUME NEW o \in Ops, Check(o) \/ Refresh(o) PROVE ActorTypes'
      BY <1>1, <1>2, StepTypes DEF Check, Refresh
<1>3. ASSUME StartRead \/ RefreshHead \/ RefreshLists PROVE ActorTypes'
      BY <1>1, <1>3, RestTypes DEF StartRead, RefreshHead, RefreshLists
<1>4. ASSUME NEW i \in 1..MaxReads, Assign(i) PROVE ActorTypes'
      BY <1>1, <1>4, RestTypes DEF Assign
<1>5. ASSUME Save \/ Commit \/ Continue \/ Abort PROVE ActorTypes'
      BY <1>5, UserTypes DEF Save, Commit, Continue, Abort
<1>6. ASSUME NEW n \in LocalNames, Switch(n) PROVE ActorTypes'
      BY <1>6, UserTypes DEF Switch
<1> QED
    BY <1>2, <1>3, <1>4, <1>5, <1>6, TapTypes, GitTypes DEF Next

-----------------------------------------------------------------------------
(* Tags *)

\* Only Tag and PushTag move a tag or an operation that pushes one.
LEMMA OthersTag ==
  ASSUME ActorTypes, Next, \A o \in Ops : ~Tag(o) /\ ~PushTag(o)
  PROVE  /\ UNCHANGED <<tags, pushedTags>>
         /\ \A p \in Ops : (Pushing(p))' => Pushing(p) /\ req'[p] = req[p]
<1>1. ASSUME NEW o \in Ops, Tap(o) \/ Check(o) \/ Refresh(o)
      PROVE  /\ UNCHANGED <<tags, pushedTags>>
             /\ \A p \in Ops : (Pushing(p))' => Pushing(p) /\ req'[p] = req[p]
      BY <1>1 DEF Tap, Check, Refresh, Pushing, ActorTypes, repo, refs
<1>2. ASSUME NEW o \in Ops, Git(o)
      PROVE  /\ UNCHANGED <<tags, pushedTags>>
             /\ \A p \in Ops : (Pushing(p))' => Pushing(p) /\ req'[p] = req[p]
  <2>a. ASSUME UNCHANGED <<tags, pushedTags>>, req' = req,
               pc' = [pc EXCEPT ![o] = "done"] \/ pc' = [pc EXCEPT ![o] = "refresh"]
        PROVE  /\ UNCHANGED <<tags, pushedTags>>
               /\ \A p \in Ops : (Pushing(p))' => Pushing(p) /\ req'[p] = req[p]
        BY <2>a DEF Pushing, ActorTypes
  <2>1. CASE Create(o)
        BY <2>1, <2>a DEF Create, Finish
  <2>2. CASE CreateOut(o)
        BY <2>2, <2>a DEF CreateOut, Finish
  <2>3. CASE Checkout(o)
        BY <2>3, <2>a DEF Checkout, Finish
  <2>4. CASE CheckoutDetached(o)
        BY <2>4, <2>a DEF CheckoutDetached, Finish
  <2>5. CASE CheckoutGuessed(o)
        BY <2>5, <2>a DEF CheckoutGuessed, Finish
  <2>6. CASE CheckoutNew(o)
        BY <2>6, <2>a DEF CheckoutNew, Finish
  <2>7. CASE Delete(o)
        BY <2>7, <2>a DEF Delete, Finish
  <2>8. CASE DeleteRemote(o)
        BY <2>8, <2>a DEF DeleteRemote, Finish
  <2>9. CASE FastForward(o)
        BY <2>9, <2>a DEF FastForward, Finish
  <2>10. CASE Merge(o)
        BY <2>10, <2>a DEF Merge, Finish
  <2>11. CASE Rebase(o)
        BY <2>11, <2>a DEF Rebase, Finish
  <2>12. CASE PopoverDelete(o)
        BY <2>12, <2>a DEF PopoverDelete
  <2>13. CASE Conflict(o)
        BY <2>13, <2>a DEF Conflict
  <2>14. CASE Fails(o)
        BY <2>14, <2>a DEF Fails, repo, refs
  <2> QED
      BY <1>2, <2>1, <2>2, <2>3, <2>4, <2>5, <2>6, <2>7, <2>8, <2>9, <2>10, <2>11, <2>12,
         <2>13, <2>14 DEF Git
<1>3. ASSUME UNCHANGED <<tags, pushedTags, pc, req>>
      PROVE  /\ UNCHANGED <<tags, pushedTags>>
             /\ \A p \in Ops : (Pushing(p))' => Pushing(p) /\ req'[p] = req[p]
      BY <1>3 DEF Pushing
<1>4. ASSUME StartRead \/ RefreshHead \/ RefreshLists
      PROVE  UNCHANGED <<tags, pushedTags, pc, req>>
      BY <1>4 DEF StartRead, RefreshHead, RefreshLists, repo, refs
<1>5. ASSUME NEW i \in 1..MaxReads, Assign(i) PROVE UNCHANGED <<tags, pushedTags, pc, req>>
      BY <1>5 DEF Assign, repo, refs
<1>6. ASSUME Save \/ Commit \/ Continue \/ Abort
      PROVE  UNCHANGED <<tags, pushedTags, pc, req>>
      BY <1>6 DEF Save, Commit, Continue, Abort, UserStep
<1>7. ASSUME NEW n \in LocalNames, Switch(n) PROVE UNCHANGED <<tags, pushedTags, pc, req>>
      BY <1>7 DEF Switch, UserStep
<1> QED
    BY <1>1, <1>2, <1>3, <1>4, <1>5, <1>6, <1>7 DEF Next

\* Every step keeps it that a tag being pushed is of one operation.
LEMMA NextOwnTags == RepoTypes /\ ActorTypes /\ OwnTags /\ Next => OwnTags'
<1> SUFFICES ASSUME RepoTypes, ActorTypes, OwnTags, Next PROVE OwnTags'
    OBVIOUS
<1>1. ASSUME NEW o \in Ops, Tag(o) PROVE OwnTags'
      BY <1>1 DEF Tag, Running, OwnTags, Pushing, RepoTypes, ActorTypes
<1>2. ASSUME NEW o \in Ops, PushTag(o) PROVE OwnTags'
      BY <1>2 DEF PushTag, OwnTags, Pushing, ActorTypes
<1>3. CASE \A o \in Ops : ~Tag(o) /\ ~PushTag(o)
      BY <1>3, OthersTag DEF OwnTags, Pushing
<1> QED
    BY <1>1, <1>2, <1>3

-----------------------------------------------------------------------------
(* TypeOK and UnpushedForGood *)

\* The state at first has its type.
LEMMA InitTypes == Init => TypeOK /\ OwnTags
<1> SUFFICES ASSUME Init PROVE TypeOK /\ OwnTags
    OBVIOUS
<1> USE NamesAssumption
<1>1. RepoTypes
  <2>1. server \subseteq Names
        BY DEF Init, GivenServer
  <2>2. stopped \in [by : {"none", "merge", "rebase"}, on : LocalNames \cup {Absent},
                     was : SUBSET Nat, with : SUBSET Nat]
        BY DEF Init, NotStopped
  <2> QED
      BY <2>1, <2>2 DEF Init, RepoTypes, Branches
<1>2. ShownTypes
  <2>1. info \in [head : LocalNames \cup {Absent}, status : BOOLEAN, locals : SUBSET LocalNames]
        BY DEF Init
  <2>2. reads \in Seq([dirty : BOOLEAN, late : BOOLEAN]) /\ Len(reads) <= MaxReads
        BY DEF Init
  <2>3. event \in BOOLEAN /\ crossed \in BOOLEAN
        BY DEF Init
  <2> QED
      BY <2>1, <2>2, <2>3 DEF ShownTypes
<1>3. ActorTypes
  <2>1. used \in 0..MaxUser
        BY DEF Init
  <2>2. /\ stale \in [Ops -> BOOLEAN] /\ misled \in [Ops -> BOOLEAN]
        /\ crashed \in BOOLEAN
        BY DEF Init
  <2>3. /\ req \in [Ops -> Taps \cup {NoRequest}]
        /\ pc \in [Ops -> {"idle", "check", "git", "push", "unpushed", "refresh", "done"}]
        /\ \A o \in Ops : pc[o] # "idle" => req[o] \in Taps
        BY DEF Init
  <2> QED
      BY <2>1, <2>2, <2>3 DEF ActorTypes
<1>4. OwnTags
      BY DEF Init, OwnTags, Pushing
<1> QED
    BY <1>1, <1>2, <1>3, <1>4, TypeParts

\* Every step keeps the types and the owners of the tags.
LEMMA NextTypes == TypeOK /\ OwnTags /\ [Next]_vars => (TypeOK /\ OwnTags)'
<1> SUFFICES ASSUME TypeOK, OwnTags, [Next]_vars PROVE (TypeOK /\ OwnTags)'
    OBVIOUS
<1>1. RepoTypes /\ ShownTypes /\ ActorTypes
      BY TypeParts
<1>2. TypeOK' <=> RepoTypes' /\ ShownTypes' /\ ActorTypes'
      BY TypeParts, PTL
<1>3. CASE Next
      BY <1>1, <1>2, <1>3, NextRepoTypes, NextShownTypes, NextActorTypes, NextOwnTags
<1>4. CASE UNCHANGED vars
  <2>1. RepoTypes'
        BY <1>1, <1>4, QuietTypes DEF vars
  <2>2. ShownTypes'
        BY <1>1, <1>4 DEF ShownTypes, vars, shown
  <2>3. ActorTypes'
        BY <1>1, <1>4 DEF ActorTypes, vars
  <2>4. OwnTags'
        BY <1>4 DEF OwnTags, Pushing, vars, repo, refs
  <2> QED
      BY <1>2, <2>1, <2>2, <2>3, <2>4
<1> QED
    BY <1>3, <1>4

\* The state has its type, whatever runs beside what.
THEOREM TypeCorrect == Spec => []TypeOK
<1>1. Init => TypeOK /\ OwnTags
      BY InitTypes
<1>2. TypeOK /\ OwnTags /\ [Next]_vars => (TypeOK /\ OwnTags)'
      BY NextTypes
<1> QED
    BY <1>1, <1>2, PTL DEF Spec

\* A tag whose push failed stays off the server: whatever is asked for later, git tag
\* refuses a tag that is there before anything is pushed.
THEOREM TagsUnpushed == Spec => []UnpushedForGood
<1>1. OwnTags => UnpushedForGood
      BY DEF OwnTags, Pushing, UnpushedForGood
<1> QED
    BY <1>1, InitTypes, NextTypes, PTL DEF Spec

-----------------------------------------------------------------------------
(* OnlyStaleMisleads *)

\* While what an operation looked at still holds, git does what its handler means it to.
ChecksHold == \A o \in Ops :
    /\ pc[o] = "git" /\ ~stale[o] => ~Unwanted(req[o])
    /\ misled[o] => stale[o]

\* Every step keeps that, by what it does to the operations.
LEMMA NextChecks == OpTypes /\ ChecksHold /\ Next => ChecksHold'
<1> SUFFICES ASSUME OpTypes, ChecksHold, Next, NEW o \in Ops
             PROVE  /\ (pc'[o] = "git" /\ ~stale'[o]) => ~Unwanted(req[o])'
                    /\ misled'[o] => stale'[o]
    BY DEF ChecksHold
<1>1. Watch /\ Moves(o)
      BY NextMoves DEF OpsMove
<1>2. stale'[o] <=> \/ stale[o]
                    \/ pc[o] = "check" /\ pc'[o] = "git" /\ (info.head # head \/ info.status # Dirty)
                    \/ pc[o] = "git" /\ pc'[o] = "git" /\ (head' # head \/ Dirty' # Dirty)
      BY <1>1 DEF Watch
<1>3. ASSUME pc'[o] = "git", ~stale'[o] PROVE ~Unwanted(req[o])'
  <2>1. CASE pc[o] = "git"
        BY <1>1, <1>2, <1>3, <2>1 DEF ChecksHold, Moves, Unwanted
  <2>2. CASE pc[o] = "check"
    <3>1. ~Refused(req[o]) /\ info.head = head /\ info.status = Dirty /\ req'[o] = req[o]
          BY <1>1, <1>2, <1>3, <2>2 DEF Moves
    <3>2. head' = head /\ changed' = changed /\ stopped' = stopped
          BY <1>1, <1>3, <2>2 DEF Moves, repo, refs
    <3>3. ~Unwanted(req[o])
          BY <3>1 DEF Refused, Unwanted
    <3> QED
        BY <3>1, <3>2, <3>3 DEF Unwanted, Dirty, Stopped
  <2> QED
      BY <1>1, <1>3, <2>1, <2>2 DEF Moves
<1>4. ASSUME misled'[o] PROVE stale'[o]
      BY <1>1, <1>2, <1>4 DEF Moves, ChecksHold
<1> QED
    BY <1>3, <1>4

\* A handler is misled only by a status or a HEAD that is old.
THEOREM OnlyStale == Spec => []OnlyStaleMisleads
<1>1. Init => ChecksHold
      BY DEF Init, ChecksHold
<1>2. TypeOK => OpTypes
      BY DEF TypeOK, OpTypes
<1>3. ChecksHold /\ UNCHANGED vars => ChecksHold'
      BY DEF ChecksHold, Unwanted, Dirty, Stopped, vars, repo, refs
<1>4. TypeOK /\ ChecksHold /\ [Next]_vars => ChecksHold'
      BY <1>2, <1>3, NextChecks
<1>5. ChecksHold => OnlyStaleMisleads
      BY DEF ChecksHold, OnlyStaleMisleads
<1> QED
    BY <1>1, <1>4, <1>5, TypeCorrect, PTL DEF Spec

-----------------------------------------------------------------------------
(* HeadIsThere and CommitsKept *)

\* What stops a merge or a rebase remembers where HEAD was, so that git finds back.
Remembered(s, commits) ==
    /\ s.by = "rebase" => s.was # {}
    /\ s.by = "merge" => s.was = commits
HeadSafe == HeadCommits # {} /\ Remembered(stopped, HeadCommits)

\* What a branch may lose, and by which step.
Loses(b) == ~(local[b] \subseteq local'[b])
Kept == \A b \in LocalNames : Loses(b) => Deletes(b) \/ Rebases(b)

\* HEAD moves to other commits, on its branch or on none.
LEMMA HeadMoved ==
  ASSUME RepoTypes, NEW c \in SUBSET Nat, c # {}, HeadMoves(c), head' = head
  PROVE  HeadCommits' = c /\ \A b \in LocalNames : Loses(b) => b = head /\ ~(HeadCommits \subseteq c)
  BY DEF RepoTypes, HeadMoves, HeadCommits, Loses

\* HEAD and all branches stay.
LEMMA HeadStays ==
  ASSUME HeadSafe, UNCHANGED <<local, head, at, stopped>> PROVE HeadSafe' /\ Kept
  BY DEF HeadSafe, HeadCommits, Remembered, Kept, Loses

\* One branch gets its history; HEAD stays on another, or moves to it.
LEMMA BranchSet ==
  ASSUME RepoTypes, HeadSafe, NEW n \in LocalNames, NEW c,
         local' = [local EXCEPT ![n] = c], stopped' = stopped,
         local[n] = {} \/ Deletes(n),
         \/ UNCHANGED <<head, at>> /\ head # n
         \/ head' = n /\ c # {} /\ ~Stopped
  PROVE  HeadSafe' /\ Kept
  BY NamesAssumption DEF RepoTypes, HeadSafe, HeadCommits, Remembered, Kept, Loses, Stopped

\* HEAD moves to another branch or to none.
LEMMA HeadSwitched ==
  ASSUME RepoTypes, HeadSafe, local' = local, stopped' = stopped, ~Stopped,
         HeadCommits' # {}
  PROVE  HeadSafe' /\ Kept
  BY DEF RepoTypes, HeadSafe, Remembered, Kept, Loses, Stopped

\* The git commands keep HEAD on something, and lose commits only as they were told to.
LEMMA GitSafe ==
  ASSUME RepoTypes, ActorTypes, HeadSafe, NEW o \in Ops, Git(o) PROVE HeadSafe' /\ Kept
<1> USE NamesAssumption DEF LocalNames
<1>1. pc[o] # "idle" => req[o] \in Request
      BY RunningRequest
<1>2. head # Absent => head \in LocalNames /\ local[head] # {}
      BY DEF HeadSafe, HeadCommits, RepoTypes
<1>3. Absent \notin LocalNames
      OBVIOUS
<1>4. CASE Create(o)
  <2>1. req[o].name \in LocalNames /\ local[req[o].name] = {} /\ head # req[o].name
        BY <1>4, <1>1, <1>2, <1>3, RequestFields DEF Create, Running, CanCreate
  <2> QED
      BY <1>4, <2>1, BranchSet DEF Create
<1>5. CASE CreateOut(o)
  <2>1. req[o].name \in LocalNames /\ local[req[o].name] = {} /\ Commits(req[o].other) # {}
        BY <1>5, <1>1, RequestFields DEF CreateOut, Running, CanCreate
  <2> QED
      BY <1>5, <2>1, BranchSet DEF CreateOut, HeadTo
<1>6. CASE Checkout(o)
  <2>1. req[o].name \in LocalNames /\ local[req[o].name] # {}
        BY <1>6, <1>1, RequestFields DEF Checkout, Running
  <2>2. HeadCommits' # {}
        BY <1>6, <2>1, <1>3 DEF Checkout, HeadTo, HeadCommits
  <2> QED
      BY <1>6, <2>2, HeadSwitched DEF Checkout
<1>7. CASE CheckoutDetached(o)
  <2>1. HeadCommits' # {}
        BY <1>7 DEF CheckoutDetached, HeadCommits
  <2> QED
      BY <1>7, <2>1, HeadSwitched DEF CheckoutDetached
<1>8. CASE CheckoutGuessed(o)
  <2>1. req[o].name \in LocalNames /\ Commits(req[o].name) = {}
        BY <1>8, <1>1, RequestFields DEF CheckoutGuessed, Running
  <2>2. local[req[o].name] = {}
        BY <2>1 DEF Commits
  <2>3. PICK c \in Guessed(req[o].name) : local' = [local EXCEPT ![req[o].name] = c]
        BY <1>8 DEF CheckoutGuessed
  <2>4. c # {}
        BY <2>3 DEF Guessed
  <2> QED
      BY <1>8, <2>1, <2>2, <2>3, <2>4, BranchSet DEF CheckoutGuessed, HeadTo
<1>9. CASE CheckoutNew(o)
  <2>1. req[o].name \in LocalNames /\ local[req[o].name] = {} /\ HeadCommits # {}
        BY <1>9, <1>1, RequestFields DEF CheckoutNew, Running, HeadSafe
  <2> QED
      BY <1>9, <2>1, BranchSet DEF CheckoutNew, HeadTo
<1>10. CASE Delete(o)
  <2>1. req[o].name \in LocalNames /\ head # req[o].name
        BY <1>10, <1>1, RequestFields DEF Delete, Running, CanDelete
  <2>2. Deletes(req[o].name)
        BY <1>10 DEF Delete, Deletes, Running, Finish, ActorTypes
  <2> QED
      BY <1>10, <2>1, <2>2, BranchSet DEF Delete
<1>11. CASE PopoverDelete(o)
  <2>1. req[o].name \in LocalNames
        BY <1>11, <1>1, RequestFields DEF PopoverDelete, Running
  <2>2. CASE head = req[o].name
    <3>1. local' = local
          BY <1>11, <2>1, <2>2 DEF PopoverDelete, RepoTypes
    <3> QED
        BY <1>11, <3>1, HeadStays DEF PopoverDelete
  <2>3. CASE head # req[o].name
    <3>1. Deletes(req[o].name)
          BY <1>11 DEF PopoverDelete, Deletes, Running, ActorTypes
    <3>2. local' = [local EXCEPT ![req[o].name] = {}]
          BY <1>11, <2>3 DEF PopoverDelete
    <3> QED
        BY <1>11, <2>1, <2>3, <3>1, <3>2, BranchSet DEF PopoverDelete
  <2> QED
      BY <2>2, <2>3
<1>12. CASE DeleteRemote(o) \/ Tag(o) \/ PushTag(o) \/ Fails(o)
      BY <1>12, HeadStays DEF DeleteRemote, Tag, PushTag, Fails, repo, refs
<1>13. req[o].op \in {"merge", "rebase"} /\ pc[o] = "git" => Target(o) \in SUBSET Nat
      BY <1>1, RequestFields, CommitsType DEF Target, Branches
<1>14. HeadCommits \in SUBSET Nat /\ HeadCommits # {} /\ fresh \in Nat
      BY HeadCommitsType DEF HeadSafe, RepoTypes
<1>15. CASE FastForward(o)
  <2> DEFINE c == HeadCommits \cup Target(o)
  <2>1. c \in SUBSET Nat /\ c # {} /\ HeadMoves(c) /\ head' = head
        BY <1>15, <1>13, <1>14 DEF FastForward, Running
  <2>2. HeadCommits \subseteq c
        OBVIOUS
  <2> HIDE DEF c
  <2>3. HeadCommits' = c /\ Kept
        BY <2>1, <2>2, HeadMoved DEF Kept
  <2> QED
      BY <1>15, <2>1, <2>3 DEF FastForward, HeadSafe, Remembered, Joinable, Stopped
<1>16. CASE Merge(o)
  <2> DEFINE c == HeadCommits \cup Target(o) \cup {fresh}
  <2>1. c \in SUBSET Nat /\ c # {} /\ HeadMoves(c) /\ head' = head
        BY <1>16, <1>13, <1>14 DEF Merge, Running
  <2>2. HeadCommits \subseteq c
        OBVIOUS
  <2> HIDE DEF c
  <2>3. HeadCommits' = c /\ Kept
        BY <2>1, <2>2, HeadMoved DEF Kept
  <2> QED
      BY <1>16, <2>1, <2>3 DEF Merge, HeadSafe, Remembered, Joinable, Stopped
<1>17. CASE Rebase(o)
  <2> DEFINE c == Target(o) \cup {fresh}
  <2>1. c \in SUBSET Nat /\ c # {} /\ HeadMoves(c) /\ head' = head
        BY <1>17, <1>13, <1>14 DEF Rebase, Running
  <2>2. Rebases(head)
        BY <1>17 DEF Rebase, Rebases, Running, Finish, ActorTypes
  <2> HIDE DEF c
  <2>3. HeadCommits' = c /\ \A b \in LocalNames : Loses(b) => b = head
        BY <2>1, HeadMoved
  <2>4. Kept
        BY <2>2, <2>3 DEF Kept
  <2> QED
      BY <1>17, <2>1, <2>3, <2>4 DEF Rebase, HeadSafe, Remembered, Joinable, Stopped
<1>18. CASE Conflict(o)
  <2>1. local' = local /\ Target(o) # {}
        BY <1>18 DEF Conflict, Joinable
  <2>2. stopped'.by = req[o].op /\ stopped'.was = HeadCommits
        BY <1>18 DEF Conflict
  <2>3. CASE req[o].op = "rebase"
    <3>1. HeadCommits' = Target(o)
          BY <1>18, <2>3 DEF Conflict, HeadCommits
    <3> QED
        BY <2>1, <2>2, <2>3, <3>1, <1>14 DEF HeadSafe, Remembered, Kept, Loses
  <2>4. CASE req[o].op = "merge"
    <3>1. HeadCommits' = HeadCommits
          BY <1>18, <2>4 DEF Conflict, HeadCommits
    <3> QED
        BY <2>1, <2>2, <2>4, <3>1, <1>14 DEF HeadSafe, Remembered, Kept, Loses
  <2> QED
      BY <1>18, <2>3, <2>4 DEF Conflict, Running
<1> QED
    BY <1>4, <1>5, <1>6, <1>7, <1>8, <1>9, <1>10, <1>11, <1>12, <1>15, <1>16, <1>17, <1>18 DEF Git

\* So do the user's own steps.
LEMMA UserSafe ==
  ASSUME RepoTypes, HeadSafe, Commit \/ Continue \/ Abort PROVE HeadSafe' /\ Kept
<1>1. Absent \notin LocalNames /\ fresh \in Nat
      BY NamesAssumption DEF RepoTypes
<1>2. HeadCommits \in SUBSET Nat /\ HeadCommits # {}
      BY HeadCommitsType DEF HeadSafe
<1>3. stopped.on \in LocalNames \cup {Absent} /\ stopped.was \in SUBSET Nat /\ stopped.with \in SUBSET Nat
      BY DEF RepoTypes
<1>4. CASE Commit
  <2> DEFINE c == HeadCommits \cup {fresh}
  <2>1. c \in SUBSET Nat /\ c # {} /\ HeadMoves(c) /\ head' = head
        BY <1>1, <1>2, <1>4 DEF Commit
  <2>2. HeadCommits \subseteq c
        OBVIOUS
  <2> HIDE DEF c
  <2>3. HeadCommits' = c /\ Kept
        BY <2>1, <2>2, HeadMoved DEF Kept
  <2> QED
      BY <1>4, <2>1, <2>3 DEF Commit, HeadSafe, Remembered, Stopped
<1>5. CASE (Continue \/ Abort) /\ stopped.by = "rebase"
  <2>1. PICK c \in SUBSET Nat : c # {} /\ head' = stopped.on /\
            IF stopped.on = Absent
            THEN at' = c /\ local' = local
            ELSE at' = {} /\ local' = [local EXCEPT ![stopped.on] = c]
    <3>1. CASE Continue
      <4>1. stopped.with \cup {fresh} \in SUBSET Nat /\ stopped.with \cup {fresh} # {}
            BY <1>1, <1>3
      <4> QED
          BY <4>1, <3>1, <1>5 DEF Continue
    <3>2. CASE Abort
      <4>1. stopped.was # {}
            BY <1>5 DEF HeadSafe, Remembered
      <4> QED
          BY <4>1, <3>2, <1>3, <1>5 DEF Abort
    <3> QED
        BY <1>5, <3>1, <3>2
  <2>2. HeadCommits' # {}
        BY <2>1, <1>1, <1>3 DEF HeadCommits, RepoTypes
  <2>3. stopped' = NotStopped /\ Rebases(stopped.on)
        BY <1>5 DEF Continue, Abort, Rebases, Rebasing
  <2>4. \A b \in LocalNames : Loses(b) => b = stopped.on
        BY <2>1, <1>3 DEF Loses, RepoTypes
  <2>5. Kept
        BY <2>3, <2>4 DEF Kept
  <2>6. NotStopped.by = "none"
        BY DEF NotStopped
  <2> QED
      BY <2>2, <2>3, <2>5, <2>6 DEF HeadSafe, Remembered
<1>6. CASE Continue /\ stopped.by # "rebase"
  <2> DEFINE c == stopped.was \cup stopped.with \cup {fresh}
  <2>1. stopped.by = "merge"
        BY <1>6 DEF Continue, Stopped, RepoTypes
  <2>2. c \in SUBSET Nat /\ c # {} /\ HeadMoves(c) /\ head' = head
        BY <1>1, <1>3, <1>6 DEF Continue
  <2>3. HeadCommits \subseteq c
        BY <2>1 DEF HeadSafe, Remembered
  <2> HIDE DEF c
  <2>4. HeadCommits' = c /\ Kept
        BY <2>2, <2>3, HeadMoved DEF Kept
  <2> QED
      BY <1>6, <2>2, <2>4 DEF Continue, HeadSafe, Remembered, NotStopped
<1>7. CASE Abort /\ stopped.by # "rebase"
      BY <1>7 DEF Abort, HeadSafe, HeadCommits, Remembered, NotStopped, Kept, Loses
<1> QED
    BY <1>4, <1>5, <1>6, <1>7

\* Every step leaves HEAD on something and loses only what was to go.
LEMMA NextSafe == RepoTypes /\ ActorTypes /\ HeadSafe /\ Next => HeadSafe' /\ Kept
<1> SUFFICES ASSUME RepoTypes, ActorTypes, HeadSafe, Next PROVE HeadSafe' /\ Kept
    OBVIOUS
<1>1. ASSUME NEW o \in Ops, Tap(o) \/ Check(o) \/ Refresh(o) PROVE HeadSafe' /\ Kept
      BY <1>1, HeadStays DEF Tap, Check, Refresh, repo, refs
<1>2. ASSUME NEW o \in Ops, Git(o) PROVE HeadSafe' /\ Kept
      BY <1>2, GitSafe
<1>3. ASSUME StartRead \/ RefreshHead \/ RefreshLists PROVE HeadSafe' /\ Kept
      BY <1>3, HeadStays DEF StartRead, RefreshHead, RefreshLists, repo, refs
<1>4. ASSUME NEW i \in 1..MaxReads, Assign(i) PROVE HeadSafe' /\ Kept
      BY <1>4, HeadStays DEF Assign, repo, refs
<1>5. ASSUME Save PROVE HeadSafe' /\ Kept
      BY <1>5, HeadStays DEF Save
<1>6. ASSUME NEW n \in LocalNames, Switch(n) PROVE HeadSafe' /\ Kept
  <2>1. HeadCommits' # {}
        BY <1>6, NamesAssumption DEF Switch, HeadCommits
  <2> QED
      BY <1>6, <2>1, HeadSwitched DEF Switch
<1> QED
    BY <1>1, <1>2, <1>3, <1>4, <1>5, <1>6, UserSafe DEF Next

\* HEAD is never on a branch that was deleted under it.
THEOREM HeadStaysThere == Spec => []HeadIsThere
<1>1. Init => HeadSafe
      BY NamesAssumption DEF Init, HeadSafe, HeadCommits, Remembered, NotStopped
<1>2. TypeOK /\ HeadSafe /\ [Next]_vars => HeadSafe'
  <2>1. HeadSafe /\ UNCHANGED vars => HeadSafe'
        BY HeadStays DEF vars, repo, refs
  <2> QED
      BY <2>1, NextSafe, TypeParts
<1>3. HeadSafe => HeadIsThere
      BY DEF HeadSafe, HeadIsThere
<1> QED
    BY <1>1, <1>2, <1>3, TypeCorrect, PTL DEF Spec

\* The branches lose commits only where a deletion or a rebase was asked for.
THEOREM KeepsCommits == Spec => CommitsKept
<1> DEFINE Only == \A c \in Held \ Held' : \E b \in Listed :
                       c \in local[b] /\ (Deletes(b) \/ Rebases(b))
<1>1. Init => HeadSafe
      BY NamesAssumption DEF Init, HeadSafe, HeadCommits, Remembered, NotStopped
<1>2. TypeOK /\ HeadSafe /\ [Next]_vars => HeadSafe'
  <2>1. HeadSafe /\ UNCHANGED vars => HeadSafe'
        BY HeadStays DEF vars, repo, refs
  <2> QED
      BY <2>1, NextSafe, TypeParts
<1>3. TypeOK /\ HeadSafe /\ [Next]_vars => [Only]_vars
  <2> SUFFICES ASSUME TypeOK, HeadSafe, Next PROVE Only
      OBVIOUS
  <2>1. Kept
        BY NextSafe, TypeParts
  <2> SUFFICES ASSUME NEW c \in Held \ Held'
               PROVE  \E b \in Listed : c \in local[b] /\ (Deletes(b) \/ Rebases(b))
      OBVIOUS
  <2>2. PICK b \in Listed : c \in local[b]
        BY DEF Held
  <2>3. b \in LocalNames
        BY DEF Listed
  <2>4. c \notin local'[b]
        BY <2>3 DEF Held, Listed
  <2> QED
      BY <2>1, <2>2, <2>3, <2>4 DEF Kept, Loses
<1> QED
    BY <1>1, <1>2, <1>3, TypeCorrect, PTL DEF Spec, CommitsKept

-----------------------------------------------------------------------------
(* StatusSettles *)

\* The last read started found what there is, and is on time; or its result was shown, what is
\* left is late, and the status is right unless an older read has come in since.
Coming == reads # <<>> /\ reads[Len(reads)] = [dirty |-> Dirty, late |-> FALSE]
Shown == (\A k \in 1..Len(reads) : reads[k].late) /\ (crossed \/ info.status = Dirty)
Settles == ~event => Coming \/ Shown

\* What a read that comes back does to the others.
LEMMA OvertakenIs ==
  ASSUME ShownTypes, NEW i \in 1..MaxReads, Assign(i)
  PROVE  /\ i \in 1..Len(reads)
         /\ (\A k \in 1..Len(reads) : reads[k].late) => \A k \in 1..Len(reads') : reads'[k].late
         /\ i = Len(reads) => \A k \in 1..Len(reads') : reads'[k].late
         /\ i # Len(reads) => reads' # <<>> /\ reads'[Len(reads')] = reads[Len(reads)]
<1> DEFINE mark(k) == [reads[k] EXCEPT !.late = @ \/ k < i]
           m == [k \in DOMAIN reads |-> mark(k)]
<1>1. reads \in Seq(ReadType) /\ i \in 1..Len(reads) /\ Len(reads) \in Nat
      BY DEF ShownTypes, ReadType, Assign
<1>2. ASSUME NEW k \in 1..Len(reads)
      PROVE  /\ mark(k) \in ReadType
             /\ k < i \/ reads[k].late => mark(k).late
             /\ ~(k < i) => mark(k) = reads[k]
  <2>1. reads[k] \in ReadType
        BY <1>1
  <2>2. PICK r \in ReadType : r = reads[k]
        BY <2>1
  <2>3. PICK b \in BOOLEAN : b = (k < i)
    <3>1. (k < i) \in BOOLEAN
          OBVIOUS
    <3> QED
        BY <3>1, Zenon
  <2>4. mark(k) = [r EXCEPT !.late = r.late \/ b]
        BY <2>2, <2>3
  <2>5. r.late \in BOOLEAN /\ r.dirty \in BOOLEAN /\ r = [dirty |-> r.dirty, late |-> r.late]
        BY DEF ReadType
  <2>6. mark(k) = [dirty |-> r.dirty, late |-> r.late \/ b]
        BY <2>4, <2>5
  <2>7. mark(k) \in ReadType
        BY <2>5, <2>6 DEF ReadType
  <2>8. mark(k).late = (r.late \/ b)
        BY <2>6
  <2>9. k < i \/ reads[k].late => mark(k).late
        BY <2>2, <2>3, <2>8
  <2>10. ~b => (r.late \/ b) = r.late
         BY <2>5
  <2>11. ~(k < i) => mark(k) = reads[k]
         BY <2>2, <2>3, <2>5, <2>6, <2>10
  <2> QED
      BY <2>7, <2>9, <2>11
<1> HIDE DEF mark
<1>3. /\ m \in Seq(ReadType) /\ Len(m) = Len(reads)
      /\ \A k \in 1..Len(reads) :
           (k < i \/ reads[k].late => m[k].late) /\ (~(k < i) => m[k] = reads[k])
      BY <1>1, <1>2
<1>4. reads' = RemoveAt(m, i)
      BY DEF Assign, mark
<1> HIDE DEF m
<1>5. /\ reads' \in Seq(ReadType) /\ Len(reads') = Len(reads) - 1
      /\ (\A k \in 1..Len(reads) : reads[k].late) =>
           \A k \in 1..(Len(reads) - 1) : reads'[k].late
      /\ i = Len(reads) => \A k \in 1..(Len(reads) - 1) : reads'[k].late
      /\ i # Len(reads) => reads' # <<>> /\ reads'[Len(reads) - 1] = reads[Len(reads)]
      BY <1>1, <1>3, <1>4, AnsweredIs
<1> QED
    BY <1>1, <1>5

\* A read that starts is the last, and finds what there is.
LEMMA SampleComes ==
  ASSUME RepoTypes, ShownTypes, reads' = Sample, UNCHANGED repo PROVE Coming'
<1> DEFINE r == [dirty |-> Dirty, late |-> FALSE]
<1>1. r \in ReadType
      BY DEF ReadType, Dirty, Stopped, RepoTypes
<1>2. reads \in Seq(ReadType) /\ Len(reads) \in Nat
      BY DEF ShownTypes, ReadType
<1>3. reads' = Append(reads, r)
      BY DEF Sample
<1>4. r = [dirty |-> Dirty', late |-> FALSE]
      BY DEF Dirty, Stopped, repo
<1> HIDE DEF r
<1>5. Len(reads') = Len(reads) + 1 /\ reads'[Len(reads) + 1] = r
      BY <1>1, <1>2, <1>3, AppendIs
<1>6. reads' # <<>> /\ reads'[Len(reads')] = r
      BY <1>2, <1>5
<1> QED
    BY <1>4, <1>6 DEF Coming

\* A read that comes back leaves the last to come, or shows what that found.
LEMMA AssignSettles ==
  ASSUME ShownTypes, Settles, NEW i \in 1..MaxReads, Assign(i) PROVE Settles'
<1>1. /\ info' = [info EXCEPT !.status = reads[i].dirty] /\ crossed' = reads[i].late
      /\ event' = event /\ UNCHANGED repo
      BY DEF Assign
<1>2. Dirty' = Dirty
      BY <1>1 DEF Dirty, Stopped, repo
<1>3. info'.status = reads[i].dirty
      BY <1>1 DEF ShownTypes
<1>4. CASE Coming /\ i # Len(reads)
  <2>1. Coming'
        BY <1>2, <1>4, OvertakenIs DEF Coming
  <2> QED
      BY <2>1 DEF Settles
<1>5. CASE Coming /\ i = Len(reads)
  <2>1. reads[i].dirty = Dirty
        BY <1>5 DEF Coming
  <2>2. info'.status = Dirty'
        BY <1>2, <1>3, <2>1
  <2>3. Shown'
        BY <1>5, <2>2, OvertakenIs DEF Shown
  <2> QED
      BY <2>3 DEF Settles
<1>6. CASE Shown
  <2>1. crossed' /\ \A k \in 1..Len(reads') : reads'[k].late
        BY <1>1, <1>6, OvertakenIs DEF Shown
  <2>2. Shown'
        BY <2>1 DEF Shown
  <2> QED
      BY <2>2 DEF Settles
<1>7. CASE event
      BY <1>1, <1>7 DEF Settles
<1> QED
    BY <1>4, <1>5, <1>6, <1>7 DEF Settles

\* A git command that makes the status another one sends an event.
LEMMA GitTells ==
  ASSUME NEW o \in Ops, Git(o)
  PROVE  UNCHANGED <<info, reads, crossed>> /\ (event' \/ UNCHANGED <<event, changed, stopped>>)
<1>1. CASE Create(o) \/ CreateOut(o) \/ Checkout(o) \/ CheckoutDetached(o)
      BY <1>1, GitShows DEF Create, CreateOut, Checkout, CheckoutDetached, HeadTo
<1>2. CASE CheckoutGuessed(o) \/ CheckoutNew(o) \/ Delete(o) \/ DeleteRemote(o)
      BY <1>2, GitShows DEF CheckoutGuessed, CheckoutNew, Delete, DeleteRemote, HeadTo
<1>3. CASE FastForward(o) \/ Merge(o) \/ Rebase(o) \/ Conflict(o)
      BY <1>3, GitShows DEF FastForward, Merge, Rebase, Conflict
<1>4. CASE PopoverDelete(o) \/ Tag(o) \/ PushTag(o) \/ Fails(o)
      BY <1>4, GitShows DEF PopoverDelete, Tag, PushTag, Fails, shown, repo
<1> QED
    BY <1>1, <1>2, <1>3, <1>4 DEF Git

\* So does the user, and RepositoryInfo changes nothing of the repository.
LEMMA NextSettles == RepoTypes /\ ShownTypes /\ Settles /\ [Next]_vars => Settles'
<1> SUFFICES ASSUME RepoTypes, ShownTypes, Settles, [Next]_vars PROVE Settles'
    OBVIOUS
<1>1. ASSUME UNCHANGED <<event, reads, crossed, changed, stopped>>, info'.status = info.status PROVE Settles'
      BY <1>1 DEF Settles, Coming, Shown, Dirty, Stopped
<1>2. ASSUME event' PROVE Settles'
      BY <1>2 DEF Settles
<1>3. ASSUME NEW o \in Ops, Tap(o) \/ Check(o) PROVE Settles'
      BY <1>1, <1>3 DEF Tap, Check, shown, repo
<1>4. ASSUME NEW o \in Ops, Git(o) PROVE Settles'
      BY <1>1, <1>2, <1>4, GitTells
<1>5. ASSUME NEW o \in Ops, Refresh(o) PROVE Settles'
      BY <1>5, SampleComes DEF Refresh, Settles
<1>6. CASE StartRead
      BY <1>6, SampleComes DEF StartRead, Settles
<1>7. ASSUME NEW i \in 1..MaxReads, Assign(i) PROVE Settles'
      BY <1>7, AssignSettles
<1>8. CASE RefreshHead \/ RefreshLists
  <2>1. info'.status = info.status
        BY <1>8 DEF RefreshHead, RefreshLists, ShownTypes
  <2> QED
      BY <1>1, <1>8, <2>1 DEF RefreshHead, RefreshLists, repo
<1>9. CASE Save \/ Commit \/ Continue \/ Abort
      BY <1>2, <1>9 DEF Save, Commit, Continue, Abort, UserStep
<1>10. ASSUME NEW n \in LocalNames, Switch(n) PROVE Settles'
      BY <1>2, <1>10 DEF Switch, UserStep
<1>11. CASE UNCHANGED vars
      BY <1>1, <1>11 DEF vars, shown, repo
<1> QED
    BY <1>3, <1>4, <1>5, <1>6, <1>7, <1>8, <1>9, <1>10, <1>11 DEF Next

\* The status shown is right once nothing about it is on its way, however many reads ran side
\* by side, unless an older one has come in after a younger.
THEOREM SettlesStatus == Spec => []StatusSettles
<1>1. Init => Settles
  <2> SUFFICES ASSUME Init PROVE Shown
      BY DEF Settles
  <2>1. reads = <<>> /\ info.status = FALSE
        BY DEF Init
  <2>2. changed = FALSE /\ stopped.by = "none"
    <3>1. changed = FALSE
          BY DEF Init
    <3>2. stopped = NotStopped
          BY DEF Init
    <3> QED
        BY <3>1, <3>2 DEF NotStopped
  <2>3. Dirty = FALSE
    <3>1. ~Stopped
          BY <2>2 DEF Stopped
    <3> QED
        BY <2>2, <3>1 DEF Dirty
  <2>4. info.status = Dirty
        BY <2>1, <2>3
  <2>5. \A k \in 1..Len(reads) : reads[k].late
        BY <2>1
  <2> QED
      BY <2>4, <2>5 DEF Shown
<1>2. Settles => StatusSettles
      BY DEF Settles, StatusSettles, Coming, Shown
<1>3. TypeOK /\ Settles /\ [Next]_vars => Settles'
      BY NextSettles, TypeParts
<1> QED
    BY <1>1, <1>2, <1>3, TypeCorrect, PTL DEF Spec

=============================================================================
