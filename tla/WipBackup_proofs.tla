--------------------------- MODULE WipBackup_proofs ---------------------------
(***************************************************************************)
(* What WipBackup guarantees for every repository, every number of Tasks   *)
(* and every interleaving of them.                                         *)
(***************************************************************************)
EXTENDS WipBackup, TLAPS

\* A repository's root commit is a commit.
LEMMA RootIsCommit == RootCommit \in Commit
  BY WipAssumption DEF RootCommit, Commit, Tree, Held

\* createBranch makes a wip branch of the type the model gives them.
LEMMA FreshIsWip ==
  ASSUME NEW b \in Branches, NEW c \in Commit
  PROVE  FreshWip(b, c) \in Wip /\ FreshWip(b, c).live
  BY RootIsCommit DEF FreshWip, Wip, Commit

LEMMA StatusType ==
  ASSUME NEW f \in Files
  PROVE  Status(f) \in Classes
  BY DEF Status, Classes

LEMMA CleanType == Clean \in [Files -> Classes]
  BY DEF Clean, Classes

\* Every state the program starts in has the types TypeOK states.
LEMMA InitTypeOK == Init => TypeOK
<1> SUFFICES ASSUME Init PROVE TypeOK
    OBVIOUS
<1>1. RootCommit \in Commit /\ RootCommit.tree \in Tree
      BY RootIsCommit DEF Commit
<1>2. Main \in Branches /\ FreshWip(Main, RootCommit) \in Wip
      BY <1>1, FreshIsWip, WipAssumption
<1>3. NoWip \in Wip
      BY <1>1 DEF NoWip, Wip
<1>4. wip \in [Branches -> Wip]
      BY <1>2, <1>3 DEF Init
<1>5. status \in [Files -> Classes] /\ Clean \in [Files -> Classes]
      BY StatusType DEF Init, Clean, Classes
<1>6. work \in Tree
      BY WipAssumption DEF Init, Tree, Held
<1> QED
    BY <1>1, <1>2, <1>4, <1>5, <1>6, WipAssumption DEF Init, TypeOK, Held, Actors

\* The user's operations keep the types.
LEMMA UserTypeOK == TypeOK /\ User => TypeOK'
<1> SUFFICES ASSUME TypeOK, User PROVE TypeOK'
    OBVIOUS
<1> USE DEF TypeOK, repoVars, eventVars, infoVars, wipVars, addVars, taskVars, readVars, viewVars,
       auxVars
<1>1. ASSUME NEW f \in Files, NEW c \in Contents \cup {Absent}, Save(f, c) PROVE TypeOK'
      BY <1>1 DEF Save, Operate, Tree, Held
<1>2. ASSUME NEW f \in Files, Add(f) PROVE TypeOK'
      BY <1>2 DEF Add, Operate
<1>3. CASE CommitAll
  <2>1. [f \in Files |-> IF Status(f) = "untracked" THEN Absent ELSE work[f]] \in Tree
        BY DEF Tree, Held
  <2>2. tip' \in [Branches -> Commit]
        BY <1>3, <2>1 DEF CommitAll, Commit
  <2> QED
      BY <1>3, <2>2 DEF CommitAll, Operate
<1>4. ASSUME NEW b \in Branches, Checkout(b) PROVE TypeOK'
  <2>1. work' \in Tree
        BY <1>4 DEF Checkout, Commit, Tree
  <2> QED
      BY <1>4, <2>1 DEF Checkout, Operate
<1> QED
    BY <1>1, <1>2, <1>3, <1>4 DEF User

\* The watchers keep the types.
LEMMA WatchTypeOK ==
  ASSUME TypeOK,
         \/ DropEvents \/ RefreshHead \/ RefreshStatus \/ ToggleAutoCommit
         \/ \E t \in Tasks : DeliverBatch(t)
  PROVE  TypeOK'
<1> USE DEF TypeOK, repoVars, eventVars, infoVars, wipVars, addVars, taskVars, readVars, viewVars,
       auxVars
<1>1. CASE DropEvents
      BY <1>1 DEF DropEvents
<1>2. CASE RefreshHead
      BY <1>2 DEF RefreshHead
<1>3. ASSUME NEW r \in Refreshers, StartRefresh(r) \/ EndRefresh(r) PROVE TypeOK'
  <2>1. \A g \in [Files -> Classes] : [found EXCEPT ![r] = g] \in [Readers -> [Files -> Classes]]
        BY DEF Readers
  <2>2. CASE StartRefresh(r)
    <3>1. [f \in Files |-> Status(f)] \in [Files -> Classes]
          BY StatusType
    <3>2. found' \in [Readers -> [Files -> Classes]] /\ reading' \subseteq Refreshers
          BY <2>1, <2>2, <3>1 DEF StartRefresh
    <3> QED
        BY <2>2, <3>2 DEF StartRefresh
  <2>3. CASE EndRefresh(r)
    <3>1. /\ found' \in [Readers -> [Files -> Classes]] /\ reading' \subseteq Refreshers
          /\ status' \in [Files -> Classes]
          BY <2>1, <2>3, CleanType DEF EndRefresh, Readers
    <3> QED
        BY <2>3, <3>1 DEF EndRefresh
  <2> QED
      BY <1>3, <2>2, <2>3
<1>5. CASE ToggleAutoCommit
      BY <1>5, WipAssumption DEF ToggleAutoCommit
<1>4. ASSUME NEW t \in Tasks, DeliverBatch(t) PROVE TypeOK'
      BY <1>4 DEF DeliverBatch, Actors
<1> QED
    BY <1>1, <1>2, <1>3, <1>4, <1>5 DEF RefreshStatus

\* A Task's steps keep the types.
LEMMA TaskTypeOK ==
  ASSUME TypeOK, NEW t \in Tasks, TaskStep(t)
  PROVE  TypeOK'
<1> USE DEF TypeOK, repoVars, eventVars, infoVars, wipVars, addVars, taskVars, readVars, viewVars,
       auxVars
<1>0. t \in Actors /\ Tasks \subseteq Actors
      BY DEF Actors
<1>1. CASE ReadStatus(t)
      BY <1>0, <1>1, StatusType DEF ReadStatus, Readers
<1>8. CASE AssignStatus(t)
      BY <1>0, <1>8, CleanType DEF AssignStatus, Readers
<1>2. CASE HandlePath(t)
  <2> PICK f \in todo[t] :
             /\ todo' = [todo EXCEPT ![t] = @ \ {f}]
             /\ misjudged' = IF Misjudges(f) THEN misjudged \cup {f} ELSE misjudged \ {f}
             /\ DropCopy(t, f) \/ DropFails(f) \/ WillCopy(t, f)
      BY <1>2 DEF HandlePath
  <2>1. f \in Files /\ misjudged' \subseteq Files
        OBVIOUS
  <2>2. CASE DropCopy(t, f)
        BY <1>2, <2>1, <2>2 DEF HandlePath, DropCopy, Tree, Held
  <2>3. CASE WillCopy(t, f)
        BY <1>0, <1>2, <2>1, <2>3 DEF HandlePath, WillCopy
  <2>4. CASE DropFails(f)
        BY <1>2, <2>1, <2>4 DEF HandlePath, DropFails
  <2> QED
      BY <2>2, <2>3, <2>4
<1>3. CASE ReadFails(t)
      BY <1>0, <1>3 DEF ReadFails, NextPath
<1>4. CASE SameHash(t)
      BY <1>0, <1>4 DEF SameHash, NextPath
<1>5. CASE ReadPath(t)
      BY <1>0, <1>5 DEF ReadPath, Tree
<1>6. CASE WriteCopy(t)
  <2>1. path[t] \in Files /\ contents[t] \in Held
        BY <1>0, <1>6 DEF WriteCopy
  <2>2. wt' \in Tree /\ failed' \subseteq Files
        BY <1>6, <2>1 DEF WriteCopy, Tree
  <2>3. contents' \in [Tasks -> Held]
        BY <1>6 DEF WriteCopy, Held
  <2>4. /\ pc' = [pc EXCEPT ![t] = "paths"]
        /\ path' = [path EXCEPT ![t] = None]
        BY <1>6 DEF WriteCopy, NextPath
  <2> QED
      BY <1>0, <1>6, <2>2, <2>3, <2>4 DEF WriteCopy
<1>7. CASE EndBatch(t)
      BY <1>0, <1>7 DEF EndBatch
<1> QED
    BY <1>1, <1>2, <1>3, <1>4, <1>5, <1>6, <1>7, <1>8 DEF TaskStep

\* addWipCommit, and the button, keep the types.
LEMMA AddTypeOK ==
  ASSUME TypeOK, NEW a \in Actors, ManualCommit \/ AddWipCommit(a)
  PROVE  TypeOK'
<1> USE DEF TypeOK, repoVars, eventVars, infoVars, wipVars, addVars, taskVars, readVars, viewVars,
       auxVars
<1>0. UI \in Actors /\ Main \in Branches
      BY WipAssumption DEF Actors
<1>1. CASE ManualCommit
      BY <1>0, <1>1 DEF ManualCommit
<1>2. CASE Lock(a)
      BY <1>2 DEF Lock
<1>3. CASE SwitchBranch(a)
  <2> DEFINE b == info.branch
             branches == IF wip[b].live THEN wip ELSE [wip EXCEPT ![b] = FreshWip(b, info.commit)]
  <2>1. branches \in [Branches -> Wip]
        BY FreshIsWip
  <2>2. ForcedCheckout(wtHead, b, branches) \in Tree
        BY <2>1 DEF ForcedCheckout, Wip, Tree, Held
  <2>3. wip' \in [Branches -> Wip] /\ wt' \in Tree
        BY <1>3, <2>1, <2>2 DEF SwitchBranch
  <2>4. wip[wtHead].time \in Nat
        BY DEF Wip
  <2> QED
      BY <1>3, <2>3, <2>4 DEF SwitchBranch
<1>4. CASE CommitWip(a)
  <2>0. wip[wtHead] \in Wip /\ wt \in Tree /\ clock \in Nat
        OBVIOUS
  <2>1. [wip[wtHead] EXCEPT !.tree = wt, !.time = clock, !.log = @ \cup {wt}] \in Wip
        BY ONLY <2>0 DEF Wip
  <2>2. wip' = [wip EXCEPT ![wtHead] =
                  [wip[wtHead] EXCEPT !.tree = wt, !.time = clock, !.log = @ \cup {wt}]]
        BY <1>4 DEF CommitWip, Wip
  <2>3. wip' \in [Branches -> Wip]
        BY <2>1, <2>2
  <2>4. /\ pc' = [pc EXCEPT ![a] = "merge"] /\ declined' = FALSE
        /\ UNCHANGED <<repoVars, eventVars, infoVars, wt, wtHead, addVars, todo, path, contents,
                       changes, readVars, viewVars, crashed, failed, misjudged>>
        BY <1>4 DEF CommitWip
  <2>5. pc' \in [Actors -> {"idle", "status", "assign", "paths", "read", "read!", "write", "lock",
                           "switch", "commit", "merge", "unlock"}]
        BY <2>4
  <2>6. \A t \in Tasks : pc'[t] \in {"read", "read!", "write"} => path'[t] \in Files
        BY <2>4
  <2> QED
      BY <2>3, <2>4, <2>5, <2>6
<1>5. CASE MergeHead(a)
  <2> DEFINE w == wip[wtHead]
             b == info.branch
             c == info.commit
             merged == [f \in Files |-> MergedFile(w, b, c, f)]
             next == [w EXCEPT !.tree = merged, !.time = clock, !.log = @ \cup {merged},
                               !.merged[b] = c]
  <2>1. w \in Wip /\ b \in Branches /\ c \in Commit
        OBVIOUS
  <2>2. merged \in Tree
        BY <2>1 DEF MergedFile, Wip, Commit, Tree
  <2>3. next \in Wip
    <3> HIDE DEF merged
    <3>1. clock \in Nat
          OBVIOUS
    <3>2. [w.merged EXCEPT ![b] = c] \in [Branches -> Commit]
          BY ONLY <2>1 DEF Wip
    <3> QED
        BY ONLY <2>1, <2>2, <3>1, <3>2 DEF Wip
  <2>4. \A f \in Files : OnDisk(w, b, c, f) \in Held
        BY <2>1 DEF OnDisk, Wip, Commit, Tree, Held
  <2>5. \/ /\ wip' = [wip EXCEPT ![wtHead] = next]
           /\ wt' = [f \in Files |-> OnDisk(w, b, c, f)]
        \/ /\ wip' = wip
           /\ \E some \in SUBSET Files :
                  wt' = [f \in Files |-> IF f \in some THEN OnDisk(w, b, c, f) ELSE wt[f]]
        \/ wip' = wip /\ wt' = wt
        BY <1>5 DEF MergeHead
  <2>6. wip' \in [Branches -> Wip]
    <3> HIDE DEF next
    <3> QED
        BY <2>3, <2>5
  <2>7. wt' \in Tree
        BY <2>4, <2>5 DEF Tree
  <2>8. declined' \in BOOLEAN
        BY <1>5 DEF MergeHead
  <2>9. /\ pc' = [pc EXCEPT ![a] = "unlock"]
        /\ UNCHANGED <<repoVars, eventVars, infoVars, wtHead, addVars, todo, path, contents,
                       changes, readVars, viewVars, crashed, failed, misjudged>>
        BY <1>5 DEF MergeHead
  <2> QED
      BY <2>6, <2>7, <2>8, <2>9
<1>6. CASE Unlock(a)
      BY <1>0, <1>6 DEF Unlock
<1> QED
    BY <1>1, <1>2, <1>3, <1>4, <1>5, <1>6 DEF AddWipCommit

\* Looking at wip commits keeps the types.
LEMMA ViewTypeOK == TypeOK /\ Viewer => TypeOK'
<1> SUFFICES ASSUME TypeOK, Viewer PROVE TypeOK'
    OBVIOUS
<1> USE DEF TypeOK, repoVars, eventVars, infoVars, wipVars, addVars, taskVars, readVars, viewVars,
       auxVars
<1>1. ASSUME NEW b \in Branches, View(b) PROVE TypeOK'
      BY <1>1 DEF View
<1>2. CASE CreateWip
  <2>0. FreshWip(viewBranch, viewOid) \in Wip
        BY FreshIsWip
  <2>1. wip' \in [Branches -> Wip]
    <3>1. CASE wtHead = viewBranch
          BY <1>2, <3>1 DEF CreateWip
    <3>2. CASE wtHead # viewBranch
          BY <1>2, <2>0, <3>2 DEF CreateWip
    <3> QED
        BY <3>1, <3>2
  <2>2. Main \in Branches /\ RootCommit \in Commit
        BY RootIsCommit, WipAssumption
  <2>3. /\ viewPc' = "idle" /\ viewBranch' = Main /\ viewOid' = RootCommit
        /\ crashed' \in BOOLEAN
        BY <1>2 DEF CreateWip
  <2> QED
      BY <1>2, <2>1, <2>2, <2>3 DEF CreateWip
<1> QED
    BY <1>1, <1>2 DEF Viewer

\* Every step keeps the types.
LEMMA StepTypeOK == TypeOK /\ [Next]_vars => TypeOK'
<1> SUFFICES ASSUME TypeOK, [Next]_vars PROVE TypeOK'
    OBVIOUS
<1>1. CASE UNCHANGED vars
      BY <1>1 DEF TypeOK, vars, repoVars, eventVars, infoVars, wipVars, addVars, taskVars,
                  readVars, viewVars, auxVars
<1>2. CASE Next
      BY <1>2, UserTypeOK, WatchTypeOK, TaskTypeOK, AddTypeOK, ViewTypeOK, WipAssumption
      DEF Next, Actors
<1> QED
    BY <1>1, <1>2

\* Every variable keeps to the values its counterpart in the source may hold, whatever the
\* user, the watchers, the Tasks and the views do.
THEOREM TypeCorrect == Spec => []TypeOK
  BY InitTypeOK, StepTypeOK, PTL DEF Spec

----------------------------------------------------------------------------
(* wipCommitLock.                                                          *)

\* The program counters outside addWipCommit.
Outside == {"idle", "status", "assign", "paths", "read", "read!", "write", "lock"}

\* A step that leaves the lock, the worktree's HEAD, the wip branches and the locals of
\* addWipCommit alone, and moves no one into or out of addWipCommit, keeps AddInv.
LEMMA ApartKeepsAddInv ==
  ASSUME AddInv, TypeOK', UNCHANGED <<wipCommitLock, target, wtHead, wip>>,
         \A a \in Actors : pc'[a] = pc[a] \/ (pc[a] \in Outside /\ pc'[a] \in Outside)
  PROVE  AddInv'
<1>1. \A a \in Actors : InAdd(a)' <=> InAdd(a)
      BY DEF InAdd, Outside
<1>2. Exclusive'
      BY <1>1 DEF AddInv, Exclusive
<1>3. CommitsOnItsBranch'
      BY DEF AddInv, CommitsOnItsBranch, Outside
<1>4. NoBranchNoCommits'
      BY DEF AddInv, NoBranchNoCommits
<1> QED
    BY <1>2, <1>3, <1>4 DEF AddInv

LEMMA InitAddInv == Init => AddInv
<1> SUFFICES ASSUME Init PROVE AddInv
    OBVIOUS
<1>1. TypeOK
      BY InitTypeOK
<1>2. Exclusive
      BY WipAssumption DEF Init, Exclusive, InAdd
<1>3. CommitsOnItsBranch
      BY DEF Init, CommitsOnItsBranch
<1>4. NoBranchNoCommits
      BY DEF Init, NoBranchNoCommits, FreshWip, NoWip
<1> QED
    BY <1>1, <1>2, <1>3, <1>4 DEF AddInv

\* Nobody but the caller of addWipCommit, and a view that creates a wip branch, touches what
\* AddInv speaks of.
LEMMA OthersKeepAddInv ==
  ASSUME AddInv, TypeOK',
         \/ User \/ DropEvents \/ RefreshHead \/ RefreshStatus \/ ToggleAutoCommit \/ ManualCommit
         \/ \E t \in Tasks : DeliverBatch(t) \/ TaskStep(t)
         \/ \E b \in Branches : View(b)
  PROVE  AddInv'
<1> USE DEF repoVars, eventVars, infoVars, wipVars, addVars, taskVars, readVars, viewVars,
           auxVars
<1>0. pc \in [Actors -> Outside \cup {"switch", "commit", "merge", "unlock"}]
      BY DEF AddInv, TypeOK, Outside
<1>1. CASE \/ User \/ DropEvents \/ RefreshHead \/ RefreshStatus \/ ToggleAutoCommit
           \/ \E b \in Branches : View(b)
      BY <1>1, ApartKeepsAddInv
      DEF User, Save, Add, CommitAll, Checkout, DropEvents, RefreshHead, RefreshStatus,
          StartRefresh, EndRefresh, ToggleAutoCommit, View
<1>2. CASE ManualCommit
      BY <1>0, <1>2, ApartKeepsAddInv DEF ManualCommit, Outside, Actors
<1>3. ASSUME NEW t \in Tasks, DeliverBatch(t) PROVE AddInv'
      BY <1>0, <1>3, ApartKeepsAddInv DEF DeliverBatch, Outside, Actors
<1>4. ASSUME NEW t \in Tasks, TaskStep(t) PROVE AddInv'
  <2>1. t \in Actors
        BY DEF Actors
  <2>2. UNCHANGED <<wipCommitLock, target, wtHead, wip>>
        BY <1>4 DEF TaskStep, ReadStatus, AssignStatus, HandlePath, ReadFails, SameHash,
                    ReadPath, WriteCopy,
                    EndBatch
  <2>3. pc' = pc \/ (pc[t] \in Outside /\ \E s \in Outside : pc' = [pc EXCEPT ![t] = s])
    <3>1. CASE HandlePath(t)
          BY <3>1 DEF HandlePath, DropCopy, DropFails, WillCopy, Outside
    <3>2. CASE ReadStatus(t) \/ AssignStatus(t) \/ ReadFails(t) \/ SameHash(t)
          BY <3>2 DEF ReadStatus, AssignStatus, ReadFails, SameHash, NextPath, Outside
    <3>3. CASE ReadPath(t) \/ WriteCopy(t) \/ EndBatch(t)
          BY <3>3 DEF ReadPath, WriteCopy, EndBatch, NextPath, Outside
    <3> QED
        BY <1>4, <3>1, <3>2, <3>3 DEF TaskStep
  <2> QED
      BY <1>0, <2>1, <2>2, <2>3, ApartKeepsAddInv
<1> QED
    BY <1>1, <1>2, <1>3, <1>4

\* A merge touches no wip branch but the worktree's, which stays and keeps its commits.
LEMMA MergeGrows ==
  ASSUME wip \in [Branches -> Wip], wtHead \in Branches, NEW a \in Actors, MergeHead(a)
  PROVE  /\ \A x \in Branches \ {wtHead} : wip'[x] = wip[x]
         /\ wip'[wtHead].live = wip[wtHead].live
         /\ wip[wtHead].log \subseteq wip'[wtHead].log
<1> DEFINE w == wip[wtHead]
           c == info.commit
           merged == [f \in Files |-> MergedFile(w, info.branch, c, f)]
           next == [w EXCEPT !.tree = merged, !.time = clock, !.log = @ \cup {merged},
                             !.merged[info.branch] = c]
<1>1. w \in Wip
      OBVIOUS
<1>2. next.live = w.live /\ w.log \subseteq next.log
      BY <1>1 DEF Wip
<1>3. wip' = wip \/ wip' = [wip EXCEPT ![wtHead] = next]
      BY DEF MergeHead
<1> HIDE DEF next
<1> QED
    BY <1>2, <1>3

\* Inside addWipCommit, alone.
LEMMA Alone ==
  ASSUME AddInv, NEW a \in Actors, InAdd(a)
  PROVE  wipCommitLock = a /\ \A c \in Actors \ {a} : ~InAdd(c)
  BY DEF AddInv, Exclusive

\* The steps of addWipCommit keep AddInv.
LEMMA AddKeepsAddInv ==
  ASSUME AddInv, TypeOK', NEW a \in Actors, AddWipCommit(a)
  PROVE  AddInv'
<1> USE DEF repoVars, eventVars, infoVars, wipVars, addVars, taskVars, readVars, viewVars,
           auxVars
<1>0. /\ pc \in [Actors -> Outside \cup {"switch", "commit", "merge", "unlock"}]
      /\ target \in [Actors -> Branches] /\ wip \in [Branches -> Wip] /\ wtHead \in Branches
      /\ info.branch \in Branches
      BY DEF AddInv, TypeOK, Outside
<1>1. CASE Lock(a)
  <2>1. Exclusive'
        BY <1>0, <1>1, WipAssumption DEF AddInv, Exclusive, InAdd, Lock
  <2>2. CommitsOnItsBranch' /\ NoBranchNoCommits'
        BY <1>0, <1>1 DEF AddInv, CommitsOnItsBranch, NoBranchNoCommits, Lock
  <2> QED
      BY <2>1, <2>2 DEF AddInv
<1>2. CASE SwitchBranch(a)
  <2> DEFINE b == info.branch
             branches == IF wip[b].live THEN wip ELSE [wip EXCEPT ![b] = FreshWip(b, info.commit)]
  <2>1. InAdd(a) /\ InAdd(a)' /\ \A c \in Actors \ {a} : InAdd(c)' <=> InAdd(c)
        BY <1>0, <1>2 DEF SwitchBranch, InAdd
  <2>2. Exclusive'
        BY <1>2, <2>1 DEF AddInv, Exclusive, SwitchBranch
  <2>3. /\ wip' = branches /\ wtHead' = b /\ target' = [target EXCEPT ![a] = b]
        /\ pc' = [pc EXCEPT ![a] = "commit"]
        BY <1>2 DEF SwitchBranch
  <2>4. FreshWip(b, info.commit).live
        BY DEF FreshWip
  <2>5. branches[b].live /\ \A x \in Branches \ {b} : branches[x] = wip[x]
        BY <1>0, <2>4
  <2>6. CommitsOnItsBranch'
    <3> SUFFICES ASSUME NEW c \in Actors, pc'[c] \in {"commit", "merge", "unlock"}
                 PROVE  wtHead' = target'[c] /\ wip'[wtHead'].live
        BY DEF CommitsOnItsBranch
    <3>1. c = a
          BY <1>0, <2>1, <2>3, Alone DEF InAdd
    <3> QED
        BY <1>0, <2>3, <2>5, <3>1
  <2>7. NoBranchNoCommits'
        BY <2>3, <2>5 DEF AddInv, NoBranchNoCommits
  <2> QED
      BY <2>2, <2>6, <2>7 DEF AddInv
<1>3. CASE CommitWip(a) \/ MergeHead(a)
  <2>1. InAdd(a) /\ \A c \in Actors : InAdd(c)' <=> InAdd(c)
        BY <1>0, <1>3 DEF CommitWip, MergeHead, InAdd
  <2>2. Exclusive'
        BY <1>3, <2>1 DEF AddInv, Exclusive, CommitWip, MergeHead
  <2>3. wtHead = target[a] /\ wip[wtHead].live
        BY <1>3 DEF AddInv, CommitsOnItsBranch, CommitWip, MergeHead
  <2>4. wip'[wtHead].live /\ \A x \in Branches \ {wtHead} : wip'[x] = wip[x]
    <3>1. CASE CommitWip(a)
          BY <1>0, <2>3, <3>1 DEF CommitWip, Wip
    <3>2. CASE MergeHead(a)
          BY <1>0, <2>3, <3>2, MergeGrows
    <3> QED
        BY <1>3, <3>1, <3>2
  <2>5. UNCHANGED <<wtHead, target>> /\ \A c \in Actors \ {a} : pc'[c] = pc[c]
        BY <1>0, <1>3 DEF CommitWip, MergeHead
  <2>6. CommitsOnItsBranch'
        BY <2>1, <2>3, <2>4, <2>5, Alone DEF CommitsOnItsBranch, InAdd
  <2>7. NoBranchNoCommits'
        BY <2>4 DEF AddInv, NoBranchNoCommits
  <2> QED
      BY <2>2, <2>6, <2>7 DEF AddInv
<1>4. CASE Unlock(a)
  <2>1. InAdd(a) /\ ~InAdd(a)' /\ \A c \in Actors \ {a} : pc'[c] = pc[c]
        BY <1>0, <1>4 DEF Unlock, InAdd
  <2>2. \A c \in Actors : ~InAdd(c)'
        BY <2>1, Alone DEF InAdd
  <2>3. Exclusive'
        BY <1>4, <2>2, WipAssumption DEF Exclusive, Unlock
  <2>4. CommitsOnItsBranch'
        BY <2>2 DEF CommitsOnItsBranch, InAdd
  <2>5. NoBranchNoCommits'
        BY <1>4 DEF AddInv, NoBranchNoCommits, Unlock
  <2> QED
      BY <2>3, <2>4, <2>5 DEF AddInv
<1> QED
    BY <1>1, <1>2, <1>3, <1>4 DEF AddWipCommit

\* A view that creates a wip branch leaves the branch the worktree is on alone.
LEMMA CreateKeepsAddInv ==
  ASSUME AddInv, TypeOK', CreateWip
  PROVE  AddInv'
<1>1. UNCHANGED <<wtHead, wipCommitLock, target, pc>>
      BY DEF CreateWip, addVars, taskVars
<1>2. \A b \in Branches : \/ wip'[b] = wip[b]
                          \/ b # wtHead /\ wip'[b].live
      BY DEF CreateWip, FreshWip, AddInv, TypeOK
<1>3. Exclusive'
      BY <1>1 DEF AddInv, Exclusive, InAdd
<1>4. CommitsOnItsBranch'
      BY <1>1, <1>2 DEF AddInv, CommitsOnItsBranch, TypeOK
<1>5. NoBranchNoCommits'
      BY <1>2 DEF AddInv, NoBranchNoCommits
<1> QED
    BY <1>3, <1>4, <1>5 DEF AddInv

\* AddInv is inductive.
LEMMA StepAddInv == AddInv /\ [Next]_vars => AddInv'
<1> SUFFICES ASSUME AddInv, [Next]_vars PROVE AddInv'
    OBVIOUS
<1>1. TypeOK'
      BY StepTypeOK DEF AddInv
<1>2. CASE UNCHANGED vars
      BY <1>1, <1>2, ApartKeepsAddInv DEF vars, addVars, wipVars, taskVars
<1>3. CASE Next
      BY <1>1, <1>3, OthersKeepAddInv, AddKeepsAddInv, CreateKeepsAddInv DEF Next, Viewer
<1> QED
    BY <1>2, <1>3

\* AddInv holds in every state the program reaches.
THEOREM AddInvAlways == Spec => []AddInv
  BY InitAddInv, StepAddInv, PTL DEF Spec

\* However many Tasks run, each wip commit is made on the wip branch of the HEAD its caller
\* read, in a worktree nobody switches meanwhile: wipCommitLock does what it is there for.
THEOREM LockKeepsBranch == Spec => []CommitsOnItsBranch
<1>1. AddInv => CommitsOnItsBranch
      BY DEF AddInv
<1> QED
    BY <1>1, AddInvAlways, PTL

----------------------------------------------------------------------------
(* Wip branches only grow, but for the forced creation.                    *)

\* A wip branch loses commits only by getWipCommits creating it by force, on a look-up that
\* another caller has overtaken; automatic and manual wip commits never lose any.
THEOREM LossOnlyByForce == Spec => OnlyForcedCreateLosesCommits
<1> DEFINE Keeps == \A b \in Branches : \/ wip[b].log \subseteq wip'[b].log
                                        \/ viewPc = "create" /\ b = viewBranch /\ b # wtHead
<1> USE DEF repoVars, eventVars, infoVars, wipVars, addVars, taskVars, readVars, viewVars,
           auxVars
<1>1. AddInv /\ [Next]_vars => [Keeps]_vars
  <2> SUFFICES ASSUME AddInv, Next PROVE Keeps
      OBVIOUS
  <2>0. wip \in [Branches -> Wip] /\ wtHead \in Branches /\ info.branch \in Branches
        BY DEF AddInv, TypeOK
  <2>1. CASE User \/ DropEvents \/ RefreshHead \/ RefreshStatus \/ ToggleAutoCommit \/ ManualCommit
        BY <2>1 DEF User, Save, Add, CommitAll, Checkout, DropEvents, RefreshHead, RefreshStatus,
                    StartRefresh, EndRefresh, ToggleAutoCommit,
                    ManualCommit
  <2>2. ASSUME NEW t \in Tasks, DeliverBatch(t) \/ TaskStep(t) PROVE Keeps
        BY <2>2 DEF DeliverBatch, TaskStep, ReadStatus, AssignStatus, HandlePath, ReadFails,
                    SameHash,
                    ReadPath, WriteCopy, EndBatch
  <2>3. ASSUME NEW a \in Actors, Lock(a) \/ Unlock(a) PROVE Keeps
        BY <2>3 DEF Lock, Unlock
  <2>4. ASSUME NEW a \in Actors, SwitchBranch(a) PROVE Keeps
        BY <2>0, <2>4 DEF AddInv, NoBranchNoCommits, SwitchBranch
  <2>5. ASSUME NEW a \in Actors, CommitWip(a) PROVE Keeps
        BY <2>0, <2>5 DEF CommitWip, Wip
  <2>6. ASSUME NEW a \in Actors, MergeHead(a) PROVE Keeps
        BY <2>0, <2>6, MergeGrows
  <2>7. CASE Viewer
        BY <2>0, <2>7 DEF Viewer, View, CreateWip
  <2> QED
      BY <2>1, <2>2, <2>3, <2>4, <2>5, <2>6, <2>7 DEF Next, AddWipCommit
<1> QED
    BY <1>1, AddInvAlways, PTL DEF Spec, OnlyForcedCreateLosesCommits

----------------------------------------------------------------------------
(* Nothing copied stays uncommitted.                                       *)

\* The program counters at which a Task goes through its batch.
Working == {"paths", "read", "read!", "write"}

\* The actor will commit the worktree as it is, or has noted that it is to be committed.
WillCommit(a) == pc[a] \in {"lock", "switch", "commit"} \/ (a \in Tasks /\ changes[a])

\* What the last commit leaves of f in the worktree.
Settled(f) == wt[f] \in {wip[wtHead].tree[f], Marked} \/ wip[wtHead].tree[f] = Absent

\* Only a Task that is at its batch has noted changes.
Noted == \A t \in Tasks : changes[t] => pc[t] \in Working

\* Why QuietMeansCommitted holds: a file that differs from the last commit has someone who
\* will commit it, or was left by someone who would not.
Promised == declined \/ (\A f \in Files : Settled(f)) \/ (\E a \in Actors : WillCommit(a))
SettleInv == TypeOK /\ Noted /\ Promised

LEMMA InitSettleInv == Init => SettleInv
<1> SUFFICES ASSUME Init PROVE SettleInv
    OBVIOUS
<1>1. TypeOK
      BY InitTypeOK
<1>2. Noted
      BY DEF Init, Noted
<1>3. \A f \in Files : Settled(f)
  <2>1. wip[wtHead] = FreshWip(Main, RootCommit)
        BY WipAssumption DEF Init
  <2>2. wip[wtHead].tree = wt
        BY <2>1 DEF Init, FreshWip
  <2> QED
      BY <2>2 DEF Settled
<1> QED
    BY <1>1, <1>2, <1>3 DEF SettleInv, Promised

\* Of the steps that leave the worktree and the branch it is on alone, those keep SettleInv
\* that break no promise.
LEMMA ApartKeepsSettleInv ==
  ASSUME SettleInv, TypeOK', Noted', UNCHANGED <<wt, wtHead>>, declined => declined',
         wip'[wtHead] = wip[wtHead],
         \A a \in Actors : WillCommit(a) => WillCommit(a)'
  PROVE  SettleInv'
<1>1. \A f \in Files : Settled(f) => Settled(f)'
      BY DEF Settled
<1> QED
    BY <1>1 DEF SettleInv, Promised

\* The user, the watchers, the views and the button.
LEMMA OthersKeepSettleInv ==
  ASSUME SettleInv, TypeOK',
         \/ User \/ DropEvents \/ RefreshHead \/ RefreshStatus \/ ToggleAutoCommit
         \/ ManualCommit \/ Viewer
         \/ \E t \in Tasks : DeliverBatch(t)
  PROVE  SettleInv'
<1> USE DEF repoVars, eventVars, infoVars, wipVars, addVars, taskVars, readVars, viewVars,
           auxVars
<1>0. /\ pc \in [Actors -> Outside \cup {"switch", "commit", "merge", "unlock"}]
      /\ wip \in [Branches -> Wip] /\ wtHead \in Branches /\ Noted
      /\ UI \in Actors /\ UI \notin Tasks /\ Tasks \subseteq Actors
      BY WipAssumption DEF SettleInv, TypeOK, Outside, Actors
<1>1. CASE User \/ DropEvents \/ RefreshHead \/ RefreshStatus \/ ToggleAutoCommit \/ Viewer
  <2>1. UNCHANGED <<declined, wt, wtHead, pc, changes>> /\ wip'[wtHead] = wip[wtHead]
        BY <1>0, <1>1
        DEF User, Save, Add, CommitAll, Checkout, DropEvents, RefreshHead, RefreshStatus,
            StartRefresh, EndRefresh, ToggleAutoCommit, Viewer,
            View, CreateWip
  <2>2. Noted' /\ \A a \in Actors : WillCommit(a) => WillCommit(a)'
        BY <1>0, <2>1 DEF Noted, WillCommit
  <2> QED
      BY <2>1, <2>2, ApartKeepsSettleInv
<1>2. CASE ManualCommit
  <2>1. UNCHANGED <<declined, wt, wtHead, changes, wip>> /\ pc' = [pc EXCEPT ![UI] = "lock"]
        BY <1>2 DEF ManualCommit
  <2>2. Noted' /\ \A a \in Actors : WillCommit(a) => WillCommit(a)'
        BY <1>0, <2>1 DEF Noted, WillCommit
  <2> QED
      BY <2>1, <2>2, ApartKeepsSettleInv
<1>3. ASSUME NEW t \in Tasks, DeliverBatch(t) PROVE SettleInv'
  <2>1. /\ UNCHANGED <<declined, wt, wtHead, changes, wip>>
        /\ pc[t] = "idle" /\ pc' = [pc EXCEPT ![t] = "status"]
        BY <1>3 DEF DeliverBatch
  <2>2. Noted' /\ \A a \in Actors : WillCommit(a) => WillCommit(a)'
        BY <1>0, <2>1 DEF Noted, WillCommit, Working
  <2> QED
      BY <2>1, <2>2, ApartKeepsSettleInv
<1> QED
    BY <1>1, <1>2, <1>3

\* A Task notes every file it changes in the worktree, and goes on to commit what it noted.
LEMMA TaskKeepsSettleInv ==
  ASSUME SettleInv, TypeOK', NEW t \in Tasks, TaskStep(t)
  PROVE  SettleInv'
<1> USE DEF repoVars, eventVars, infoVars, wipVars, addVars, taskVars, readVars, viewVars,
           auxVars
<1>0. /\ pc \in [Actors -> Outside \cup {"switch", "commit", "merge", "unlock"}]
      /\ wip \in [Branches -> Wip] /\ wtHead \in Branches /\ Noted /\ autoCommit \in BOOLEAN
      /\ t \in Actors /\ Tasks \subseteq Actors
      /\ wt \in [Files -> Held] /\ changes \in [Tasks -> BOOLEAN]
      BY DEF SettleInv, TypeOK, Outside, Actors, Tree
<1>1. CASE ReadStatus(t) \/ AssignStatus(t) \/ ReadFails(t) \/ SameHash(t) \/ ReadPath(t)
  <2>1. /\ UNCHANGED <<declined, wt, wtHead, changes, wip>>
        /\ pc[t] \in Outside \ {"lock"}
        /\ \/ pc[t] = "status" /\ pc' = [pc EXCEPT ![t] = "assign"]
           \/ \E s \in Working : pc' = [pc EXCEPT ![t] = s]
        BY <1>1
        DEF ReadStatus, AssignStatus, ReadFails, SameHash, ReadPath, NextPath, Working, Outside
  <2>2. Noted' /\ \A a \in Actors : WillCommit(a) => WillCommit(a)'
        BY <1>0, <2>1 DEF Noted, WillCommit, Outside, Working
  <2> QED
      BY <2>1, <2>2, ApartKeepsSettleInv
<1>2. CASE HandlePath(t)
  <2> PICK f \in todo[t] : DropCopy(t, f) \/ DropFails(f) \/ WillCopy(t, f)
      BY <1>2 DEF HandlePath
  <2>0. f \in Files /\ pc[t] = "paths" /\ UNCHANGED <<declined, wtHead, wip>>
        BY <1>2 DEF HandlePath, SettleInv, TypeOK
  <2>1. CASE WillCopy(t, f)
    <3>1. /\ UNCHANGED <<wt, changes>>
          /\ \E s \in Working : pc' = [pc EXCEPT ![t] = s]
          BY <2>1 DEF WillCopy, Working
    <3>2. Noted' /\ \A a \in Actors : WillCommit(a) => WillCommit(a)'
          BY <1>0, <2>0, <3>1 DEF Noted, WillCommit
    <3> QED
        BY <2>0, <3>1, <3>2, ApartKeepsSettleInv
  <2>3. CASE DropFails(f)
    <3>1. UNCHANGED <<wt, changes, pc>>
          BY <1>2, <2>3 DEF HandlePath, DropFails
    <3>2. Noted' /\ \A a \in Actors : WillCommit(a) => WillCommit(a)'
          BY <1>0, <3>1 DEF Noted, WillCommit
    <3> QED
        BY <2>0, <3>1, <3>2, ApartKeepsSettleInv
  <2>2. CASE DropCopy(t, f)
    <3>1. /\ UNCHANGED pc /\ wt' = [wt EXCEPT ![f] = Absent]
          /\ changes' = [changes EXCEPT ![t] = @ \/ wt[f] # Absent]
          BY <2>2 DEF DropCopy
    <3>2. \A a \in Tasks : changes[a] => changes'[a]
          BY <1>0, <3>1, Zenon
    <3>3. \A a \in Tasks : a = t \/ changes'[a] = changes[a]
          BY <1>0, <3>1
    <3>4. Noted'
          BY <1>0, <2>0, <3>1, <3>3 DEF Noted, Working
    <3>5. \A a \in Actors : WillCommit(a) => WillCommit(a)'
          BY <3>1, <3>2 DEF WillCommit
    <3>6. CASE wt[f] = Absent
      <4>1. wt' = wt
            BY <1>0, <3>1, <3>6
      <4> QED
          BY <2>0, <3>4, <3>5, <4>1, ApartKeepsSettleInv
    <3>7. CASE wt[f] # Absent
      <4>1. changes'[t]
            BY <1>0, <3>1, <3>7, Zenon
      <4>2. WillCommit(t)'
            BY <4>1 DEF WillCommit
      <4> QED
          BY <1>0, <3>4, <4>2 DEF SettleInv, Promised
    <3> QED
        BY <3>6, <3>7
  <2> QED
      BY <2>1, <2>2, <2>3
<1>3. CASE WriteCopy(t)
  <2>1. /\ pc' = [pc EXCEPT ![t] = "paths"]
        /\ changes' = [changes EXCEPT ![t] = TRUE]
        BY <1>3 DEF WriteCopy, NextPath
  <2>2. Noted' /\ WillCommit(t)'
        BY <1>0, <2>1 DEF Noted, WillCommit, Working
  <2> QED
      BY <1>0, <2>2 DEF SettleInv, Promised
<1>4. CASE EndBatch(t)
  <2>1. /\ pc[t] = "paths" /\ UNCHANGED <<wt, wtHead, wip>>
        /\ pc' = [pc EXCEPT ![t] = IF changes[t] /\ autoCommit THEN "lock" ELSE "idle"]
        /\ changes' = [changes EXCEPT ![t] = FALSE]
        BY <1>4 DEF EndBatch
  <2>2. ~changes'[t] /\ \A a \in Tasks \ {t} : changes'[a] = changes[a]
        BY <1>0, <2>1
  <2>3. \A a \in Actors \ {t} : pc'[a] = pc[a]
        BY <1>0, <2>1
  <2>4. Noted'
        BY <1>0, <2>2, <2>3 DEF Noted
  <2>5. declined' <=> (declined \/ (changes[t] /\ ~autoCommit))
        BY <1>4, Zenon DEF EndBatch
  <2>6. CASE autoCommit \/ ~changes[t]
    <3>1. WillCommit(t) => WillCommit(t)'
          BY <1>0, <2>1, <2>6 DEF WillCommit
    <3>2. \A a \in Actors : WillCommit(a) => WillCommit(a)'
          BY <2>2, <2>3, <3>1 DEF WillCommit
    <3> QED
        BY <2>1, <2>4, <2>5, <3>2, ApartKeepsSettleInv
  <2>7. CASE ~autoCommit /\ changes[t]
        BY <2>4, <2>5, <2>7 DEF SettleInv, Promised
  <2> QED
      BY <2>6, <2>7
<1> QED
    BY <1>1, <1>2, <1>3, <1>4 DEF TaskStep

\* A merge leaves on disk what it puts into the wip commit, but for conflict markers, files
\* the user's commit deleted, and what already differed.
LEMMA MergeSettles ==
  ASSUME TypeOK, NEW a \in Actors, MergeHead(a), ~declined', NEW f \in Files, Settled(f)
  PROVE  Settled(f)'
<1> DEFINE w == wip[wtHead]
           b == info.branch
           c == info.commit
           merged == [x \in Files |-> MergedFile(w, b, c, x)]
           next == [w EXCEPT !.tree = merged, !.time = clock, !.log = @ \cup {merged},
                             !.merged[b] = c]
<1>0. w \in Wip /\ wip \in [Branches -> Wip] /\ wtHead \in Branches
      BY DEF TypeOK
<1>1. next.tree = merged
      BY <1>0 DEF Wip
<1>2. /\ wtHead' = wtHead
      /\ \/ wip' = wip /\ wt' = wt
         \/ wip' = [wip EXCEPT ![wtHead] = next] /\ wt' = [x \in Files |-> OnDisk(w, b, c, x)]
      BY DEF MergeHead, wipVars
<1>3. CASE wip' = wip /\ wt' = wt
      BY <1>2, <1>3 DEF Settled
<1>4. CASE wip' = [wip EXCEPT ![wtHead] = next] /\ wt' = [x \in Files |-> OnDisk(w, b, c, x)]
  <2> HIDE DEF next
  <2>1. wip'[wtHead].tree = merged
        BY <1>0, <1>1, <1>4
  <2>2. wip'[wtHead].tree[f] = MergedFile(w, b, c, f) /\ wt'[f] = OnDisk(w, b, c, f)
        BY <1>4, <2>1
  <2>3. \/ OnDisk(w, b, c, f) \in {MergedFile(w, b, c, f), Marked}
        \/ MergedFile(w, b, c, f) = Absent
    <3>1. wt[f] \in {w.tree[f], Marked} \/ w.tree[f] = Absent
          BY DEF Settled
    <3> QED
        BY <3>1 DEF OnDisk, MergedFile
  <2> QED
      BY <1>2, <2>2, <2>3 DEF Settled
<1> QED
    BY <1>2, <1>3, <1>4

\* Whoever calls addWipCommit keeps the promise when it commits.
LEMMA AddKeepsSettleInv ==
  ASSUME SettleInv, TypeOK', NEW a \in Actors, AddWipCommit(a)
  PROVE  SettleInv'
<1> USE DEF repoVars, eventVars, infoVars, wipVars, addVars, taskVars, readVars, viewVars,
           auxVars
<1>0. /\ pc \in [Actors -> Outside \cup {"switch", "commit", "merge", "unlock"}]
      /\ wip \in [Branches -> Wip] /\ wtHead \in Branches /\ Noted /\ wt \in Tree
      BY DEF SettleInv, TypeOK, Outside
<1>1. UNCHANGED changes
      BY DEF AddWipCommit, Lock, SwitchBranch, CommitWip, MergeHead, Unlock
<1>2. /\ pc[a] \notin Working
      /\ \E s \in {"idle", "switch", "commit", "merge", "unlock"} : pc' = [pc EXCEPT ![a] = s]
      BY DEF AddWipCommit, Lock, SwitchBranch, CommitWip, MergeHead, Unlock, Working
<1>3. Noted'
      BY <1>0, <1>1, <1>2 DEF Noted
<1>4. \A x \in Actors \ {a} : WillCommit(x) => WillCommit(x)'
      BY <1>0, <1>1, <1>2 DEF WillCommit
<1>5. CASE Lock(a) \/ SwitchBranch(a)
  <2>1. WillCommit(a)'
        BY <1>0, <1>5 DEF Lock, SwitchBranch, WillCommit
  <2> QED
      BY <1>3, <2>1 DEF SettleInv, Promised
<1>6. CASE CommitWip(a)
  <2>1. wip' = [wip EXCEPT ![wtHead] =
                  [wip[wtHead] EXCEPT !.tree = wt, !.time = clock, !.log = @ \cup {wt}]]
        BY <1>0, <1>6 DEF CommitWip, Wip
  <2>2. wip'[wtHead].tree = wt /\ UNCHANGED <<wt, wtHead>>
        BY <1>0, <1>6, <2>1 DEF CommitWip, Wip
  <2>3. \A f \in Files : Settled(f)'
        BY <2>2 DEF Settled
  <2> QED
      BY <1>3, <2>3 DEF SettleInv, Promised
<1>7. CASE MergeHead(a)
  <2>1. declined' \/ \A f \in Files : Settled(f) => Settled(f)'
        BY <1>7, MergeSettles DEF SettleInv
  <2>3. declined => declined'
        BY <1>7 DEF MergeHead
  <2>2. WillCommit(a) => WillCommit(a)'
        BY <1>0, <1>1, <1>2, <1>7 DEF MergeHead, WillCommit
  <2> QED
      BY <1>1, <1>3, <1>4, <2>1, <2>2, <2>3 DEF SettleInv, Promised
<1>8. CASE Unlock(a)
  <2>1. UNCHANGED <<wt, wtHead, wip, declined>> /\ pc[a] = "unlock"
        BY <1>8 DEF Unlock
  <2>2. WillCommit(a) => WillCommit(a)'
        BY <1>0, <1>1, <1>2, <2>1 DEF WillCommit
  <2> QED
      BY <1>1, <1>3, <1>4, <2>1, <2>2, ApartKeepsSettleInv
<1> QED
    BY <1>5, <1>6, <1>7, <1>8 DEF AddWipCommit

\* SettleInv is inductive.
LEMMA StepSettleInv == SettleInv /\ [Next]_vars => SettleInv'
<1> SUFFICES ASSUME SettleInv, [Next]_vars PROVE SettleInv'
    OBVIOUS
<1>1. TypeOK'
      BY StepTypeOK DEF SettleInv
<1>2. CASE UNCHANGED vars
  <2>1. UNCHANGED <<declined, wt, wtHead, wip, pc, changes>>
        BY <1>2 DEF vars, auxVars, wipVars, taskVars
  <2>2. Noted' /\ \A a \in Actors : WillCommit(a) => WillCommit(a)'
        BY <2>1 DEF SettleInv, Noted, WillCommit
  <2> QED
      BY <1>1, <2>1, <2>2, ApartKeepsSettleInv
<1>3. CASE Next
      BY <1>1, <1>3, OthersKeepSettleInv, TaskKeepsSettleInv, AddKeepsSettleInv DEF Next
<1> QED
    BY <1>2, <1>3

\* Nothing a Task copied or deleted in the worktree is still uncommitted once every event is
\* handled: whatever the Tasks, the button and the views do to each other, somebody is left who
\* commits it.  The exceptions are a batch that ended while wip commits were not automatic and
\* a merge that broke off; the next wip commit takes in what they left.
THEOREM CopiesAreCommitted == Spec => []QuietMeansCommitted
<1>1. SettleInv => QuietMeansCommitted
  <2> SUFFICES ASSUME SettleInv, Quiet, ~declined, NEW f \in Files PROVE Settled(f)
      BY DEF QuietMeansCommitted, Settled
  <2>1. \A a \in Actors : pc[a] = "idle"
        BY DEF Quiet
  <2>2. \A t \in Tasks : ~changes[t]
        BY <2>1 DEF SettleInv, Noted, Working, Actors
  <2>3. \A a \in Actors : ~WillCommit(a)
        BY <2>1, <2>2 DEF WillCommit
  <2> QED
      BY <2>3 DEF SettleInv, Promised
<1>2. Spec => []SettleInv
      BY InitSettleInv, StepSettleInv, PTL DEF Spec
<1> QED
    BY <1>1, <1>2, PTL

----------------------------------------------------------------------------
(* "Same hash, skip" skips what was copied, as long as the pipeline works  *)
(* steadily and the copy did not fail.                                     *)

\* Tasks work on their batches one after the other.
OneAtATime == \A t, u \in Tasks : t = u \/ pc[t] = "idle" \/ pc[u] = "idle"

\* Wip commits are automatic, the user stays on the branch, and no batch is delivered while
\* another one is worked on.
Steady == autoCommit /\ head = Main /\ OneAtATime

\* A commit of Main's wip branch holds content c of f.
Logged(f, c) == \E tree \in wip[Main].log : tree[f] = c

\* The worktree is on Main's wip branch, and nobody is about to replace that branch.
Home ==
    /\ info.branch = Main /\ wtHead = Main /\ pc[UI] = "idle"
    /\ wip[Main].live /\ wip[Main].tree \in wip[Main].log
    /\ viewPc = "create" => viewBranch # Main

\* The path in hand is no longer ahead, and the hash of the content in hand is remembered.
InHand ==
    \A t \in Tasks :
        /\ pc[t] \in {"read", "read!", "write"} => path[t] \notin todo[t]
        /\ pc[t] = "write" => contents[t] = fileHashes[path[t]]

\* The Task will commit its copy of f, and does not come to f again before.
WillCommitCopy(t, f) == WillCommit(t) /\ (pc[t] \in Working => f \notin todo[t])

\* A content whose hash is remembered is committed, or in a Task's hand, or in the worktree
\* and about to be committed; or its copy failed.
HashKept ==
    \A f \in Files : fileHashes[f] # None =>
        \/ f \in failed
        \/ Logged(f, fileHashes[f])
        \/ \E t \in Tasks : \/ pc[t] = "write" /\ path[t] = f
                            \/ wt[f] = fileHashes[f] /\ WillCommitCopy(t, f)

\* What is in the worktree is committed, or a conflict, or left by a merge that broke off, or
\* about to be committed.
CopyKept ==
    \A f \in Files :
        wt[f] = Marked \/ Logged(f, wt[f]) \/ declined \/ \E t \in Tasks : WillCommit(t)

\* Just after a wip commit nothing is left over.
CommittedAll == \A t \in Tasks : pc[t] = "merge" => ~declined

\* What a remembered hash, and a file in the worktree, stand for.
CopyInv == TypeOK /\ Noted /\ Home /\ InHand /\ HashKept /\ CopyKept /\ CommittedAll

LEMMA InitCopyInv == Init => CopyInv
<1> SUFFICES ASSUME Init PROVE CopyInv
    OBVIOUS
<1>1. TypeOK /\ Noted
      BY InitSettleInv DEF SettleInv
<1>2. wip[Main] = FreshWip(Main, RootCommit) /\ UI \in Actors /\ Tasks \subseteq Actors
      BY WipAssumption DEF Init, Actors
<1>3. wip[Main].live /\ wip[Main].tree = RootCommit.tree /\ wip[Main].log = {RootCommit.tree}
      BY <1>2 DEF FreshWip
<1>4. Home
      BY <1>2, <1>3 DEF Init, Home
<1>5. InHand /\ HashKept
      BY <1>2 DEF Init, InHand, HashKept
<1>6. CopyKept
      BY <1>3 DEF Init, CopyKept, Logged
<1>7. CommittedAll
      BY DEF Init, CommittedAll
<1> QED
    BY <1>1, <1>4, <1>5, <1>6, <1>7 DEF CopyInv

\* While a Task is at work the others have no part in CopyInv.
LEMMA AtWork ==
  ASSUME CopyInv, OneAtATime, NEW t \in Tasks, pc[t] # "idle"
  PROVE  /\ \A u \in Tasks : u = t \/ (pc[u] = "idle" /\ ~changes[u] /\ ~WillCommit(u))
         /\ \A f \in Files : fileHashes[f] # None =>
                \/ f \in failed \/ Logged(f, fileHashes[f])
                \/ pc[t] = "write" /\ path[t] = f
                \/ wt[f] = fileHashes[f] /\ WillCommitCopy(t, f)
         /\ \A f \in Files : wt[f] = Marked \/ Logged(f, wt[f]) \/ declined \/ WillCommit(t)
<1>1. \A u \in Tasks : u = t \/ (pc[u] = "idle" /\ ~changes[u] /\ ~WillCommit(u))
  <2> SUFFICES ASSUME NEW u \in Tasks, u # t PROVE pc[u] = "idle" /\ ~changes[u] /\ ~WillCommit(u)
      OBVIOUS
  <2>1. pc[u] = "idle"
        BY DEF OneAtATime
  <2>2. ~changes[u]
        BY <2>1 DEF CopyInv, Noted, Working
  <2> QED
      BY <2>1, <2>2 DEF WillCommit
<1>2. \A u \in Tasks, f \in Files : u = t \/ ~WillCommitCopy(u, f)
      BY <1>1 DEF WillCommitCopy
<1>3. \A f \in Files : fileHashes[f] # None =>
          \/ f \in failed \/ Logged(f, fileHashes[f])
          \/ pc[t] = "write" /\ path[t] = f
          \/ wt[f] = fileHashes[f] /\ WillCommitCopy(t, f)
      BY <1>1, <1>2 DEF CopyInv, HashKept
<1>4. \A f \in Files : wt[f] = Marked \/ Logged(f, wt[f]) \/ declined \/ WillCommit(t)
      BY <1>1 DEF CopyInv, CopyKept
<1> QED
    BY <1>1, <1>3, <1>4

\* The other way round, for a step of that Task.
LEMMA StillAtWork ==
  ASSUME TypeOK', NEW t \in Tasks, Noted', Home', InHand', CommittedAll',
         \A f \in Files : fileHashes'[f] # None =>
             \/ f \in failed' \/ Logged(f, fileHashes[f])'
             \/ pc'[t] = "write" /\ path'[t] = f
             \/ wt'[f] = fileHashes'[f] /\ WillCommitCopy(t, f)',
         \A f \in Files : wt'[f] = Marked \/ Logged(f, wt[f])' \/ declined' \/ WillCommit(t)'
  PROVE  CopyInv'
<1>1. HashKept' /\ CopyKept'
      BY DEF HashKept, CopyKept
<1> QED
    BY <1>1 DEF CopyInv

\* The user, the watchers and the views touch neither the worktree, nor its branch, nor the
\* Tasks.
LEMMA OthersKeepCopyInv ==
  ASSUME CopyInv, TypeOK', Steady, Steady',
         \/ User \/ DropEvents \/ RefreshHead \/ RefreshStatus \/ ToggleAutoCommit
         \/ ManualCommit \/ Viewer
  PROVE  CopyInv' /\ UNCHANGED <<fileHashes, wt, taskVars, auxVars>> /\ wip'[Main] = wip[Main]
<1> USE DEF repoVars, eventVars, infoVars, wipVars, addVars, taskVars, readVars, viewVars,
           auxVars
<1>0. wip \in [Branches -> Wip] /\ Main \in Branches /\ Home
      BY WipAssumption DEF CopyInv, TypeOK
<1>1. /\ UNCHANGED <<fileHashes, wt, wtHead, taskVars, auxVars>> /\ wip'[Main] = wip[Main]
      /\ info' = info \/ info'.branch = head
      /\ viewPc' = "create" => viewBranch' # Main
  <2>1. CASE User \/ DropEvents \/ RefreshHead \/ RefreshStatus \/ ToggleAutoCommit
        BY <1>0, <2>1
        DEF User, Save, Add, CommitAll, Checkout, DropEvents, RefreshHead, RefreshStatus,
            StartRefresh, EndRefresh, ToggleAutoCommit, Home
  <2>2. CASE ManualCommit
        BY <2>2 DEF ManualCommit, Steady
  <2>3. CASE Viewer
        BY <1>0, <2>3 DEF Viewer, View, CreateWip, Home
  <2> QED
      BY <2>1, <2>2, <2>3
<1>2. Home' /\ Noted' /\ InHand' /\ CommittedAll'
      BY <1>0, <1>1 DEF Home, Steady, CopyInv, Noted, InHand, CommittedAll
<1>3. /\ \A t \in Tasks : WillCommit(t)' <=> WillCommit(t)
      /\ \A t \in Tasks, f \in Files : WillCommitCopy(t, f)' <=> WillCommitCopy(t, f)
      BY <1>1 DEF WillCommit, WillCommitCopy
<1>4. \A f, c : Logged(f, c)' <=> Logged(f, c)
      BY <1>1 DEF Logged
<1>5. HashKept' /\ CopyKept'
      BY <1>1, <1>3, <1>4 DEF CopyInv, HashKept, CopyKept
<1> QED
    BY <1>1, <1>2, <1>5 DEF CopyInv

\* Before a batch is handed to a Task nobody is at work.
LEMMA DeliverKeepsCopyInv ==
  ASSUME CopyInv, TypeOK', Steady, Steady', NEW t \in Tasks, DeliverBatch(t)
  PROVE  CopyInv' /\ \A u \in Tasks : pc[u] = "idle" /\ ~changes[u]
<1> USE DEF repoVars, eventVars, infoVars, wipVars, addVars, taskVars, readVars, viewVars,
           auxVars
<1>0. /\ pc \in [Actors -> Outside \cup {"switch", "commit", "merge", "unlock"}]
      /\ t \in Actors /\ UI \in Actors /\ UI # t /\ Tasks \subseteq Actors
      /\ todo \in [Tasks -> SUBSET Files]
      BY WipAssumption DEF CopyInv, TypeOK, Actors, Outside
<1>1. /\ UNCHANGED <<infoVars, wipVars, path, contents, changes, viewVars, auxVars>>
      /\ pc[t] = "idle" /\ pc' = [pc EXCEPT ![t] = "status"]
      BY DEF DeliverBatch
<1>2. \A u \in Tasks : u = t \/ (pc'[u] = "idle" /\ pc[u] = "idle")
      BY <1>0, <1>1 DEF Steady, OneAtATime
<1>3. \A u \in Tasks : pc[u] = "idle" /\ ~changes[u]
      BY <1>1, <1>2 DEF CopyInv, Noted, Working
<1>4. \A u \in Tasks : ~WillCommit(u)
      BY <1>3 DEF WillCommit
<1>5. Noted' /\ Home' /\ InHand' /\ CommittedAll'
      BY <1>0, <1>1, <1>2, <1>3 DEF CopyInv, Noted, Home, InHand, CommittedAll
<1>6. \A f \in Files : fileHashes'[f] # None => f \in failed' \/ Logged(f, fileHashes[f])'
      BY <1>1, <1>3, <1>4 DEF CopyInv, HashKept, Logged, WillCommitCopy
<1>7. \A f \in Files : wt'[f] = Marked \/ Logged(f, wt[f])' \/ declined'
      BY <1>1, <1>4 DEF CopyInv, CopyKept, Logged
<1> QED
    BY <1>3, <1>5, <1>6, <1>7, StillAtWork

\* What a Task going through its batch leaves alone.
LEMMA TaskStepApart ==
  ASSUME CopyInv, Steady, NEW t \in Tasks, TaskStep(t)
  PROVE  /\ UNCHANGED <<repoVars, info, wtHead, wip, viewVars>> /\ (declined' <=> declined)
         /\ Home' /\ CommittedAll'
         /\ \A f \in Files : NeedsBackup(f)' <=> NeedsBackup(f)
         /\ \A f, c : Logged(f, c)' <=> Logged(f, c)
         /\ pc[t] # "idle"
         /\ \A u \in Tasks : u = t \/ (pc'[u] = "idle" /\ pc[u] = "idle" /\ ~changes[u])
<1> USE DEF repoVars, eventVars, infoVars, wipVars, addVars, taskVars, readVars, viewVars,
           auxVars
<1>0. /\ pc \in [Actors -> Outside \cup {"switch", "commit", "merge", "unlock"}]
      /\ t \in Actors /\ UI \in Actors /\ UI # t /\ Tasks \subseteq Actors
      BY WipAssumption DEF CopyInv, TypeOK, Actors, Outside
<1>1. pc[t] # "idle"
      BY DEF TaskStep, ReadStatus, AssignStatus, HandlePath, ReadFails, SameHash, ReadPath,
             WriteCopy, EndBatch
<1>2. UNCHANGED <<repoVars, info, wtHead, wip, viewVars>>
      BY DEF TaskStep, ReadStatus, AssignStatus, HandlePath, ReadFails, SameHash, ReadPath,
             WriteCopy, EndBatch
<1>3. pc' = pc \/ \E s \in Outside : pc' = [pc EXCEPT ![t] = s]
  <2>1. CASE HandlePath(t)
        BY <2>1 DEF HandlePath, DropCopy, DropFails, WillCopy, Outside
  <2>2. CASE ReadStatus(t) \/ AssignStatus(t) \/ ReadFails(t) \/ SameHash(t)
        BY <2>2 DEF ReadStatus, AssignStatus, ReadFails, SameHash, NextPath, Outside
  <2>3. CASE ReadPath(t) \/ WriteCopy(t) \/ EndBatch(t)
        BY <2>3 DEF ReadPath, WriteCopy, EndBatch, NextPath, Outside
  <2> QED
      BY <2>1, <2>2, <2>3 DEF TaskStep
<1>4. \A a \in Actors : a = t \/ pc'[a] = pc[a]
      BY <1>0, <1>3
<1>5. \A u \in Tasks : u = t \/ (pc[u] = "idle" /\ ~changes[u])
      BY <1>1, AtWork DEF Steady
<1>6. \A f \in Files : NeedsBackup(f)' <=> NeedsBackup(f)
      BY <1>2 DEF NeedsBackup
<1>7. \A f, c : Logged(f, c)' <=> Logged(f, c)
      BY <1>2 DEF Logged
<1>8. Home'
      BY <1>0, <1>2, <1>4 DEF CopyInv, Home
<1>9. declined' <=> declined
  <2>1. CASE EndBatch(t)
        BY <2>1, Zenon DEF EndBatch, Steady
  <2>2. CASE ~EndBatch(t)
        BY <2>2 DEF TaskStep, ReadStatus, AssignStatus, HandlePath, ReadFails, SameHash, ReadPath,
                    WriteCopy
  <2> QED
      BY <2>1, <2>2
<1>10. CommittedAll'
  <2>1. pc[t] \in Outside
        BY DEF TaskStep, ReadStatus, AssignStatus, HandlePath, ReadFails, SameHash, ReadPath,
               WriteCopy, EndBatch, Outside
  <2>2. pc'[t] # "merge"
        BY <1>0, <1>3, <2>1 DEF Outside
  <2>3. \A u \in Tasks : u = t \/ pc'[u] = "idle"
        BY <1>0, <1>4, <1>5
  <2> QED
      BY <2>2, <2>3 DEF CommittedAll
<1> QED
    BY <1>0, <1>1, <1>2, <1>4, <1>5, <1>6, <1>7, <1>8, <1>9, <1>10

\* Reading the status, and a path that is not copied.
LEMMA ReadKeepsCopyInv ==
  ASSUME CopyInv, TypeOK', Steady, NEW t \in Tasks,
         ReadStatus(t) \/ AssignStatus(t) \/ ReadFails(t) \/ SameHash(t)
  PROVE  /\ CopyInv'
         /\ UNCHANGED <<fileHashes, wt, todo, contents, changes, auxVars>>
         /\ \/ pc[t] = "status" /\ pc'[t] = "assign"
            \/ pc[t] \in {"assign", "read", "read!"} /\ pc'[t] = "paths"
         /\ WillCommit(t)' <=> WillCommit(t)
<1> USE DEF repoVars, eventVars, infoVars, wipVars, addVars, taskVars, readVars, viewVars,
           auxVars
<1>0. /\ pc \in [Actors -> Outside \cup {"switch", "commit", "merge", "unlock"}]
      /\ t \in Actors /\ Tasks \subseteq Actors
      BY DEF CopyInv, TypeOK, Actors, Outside
<1>1. TaskStep(t)
      BY DEF TaskStep
<1>2. /\ Home' /\ CommittedAll' /\ pc[t] # "idle" /\ (declined' <=> declined)
      /\ \A f, c : Logged(f, c)' <=> Logged(f, c)
      /\ \A u \in Tasks : u = t \/ (pc'[u] = "idle" /\ pc[u] = "idle" /\ ~changes[u])
      BY <1>1, TaskStepApart
<1>3. /\ UNCHANGED <<fileHashes, wt, todo, contents, changes, auxVars>>
      /\ \/ pc[t] = "status" /\ pc' = [pc EXCEPT ![t] = "assign"]
         \/ pc[t] \in {"assign", "read", "read!"} /\ pc' = [pc EXCEPT ![t] = "paths"]
      BY DEF ReadStatus, AssignStatus, ReadFails, SameHash, NextPath
<1>4. \/ pc[t] = "status" /\ pc'[t] = "assign"
      \/ pc[t] \in {"assign", "read", "read!"} /\ pc'[t] = "paths"
      BY <1>0, <1>3
<1>5. Noted' /\ InHand'
      BY <1>2, <1>3, <1>4 DEF CopyInv, Noted, InHand, Working
<1>6. WillCommit(t)' <=> WillCommit(t)
      BY <1>3, <1>4 DEF WillCommit
<1>7. \A f \in Files : WillCommitCopy(t, f) => WillCommitCopy(t, f)'
  <2>1. WillCommit(t) => pc[t] \in Working
        BY <1>3 DEF CopyInv, Noted, WillCommit
  <2> QED
      BY <1>3, <1>6, <2>1 DEF WillCommitCopy
<1>8. \A f \in Files : fileHashes'[f] # None =>
          \/ f \in failed' \/ Logged(f, fileHashes[f])'
          \/ wt'[f] = fileHashes'[f] /\ WillCommitCopy(t, f)'
      BY <1>2, <1>3, <1>7, AtWork DEF Steady
<1>9. \A f \in Files : wt'[f] = Marked \/ Logged(f, wt[f])' \/ declined' \/ WillCommit(t)'
      BY <1>2, <1>3, <1>6, AtWork DEF Steady
<1> QED
    BY <1>2, <1>3, <1>4, <1>5, <1>6, <1>8, <1>9, StillAtWork

\* A path is to be copied.
LEMMA WillCopyKeepsCopyInv ==
  ASSUME CopyInv, TypeOK', Steady, NEW t \in Tasks, HandlePath(t),
         NEW g \in todo[t], todo' = [todo EXCEPT ![t] = @ \ {g}], WillCopy(t, g)
  PROVE  /\ CopyInv'
         /\ UNCHANGED <<wt, failed>> /\ path'[t] = g /\ pc'[t] \in {"read", "read!"}
         /\ WillCommit(t)' <=> WillCommit(t)
<1> USE DEF repoVars, eventVars, infoVars, wipVars, addVars, taskVars, readVars, viewVars,
           auxVars
<1>0. /\ pc \in [Actors -> Outside \cup {"switch", "commit", "merge", "unlock"}]
      /\ t \in Actors /\ Tasks \subseteq Actors
      /\ path \in [Tasks -> Files \cup {None}] /\ todo \in [Tasks -> SUBSET Files]
      BY DEF CopyInv, TypeOK, Actors, Outside
<1>1. TaskStep(t)
      BY DEF TaskStep
<1>2. /\ Home' /\ CommittedAll' /\ (declined' <=> declined)
      /\ \A f, c : Logged(f, c)' <=> Logged(f, c)
      /\ \A u \in Tasks : u = t \/ (pc'[u] = "idle" /\ pc[u] = "idle" /\ ~changes[u])
      BY <1>1, TaskStepApart
<1>3. pc[t] = "paths" /\ UNCHANGED <<fileHashes, contents, wt, changes, failed>>
      BY DEF HandlePath, WillCopy
<1>4. todo'[t] = todo[t] \ {g} /\ \A u \in Tasks : u = t \/ todo'[u] = todo[u]
      BY <1>0
<1>5. /\ path' = [path EXCEPT ![t] = g]
      /\ \E s \in {"read", "read!"} : pc' = [pc EXCEPT ![t] = s]
      BY DEF WillCopy
<1>6. pc'[t] \in {"read", "read!"} /\ path'[t] = g
      BY <1>0, <1>5
<1>7. WillCommit(t)' <=> WillCommit(t)
      BY <1>3, <1>6 DEF WillCommit
<1>8. Noted' /\ InHand'
      BY <1>2, <1>3, <1>4, <1>6 DEF CopyInv, Noted, InHand, Working
<1>9. \A f \in Files : fileHashes'[f] # None =>
          \/ f \in failed' \/ Logged(f, fileHashes[f])'
          \/ wt'[f] = fileHashes'[f] /\ WillCommitCopy(t, f)'
      BY <1>2, <1>3, <1>4, <1>7, AtWork DEF Steady, WillCommitCopy, Working
<1>10. \A f \in Files : wt'[f] = Marked \/ Logged(f, wt[f])' \/ declined' \/ WillCommit(t)'
       BY <1>2, <1>3, <1>7, AtWork DEF Steady
<1> QED
    BY <1>2, <1>3, <1>6, <1>7, <1>8, <1>9, <1>10, StillAtWork

\* The copy of a path is deleted, and the deletion noted.
LEMMA DropCopyKeepsCopyInv ==
  ASSUME CopyInv, TypeOK', Steady, NEW t \in Tasks, HandlePath(t),
         NEW g \in todo[t], todo' = [todo EXCEPT ![t] = @ \ {g}], DropCopy(t, g)
  PROVE  /\ CopyInv'
         /\ UNCHANGED <<pc, failed>> /\ wt'[g] = Absent /\ \A f \in Files : f = g \/ wt'[f] = wt[f]
         /\ WillCommit(t)' <=> (WillCommit(t) \/ wt[g] # Absent)
<1> USE DEF repoVars, eventVars, infoVars, wipVars, addVars, taskVars, readVars, viewVars,
           auxVars
<1>0. /\ t \in Actors /\ Tasks \subseteq Actors /\ g \in Files
      /\ todo \in [Tasks -> SUBSET Files]
      /\ changes \in [Tasks -> BOOLEAN] /\ wt \in [Files -> Held]
      BY DEF CopyInv, TypeOK, Actors, Tree
<1>1. TaskStep(t)
      BY DEF TaskStep
<1>2. /\ Home' /\ CommittedAll' /\ (declined' <=> declined)
      /\ \A f, c : Logged(f, c)' <=> Logged(f, c)
      /\ \A u \in Tasks : u = t \/ (pc'[u] = "idle" /\ pc[u] = "idle" /\ ~changes[u])
      BY <1>1, TaskStepApart
<1>3. /\ pc[t] = "paths" /\ UNCHANGED <<fileHashes, contents, pc, path, failed>>
      /\ wt' = [wt EXCEPT ![g] = Absent]
      /\ changes' = [changes EXCEPT ![t] = @ \/ wt[g] # Absent]
      BY DEF HandlePath, DropCopy
<1>4. todo'[t] = todo[t] \ {g} /\ \A u \in Tasks : u = t \/ todo'[u] = todo[u]
      BY <1>0
<1>5. changes'[t] <=> (changes[t] \/ wt[g] # Absent)
      BY <1>0, <1>3, Zenon
<1>6. \A u \in Tasks : u = t \/ changes'[u] = changes[u]
      BY <1>0, <1>3
<1>7. WillCommit(t)' <=> (WillCommit(t) \/ wt[g] # Absent)
      BY <1>3, <1>5 DEF WillCommit
<1>8. wt'[g] = Absent /\ \A f \in Files : f = g \/ wt'[f] = wt[f]
      BY <1>0, <1>3
<1>9. Noted' /\ InHand'
      BY <1>2, <1>3, <1>4, <1>6 DEF CopyInv, Noted, InHand, Working
<1>10. \A f \in Files : fileHashes'[f] # None =>
           \/ f \in failed' \/ Logged(f, fileHashes[f])'
           \/ wt'[f] = fileHashes'[f] /\ WillCommitCopy(t, f)'
       BY <1>2, <1>3, <1>4, <1>7, <1>8, AtWork DEF Steady, WillCommitCopy, Working
<1>11. ASSUME NEW f \in Files
       PROVE  wt'[f] = Marked \/ Logged(f, wt[f])' \/ declined' \/ WillCommit(t)'
  <2>1. CASE f = g /\ wt[g] # Absent
        BY <1>7, <2>1
  <2>2. CASE f # g \/ wt[g] = Absent
    <3>1. wt'[f] = wt[f]
          BY <1>8, <2>2
    <3> QED
        BY <1>2, <1>3, <1>7, <3>1, AtWork DEF Steady
  <2> QED
      BY <2>1, <2>2
<1> QED
    BY <1>2, <1>3, <1>7, <1>8, <1>9, <1>10, <1>11, StillAtWork

\* The deletion of a copy fails.
LEMMA DropFailsKeepsCopyInv ==
  ASSUME CopyInv, TypeOK', Steady, NEW t \in Tasks, HandlePath(t),
         NEW g \in todo[t], todo' = [todo EXCEPT ![t] = @ \ {g}], DropFails(g)
  PROVE  /\ CopyInv'
         /\ UNCHANGED <<pc, wt>> /\ g \in failed' /\ failed \subseteq failed'
         /\ WillCommit(t)' <=> WillCommit(t)
<1> USE DEF repoVars, eventVars, infoVars, wipVars, addVars, taskVars, readVars, viewVars,
           auxVars
<1>0. t \in Actors /\ todo \in [Tasks -> SUBSET Files]
      BY DEF CopyInv, TypeOK, Actors
<1>1. TaskStep(t)
      BY DEF TaskStep
<1>2. /\ Home' /\ CommittedAll' /\ (declined' <=> declined)
      /\ \A f, c : Logged(f, c)' <=> Logged(f, c)
      /\ \A u \in Tasks : u = t \/ (pc'[u] = "idle" /\ pc[u] = "idle" /\ ~changes[u])
      BY <1>1, TaskStepApart
<1>3. /\ pc[t] = "paths" /\ UNCHANGED <<fileHashes, contents, pc, path, wt, changes>>
      /\ g \in failed' /\ failed \subseteq failed'
      BY DEF HandlePath, DropFails
<1>4. todo'[t] = todo[t] \ {g} /\ \A u \in Tasks : u = t \/ todo'[u] = todo[u]
      BY <1>0
<1>5. WillCommit(t)' <=> WillCommit(t)
      BY <1>3 DEF WillCommit
<1>6. Noted' /\ InHand'
      BY <1>2, <1>3, <1>4 DEF CopyInv, Noted, InHand, Working
<1>7. \A f \in Files : fileHashes'[f] # None =>
          \/ f \in failed' \/ Logged(f, fileHashes[f])'
          \/ wt'[f] = fileHashes'[f] /\ WillCommitCopy(t, f)'
      BY <1>2, <1>3, <1>4, <1>5, AtWork DEF Steady, WillCommitCopy, Working
<1>8. \A f \in Files : wt'[f] = Marked \/ Logged(f, wt[f])' \/ declined' \/ WillCommit(t)'
      BY <1>2, <1>3, <1>5, AtWork DEF Steady
<1> QED
    BY <1>2, <1>3, <1>5, <1>6, <1>7, <1>8, StillAtWork

\* A content is read, and its hash remembered before it is copied.
LEMMA ReadPathKeepsCopyInv ==
  ASSUME CopyInv, TypeOK', Steady, NEW t \in Tasks, ReadPath(t)
  PROVE  /\ CopyInv'
         /\ UNCHANGED <<wt, path, todo, auxVars>>
         /\ pc'[t] = "write" /\ contents'[t] = work[path[t]]
         /\ WillCommit(t)' <=> WillCommit(t)
<1> USE DEF repoVars, eventVars, infoVars, wipVars, addVars, taskVars, readVars, viewVars,
           auxVars
<1> DEFINE p == path[t]
<1>0. /\ pc \in [Actors -> Outside \cup {"switch", "commit", "merge", "unlock"}]
      /\ t \in Actors /\ Tasks \subseteq Actors /\ contents \in [Tasks -> Held]
      /\ fileHashes \in [Files -> Held \cup {None}]
      BY DEF CopyInv, TypeOK, Actors, Outside
<1>1. TaskStep(t)
      BY DEF TaskStep
<1>2. /\ Home' /\ CommittedAll' /\ (declined' <=> declined)
      /\ \A f, c : Logged(f, c)' <=> Logged(f, c)
      /\ \A u \in Tasks : u = t \/ (pc'[u] = "idle" /\ pc[u] = "idle" /\ ~changes[u])
      BY <1>1, TaskStepApart
<1>3. p \in Files /\ p \notin todo[t] /\ pc[t] \in {"read", "read!"}
      BY DEF ReadPath, CopyInv, TypeOK, InHand
<1>4. /\ UNCHANGED <<wt, changes, path, todo, auxVars>>
      /\ pc' = [pc EXCEPT ![t] = "write"]
      /\ fileHashes' = [fileHashes EXCEPT ![p] = work[p]]
      /\ contents' = [contents EXCEPT ![t] = work[p]]
      BY DEF ReadPath
<1>5. /\ pc'[t] = "write" /\ contents'[t] = work[p]
      /\ fileHashes'[p] = work[p] /\ \A f \in Files : f = p \/ fileHashes'[f] = fileHashes[f]
      BY <1>0, <1>3, <1>4
<1>6. WillCommit(t)' <=> WillCommit(t)
      BY <1>3, <1>4, <1>5 DEF WillCommit
<1>7. Noted' /\ InHand'
      BY <1>2, <1>3, <1>4, <1>5 DEF CopyInv, Noted, InHand, Working
<1>8. ASSUME NEW f \in Files, fileHashes'[f] # None, f # p
      PROVE  \/ f \in failed' \/ Logged(f, fileHashes[f])'
             \/ wt'[f] = fileHashes'[f] /\ WillCommitCopy(t, f)'
  <2>1. fileHashes'[f] = fileHashes[f]
        BY <1>5, <1>8
  <2>2. \/ f \in failed \/ Logged(f, fileHashes[f])
        \/ wt[f] = fileHashes[f] /\ WillCommitCopy(t, f)
        BY <1>3, <1>8, <2>1, AtWork DEF Steady
  <2> QED
      BY <1>2, <1>3, <1>4, <1>6, <2>1, <2>2 DEF WillCommitCopy, Working
<1>9. \A f \in Files : wt'[f] = Marked \/ Logged(f, wt[f])' \/ declined' \/ WillCommit(t)'
      BY <1>2, <1>3, <1>4, <1>6, AtWork DEF Steady
<1> QED
    BY <1>2, <1>4, <1>5, <1>6, <1>7, <1>8, <1>9, StillAtWork

\* The content is copied, or the copy fails; the change is noted.
LEMMA WriteCopyKeepsCopyInv ==
  ASSUME CopyInv, TypeOK', Steady, NEW t \in Tasks, WriteCopy(t)
  PROVE  /\ CopyInv'
         /\ UNCHANGED todo /\ pc'[t] = "paths" /\ WillCommit(t)'
         /\ path[t] \in failed' \/ wt'[path[t]] = contents[t]
         /\ \A f \in Files : f = path[t] \/ (wt'[f] = wt[f] /\ (f \in failed' <=> f \in failed))
         /\ UNCHANGED misjudged
<1> USE DEF repoVars, eventVars, infoVars, wipVars, addVars, taskVars, readVars, viewVars,
           auxVars
<1> DEFINE p == path[t]
<1>0. /\ pc \in [Actors -> Outside \cup {"switch", "commit", "merge", "unlock"}]
      /\ t \in Actors /\ Tasks \subseteq Actors /\ wt \in [Files -> Held]
      /\ changes \in [Tasks -> BOOLEAN]
      BY DEF CopyInv, TypeOK, Actors, Outside, Tree
<1>1. TaskStep(t)
      BY DEF TaskStep
<1>2. /\ Home' /\ CommittedAll' /\ (declined' <=> declined)
      /\ \A f, c : Logged(f, c)' <=> Logged(f, c)
      /\ \A u \in Tasks : u = t \/ (pc'[u] = "idle" /\ pc[u] = "idle" /\ ~changes[u])
      BY <1>1, TaskStepApart
<1>3. p \in Files /\ p \notin todo[t] /\ pc[t] = "write" /\ contents[t] = fileHashes[p]
      BY DEF WriteCopy, CopyInv, TypeOK, InHand
<1>4. /\ UNCHANGED <<fileHashes, todo, misjudged>>
      /\ pc' = [pc EXCEPT ![t] = "paths"]
      /\ \/ wt' = [wt EXCEPT ![p] = contents[t]] /\ failed' = failed \ {p}
         \/ wt' = wt /\ failed' = failed \cup {p}
      /\ changes' = [changes EXCEPT ![t] = TRUE]
      BY DEF WriteCopy, NextPath
<1>5. /\ pc'[t] = "paths" /\ WillCommit(t)'
      /\ p \in failed' \/ wt'[p] = contents[t]
      /\ \A f \in Files : f = p \/ (wt'[f] = wt[f] /\ (f \in failed' <=> f \in failed))
      /\ \A u \in Tasks : u = t \/ changes'[u] = changes[u]
      BY <1>0, <1>3, <1>4 DEF WillCommit
<1>6. Noted' /\ InHand'
      BY <1>2, <1>5 DEF CopyInv, Noted, InHand, Working
<1>7. ASSUME NEW f \in Files, fileHashes'[f] # None
      PROVE  \/ f \in failed' \/ Logged(f, fileHashes[f])'
             \/ wt'[f] = fileHashes'[f] /\ WillCommitCopy(t, f)'
  <2>1. CASE f = p
        BY <1>3, <1>4, <1>5, <2>1 DEF WillCommitCopy
  <2>2. CASE f # p
    <3>1. \/ f \in failed \/ Logged(f, fileHashes[f])
          \/ wt[f] = fileHashes[f] /\ WillCommitCopy(t, f)
          BY <1>3, <1>4, <1>7, <2>2, AtWork DEF Steady
    <3> QED
        BY <1>2, <1>3, <1>4, <1>5, <2>2, <3>1 DEF WillCommitCopy, Working
  <2> QED
      BY <2>1, <2>2
<1> QED
    BY <1>4, <1>5, <1>2, <1>6, <1>7, StillAtWork

\* At the end of its batch a Task goes on to commit what it noted.
LEMMA EndBatchKeepsCopyInv ==
  ASSUME CopyInv, TypeOK', Steady, NEW t \in Tasks, EndBatch(t)
  PROVE  /\ CopyInv'
         /\ UNCHANGED <<wt, failed, misjudged>> /\ pc[t] = "paths" /\ todo[t] = {}
         /\ pc'[t] \notin Working \cup {"status", "assign"}
         /\ WillCommit(t)' <=> WillCommit(t)
<1> USE DEF repoVars, eventVars, infoVars, wipVars, addVars, taskVars, readVars, viewVars,
           auxVars
<1>0. /\ pc \in [Actors -> Outside \cup {"switch", "commit", "merge", "unlock"}]
      /\ t \in Actors /\ Tasks \subseteq Actors /\ changes \in [Tasks -> BOOLEAN]
      BY DEF CopyInv, TypeOK, Actors, Outside
<1>1. TaskStep(t)
      BY DEF TaskStep
<1>2. /\ Home' /\ CommittedAll' /\ (declined' <=> declined)
      /\ \A f, c : Logged(f, c)' <=> Logged(f, c)
      /\ \A u \in Tasks : u = t \/ (pc'[u] = "idle" /\ pc[u] = "idle" /\ ~changes[u])
      BY <1>1, TaskStepApart
<1>3. /\ pc[t] = "paths" /\ todo[t] = {} /\ autoCommit
      /\ UNCHANGED <<fileHashes, wt, todo, path, contents, failed, misjudged>>
      /\ pc' = [pc EXCEPT ![t] = IF changes[t] /\ autoCommit THEN "lock" ELSE "idle"]
      /\ changes' = [changes EXCEPT ![t] = FALSE]
      BY DEF EndBatch, Steady
<1>4. /\ pc'[t] = IF changes[t] THEN "lock" ELSE "idle"
      /\ pc'[t] \notin Working \cup {"status", "assign"}
      BY <1>0, <1>3 DEF Working
<1>5. ~changes'[t] /\ \A u \in Tasks : u = t \/ changes'[u] = changes[u]
      BY <1>0, <1>3
<1>6. WillCommit(t)' <=> WillCommit(t)
      BY <1>3, <1>4, <1>5 DEF WillCommit
<1>7. Noted' /\ InHand'
      BY <1>2, <1>3, <1>4, <1>5 DEF CopyInv, Noted, InHand, Working
<1>8. \A f \in Files : fileHashes'[f] # None =>
          \/ f \in failed' \/ Logged(f, fileHashes[f])'
          \/ wt'[f] = fileHashes'[f] /\ WillCommitCopy(t, f)'
      BY <1>2, <1>3, <1>4, <1>6, AtWork DEF Steady, WillCommitCopy
<1>9. \A f \in Files : wt'[f] = Marked \/ Logged(f, wt[f])' \/ declined' \/ WillCommit(t)'
      BY <1>2, <1>3, <1>6, AtWork DEF Steady
<1> QED
    BY <1>2, <1>3, <1>4, <1>6, <1>7, <1>8, <1>9, StillAtWork

\* What a merge that does not break off leaves in the worktree is committed, if what was
\* there before was.
LEMMA MergeLeavesLogged ==
  ASSUME TypeOK, Home, NEW a \in Actors, MergeHead(a), ~declined', NEW f \in Files,
         wt[f] = Marked \/ Logged(f, wt[f])
  PROVE  wt'[f] = Marked \/ Logged(f, wt[f])'
<1> DEFINE w == wip[wtHead]
           b == info.branch
           c == info.commit
           merged == [x \in Files |-> MergedFile(w, b, c, x)]
           next == [w EXCEPT !.tree = merged, !.time = clock, !.log = @ \cup {merged},
                             !.merged[b] = c]
<1>0. w \in Wip /\ wip \in [Branches -> Wip] /\ wtHead \in Branches /\ wtHead = Main
      BY DEF TypeOK, Home
<1>1. next.log = w.log \cup {merged}
      BY <1>0 DEF Wip
<1>2. \/ wip' = wip /\ wt' = wt
      \/ wip' = [wip EXCEPT ![wtHead] = next] /\ wt' = [x \in Files |-> OnDisk(w, b, c, x)]
      BY DEF MergeHead
<1>3. CASE wip' = wip /\ wt' = wt
      BY <1>3 DEF Logged
<1>4. CASE wip' = [wip EXCEPT ![wtHead] = next] /\ wt' = [x \in Files |-> OnDisk(w, b, c, x)]
  <2> HIDE DEF next
  <2>1. wip'[Main].log = w.log \cup {merged}
        BY <1>0, <1>1, <1>4
  <2>2. merged[f] = MergedFile(w, b, c, f) /\ wt'[f] = OnDisk(w, b, c, f)
        BY <1>4
  <2>3. OnDisk(w, b, c, f) \in {wt[f], w.tree[f], MergedFile(w, b, c, f), Marked}
        BY DEF OnDisk, MergedFile
  <2>4. w.tree \in wip'[Main].log /\ merged \in wip'[Main].log
        BY <1>0, <2>1 DEF Home
  <2> HIDE DEF merged
  <2>5. CASE wt'[f] = wt[f]
        BY <1>0, <2>1, <2>5 DEF Logged
  <2>6. CASE wt'[f] = w.tree[f]
        BY <2>4, <2>6 DEF Logged
  <2>7. CASE wt'[f] = merged[f]
        BY <2>4, <2>7 DEF Logged
  <2> QED
      BY <2>2, <2>3, <2>5, <2>6, <2>7
<1> QED
    BY <1>2, <1>3, <1>4

\* addWipCommit puts what is in the worktree on Main's wip branch.
LEMMA AddKeepsCopyInv ==
  ASSUME CopyInv, TypeOK', Steady, NEW t \in Actors, AddWipCommit(t)
  PROVE  /\ CopyInv'
         /\ t \in Tasks /\ pc[t] \notin Working \cup {"idle", "status", "assign"}
         /\ pc'[t] \notin Working \cup {"status", "assign"}
         /\ UNCHANGED <<failed, misjudged>>
         /\ declined => UNCHANGED wt /\ (declined' \/ \A f \in Files : Logged(f, wt[f])')
         /\ \A f \in Files, c \in Held : Logged(f, c) => Logged(f, c)'
         /\ WillCommit(t) => /\ UNCHANGED wt
                             /\ WillCommit(t)' \/ \A f \in Files : Logged(f, wt[f])'
<1> USE DEF repoVars, eventVars, infoVars, wipVars, addVars, taskVars, readVars, viewVars,
           auxVars
<1>0. /\ pc \in [Actors -> Outside \cup {"switch", "commit", "merge", "unlock"}]
      /\ UI \in Actors /\ UI \notin Tasks /\ Actors = Tasks \cup {UI}
      /\ wip \in [Branches -> Wip] /\ Main \in Branches /\ wt \in Tree
      /\ Home
      BY WipAssumption DEF CopyInv, TypeOK, Actors, Outside
<1>1. /\ pc[t] \in {"lock", "switch", "commit", "merge", "unlock"}
      /\ UNCHANGED <<infoVars, todo, path, contents, changes, viewVars, failed, misjudged>>
      /\ \E s \in {"idle", "switch", "commit", "merge", "unlock"} : pc' = [pc EXCEPT ![t] = s]
      BY DEF AddWipCommit, Lock, SwitchBranch, CommitWip, MergeHead, Unlock
<1>2. t \in Tasks /\ t # UI
      BY <1>0, <1>1 DEF Home
<1>3. /\ pc'[t] \in {"idle", "switch", "commit", "merge", "unlock"}
      /\ \A a \in Actors : a = t \/ pc'[a] = pc[a]
      BY <1>0, <1>1
<1>4. \A u \in Tasks : u = t \/ (pc'[u] = "idle" /\ ~changes[u])
      BY <1>0, <1>1, <1>2, <1>3, AtWork DEF Steady
<1>5. ~changes[t]
      BY <1>1, <1>2 DEF CopyInv, Noted, Working
<1>6. Noted' /\ InHand'
      BY <1>1, <1>2, <1>3, <1>4, <1>5 DEF Noted, InHand
<1>7. /\ pc[t] \notin Working \cup {"idle", "status", "assign"}
      /\ pc'[t] \notin Working \cup {"status", "assign"}
      BY <1>1, <1>3 DEF Working
<1>8. /\ \A f \in Files : fileHashes[f] # None =>
             \/ f \in failed \/ Logged(f, fileHashes[f])
             \/ wt[f] = fileHashes[f] /\ WillCommit(t)
      /\ \A f \in Files : wt[f] = Marked \/ Logged(f, wt[f]) \/ declined \/ WillCommit(t)
      BY <1>1, <1>2, AtWork DEF Steady, WillCommitCopy
<1>9. \A f \in Files : fileHashes[f] # None => fileHashes[f] \in Held
      BY DEF CopyInv, TypeOK
<1>10. CASE Lock(t) \/ SwitchBranch(t)
  <2>1. UNCHANGED <<wt, wtHead, wip, declined>>
        BY <1>0, <1>10 DEF Lock, SwitchBranch, Home
  <2>6. CommittedAll'
        BY <1>0, <1>10, <1>4 DEF Lock, SwitchBranch, CommittedAll
  <2>2. WillCommit(t)'
        BY <1>0, <1>10 DEF Lock, SwitchBranch, WillCommit
  <2>3. Home'
        BY <1>0, <1>1, <1>2, <1>3, <2>1 DEF Home
  <2>4. \A f, c : Logged(f, c)' <=> Logged(f, c)
        BY <2>1 DEF Logged
  <2>5. \A f \in Files : fileHashes'[f] # None =>
            \/ f \in failed' \/ Logged(f, fileHashes[f])'
            \/ wt'[f] = fileHashes'[f] /\ WillCommitCopy(t, f)'
        BY <1>1, <1>7, <1>8, <2>1, <2>2, <2>4 DEF WillCommitCopy
  <2> QED
      BY <1>1, <1>2, <1>6, <1>7, <2>1, <2>2, <2>3, <2>4, <2>5, <2>6, StillAtWork
<1>11. CASE CommitWip(t)
  <2>1. wip' = [wip EXCEPT ![wtHead] =
                  [wip[wtHead] EXCEPT !.tree = wt, !.time = clock, !.log = @ \cup {wt}]]
        BY <1>0, <1>11 DEF CommitWip, Wip
  <2>2. /\ UNCHANGED <<wt, wtHead>> /\ wip'[Main].live
        /\ wip'[Main].tree = wt /\ wip'[Main].log = wip[Main].log \cup {wt}
        BY <1>0, <1>11, <2>1 DEF CommitWip, Wip, Home
  <2>3. \A f \in Files : Logged(f, wt[f])' /\ \A c \in Held : Logged(f, c) => Logged(f, c)'
        BY <2>2 DEF Logged
  <2>4. Home'
        BY <1>0, <1>1, <1>2, <1>3, <2>2 DEF Home
  <2>5. \A f \in Files : fileHashes'[f] # None => f \in failed' \/ Logged(f, fileHashes[f])'
        BY <1>1, <1>8, <1>9, <2>2, <2>3
  <2>6. CommittedAll'
        BY <1>11 DEF CommitWip, CommittedAll
  <2> QED
      BY <1>1, <1>2, <1>6, <1>7, <2>2, <2>3, <2>4, <2>5, <2>6, StillAtWork
<1>12. CASE MergeHead(t) \/ Unlock(t)
  <2>1. ~WillCommit(t)
        BY <1>5, <1>12 DEF MergeHead, Unlock, WillCommit
  <2>2. /\ wtHead' = wtHead /\ wip'[Main].live /\ wip[Main].log \subseteq wip'[Main].log
        /\ wip'[Main].tree \in wip'[Main].log
    <3>1. CASE Unlock(t)
          BY <1>0, <3>1 DEF Unlock, Home
    <3>2. CASE MergeHead(t)
      <4>1. wip'[Main].live /\ wip[Main].log \subseteq wip'[Main].log
            BY <1>0, <3>2, MergeGrows DEF Home
      <4>2. wip'[Main].tree \in wip'[Main].log
        <5> DEFINE w == wip[wtHead]
                   merged == [f \in Files |-> MergedFile(w, info.branch, info.commit, f)]
                   next == [w EXCEPT !.tree = merged, !.time = clock, !.log = @ \cup {merged},
                                     !.merged[info.branch] = info.commit]
        <5>1. w \in Wip
              BY <1>0 DEF Home
        <5>2. next.tree \in next.log
              BY <5>1 DEF Wip
        <5>3. wip' = wip \/ wip' = [wip EXCEPT ![wtHead] = next]
              BY <3>2 DEF MergeHead
        <5> HIDE DEF next
        <5> QED
            BY <1>0, <5>2, <5>3 DEF Home
      <4> QED
          BY <3>2, <4>1, <4>2 DEF MergeHead
    <3> QED
        BY <1>12, <3>1, <3>2
  <2>3. \A f \in Files, c \in Held : Logged(f, c) => Logged(f, c)'
        BY <2>2 DEF Logged
  <2>7. MergeHead(t) => ~declined
        BY <1>2 DEF MergeHead, CopyInv, CommittedAll
  <2>8. declined => UNCHANGED <<wt, declined>>
        BY <1>12, <2>7 DEF Unlock
  <2>4. \A f \in Files : wt'[f] = Marked \/ Logged(f, wt[f])' \/ declined'
    <3>1. CASE Unlock(t)
          BY <1>8, <2>1, <3>1 DEF Unlock, Logged
    <3>2. CASE MergeHead(t)
          BY <1>0, <1>8, <2>1, <2>7, <3>2, MergeLeavesLogged DEF CopyInv
    <3> QED
        BY <1>12, <3>1, <3>2
  <2>5. Home'
        BY <1>0, <1>1, <1>2, <1>3, <2>2 DEF Home
  <2>6. \A f \in Files : fileHashes'[f] # None => f \in failed' \/ Logged(f, fileHashes[f])'
        BY <1>1, <1>8, <1>9, <2>1, <2>3
  <2>9. CommittedAll'
        BY <1>0, <1>12, <1>4 DEF MergeHead, Unlock, CommittedAll
  <2> QED
      BY <1>1, <1>2, <1>6, <1>7, <2>1, <2>3, <2>4, <2>5, <2>6, <2>8, <2>9, StillAtWork
<1> QED
    BY <1>10, <1>11, <1>12 DEF AddWipCommit

\* A Task going through its batch keeps CopyInv.
LEMMA TaskKeepsCopyInv ==
  ASSUME CopyInv, TypeOK', Steady, NEW t \in Tasks, TaskStep(t)
  PROVE  CopyInv'
<1>1. CASE HandlePath(t)
  <2> PICK g \in todo[t] : /\ todo' = [todo EXCEPT ![t] = @ \ {g}]
                           /\ DropCopy(t, g) \/ DropFails(g) \/ WillCopy(t, g)
      BY <1>1 DEF HandlePath
  <2> QED
      BY <1>1, WillCopyKeepsCopyInv, DropCopyKeepsCopyInv, DropFailsKeepsCopyInv
<1> QED
    BY <1>1, ReadKeepsCopyInv, ReadPathKeepsCopyInv, WriteCopyKeepsCopyInv, EndBatchKeepsCopyInv
    DEF TaskStep

\* As long as the pipeline works steadily, CopyInv is inductive.
LEMMA StepCopyInv == CopyInv /\ Steady /\ Steady' /\ [Next]_vars => CopyInv'
<1> SUFFICES ASSUME CopyInv, Steady, Steady', [Next]_vars PROVE CopyInv'
    OBVIOUS
<1>1. TypeOK'
      BY StepTypeOK DEF CopyInv
<1>2. CASE UNCHANGED vars
      BY <1>1, <1>2
      DEF vars, infoVars, wipVars, taskVars, viewVars, auxVars, CopyInv, Noted, Home, InHand,
          HashKept, CopyKept, CommittedAll, Logged, WillCommitCopy, WillCommit
<1>3. CASE Next
      BY <1>1, <1>3, OthersKeepCopyInv, DeliverKeepsCopyInv, TaskKeepsCopyInv, AddKeepsCopyInv
      DEF Next
<1> QED
    BY <1>2, <1>3

----------------------------------------------------------------------------
(* Every save is backed up, as long as no event is lost either.            *)

\* The pipeline works steadily, and FSEvents has not asked for a rescan.
Undisturbed == Steady /\ ~rescan

\* A batch is not empty, and the content in hand is what the file holds, unless another event
\* is on its way.
HandFresh ==
    \A t \in Tasks :
        /\ pc[t] \in {"status", "assign"} => todo[t] # {}
        /\ pc[t] = "write" => path[t] \in pending \/ contents[t] = work[path[t]]

\* The Task has still to come to f, has it in hand, or has copied it and will commit it.
OnItsWay(t, f) ==
    \/ pc[t] \in {"status", "assign"} \cup Working /\ f \in todo[t]
    \/ pc[t] \in {"read", "read!"} /\ path[t] = f /\ work[f] # Absent
    \/ pc[t] = "write" /\ path[t] = f /\ contents[t] = work[f]
    \/ WillCommit(t) /\ wt[f] = work[f]

\* A file that needs a backup has an event, or a backup, or a copy that waits for the next wip
\* commit, or a Task that makes one; or nobody makes up for it.
BackupDue ==
    \A f \in Files : NeedsBackup(f) /\ f \notin pending =>
        \/ Lost(f) \/ Waits(f) \/ Logged(f, work[f])
        \/ \E t \in Tasks : OnItsWay(t, f)

\* What a file that needs a backup stands for.
BackupInv == CopyInv /\ HandFresh /\ BackupDue

LEMMA InitBackupInv == Init => BackupInv
<1> SUFFICES ASSUME Init PROVE BackupInv
    OBVIOUS
<1>1. HandFresh
      BY DEF Init, HandFresh, Actors
<1>2. ASSUME NEW f \in Files PROVE ~NeedsBackup(f)
  <2>1. /\ tip[head].tree[f] = IF f \in Tracked THEN Root ELSE Absent
        /\ work[f] = IF f \in Tracked \cup Untracked THEN Root ELSE Absent
        BY WipAssumption DEF Init, RootCommit
  <2> QED
      BY <2>1 DEF NeedsBackup
<1>3. BackupDue
      BY <1>2 DEF BackupDue
<1> QED
    BY <1>1, <1>3, InitCopyInv DEF BackupInv

\* git takes no file that needs a backup for untracked.
LEMMA NeedsBackupTracked ==
  ASSUME NEW f \in Files, NeedsBackup(f)
  PROVE  Status(f) # "untracked"
  BY DEF NeedsBackup, Status

\* While a Task is at work the others have no part in BackupDue.
LEMMA DueAtWork ==
  ASSUME BackupInv, OneAtATime, NEW t \in Tasks, pc[t] # "idle"
  PROVE  \A f \in Files : NeedsBackup(f) /\ f \notin pending =>
             Lost(f) \/ Waits(f) \/ Logged(f, work[f]) \/ OnItsWay(t, f)
<1>1. \A u \in Tasks : u = t \/ (pc[u] = "idle" /\ ~WillCommit(u))
      BY AtWork DEF BackupInv
<1>2. \A u \in Tasks, f \in Files : u = t \/ ~OnItsWay(u, f)
      BY <1>1 DEF OnItsWay, Working
<1> QED
    BY <1>2 DEF BackupInv, BackupDue

\* The other way round, for a step of that Task.
LEMMA StillDue ==
  ASSUME CopyInv', NEW t \in Tasks, \A u \in Tasks : u = t \/ pc'[u] = "idle", HandFresh',
         \A f \in Files : NeedsBackup(f)' /\ f \notin pending' =>
             Lost(f)' \/ Waits(f)' \/ Logged(f, work[f])' \/ OnItsWay(t, f)'
  PROVE  BackupInv'
<1>1. BackupDue'
      BY DEF BackupDue
<1> QED
    BY <1>1 DEF BackupInv

\* A save has its event; a commit by the user leaves nothing to back up; the views and the
\* watchers do not matter.
LEMMA OthersKeepBackupInv ==
  ASSUME BackupInv, TypeOK', Undisturbed, Undisturbed',
         \/ User \/ DropEvents \/ RefreshHead \/ RefreshStatus \/ ToggleAutoCommit
         \/ ManualCommit \/ Viewer
  PROVE  BackupInv'
<1> USE DEF repoVars, eventVars, infoVars, wipVars, addVars, taskVars, readVars, viewVars,
           auxVars
<1>1. CopyInv' /\ UNCHANGED <<fileHashes, wt, taskVars, auxVars>> /\ wip'[Main] = wip[Main]
      BY OthersKeepCopyInv DEF BackupInv, Undisturbed
<1>2. /\ \A f, c : Logged(f, c)' <=> Logged(f, c)
      /\ \A t \in Tasks : WillCommit(t)' <=> WillCommit(t)
      BY <1>1 DEF Logged, WillCommit
<1>3. /\ \A t \in Tasks, f \in Files :
             work'[f] = work[f] => (OnItsWay(t, f)' <=> OnItsWay(t, f))
      /\ \A f \in Files : Lost(f) => Lost(f)'
      /\ \A f \in Files : work'[f] = work[f] /\ Waits(f) => Waits(f)'
  <2>1. \A t \in Tasks, f \in Files :
            work'[f] = work[f] => (OnItsWay(t, f)' <=> OnItsWay(t, f))
        BY <1>1, <1>2 DEF OnItsWay
  <2>2. \A f \in Files : Lost(f) => Lost(f)'
        BY <1>1 DEF Lost
  <2>3. \A f \in Files : work'[f] = work[f] /\ Waits(f) => Waits(f)'
        BY <1>1 DEF Waits
  <2> QED
      BY <2>1, <2>2, <2>3
<1>4. \A t \in Tasks : pc[t] = "write" => path[t] \in Files
      BY DEF BackupInv, CopyInv, TypeOK
<1>5. ASSUME pending \subseteq pending', \A f \in Files : work'[f] = work[f] \/ f \in pending',
             \A f \in Files : NeedsBackup(f)' /\ f \notin pending' => NeedsBackup(f)
      PROVE  BackupInv'
  <2>1. HandFresh'
        BY <1>1, <1>4, <1>5 DEF BackupInv, HandFresh
  <2>2. BackupDue'
        BY <1>1, <1>2, <1>3, <1>5 DEF BackupInv, BackupDue
  <2> QED
      BY <1>1, <2>1, <2>2 DEF BackupInv
<1>6. ASSUME NEW f \in Files, NEW c \in Contents \cup {Absent}, Save(f, c) PROVE BackupInv'
  <2>1. /\ work' = [work EXCEPT ![f] = c] /\ pending' = pending \cup {f}
        /\ UNCHANGED <<head, tip>>
        BY <1>6 DEF Save
  <2>2. \A x \in Files : x # f => work'[x] = work[x]
        BY <2>1 DEF BackupInv, CopyInv, TypeOK, Tree
  <2> QED
      BY <1>5, <2>1, <2>2 DEF NeedsBackup
<1>7. CASE CommitAll
  <2>1. UNCHANGED <<head, work, pending>>
        BY <1>7 DEF CommitAll
  <2>2. \A f \in Files : tip'[head].tree[f] = IF Status(f) = "untracked" THEN Absent ELSE work[f]
        BY <1>7 DEF CommitAll, BackupInv, CopyInv, TypeOK
  <2>3. \A f \in Files : ~NeedsBackup(f)'
        BY <2>1, <2>2 DEF NeedsBackup
  <2> QED
      BY <1>5, <2>1, <2>3
<1>8. CASE (\E f \in Files : Add(f)) \/ RefreshHead \/ RefreshStatus \/ ToggleAutoCommit \/ Viewer
  <2>1. UNCHANGED <<head, tip, work, pending>>
        BY <1>8 DEF Add, RefreshHead, RefreshStatus, StartRefresh, EndRefresh, ToggleAutoCommit,
                    Viewer, View, CreateWip
  <2>2. \A f \in Files : NeedsBackup(f)' <=> NeedsBackup(f)
        BY <2>1 DEF NeedsBackup
  <2> QED
      BY <1>5, <2>1, <2>2
<1>9. CASE (\E b \in Branches : Checkout(b)) \/ DropEvents \/ ManualCommit
      BY <1>9 DEF Checkout, DropEvents, ManualCommit, Undisturbed, Steady
<1> QED
    BY <1>6, <1>7, <1>8, <1>9 DEF User

\* A batch takes every file that has an event.
LEMMA DeliverKeepsBackupInv ==
  ASSUME BackupInv, TypeOK', Undisturbed, Undisturbed', NEW t \in Tasks, DeliverBatch(t)
  PROVE  BackupInv'
<1> USE DEF repoVars, eventVars, infoVars, wipVars, addVars, taskVars, readVars, viewVars,
           auxVars
<1>0. /\ pc \in [Actors -> Outside \cup {"switch", "commit", "merge", "unlock"}]
      /\ t \in Actors /\ Tasks \subseteq Actors /\ todo \in [Tasks -> SUBSET Files]
      BY DEF BackupInv, CopyInv, TypeOK, Actors, Outside
<1>1. CopyInv' /\ \A u \in Tasks : pc[u] = "idle" /\ ~changes[u]
      BY DeliverKeepsCopyInv DEF BackupInv, Undisturbed
<1>2. /\ UNCHANGED <<repoVars, wipVars, path, contents, auxVars>>
      /\ pc' = [pc EXCEPT ![t] = "status"] /\ todo' = [todo EXCEPT ![t] = pending]
      /\ pending # {} /\ pending' = {}
      BY DEF DeliverBatch, Undisturbed
<1>3. \A u \in Tasks, f \in Files : ~OnItsWay(u, f)
      BY <1>1 DEF WillCommit, OnItsWay, Working
<1>4. pc'[t] = "status" /\ todo'[t] = pending /\ \A u \in Tasks : u = t \/ pc'[u] = "idle"
      BY <1>0, <1>1, <1>2
<1>5. HandFresh'
      BY <1>2, <1>4 DEF HandFresh
<1>6. ASSUME NEW f \in Files, NeedsBackup(f)'
      PROVE  Lost(f)' \/ Waits(f)' \/ Logged(f, work[f])' \/ OnItsWay(t, f)'
  <2>1. NeedsBackup(f)
        BY <1>2, <1>6 DEF NeedsBackup
  <2>2. CASE f \in pending
        BY <1>4, <2>2 DEF OnItsWay
  <2>3. CASE f \notin pending
        BY <1>2, <1>3, <2>1, <2>3 DEF BackupInv, BackupDue, Logged, Lost, Waits
  <2> QED
      BY <2>2, <2>3
<1> QED
    BY <1>1, <1>4, <1>5, <1>6, StillDue

\* A Task loses no file of its batch but those a failed copy or a late status loses.
LEMMA TaskKeepsBackupInv ==
  ASSUME BackupInv, TypeOK', Undisturbed, NEW t \in Tasks, TaskStep(t)
  PROVE  BackupInv'
<1> USE DEF repoVars, eventVars, infoVars, wipVars, addVars, taskVars, readVars, viewVars,
           auxVars
<1>0. CopyInv /\ Steady /\ todo \in [Tasks -> SUBSET Files]
      BY DEF BackupInv, CopyInv, TypeOK, Undisturbed
<1>1. /\ UNCHANGED repoVars /\ (declined' <=> declined)
      /\ \A f \in Files : NeedsBackup(f)' <=> NeedsBackup(f)
      /\ \A f, c : Logged(f, c)' <=> Logged(f, c)
      /\ pc[t] # "idle"
      /\ \A u \in Tasks : u = t \/ (pc'[u] = "idle" /\ pc[u] = "idle" /\ ~changes[u])
      BY <1>0, TaskStepApart
<1>2. UNCHANGED pending
      BY DEF TaskStep, ReadStatus, AssignStatus, HandlePath, ReadFails, SameHash, ReadPath,
             WriteCopy, EndBatch, BackupInv, HandFresh
<1>3. /\ pc'[t] # "status"
      /\ pc'[t] = "assign" => ReadStatus(t)
      /\ pc'[t] = "write" => ReadPath(t)
  <2>1. pc \in [Actors -> Outside \cup {"switch", "commit", "merge", "unlock"}] /\ t \in Actors
        BY DEF BackupInv, CopyInv, TypeOK, Outside, Actors
  <2>2. CASE HandlePath(t)
        BY <2>1, <2>2 DEF HandlePath, DropCopy, DropFails, WillCopy
  <2>3. CASE ReadStatus(t) \/ AssignStatus(t) \/ ReadFails(t) \/ SameHash(t)
        BY <2>1, <2>3 DEF ReadStatus, AssignStatus, ReadFails, SameHash, NextPath
  <2>4. CASE ReadPath(t) \/ WriteCopy(t) \/ EndBatch(t)
        BY <2>1, <2>4 DEF ReadPath, WriteCopy, EndBatch, NextPath
  <2> QED
      BY <2>2, <2>3, <2>4 DEF TaskStep
<1>4. HandFresh'
  <2>1. ReadPath(t) => contents'[t] = work[path[t]] /\ path' = path
        BY <1>0, ReadPathKeepsCopyInv
  <2>2. ReadStatus(t) => todo'[t] # {}
        BY DEF ReadStatus, BackupInv, HandFresh
  <2> QED
      BY <1>1, <1>2, <1>3, <2>1, <2>2 DEF HandFresh
<1>5. ASSUME NEW f \in Files, NeedsBackup(f)', f \notin pending'
      PROVE  Lost(f)' \/ Waits(f)' \/ Logged(f, work[f])' \/ OnItsWay(t, f)'
  <2> SUFFICES ASSUME ~Logged(f, work[f])
               PROVE  Lost(f)' \/ Waits(f)' \/ OnItsWay(t, f)'
      BY <1>1
  <2>0. /\ NeedsBackup(f) /\ f \notin pending /\ work'[f] = work[f]
        /\ Lost(f) \/ Waits(f) \/ OnItsWay(t, f)
        BY <1>0, <1>1, <1>2, <1>5, DueAtWork DEF Steady
  <2>6. wt'[f] = wt[f] => (Waits(f) => Waits(f)')
        BY <1>1, <2>0 DEF Waits
  <2>1. CASE ReadStatus(t) \/ AssignStatus(t) \/ ReadFails(t) \/ SameHash(t)
    <3>1. /\ UNCHANGED <<fileHashes, wt, todo, contents, changes, auxVars>>
          /\ \/ pc[t] = "status" /\ pc'[t] = "assign"
             \/ pc[t] \in {"assign", "read", "read!"} /\ pc'[t] = "paths"
          /\ WillCommit(t)' <=> WillCommit(t)
          BY <1>0, <2>1, ReadKeepsCopyInv
    <3>2. CASE Lost(f) \/ Waits(f)
          BY <2>6, <3>1, <3>2 DEF Lost
    <3>3. CASE f \in todo[t] /\ OnItsWay(t, f)
          BY <3>1, <3>3 DEF OnItsWay, Working
    <3>4. CASE WillCommit(t) /\ wt[f] = work[f]
          BY <2>0, <3>1, <3>4 DEF OnItsWay
    <3>5. CASE pc[t] \in {"read", "read!"} /\ path[t] = f /\ work[f] # Absent
      <4>1. SameHash(t)
            BY <2>0, <2>1, <3>5 DEF NeedsBackup, ReadStatus, AssignStatus, ReadFails
      <4>2. fileHashes[f] = work[f] /\ fileHashes[f] # None
            BY <3>5, <4>1, WipAssumption DEF SameHash, BackupInv, CopyInv, TypeOK, Tree, Held
      <4>3. f \in failed \/ (wt[f] = work[f] /\ WillCommit(t))
            BY <1>0, <1>1, <3>5, <4>2, AtWork DEF Steady, WillCommitCopy
      <4> QED
          BY <2>0, <3>1, <4>3 DEF OnItsWay, Lost
    <3> QED
        BY <2>0, <3>1, <3>2, <3>3, <3>4, <3>5 DEF OnItsWay
  <2>2. CASE HandlePath(t)
    <3> PICK g \in todo[t] :
            /\ todo' = [todo EXCEPT ![t] = @ \ {g}]
            /\ misjudged' = IF Misjudges(g) THEN misjudged \cup {g} ELSE misjudged \ {g}
            /\ DropCopy(t, g) \/ DropFails(g) \/ WillCopy(t, g)
        BY <2>2 DEF HandlePath
    <3>1. /\ pc[t] = "paths" /\ todo'[t] = todo[t] \ {g}
          /\ Waits(f) \/ Lost(f) \/ f \in todo[t] \/ (WillCommit(t) /\ wt[f] = work[f])
      <4>1. pc[t] = "paths" /\ todo'[t] = todo[t] \ {g}
            BY <1>0, <2>2 DEF HandlePath
      <4> QED
          BY <2>0, <4>1 DEF OnItsWay
    <3>2. Misjudges(f) /\ f = g => Lost(f)'
          BY DEF Lost
    <3>5. f # g /\ failed \subseteq failed' => (Lost(f) => Lost(f)')
          BY DEF Lost
    <3>3. CASE WillCopy(t, g)
      <4>1. /\ UNCHANGED <<wt, failed>> /\ path'[t] = g /\ pc'[t] \in {"read", "read!"}
            /\ WillCommit(t)' <=> WillCommit(t)
            BY <1>0, <2>2, <3>3, WillCopyKeepsCopyInv
      <4>2. work[g] # Absent
            BY <3>3 DEF WillCopy
      <4>3. CASE f = g
            BY <2>0, <4>1, <4>2, <4>3 DEF OnItsWay
      <4>4. CASE f # g
            BY <2>0, <2>6, <3>1, <3>5, <4>1, <4>4 DEF OnItsWay, Working
      <4> QED
          BY <4>3, <4>4
    <3>4. CASE DropCopy(t, g)
      <4>1. /\ UNCHANGED <<pc, failed>> /\ wt'[g] = Absent
            /\ \A x \in Files : x = g \/ wt'[x] = wt[x]
            /\ WillCommit(t)' <=> (WillCommit(t) \/ wt[g] # Absent)
            BY <1>0, <2>2, <3>4, DropCopyKeepsCopyInv
      <4>2. CASE f # g
            BY <2>0, <2>6, <3>1, <3>5, <4>1, <4>2 DEF OnItsWay, Working
      <4>3. CASE f = g /\ status[f] = "untracked"
            BY <2>0, <3>2, <4>3, NeedsBackupTracked DEF Misjudges
      <4>4. CASE f = g /\ status[f] # "untracked"
        <5>1. work[f] = Absent
              BY <3>4, <4>4 DEF DropCopy
        <5>2. wt[f] = Absent => declined \/ WillCommit(t)
          <6>1. Absent # Marked
                BY WipAssumption
          <6>2. wt[f] = Marked \/ Logged(f, wt[f]) \/ declined \/ WillCommit(t)
                BY <1>0, <1>1, AtWork DEF Steady
          <6> QED
              BY <5>1, <6>1, <6>2
        <5>3. wt'[f] = work'[f] /\ (declined' \/ WillCommit(t)')
              BY <1>1, <2>0, <4>1, <4>4, <5>1, <5>2
        <5> QED
            BY <5>3 DEF OnItsWay, Waits
      <4> QED
          BY <4>2, <4>3, <4>4
    <3>6. CASE DropFails(g)
      <4>1. /\ UNCHANGED <<pc, wt>> /\ g \in failed' /\ failed \subseteq failed'
            /\ WillCommit(t)' <=> WillCommit(t)
            BY <1>0, <2>2, <3>6, DropFailsKeepsCopyInv
      <4>2. CASE f = g
            BY <4>1, <4>2 DEF Lost
      <4>3. CASE f # g
            BY <2>0, <2>6, <3>1, <3>5, <4>1, <4>3 DEF OnItsWay, Working
      <4> QED
          BY <4>2, <4>3
    <3> QED
        BY <3>3, <3>4, <3>6
  <2>3. CASE ReadPath(t)
    <3>1. /\ UNCHANGED <<wt, path, todo, auxVars>> /\ pc'[t] = "write"
          /\ contents'[t] = work[path[t]]
          /\ WillCommit(t)' <=> WillCommit(t)
          BY <1>0, <2>3, ReadPathKeepsCopyInv
    <3>2. pc[t] \in {"read", "read!"}
          BY <2>3 DEF ReadPath
    <3>3. Lost(f) => Lost(f)'
          BY <3>1 DEF Lost
    <3>4. OnItsWay(t, f) => OnItsWay(t, f)'
          BY <2>0, <3>1, <3>2 DEF OnItsWay, Working
    <3> QED
        BY <2>0, <2>6, <3>1, <3>3, <3>4
  <2>4. CASE WriteCopy(t)
    <3>1. /\ UNCHANGED <<todo, misjudged>> /\ pc'[t] = "paths" /\ WillCommit(t)'
          /\ path[t] \in failed' \/ wt'[path[t]] = contents[t]
          /\ \A x \in Files : x = path[t] \/ (wt'[x] = wt[x] /\ (x \in failed' <=> x \in failed))
          BY <1>0, <2>4, WriteCopyKeepsCopyInv
    <3>2. pc[t] = "write"
          BY <2>4 DEF WriteCopy
    <3>3. CASE f = path[t]
      <4>1. contents[t] = work[f]
            BY <2>0, <3>2, <3>3 DEF BackupInv, HandFresh
      <4> QED
          BY <2>0, <3>1, <3>3, <4>1 DEF OnItsWay, Lost
    <3>4. CASE f # path[t]
      <4>1. Lost(f) => Lost(f)'
            BY <3>1, <3>4 DEF Lost
      <4>2. OnItsWay(t, f) => OnItsWay(t, f)'
            BY <2>0, <3>1, <3>2, <3>4 DEF OnItsWay, Working
      <4> QED
          BY <2>0, <2>6, <3>1, <3>4, <4>1, <4>2
    <3> QED
        BY <3>3, <3>4
  <2>5. CASE EndBatch(t)
    <3>1. /\ UNCHANGED <<wt, failed, misjudged>> /\ pc[t] = "paths" /\ todo[t] = {}
          /\ WillCommit(t)' <=> WillCommit(t)
          BY <1>0, <2>5, EndBatchKeepsCopyInv
    <3>2. Lost(f) => Lost(f)'
          BY <3>1 DEF Lost
    <3>3. OnItsWay(t, f) => OnItsWay(t, f)'
          BY <2>0, <3>1 DEF OnItsWay
    <3> QED
        BY <2>0, <2>6, <3>1, <3>2, <3>3
  <2> QED
      BY <2>1, <2>2, <2>3, <2>4, <2>5 DEF TaskStep
<1> QED
    BY <1>0, <1>1, <1>4, <1>5, TaskKeepsCopyInv, StillDue

\* addWipCommit commits what a Task copied.
LEMMA AddKeepsBackupInv ==
  ASSUME BackupInv, TypeOK', Undisturbed, NEW t \in Actors, AddWipCommit(t)
  PROVE  BackupInv'
<1> USE DEF repoVars, eventVars, infoVars, wipVars, addVars, taskVars, readVars, viewVars,
           auxVars
<1>0. CopyInv /\ Steady /\ pc \in [Actors -> Outside \cup {"switch", "commit", "merge", "unlock"}]
      BY DEF BackupInv, Undisturbed, CopyInv, TypeOK, Outside
<1>1. /\ CopyInv'
      /\ t \in Tasks /\ pc[t] \notin Working \cup {"idle", "status", "assign"}
      /\ pc'[t] \notin Working \cup {"status", "assign"}
      /\ UNCHANGED <<failed, misjudged>>
      /\ declined => UNCHANGED wt /\ (declined' \/ \A f \in Files : Logged(f, wt[f])')
      /\ \A f \in Files, c \in Held : Logged(f, c) => Logged(f, c)'
      /\ WillCommit(t) => /\ UNCHANGED wt
                          /\ WillCommit(t)' \/ \A f \in Files : Logged(f, wt[f])'
      BY <1>0, AddKeepsCopyInv
<1>2. /\ UNCHANGED <<repoVars, eventVars, todo, path, contents>>
      /\ \A a \in Actors : a = t \/ pc'[a] = pc[a]
      BY <1>0 DEF AddWipCommit, Lock, SwitchBranch, CommitWip, MergeHead, Unlock
<1>3. \A u \in Tasks : u = t \/ pc'[u] = "idle"
      BY <1>0, <1>1, <1>2, AtWork DEF Steady, Actors
<1>4. HandFresh'
      BY <1>1, <1>2, <1>3 DEF HandFresh, Working
<1>5. ASSUME NEW f \in Files, NeedsBackup(f)', f \notin pending'
      PROVE  Lost(f)' \/ Waits(f)' \/ Logged(f, work[f])' \/ OnItsWay(t, f)'
  <2>1. NeedsBackup(f) /\ f \notin pending /\ work'[f] = work[f] /\ work[f] \in Held
        BY <1>2, <1>5 DEF NeedsBackup, BackupInv, CopyInv, TypeOK, Tree
  <2>2. Lost(f) \/ Waits(f) \/ Logged(f, work[f]) \/ OnItsWay(t, f)
        BY <1>0, <1>1, <2>1, DueAtWork DEF Steady
  <2>5. CASE Lost(f)
        BY <1>1, <2>5 DEF Lost
  <2>6. CASE Waits(f)
    <3>1. declined /\ wt[f] = work[f]
          BY <2>6 DEF Waits
    <3>2. wt'[f] = work'[f] /\ (declined' \/ Logged(f, wt[f])')
          BY <1>1, <2>1, <3>1
    <3> QED
        BY <3>2 DEF Waits
  <2>3. CASE Logged(f, work[f])
        BY <1>1, <2>1, <2>3
  <2>4. CASE OnItsWay(t, f)
    <3>1. WillCommit(t) /\ wt[f] = work[f]
          BY <1>1, <2>4 DEF OnItsWay, Working
    <3>2. wt'[f] = work'[f] /\ (WillCommit(t)' \/ Logged(f, wt[f])')
          BY <1>1, <2>1, <3>1
    <3> QED
        BY <3>2 DEF OnItsWay
  <2> QED
      BY <2>2, <2>3, <2>4, <2>5, <2>6
<1> QED
    BY <1>1, <1>3, <1>4, <1>5, StillDue

\* As long as nothing disturbs the pipeline, BackupInv is inductive.
LEMMA StepBackupInv == BackupInv /\ Undisturbed /\ Undisturbed' /\ [Next]_vars => BackupInv'
<1> SUFFICES ASSUME BackupInv, Undisturbed, Undisturbed', [Next]_vars PROVE BackupInv'
    OBVIOUS
<1>1. TypeOK'
      BY StepTypeOK DEF BackupInv, CopyInv
<1>2. CASE UNCHANGED vars
  <2>1. CopyInv'
        BY <1>2, StepCopyInv DEF BackupInv, Undisturbed
  <2> QED
      BY <1>2, <2>1
      DEF vars, repoVars, eventVars, infoVars, wipVars, taskVars, auxVars, BackupInv, HandFresh,
          BackupDue, NeedsBackup, Lost, Waits, Logged, OnItsWay, WillCommit
<1>3. CASE Next
      BY <1>1, <1>3, OthersKeepBackupInv, DeliverKeepsBackupInv, TaskKeepsBackupInv,
         AddKeepsBackupInv DEF Next
<1> QED
    BY <1>2, <1>3

\* Under the same conditions, and if no event is lost, every tracked text that differs from
\* HEAD is in a commit of HEAD's wip branch as it stands, once all events are handled.
THEOREM SavedIsBackedUp == Spec /\ []Undisturbed => []QuietMeansBackedUp
<1>1. BackupInv /\ Undisturbed => QuietMeansBackedUp
  <2> SUFFICES ASSUME BackupInv, Undisturbed, Quiet, NEW f \in Files, NeedsBackup(f)
               PROVE  BackedUp(f) \/ Waits(f) \/ Lost(f)
      BY DEF QuietMeansBackedUp
  <2>1. \A t \in Tasks : pc[t] = "idle" /\ ~changes[t]
        BY DEF Quiet, BackupInv, CopyInv, Noted, Working, Actors
  <2>2. \A t \in Tasks : ~OnItsWay(t, f)
        BY <2>1 DEF OnItsWay, WillCommit, Working
  <2>3. Lost(f) \/ Waits(f) \/ Logged(f, work[f])
        BY <2>2 DEF BackupInv, BackupDue, Quiet
  <2> QED
      BY <2>3 DEF BackupInv, CopyInv, Home, Undisturbed, Steady, Logged, BackedUp
<1>2. Spec /\ []Undisturbed => []BackupInv
      BY InitBackupInv, StepBackupInv, PTL DEF Spec
<1> QED
    BY <1>1, <1>2, PTL

=============================================================================
