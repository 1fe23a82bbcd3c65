-------------------------- MODULE StatusCommit_proofs --------------------------
(***************************************************************************)
(* What commit(amend:) guarantees for every repository, every content of   *)
(* its files and every number of commits that run at once.                 *)
(***************************************************************************)
EXTENDS StatusCommit, TLAPS

\* The value of lastModified, the entries of the list.
Dates == {"none", "current", "old"}
Listed == [Files -> {None} \cup Entry]

\* The parts of TypeOK, for the steps that touch only some of them.
RepoType == tip \in Tree /\ index \in Tree /\ work \in Tree
ViewType ==
    /\ tracked \in Listed /\ commitSummary \in BOOLEAN
    /\ lastModified \in [Files -> Dates]
TaskType ==
    /\ pc \in [Commits -> {"idle", "restore", "files", "commit", "write", "unstage"}]
    /\ amend \in [Commits -> BOOLEAN]
    /\ list \in [Commits -> Listed]
    /\ todo \in [Commits -> SUBSET Files] /\ file \in [Commits -> Files \cup {None}]
    /\ filesToWriteBack \in [Commits -> [Files -> {None} \cup Held]]
    /\ filesToAdd \in [Commits -> SUBSET Files] /\ filesToDelete \in [Commits -> SUBSET Files]
TaskShape ==
    \A c \in Commits :
        /\ \A f \in todo[c] \cup ({file[c]} \ {None}) : list[c][f] # None
        /\ pc[c] # "files" => todo[c] = {} /\ file[c] = None
        /\ pc[c] \in {"idle", "unstage"} => filesToWriteBack[c] = NoFiles
HistoryType == saved \in Tree /\ risk \subseteq Files /\ meddled \in BOOLEAN

LEMMA TypeParts ==
  TypeOK <=> RepoType /\ ViewType /\ TaskType /\ TaskShape /\ crashed \in BOOLEAN /\ ops \in Nat
             /\ HistoryType
  BY DEF TypeOK, RepoType, ViewType, TaskType, TaskShape, HistoryType, Listed, Dates

LEMMA NextParts ==
  RepoType' /\ ViewType' /\ TaskType' /\ TaskShape' /\ crashed' \in BOOLEAN /\ ops' \in Nat
    /\ HistoryType' => TypeOK'
  BY DEF TypeOK, RepoType, ViewType, TaskType, TaskShape, HistoryType, Listed, Dates

\* nil is no content, no entry of the list and no file.
LEMMA NoneApart == None \notin Held /\ None \notin Entry /\ None \notin Files
  BY StatusAssumption DEF Held

\* An operator's value is a set of lines, or has the type the model gives it.
LEMMA LinesType ==
  ASSUME NEW c \in Held
  PROVE  LinesOf(c) \in SUBSET Lines
  BY DEF Held, LinesOf

LEMMA ChangesType ==
  ASSUME NEW a \in Held, NEW b \in Held
  PROVE  Changes(a, b) \in SUBSET Lines
  BY LinesType DEF Changes

LEMMA EntryType ==
  ASSUME NEW e \in Entry
  PROVE  /\ e.status \in Statuses /\ e.head \in Held
         /\ e.diff \in Diff /\ e.diff.selected \in SUBSET Lines
         /\ e.diff # NoDiff => e.diff.work \in Held
  BY DEF Entry, Diff, NoDiff

LEMMA ChangesOfType ==
  ASSUME NEW e \in Entry
  PROVE  ChangesOf(e) \in SUBSET Lines
  BY EntryType, ChangesType DEF ChangesOf

LEMMA StatusType ==
  ASSUME NEW f \in Files
  PROVE  StatusOf(f) \in Statuses \cup {"none", "untracked"}
  BY DEF StatusOf, Delta, Statuses

LEMMA TouchedType ==
  ASSUME lastModified \in [Files -> Dates], NEW F \in SUBSET Files
  PROVE  Touched(F) \in [Files -> Dates]
  BY DEF Touched, Dates

----------------------------------------------------------------------------
(* Types.                                                                  *)

LEMMA InitTypeOK == Init => TypeOK
<1> SUFFICES ASSUME Init PROVE TypeOK
    OBVIOUS
<1>1. RepoType /\ HistoryType
      BY StatusAssumption DEF Init, RepoType, HistoryType, Tree, Held
<1>2. ViewType
      BY DEF Init, ViewType, Listed, Dates
<1>3. TaskType
      BY DEF Init, TaskType, Listed, NoFiles
<1>4. TaskShape
      BY DEF Init, TaskShape
<1>5. crashed \in BOOLEAN /\ ops \in Nat
      BY DEF Init
<1> QED
    BY <1>1, <1>2, <1>3, <1>4, <1>5, TypeParts

\* Steps that leave the Tasks alone keep their types.
LEMMA TasksKept ==
  ASSUME TypeOK, UNCHANGED taskVars
  PROVE  TaskType' /\ TaskShape'
<1>1. TaskType /\ TaskShape
      BY TypeParts
<1>2. TaskType'
      BY <1>1 DEF TaskType, taskVars
<1>3. TaskShape'
      BY <1>1 DEF TaskShape, taskVars
<1> QED
    BY <1>2, <1>3

LEMMA WritesType ==
  ASSUME TypeOK, NEW F \in SUBSET Files, NEW w \in Tree, UserWrites(F, w)
  PROVE  /\ work' \in Tree /\ saved' \in Tree /\ risk' \subseteq Files
         /\ lastModified' \in [Files -> Dates]
<1>1. RepoType /\ HistoryType /\ lastModified \in [Files -> Dates]
      BY TypeParts DEF ViewType
<1>2. lastModified' \in [Files -> Dates]
      BY <1>1, TouchedType DEF UserWrites
<1>3. work' \in Tree /\ saved' \in Tree
      BY <1>1 DEF UserWrites, RepoType, HistoryType, Tree
<1>4. risk' \subseteq Files
      BY <1>1 DEF UserWrites, HistoryType
<1> QED
    BY <1>2, <1>3, <1>4

\* The user's operations on files keep the types.
LEMMA FilesTypeOK ==
  TypeOK /\ (\/ \E f \in Files : Track(f) \/ Discard(f)
             \/ \E f \in Files, c \in Held : Save(f, c)
             \/ DiscardAll) => TypeOK'
<1> SUFFICES ASSUME TypeOK,
                    \/ \E f \in Files : Track(f) \/ Discard(f)
                    \/ \E f \in Files, c \in Held : Save(f, c)
                    \/ DiscardAll
             PROVE  TypeOK'
    OBVIOUS
<1>0. /\ tip \in Tree /\ index \in Tree /\ work \in Tree /\ ops \in Nat /\ crashed \in BOOLEAN
      /\ tracked \in Listed /\ commitSummary \in BOOLEAN /\ lastModified \in [Files -> Dates]
      /\ saved \in Tree /\ risk \subseteq Files /\ meddled \in BOOLEAN
      BY TypeParts DEF RepoType, ViewType, HistoryType
<1>1. TaskType' /\ TaskShape'
      BY TasksKept DEF Track, Discard, Save, DiscardAll
<1>2. ops' \in Nat
  <2>1. Operate
        BY DEF Track, Discard, Save, DiscardAll
  <2> QED
      BY <1>0, <2>1 DEF Operate
<1>3. ASSUME NEW f \in Files, Track(f) PROVE TypeOK'
  <2>1. index' \in Tree
        BY <1>0, <1>3 DEF Track, Tree
  <2>2. RepoType' /\ ViewType' /\ HistoryType' /\ crashed' \in BOOLEAN
        BY <1>0, <1>3, <2>1 DEF Track, RepoType, ViewType, HistoryType, viewVars
  <2> QED
      BY <1>1, <1>2, <2>2, NextParts
<1>4. ASSUME NEW f \in Files, Discard(f) PROVE TypeOK'
  <2> DEFINE new == tracked[f].status = "added"
             F == IF ~new /\ index[f] = Absent THEN {} ELSE {f}
             w == [work EXCEPT ![f] = IF new THEN Absent ELSE index[f]]
  <2>1. F \in SUBSET Files /\ w \in Tree
        BY <1>0 DEF Tree, Held
  <2>2. \/ UNCHANGED <<work, saved, risk, lastModified>> /\ crashed' = TRUE
        \/ UserWrites(F, w) /\ UNCHANGED crashed
        BY <1>4 DEF Discard
  <2>3. /\ work' \in Tree /\ saved' \in Tree /\ risk' \subseteq Files
        /\ lastModified' \in [Files -> Dates] /\ crashed' \in BOOLEAN
        BY <1>0, <2>1, <2>2, WritesType
  <2>4. UNCHANGED <<tip, index, tracked, commitSummary, meddled>>
        BY <1>4 DEF Discard
  <2>5. RepoType' /\ ViewType' /\ HistoryType'
        BY <1>0, <2>3, <2>4 DEF RepoType, ViewType, HistoryType
  <2> QED
      BY <1>1, <1>2, <2>3, <2>5, NextParts
<1>5. ASSUME NEW f \in Files, NEW c \in Held, Save(f, c) PROVE TypeOK'
  <2>1. [work EXCEPT ![f] = c] \in Tree /\ {f} \in SUBSET Files
        BY <1>0 DEF Tree
  <2>2. /\ work' \in Tree /\ saved' \in Tree /\ risk' \subseteq Files
        /\ lastModified' \in [Files -> Dates]
        BY <1>5, <2>1, WritesType DEF Save
  <2>3. RepoType' /\ ViewType' /\ HistoryType' /\ crashed' \in BOOLEAN
        BY <1>0, <1>5, <2>2 DEF Save, RepoType, ViewType, HistoryType
  <2> QED
      BY <1>1, <1>2, <2>3, NextParts
<1>6. CASE DiscardAll
  <2>1. /\ work' \in Tree /\ saved' \in Tree /\ risk' \subseteq Files
        /\ lastModified' \in [Files -> Dates]
        BY <1>0, <1>6, WritesType DEF DiscardAll
  <2>2. RepoType' /\ ViewType' /\ HistoryType' /\ crashed' \in BOOLEAN
        BY <1>0, <1>6, <2>1 DEF DiscardAll, RepoType, ViewType, HistoryType
  <2> QED
      BY <1>1, <1>2, <2>2, NextParts
<1> QED
    BY <1>3, <1>4, <1>5, <1>6

\* So do the list and its check boxes.
LEMMA ViewTypeOK ==
  TypeOK /\ (\/ Refresh \/ TypeSummary
             \/ \E f \in Files : SetDiffInfo(f) \/ SetCheckState(f)
             \/ \E f \in Files, l \in Lines : ToggleLine(f, l)) => TypeOK'
<1> SUFFICES ASSUME TypeOK,
                    \/ Refresh \/ TypeSummary
                    \/ \E f \in Files : SetDiffInfo(f) \/ SetCheckState(f)
                    \/ \E f \in Files, l \in Lines : ToggleLine(f, l)
             PROVE  TypeOK'
    OBVIOUS
<1>0. /\ RepoType /\ HistoryType /\ ops \in Nat /\ crashed \in BOOLEAN
      /\ tip \in Tree /\ work \in Tree
      /\ tracked \in Listed /\ commitSummary \in BOOLEAN /\ lastModified \in [Files -> Dates]
      BY TypeParts DEF RepoType, ViewType
<1>1. TaskType' /\ TaskShape'
      BY TasksKept DEF Refresh, TypeSummary, SetDiffInfo, SetCheckState, ToggleLine
<1>2. ops' \in Nat /\ crashed' \in BOOLEAN
  <2>1. CASE Refresh \/ TypeSummary
        BY <1>0, <2>1 DEF Refresh, TypeSummary
  <2>2. ASSUME NEW f \in Files, SetDiffInfo(f) PROVE ops' \in Nat /\ crashed' \in BOOLEAN
        BY <1>0, <2>2 DEF SetDiffInfo
  <2>3. ASSUME NEW f \in Files, SetCheckState(f) \/ \E l \in Lines : ToggleLine(f, l)
        PROVE  ops' \in Nat /\ crashed' \in BOOLEAN
        BY <1>0, <2>3 DEF SetCheckState, ToggleLine, Operate
  <2> QED
      BY <2>1, <2>2, <2>3
<1>3. RepoType' /\ HistoryType'
      BY <1>0 DEF Refresh, TypeSummary, SetDiffInfo, SetCheckState, ToggleLine, RepoType,
                  HistoryType, repoVars, historyVars
<1>4. CASE Refresh
  <2>1. tracked' \in Listed
    <3> SUFFICES ASSUME NEW f \in Files PROVE tracked'[f] \in {None} \cup Entry
        BY <1>4 DEF Refresh, Listed
    <3> DEFINE new == [status |-> StatusOf(f), head |-> tip[f], diff |-> NoDiff]
    <3>1. CASE \E s \in Statuses : ListedAs(f, s)
      <4>1. new \in Entry
            BY <1>0, <3>1 DEF ListedAs, Entry, Diff, Tree
      <4>2. tracked'[f] = tracked[f] \/ tracked'[f] = new
            BY <1>4, <3>1 DEF Refresh
      <4> QED
          BY <1>0, <4>1, <4>2 DEF Listed
    <3>2. CASE ~\E s \in Statuses : ListedAs(f, s)
          BY <1>4, <3>2 DEF Refresh
    <3> QED
        BY <3>1, <3>2
  <2>2. lastModified' \in [Files -> Dates]
        BY <1>0, <1>4 DEF Refresh, Dates
  <2>3. ViewType'
        BY <1>0, <1>4, <2>1, <2>2 DEF Refresh, ViewType
  <2> QED
      BY <1>1, <1>2, <1>3, <2>3, NextParts
<1>5. CASE TypeSummary
  <2>1. ViewType'
        BY <1>0, <1>5 DEF TypeSummary, ViewType
  <2> QED
      BY <1>1, <1>2, <1>3, <2>1, NextParts
<1>6. ASSUME NEW f \in Files, SetDiffInfo(f) PROVE TypeOK'
  <2> DEFINE d == [work |-> work[f], selected |-> Changes(tracked[f].head, work[f])]
  <2>1. tracked[f] \in Entry /\ work[f] \in Held
        BY <1>0, <1>6 DEF SetDiffInfo, Listed, Tree
  <2>2. d \in Diff
        BY <2>1, EntryType, ChangesType DEF Diff
  <2>3. [tracked[f] EXCEPT !.diff = d] \in Entry
        BY <2>1, <2>2 DEF Entry
  <2>4. [tracked EXCEPT ![f].diff = d] \in Listed
        BY <1>0, <2>1, <2>3 DEF Listed
  <2>5. tracked' = tracked \/ tracked' = [tracked EXCEPT ![f].diff = d]
        BY <1>6 DEF SetDiffInfo
  <2>6. lastModified' \in [Files -> Dates]
        BY <1>0, <1>6 DEF SetDiffInfo, Dates
  <2>7. ViewType'
        BY <1>0, <1>6, <2>4, <2>5, <2>6 DEF SetDiffInfo, ViewType
  <2> QED
      BY <1>1, <1>2, <1>3, <2>7, NextParts
<1>7. ASSUME NEW f \in Files, SetCheckState(f) \/ \E l \in Lines : ToggleLine(f, l) PROVE TypeOK'
  <2>1. tracked[f] \in Entry /\ tracked[f].diff # NoDiff
        BY <1>0, <1>7 DEF SetCheckState, ToggleLine, Listed, ChangesOf
  <2>2. PICK s \in SUBSET Lines : tracked' = [tracked EXCEPT ![f].diff.selected = s]
        BY <1>7, <2>1, EntryType, ChangesOfType DEF SetCheckState, ToggleLine
  <2>3. [tracked[f].diff EXCEPT !.selected = s] \in Diff
        BY <2>1 DEF Entry, Diff
  <2>4. [tracked[f] EXCEPT !.diff.selected = s] \in Entry
        BY <2>1, <2>3 DEF Entry
  <2>5. tracked' \in Listed
        BY <1>0, <2>1, <2>2, <2>4 DEF Listed
  <2>6. ViewType'
        BY <1>0, <1>7, <2>5 DEF SetCheckState, ToggleLine, ViewType
  <2> QED
      BY <1>1, <1>2, <1>3, <2>6, NextParts
<1> QED
    BY <1>4, <1>5, <1>6, <1>7

\* A commit that throws leaves nothing behind in its Task.
LEMMA ThrowType ==
  ASSUME TypeOK, NEW c \in Commits, Throw(c)
  PROVE  TaskType' /\ TaskShape' /\ risk' \subseteq Files
<1>0. TaskType /\ TaskShape /\ risk \subseteq Files
      BY TypeParts DEF HistoryType
<1>1. NoFiles \in Listed /\ NoFiles \in [Files -> {None} \cup Held]
      BY DEF NoFiles, Listed
<1>2. TaskType'
      BY <1>0, <1>1 DEF Throw, TaskType
<1>3. TaskShape'
  <2> SUFFICES ASSUME NEW d \in Commits
               PROVE  /\ \A f \in todo'[d] \cup ({file'[d]} \ {None}) : list'[d][f] # None
                      /\ pc'[d] # "files" => todo'[d] = {} /\ file'[d] = None
                      /\ pc'[d] \in {"idle", "unstage"} => filesToWriteBack'[d] = NoFiles
      BY DEF TaskShape
  <2>1. CASE d = c
        BY <1>0, <2>1 DEF Throw, TaskType
  <2>2. CASE d # c
    <3>1. /\ todo'[d] = todo[d] /\ file'[d] = file[d] /\ list'[d] = list[d] /\ pc'[d] = pc[d]
          /\ filesToWriteBack'[d] = filesToWriteBack[d]
          BY <1>0, <2>2 DEF Throw, TaskType
    <3> QED
        BY <1>0, <3>1 DEF TaskShape
  <2> QED
      BY <2>1, <2>2
<1>4. risk' \subseteq Files
      BY <1>0 DEF Throw
<1> QED
    BY <1>2, <1>3, <1>4

\* A step of one commit keeps the shape of the others.
LEMMA ShapeOfOthers ==
  ASSUME TypeOK, NEW c \in Commits,
         \A d \in Commits \ {c} : /\ todo'[d] = todo[d] /\ file'[d] = file[d]
                                  /\ list'[d] = list[d] /\ pc'[d] = pc[d]
                                  /\ filesToWriteBack'[d] = filesToWriteBack[d],
         \A f \in todo'[c] \cup ({file'[c]} \ {None}) : list'[c][f] # None,
         pc'[c] # "files" => todo'[c] = {} /\ file'[c] = None,
         pc'[c] \in {"idle", "unstage"} => filesToWriteBack'[c] = NoFiles
  PROVE  TaskShape'
  BY TypeParts DEF TaskShape

\* The steps of a commit keep the types.
LEMMA CommitTypeOK ==
  ASSUME TypeOK, NEW c \in Commits, CommitStep(c) \/ \E a \in BOOLEAN : Tap(c, a)
  PROVE  TypeOK'
<1>0. /\ RepoType /\ ViewType /\ TaskType /\ TaskShape /\ HistoryType
      /\ crashed \in BOOLEAN /\ ops \in Nat /\ tip \in Tree /\ index \in Tree /\ work \in Tree
      /\ tracked \in Listed /\ lastModified \in [Files -> Dates]
      /\ saved \in Tree /\ risk \subseteq Files /\ meddled \in BOOLEAN
      BY TypeParts DEF RepoType, ViewType, HistoryType
<1> USE DEF repoVars, viewVars, historyVars, taskVars
<1>1. CASE \E a \in BOOLEAN : Tap(c, a)
  <2>1. TaskType'
        BY <1>0, <1>1 DEF Tap, TaskType
  <2>2. TaskShape'
        BY <1>0, <1>1 DEF Tap, TaskType, TaskShape
  <2>3. ops' \in Nat /\ HistoryType'
        BY <1>0, <1>1 DEF Tap, Operate, HistoryType
  <2>4. RepoType' /\ ViewType' /\ crashed' \in BOOLEAN
        BY <1>0, <1>1 DEF Tap, RepoType, ViewType
  <2> QED
      BY <2>1, <2>2, <2>3, <2>4, NextParts
<1>2. CASE RestoreStaged(c)
  <2>1. TaskType'
        BY <1>0, <1>2 DEF RestoreStaged, TaskType
  <2>2. TaskShape'
    <3>1. /\ todo'[c] \subseteq {f \in Files : tracked[f] # None} /\ list'[c] = tracked
          /\ file'[c] = file[c] /\ pc'[c] = "files"
          BY <1>0, <1>2 DEF RestoreStaged, TaskType
    <3>2. file[c] = None
          BY <1>0, <1>2 DEF RestoreStaged, TaskShape
    <3> QED
        BY <1>0, <1>2, <3>1, <3>2, ShapeOfOthers DEF RestoreStaged, TaskType
  <2>3. RepoType' /\ ViewType' /\ HistoryType' /\ crashed' \in BOOLEAN /\ ops' \in Nat
        BY <1>0, <1>2 DEF RestoreStaged, RepoType, ViewType, HistoryType
  <2> QED
      BY <2>1, <2>2, <2>3, NextParts
<1>3. CASE KeepFile(c)
  <2>1. PICK f \in todo[c] :
          /\ todo' = [todo EXCEPT ![c] = @ \ {f}] /\ file' = [file EXCEPT ![c] = f]
          /\ LET gone == list[c][f].status # "deleted" /\ work[f] = Absent
                 read == list[c][f].status # "deleted" /\ work[f] # Absent
             IN /\ crashed' = gone
                /\ filesToWriteBack' = IF read THEN [filesToWriteBack EXCEPT ![c][f] = work[f]]
                                       ELSE filesToWriteBack
                /\ risk' = IF \E d \in Commits : Holds(d, f) THEN risk \cup {f} ELSE risk
        BY <1>3 DEF KeepFile
  <2>2. f \in Files /\ list[c][f] # None /\ pc[c] = "files" /\ file[c] = None
        BY <1>0, <1>3 DEF KeepFile, TaskType, TaskShape
  <2>3. /\ crashed' \in BOOLEAN /\ risk' \subseteq Files
        /\ todo' \in [Commits -> SUBSET Files] /\ file' \in [Commits -> Files \cup {None}]
        BY <1>0, <2>1, <2>2 DEF TaskType
  <2>4. filesToWriteBack' \in [Commits -> [Files -> {None} \cup Held]]
        BY <1>0, <2>1, <2>2 DEF TaskType, Tree
  <2>5. UNCHANGED <<repoVars, viewVars, pc, amend, list, filesToAdd, filesToDelete, ops, saved, meddled>>
        BY <1>3 DEF KeepFile
  <2>6. TaskType'
        BY <1>0, <2>3, <2>4, <2>5 DEF TaskType
  <2>7. \A d \in Commits \ {c} : /\ todo'[d] = todo[d] /\ file'[d] = file[d]
                                 /\ filesToWriteBack'[d] = filesToWriteBack[d]
        BY <1>0, <2>1 DEF TaskType
  <2>8. \A g \in todo'[c] \cup ({file'[c]} \ {None}) : list'[c][g] # None
        BY <1>0, <2>1, <2>2, <2>5 DEF TaskType, TaskShape
  <2>9. TaskShape'
        BY <2>2, <2>5, <2>7, <2>8, ShapeOfOthers
  <2>10. RepoType' /\ ViewType' /\ HistoryType' /\ ops' \in Nat
        BY <1>0, <2>3, <2>5 DEF RepoType, ViewType, HistoryType
  <2> QED
      BY <2>3, <2>6, <2>9, <2>10, NextParts
<1>4. CASE DiscardLines(c)
  <2> DEFINE f == file[c]
             e == list[c][f]
             lines == ChangesOf(e) \ e.diff.selected
  <2>1. f \in Files /\ e \in Entry /\ pc[c] = "files" /\ lines \in SUBSET Lines
    <3>1. f \in Files /\ pc[c] = "files"
          BY <1>0, <1>4 DEF DiscardLines, TaskType
    <3>2. e \in Entry
          BY <1>0, <3>1, NoneApart DEF TaskType, TaskShape, Listed
    <3> QED
        BY <3>1, <3>2, ChangesOfType
  <2>2. Made(f, e, lines) \subseteq Held
    <3>1. work[f] \in Held /\ tip[f] \in Held
          BY <1>0, <2>1 DEF Tree
    <3>2. LinesOf(work[f]) \in SUBSET Lines
          BY <3>1, LinesType
    <3>3. tip[f] = Absent \/ tip[f] \in SUBSET Lines
          BY <3>1 DEF Held
    <3> QED
        BY <2>1, <3>2, <3>3 DEF Made, Held
  <2>3. \/ UNCHANGED <<work, lastModified, file, filesToAdd, filesToDelete, risk>> /\ crashed' = TRUE
        \/ /\ \E made \in Made(f, e, lines) : work' = [work EXCEPT ![f] = made]
           /\ lastModified' = Touched({f})
           /\ file' = [file EXCEPT ![c] = None]
           /\ filesToAdd' = [filesToAdd EXCEPT ![c] = @ \cup {f}]
           /\ filesToDelete' = IF e.status = "deleted"
                               THEN [filesToDelete EXCEPT ![c] = @ \cup {f}] ELSE filesToDelete
           /\ UNCHANGED <<crashed, risk>>
        BY <1>4 DEF DiscardLines
  <2>4. UNCHANGED <<tip, index, tracked, commitSummary, pc, amend, list, todo, filesToWriteBack,
                    ops, saved, meddled>>
        BY <1>4 DEF DiscardLines
  <2>5. work' \in Tree /\ crashed' \in BOOLEAN /\ UNCHANGED risk
        BY <1>0, <2>1, <2>2, <2>3 DEF Tree
  <2>6. lastModified' \in [Files -> Dates]
        BY <1>0, <2>1, <2>3, TouchedType
  <2>7. TaskType'
    <3>1. /\ file \in [Commits -> Files \cup {None}]
          /\ filesToAdd \in [Commits -> SUBSET Files] /\ filesToDelete \in [Commits -> SUBSET Files]
          BY <1>0 DEF TaskType
    <3> HIDE DEF f, e, lines
    <3>2. file' \in [Commits -> Files \cup {None}]
          BY <2>3, <3>1
    <3>3. filesToAdd' \in [Commits -> SUBSET Files]
          BY <2>1, <2>3, <3>1
    <3>4. filesToDelete' \in [Commits -> SUBSET Files]
          BY <2>1, <2>3, <3>1
    <3> QED
        BY <1>0, <2>4, <3>2, <3>3, <3>4 DEF TaskType
  <2>8. TaskShape'
        BY <1>0, <2>1, <2>3, <2>4 DEF TaskType, TaskShape
  <2>9. RepoType' /\ ViewType' /\ HistoryType' /\ ops' \in Nat
        BY <1>0, <2>4, <2>5, <2>6 DEF RepoType, ViewType, HistoryType
  <2> QED
      BY <2>5, <2>7, <2>8, <2>9, NextParts
<1>5. CASE AddFiles(c)
  <2>1. /\ UNCHANGED <<tip, work, viewVars, crashed, ops, saved, meddled>>
        /\ \/ Throw(c) /\ UNCHANGED index
           \/ /\ index' = [f \in Files |-> IF f \in filesToAdd[c] THEN work[f] ELSE index[f]]
              /\ pc' = [pc EXCEPT ![c] = "commit"]
              /\ UNCHANGED <<amend, list, todo, file, filesToWriteBack, filesToAdd, filesToDelete, risk>>
              /\ todo[c] = {} /\ file[c] = None
        BY <1>5 DEF AddFiles
  <2>2. TaskType' /\ TaskShape' /\ risk' \subseteq Files
    <3>1. CASE Throw(c)
          BY <3>1, ThrowType
    <3>2. CASE ~Throw(c)
          BY <1>0, <2>1, <3>2 DEF TaskType, TaskShape
    <3> QED
        BY <3>1, <3>2
  <2>3. index' \in Tree
        BY <1>0, <2>1 DEF Tree
  <2>4. RepoType' /\ ViewType' /\ HistoryType' /\ crashed' \in BOOLEAN /\ ops' \in Nat
        BY <1>0, <2>1, <2>2, <2>3 DEF RepoType, ViewType, HistoryType
  <2> QED
      BY <2>2, <2>4, NextParts
<1>6. CASE GitCommit(c)
  <2>1. /\ UNCHANGED <<index, work, tracked, commitSummary, crashed, ops, saved, meddled>>
        /\ \/ Throw(c) /\ UNCHANGED <<tip, lastModified>>
           \/ /\ tip' = index
              /\ lastModified' = [f \in Files |-> IF tracked[f] # None THEN "none" ELSE lastModified[f]]
              /\ pc[c] = "commit" /\ pc' = [pc EXCEPT ![c] = "write"]
              /\ UNCHANGED <<amend, list, todo, file, filesToWriteBack, filesToAdd, filesToDelete, risk>>
        BY <1>6 DEF GitCommit
  <2>2. TaskType' /\ TaskShape' /\ risk' \subseteq Files
    <3>1. CASE Throw(c)
          BY <3>1, ThrowType
    <3>2. CASE ~Throw(c)
          BY <1>0, <2>1, <3>2 DEF TaskType, TaskShape
    <3> QED
        BY <3>1, <3>2
  <2>3. tip' \in Tree /\ lastModified' \in [Files -> Dates]
        BY <1>0, <2>1 DEF Dates
  <2>4. RepoType' /\ ViewType' /\ HistoryType' /\ crashed' \in BOOLEAN /\ ops' \in Nat
        BY <1>0, <2>1, <2>2, <2>3 DEF RepoType, ViewType, HistoryType
  <2> QED
      BY <2>2, <2>4, NextParts
<1>7. CASE WriteBack(c)
  <2>1. PICK f \in Files : /\ filesToWriteBack[c][f] # None
                           /\ work' = [work EXCEPT ![f] = filesToWriteBack[c][f]]
                           /\ lastModified' = Touched({f})
                           /\ filesToWriteBack' = [filesToWriteBack EXCEPT ![c][f] = None]
        BY <1>7 DEF WriteBack
  <2>2. work' \in Tree /\ lastModified' \in [Files -> Dates]
        BY <1>0, <2>1, TouchedType DEF TaskType, Tree
  <2>3. UNCHANGED <<tip, index, tracked, commitSummary, pc, amend, list, todo, file, filesToAdd,
                    filesToDelete, crashed, ops, historyVars>> /\ pc[c] = "write"
        BY <1>7 DEF WriteBack
  <2>4. TaskType'
        BY <1>0, <2>1, <2>3 DEF TaskType
  <2>5. TaskShape'
        BY <1>0, <2>1, <2>3 DEF TaskType, TaskShape
  <2>6. RepoType' /\ ViewType' /\ HistoryType' /\ crashed' \in BOOLEAN /\ ops' \in Nat
        BY <1>0, <2>2, <2>3 DEF RepoType, ViewType, HistoryType
  <2> QED
      BY <2>4, <2>5, <2>6, NextParts
<1>8. CASE RemoveFiles(c)
  <2>1. TaskType' /\ TaskShape'
        BY <1>0, <1>8 DEF RemoveFiles, TaskType, TaskShape
  <2>2. RepoType' /\ ViewType' /\ HistoryType' /\ crashed' \in BOOLEAN /\ ops' \in Nat
        BY <1>0, <1>8 DEF RemoveFiles, RepoType, ViewType, HistoryType
  <2> QED
      BY <2>1, <2>2, NextParts
<1>9. CASE Finish(c)
  <2>1. NoFiles \in Listed
        BY DEF NoFiles, Listed
  <2>2. TaskType'
        BY <1>0, <1>9, <2>1 DEF Finish, TaskType
  <2>3. TaskShape'
        BY <1>0, <1>9 DEF Finish, TaskType, TaskShape
  <2>4. RepoType' /\ ViewType' /\ HistoryType' /\ crashed' \in BOOLEAN /\ ops' \in Nat
        BY <1>0, <1>9 DEF Finish, RepoType, ViewType, HistoryType
  <2> QED
      BY <2>2, <2>3, <2>4, NextParts
<1>10. CASE GitFails(c)
  <2>1. TaskType' /\ TaskShape' /\ risk' \subseteq Files
        BY <1>10, ThrowType DEF GitFails
  <2>2. RepoType' /\ ViewType' /\ HistoryType' /\ crashed' \in BOOLEAN /\ ops' \in Nat
        BY <1>0, <1>10, <2>1 DEF GitFails, RepoType, ViewType, HistoryType
  <2> QED
      BY <2>1, <2>2, NextParts
<1> QED
    BY <1>1, <1>2, <1>3, <1>4, <1>5, <1>6, <1>7, <1>8, <1>9, <1>10 DEF CommitStep

LEMMA StepTypeOK == TypeOK /\ [Next]_vars => TypeOK'
<1> SUFFICES ASSUME TypeOK, [Next]_vars PROVE TypeOK'
    OBVIOUS
<1>1. CASE UNCHANGED vars
      BY <1>1 DEF vars, repoVars, viewVars, taskVars, historyVars, TypeOK
<1>2. CASE User
      BY <1>2, FilesTypeOK, ViewTypeOK, CommitTypeOK DEF User
<1>3. CASE Refresh \/ \E c \in Commits : CommitStep(c)
      BY <1>3, ViewTypeOK, CommitTypeOK
<1> QED
    BY <1>1, <1>2, <1>3 DEF Next

\* Every variable keeps to its type, whatever commits run at once.
THEOREM TypeCorrect == Spec => []TypeOK
  BY InitTypeOK, StepTypeOK, PTL DEF Spec

----------------------------------------------------------------------------
(* What the user saved is kept.                                            *)

\* While the file is not at risk, what is to be written back is what the user saved; and the
\* file in hand will be written back, or is to be deleted.
Kept ==
    /\ \A f \in Files : work[f] = saved[f] \/ f \in risk \/ \E c \in Commits : Holds(c, f)
    /\ \A f \in Files \ risk, c \in Commits :
           filesToWriteBack[c][f] # None => filesToWriteBack[c][f] = saved[f]
    /\ \A c \in Commits : file[c] # None =>
           list[c][file[c]].status = "deleted" \/ filesToWriteBack[c][file[c]] # None

KeptInv == crashed \/ Kept

keptVars == <<work, saved, risk, list, file, filesToWriteBack, filesToDelete>>

LEMMA InitKept == Init => KeptInv
  BY DEF Init, KeptInv, Kept, NoFiles

\* Nothing Kept speaks of changes.
LEMMA KeptStutters ==
  ASSUME Kept, UNCHANGED keptVars
  PROVE  Kept'
  BY DEF Kept, Holds, keptVars

\* The user writes files that nobody holds, or puts them at risk.
LEMMA KeptByWrites ==
  ASSUME TypeOK, Kept, NEW F \in SUBSET Files, NEW w \in Tree, UserWrites(F, w), UNCHANGED taskVars
  PROVE  Kept'
<1>1. \A c \in Commits, f \in Files : Holds(c, f)' <=> Holds(c, f)
      BY DEF Holds, taskVars
<1>2. ASSUME NEW f \in Files \ F
      PROVE  work'[f] = work[f] /\ saved'[f] = saved[f] /\ (f \in risk' <=> f \in risk)
      BY <1>2 DEF UserWrites
<1>3. ASSUME NEW f \in F
      PROVE  work'[f] = saved'[f] /\ (f \in risk' <=> \E c \in Commits : Holds(c, f))
      BY <1>3 DEF UserWrites
<1>4. \A f \in Files : work'[f] = saved'[f] \/ f \in risk' \/ \E c \in Commits : Holds(c, f)'
      BY <1>1, <1>2, <1>3 DEF Kept
<1>5. \A f \in Files \ risk', c \in Commits :
          filesToWriteBack'[c][f] # None => filesToWriteBack'[c][f] = saved'[f]
      BY <1>2, <1>3 DEF Kept, Holds, taskVars
<1> QED
    BY <1>4, <1>5 DEF Kept, taskVars

\* A Task that throws puts what it holds at risk.
LEMMA KeptByThrow ==
  ASSUME TypeOK, Kept, NEW c \in Commits, Throw(c), UNCHANGED <<work, saved>>
  PROVE  Kept'
<1>0. TaskType
      BY TypeParts
<1>1. ASSUME NEW d \in Commits \ {c}
      PROVE  /\ filesToWriteBack'[d] = filesToWriteBack[d] /\ filesToDelete'[d] = filesToDelete[d]
             /\ list'[d] = list[d] /\ file'[d] = file[d]
      BY <1>0 DEF Throw, TaskType
<1>2. filesToWriteBack'[c] = NoFiles /\ file'[c] = None
      BY <1>0 DEF Throw, TaskType
<1>3. \A f \in Files : f \in risk' <=> f \in risk \/ Holds(c, f)
      BY DEF Throw
<1>4. \A f \in Files : work'[f] = saved'[f] \/ f \in risk' \/ \E d \in Commits : Holds(d, f)'
  <2> SUFFICES ASSUME NEW f \in Files, f \notin risk', work'[f] # saved'[f]
               PROVE  \E d \in Commits : Holds(d, f)'
      OBVIOUS
  <2>1. PICK d \in Commits : Holds(d, f)
        BY <1>3 DEF Kept
  <2>2. d # c
        BY <1>3, <2>1
  <2> QED
      BY <1>1, <2>1, <2>2 DEF Holds
<1>5. \A f \in Files \ risk', d \in Commits :
          filesToWriteBack'[d][f] # None => filesToWriteBack'[d][f] = saved'[f]
      BY <1>1, <1>2, <1>3 DEF Kept, NoFiles
<1>6. \A d \in Commits : file'[d] # None =>
          list'[d][file'[d]].status = "deleted" \/ filesToWriteBack'[d][file'[d]] # None
      BY <1>1, <1>2 DEF Kept
<1> QED
    BY <1>4, <1>5, <1>6 DEF Kept

\* A file is read to be written back: as the user saved it, unless somebody held it.
LEMMA KeptByKeepFile ==
  ASSUME TypeOK, Kept, NEW c \in Commits, KeepFile(c)
  PROVE  KeptInv'
<1>0. TaskType /\ TaskShape /\ work \in Tree
      BY TypeParts DEF RepoType
<1>1. PICK f \in todo[c] :
        /\ file' = [file EXCEPT ![c] = f]
        /\ LET gone == list[c][f].status # "deleted" /\ work[f] = Absent
               read == list[c][f].status # "deleted" /\ work[f] # Absent
           IN /\ crashed' = gone
              /\ filesToWriteBack' = IF read THEN [filesToWriteBack EXCEPT ![c][f] = work[f]]
                                     ELSE filesToWriteBack
              /\ risk' = IF \E d \in Commits : Holds(d, f) THEN risk \cup {f} ELSE risk
      BY DEF KeepFile
<1>2. UNCHANGED <<work, saved, list, filesToDelete>>
      BY DEF KeepFile, repoVars
<1>3. f \in Files /\ work[f] # None
      BY <1>0, NoneApart DEF TaskType, Tree
<1> SUFFICES ASSUME ~crashed' PROVE Kept'
    BY DEF KeptInv
<1>4. ASSUME NEW g \in Files, NEW d \in Commits, g # f \/ d # c
      PROVE  filesToWriteBack'[d][g] = filesToWriteBack[d][g]
      BY <1>0, <1>1, <1>4 DEF TaskType
<1>5. \/ filesToWriteBack'[c][f] = work[f] /\ filesToWriteBack'[c][f] # None
      \/ filesToWriteBack' = filesToWriteBack /\ list[c][f].status = "deleted"
  <2>1. CASE list[c][f].status = "deleted"
        BY <1>1, <2>1
  <2>2. CASE list[c][f].status # "deleted"
    <3>1. work[f] # Absent
          BY <1>1, <2>2
    <3> QED
        BY <1>0, <1>1, <1>3, <2>2, <3>1 DEF TaskType
  <2> QED
      BY <2>1, <2>2
<1>6. \A g \in Files, d \in Commits : Holds(d, g) => Holds(d, g)'
      BY <1>2, <1>3, <1>4, <1>5 DEF Holds
<1>7. \A g \in Files \ {f} : g \in risk' <=> g \in risk
      BY <1>1
<1>8. f \notin risk' => /\ f \notin risk /\ work[f] = saved[f]
                        /\ \A d \in Commits : filesToWriteBack[d][f] = None
      BY <1>1, <1>3 DEF Kept, Holds
<1>9. \A g \in Files : work'[g] = saved'[g] \/ g \in risk' \/ \E d \in Commits : Holds(d, g)'
  <2>1. \A g \in Files : g \in risk => g \in risk'
        BY <1>1
  <2> QED
      BY <1>2, <1>6, <2>1 DEF Kept
<1>10. \A g \in Files \ risk', d \in Commits :
           filesToWriteBack'[d][g] # None => filesToWriteBack'[d][g] = saved'[g]
  <2> SUFFICES ASSUME NEW g \in Files \ risk', NEW d \in Commits, filesToWriteBack'[d][g] # None
               PROVE  filesToWriteBack'[d][g] = saved'[g]
      OBVIOUS
  <2>1. CASE g = f
        BY <1>2, <1>4, <1>5, <1>8, <2>1
  <2>2. CASE g # f
        BY <1>2, <1>4, <1>7, <2>2 DEF Kept
  <2> QED
      BY <2>1, <2>2
<1>11. \A d \in Commits : file'[d] # None =>
           list'[d][file'[d]].status = "deleted" \/ filesToWriteBack'[d][file'[d]] # None
  <2> SUFFICES ASSUME NEW d \in Commits, file'[d] # None
               PROVE  list'[d][file'[d]].status = "deleted" \/ filesToWriteBack'[d][file'[d]] # None
      OBVIOUS
  <2>1. CASE d = c
    <3>1. file'[d] = f
          BY <1>0, <1>1, <2>1 DEF TaskType
    <3> QED
        BY <1>2, <1>5, <2>1, <3>1
  <2>2. CASE d # c
    <3>1. file'[d] = file[d] /\ file[d] \in Files
          BY <1>0, <1>1, <2>2 DEF TaskType
    <3> QED
        BY <1>2, <1>4, <2>2, <3>1 DEF Kept
  <2> QED
      BY <2>1, <2>2
<1> QED
    BY <1>9, <1>10, <1>11 DEF Kept

\* The file rewritten is one the commit holds.
LEMMA KeptByDiscardLines ==
  ASSUME TypeOK, Kept, NEW c \in Commits, DiscardLines(c)
  PROVE  KeptInv'
<1>0. TaskType /\ work \in Tree
      BY TypeParts DEF RepoType
<1>1. PICK f \in Files : f = file[c] /\ f # None
      BY <1>0 DEF DiscardLines, TaskType
<1> SUFFICES ASSUME ~crashed' PROVE Kept'
    BY DEF KeptInv
<1>2. /\ \E made : work' = [work EXCEPT ![f] = made]
      /\ file' = [file EXCEPT ![c] = None]
      /\ filesToDelete' = IF list[c][f].status = "deleted"
                          THEN [filesToDelete EXCEPT ![c] = @ \cup {f}] ELSE filesToDelete
      /\ UNCHANGED <<saved, risk, list, filesToWriteBack>>
      BY <1>1 DEF DiscardLines
<1>3. \A g \in Files \ {f} : work'[g] = work[g]
      BY <1>0, <1>2 DEF Tree
<1>4. Holds(c, f)'
  <2>1. CASE list[c][f].status = "deleted"
        BY <1>0, <1>1, <1>2, <2>1 DEF Holds, TaskType
  <2>2. CASE list[c][f].status # "deleted"
        BY <1>1, <1>2, <2>2 DEF Holds, Kept
  <2> QED
      BY <2>1, <2>2
<1>5. \A g \in Files, d \in Commits : Holds(d, g) => Holds(d, g)'
      BY <1>0, <1>2 DEF Holds, TaskType
<1>6. \A g \in Files : work'[g] = saved'[g] \/ g \in risk' \/ \E d \in Commits : Holds(d, g)'
      BY <1>2, <1>3, <1>4, <1>5 DEF Kept
<1>7. \A d \in Commits : file'[d] # None => file'[d] = file[d]
      BY <1>0, <1>2 DEF TaskType
<1> QED
    BY <1>2, <1>6, <1>7 DEF Kept

\* The file written back is as the user saved it.
LEMMA KeptByWriteBack ==
  ASSUME TypeOK, Kept, NEW c \in Commits, WriteBack(c)
  PROVE  Kept'
<1>0. TaskType /\ TaskShape /\ work \in Tree
      BY TypeParts DEF RepoType
<1>1. PICK f \in Files : /\ filesToWriteBack[c][f] # None
                         /\ work' = [work EXCEPT ![f] = filesToWriteBack[c][f]]
                         /\ filesToWriteBack' = [filesToWriteBack EXCEPT ![c][f] = None]
      BY DEF WriteBack
<1>2. UNCHANGED <<saved, risk, list, file, filesToDelete>> /\ file[c] = None
      BY <1>0 DEF WriteBack, historyVars, TaskShape
<1>3. ASSUME NEW g \in Files, NEW d \in Commits, g # f \/ d # c
      PROVE  filesToWriteBack'[d][g] = filesToWriteBack[d][g]
      BY <1>0, <1>1, <1>3 DEF TaskType
<1>4. filesToWriteBack'[c][f] = None
      BY <1>0, <1>1 DEF TaskType
<1>5. \A g \in Files : work'[g] = saved'[g] \/ g \in risk' \/ \E d \in Commits : Holds(d, g)'
  <2> SUFFICES ASSUME NEW g \in Files, g \notin risk
               PROVE  work'[g] = saved'[g] \/ \E d \in Commits : Holds(d, g)'
      BY <1>2
  <2>1. CASE g = f
        BY <1>0, <1>1, <1>2, <2>1 DEF Kept, Tree
  <2>2. CASE g # f
    <3>1. work'[g] = work[g]
          BY <1>0, <1>1, <2>2 DEF Tree
    <3>2. \A d \in Commits : Holds(d, g) => Holds(d, g)'
          BY <1>2, <1>3, <2>2 DEF Holds
    <3> QED
        BY <1>2, <3>1, <3>2 DEF Kept
  <2> QED
      BY <2>1, <2>2
<1>6. \A g \in Files \ risk', d \in Commits :
          filesToWriteBack'[d][g] # None => filesToWriteBack'[d][g] = saved'[g]
      BY <1>2, <1>3, <1>4 DEF Kept
<1>7. \A d \in Commits : file'[d] # None =>
          list'[d][file'[d]].status = "deleted" \/ filesToWriteBack'[d][file'[d]] # None
  <2> SUFFICES ASSUME NEW d \in Commits, file'[d] # None
               PROVE  list'[d][file'[d]].status = "deleted" \/ filesToWriteBack'[d][file'[d]] # None
      OBVIOUS
  <2>1. d # c /\ file[d] \in Files /\ file'[d] = file[d]
        BY <1>0, <1>2 DEF TaskType
  <2> QED
      BY <1>2, <1>3, <2>1 DEF Kept
<1> QED
    BY <1>5, <1>6, <1>7 DEF Kept

LEMMA StepKept == TypeOK /\ KeptInv /\ [Next]_vars => KeptInv'
<1> SUFFICES ASSUME TypeOK, KeptInv, [Next]_vars PROVE KeptInv'
    OBVIOUS
<1>1. CASE UNCHANGED vars
  <2>1. CASE crashed
        BY <1>1, <2>1 DEF KeptInv, vars
  <2>2. CASE Kept
        BY <1>1, <2>2, KeptStutters DEF KeptInv, keptVars, vars, repoVars, taskVars, historyVars
  <2> QED
      BY <2>1, <2>2 DEF KeptInv
<1> SUFFICES ASSUME Next PROVE KeptInv'
    BY <1>1
<1>2. Kept /\ tip \in Tree /\ index \in Tree /\ work \in Tree
  <2>1. ~crashed
        BY DEF Next, User, Refresh, CommitStep, Operate, Track, Discard, SetDiffInfo, SetCheckState,
               Save, ToggleLine, DiscardAll, TypeSummary, Tap, RestoreStaged, KeepFile, DiscardLines,
               AddFiles, GitCommit, WriteBack, RemoveFiles, Finish, GitFails
  <2> QED
      BY <2>1, TypeParts DEF KeptInv, RepoType
<1> USE DEF keptVars, repoVars, historyVars
<1>3. ASSUME NEW f \in Files, Track(f) \/ SetDiffInfo(f) \/ SetCheckState(f) PROVE KeptInv'
      BY <1>2, <1>3, KeptStutters DEF Track, SetDiffInfo, SetCheckState, taskVars, KeptInv
<1>4. ASSUME NEW f \in Files, Discard(f) PROVE KeptInv'
  <2> DEFINE new == tracked[f].status = "added"
             F == IF ~new /\ index[f] = Absent THEN {} ELSE {f}
             w == [work EXCEPT ![f] = IF new THEN Absent ELSE index[f]]
  <2>1. F \in SUBSET Files /\ w \in Tree
        BY <1>2 DEF Tree, Held
  <2>2. \/ crashed' = TRUE
        \/ UserWrites(F, w) /\ UNCHANGED taskVars
        BY <1>4 DEF Discard
  <2> QED
      BY <1>2, <2>1, <2>2, KeptByWrites DEF KeptInv
<1>5. ASSUME NEW f \in Files, NEW c \in Held, Save(f, c) PROVE KeptInv'
  <2>1. [work EXCEPT ![f] = c] \in Tree /\ {f} \in SUBSET Files
        BY <1>2 DEF Tree
  <2> QED
      BY <1>2, <1>5, <2>1, KeptByWrites DEF Save, KeptInv
<1>6. ASSUME NEW f \in Files, NEW l \in Lines, ToggleLine(f, l) PROVE KeptInv'
      BY <1>2, <1>6, KeptStutters DEF ToggleLine, taskVars, KeptInv
<1>7. CASE DiscardAll
      BY <1>2, <1>7, KeptByWrites DEF DiscardAll, KeptInv
<1>8. CASE TypeSummary \/ Refresh
      BY <1>2, <1>8, KeptStutters DEF TypeSummary, Refresh, taskVars, KeptInv
<1>9. ASSUME NEW c \in Commits, NEW a \in BOOLEAN, Tap(c, a) PROVE KeptInv'
      BY <1>2, <1>9, KeptStutters DEF Tap, KeptInv
<1>10. ASSUME NEW c \in Commits, CommitStep(c) PROVE KeptInv'
  <2>1. CASE RestoreStaged(c)
    <3>1. file[c] = None /\ list \in [Commits -> Listed]
          BY <2>1, TypeParts DEF RestoreStaged, TaskShape, TaskType
    <3>2. \A d \in Commits \ {c} : list'[d] = list[d]
          BY <2>1, <3>1 DEF RestoreStaged
    <3>3. UNCHANGED <<work, saved, risk, file, filesToWriteBack, filesToDelete>>
          BY <2>1 DEF RestoreStaged
    <3>4. Kept'
          BY <1>2, <3>1, <3>2, <3>3 DEF Kept, Holds
    <3> QED
        BY <3>4 DEF KeptInv
  <2>2. CASE KeepFile(c)
        BY <1>2, <2>2, KeptByKeepFile
  <2>3. CASE DiscardLines(c)
        BY <1>2, <2>3, KeptByDiscardLines
  <2>4. CASE AddFiles(c)
        BY <1>2, <2>4, KeptStutters, KeptByThrow DEF AddFiles, KeptInv
  <2>5. CASE GitCommit(c)
        BY <1>2, <2>5, KeptStutters, KeptByThrow DEF GitCommit, KeptInv
  <2>6. CASE WriteBack(c)
        BY <1>2, <2>6, KeptByWriteBack DEF KeptInv
  <2>7. CASE RemoveFiles(c)
        BY <1>2, <2>7, KeptStutters DEF RemoveFiles, KeptInv
  <2>8. CASE Finish(c)
    <3>1. file[c] = None /\ list \in [Commits -> Listed]
          BY <2>8, TypeParts DEF Finish, TaskShape, TaskType
    <3>2. \A d \in Commits \ {c} : list'[d] = list[d]
          BY <2>8, <3>1 DEF Finish
    <3>3. UNCHANGED <<work, saved, risk, file, filesToWriteBack, filesToDelete>>
          BY <2>8 DEF Finish
    <3>4. Kept'
          BY <1>2, <3>1, <3>2, <3>3 DEF Kept, Holds
    <3> QED
        BY <3>4 DEF KeptInv
  <2>9. CASE GitFails(c)
        BY <1>2, <2>9, KeptByThrow DEF GitFails, KeptInv
  <2> QED
      BY <1>10, <2>1, <2>2, <2>3, <2>4, <2>5, <2>6, <2>7, <2>8, <2>9 DEF CommitStep
<1> QED
    BY <1>3, <1>4, <1>5, <1>6, <1>7, <1>8, <1>9, <1>10 DEF Next, User

\* Nothing the user saved is lost in the work directory: commit(amend:) puts back what it
\* rewrites, unless a save or a second commit came in between or it failed half way.
THEOREM SavedIsKept == Spec => []WorkKept
<1>1. KeptInv => WorkKept
      BY DEF KeptInv, Kept, WorkKept
<1> QED
    BY <1>1, InitTypeOK, StepTypeOK, InitKept, StepKept, PTL DEF Spec

----------------------------------------------------------------------------
(* What a commit holds.                                                    *)

\* While nobody else touches the index, one commit runs, and the index holds, beside what that
\* one added, what HEAD holds.
IndexInv ==
    ~meddled =>
        /\ \A c, d \in Running : c = d
        /\ \A c \in Commits : pc[c] = "files" => index = tip
        /\ \A c \in Commits : pc[c] = "commit" =>
               \A f \in Files \ filesToAdd[c] : index[f] = tip[f]

LEMMA InitIndex == Init => IndexInv
  BY DEF Init, IndexInv, Running

\* Steps that leave the repository and the Tasks alone.
LEMMA IndexStutters ==
  ASSUME IndexInv, UNCHANGED <<tip, index, pc, filesToAdd, meddled>>
  PROVE  IndexInv'
  BY DEF IndexInv, Running

\* The index is changed by somebody else than a commit.
LEMMA IndexMeddled ==
  ASSUME IndexInv, UNCHANGED <<pc, filesToAdd>>, meddled' = (meddled \/ Running # {})
  PROVE  IndexInv'
  BY DEF IndexInv, Running

\* The one commit that runs ends, by itself or because git failed.
LEMMA IndexAtEnd ==
  ASSUME TypeOK, IndexInv, NEW c \in Commits, pc[c] # "idle", pc' = [pc EXCEPT ![c] = "idle"],
         UNCHANGED meddled
  PROVE  IndexInv'
<1>1. pc \in [Commits -> {"idle", "restore", "files", "commit", "write", "unstage"}]
      BY TypeParts DEF TaskType
<1> QED
    BY <1>1 DEF IndexInv, Running

\* A step of the one commit that runs from one program counter to another.
LEMMA IndexByStep ==
  ASSUME TypeOK, IndexInv, NEW c \in Commits, pc[c] # "idle",
         NEW p \in {"files", "commit", "write", "unstage"}, pc' = [pc EXCEPT ![c] = p],
         UNCHANGED meddled,
         ~meddled /\ p = "files" => index' = tip',
         ~meddled /\ p = "commit" => \A f \in Files \ filesToAdd'[c] : index'[f] = tip'[f]
  PROVE  IndexInv'
<1>1. pc \in [Commits -> {"idle", "restore", "files", "commit", "write", "unstage"}]
      BY TypeParts DEF TaskType
<1> SUFFICES ASSUME ~meddled
             PROVE  /\ \A d, e \in Running' : d = e
                    /\ \A d \in Commits : pc'[d] = "files" => index' = tip'
                    /\ \A d \in Commits : pc'[d] = "commit" =>
                           \A f \in Files \ filesToAdd'[d] : index'[f] = tip'[f]
    BY DEF IndexInv
<1>2. \A d \in Commits \ {c} : pc[d] = "idle" /\ pc'[d] = "idle"
      BY <1>1 DEF IndexInv, Running
<1>3. pc'[c] = p
      BY <1>1
<1> QED
    BY <1>2, <1>3 DEF Running

LEMMA StepIndex == TypeOK /\ IndexInv /\ [Next]_vars => IndexInv'
<1> SUFFICES ASSUME TypeOK, IndexInv, [Next]_vars PROVE IndexInv'
    OBVIOUS
<1> USE DEF repoVars, viewVars, taskVars, historyVars
<1>1. CASE UNCHANGED vars
      BY <1>1, IndexStutters DEF vars
<1>2. ASSUME NEW f \in Files, Track(f) PROVE IndexInv'
      BY <1>2, IndexMeddled DEF Track
<1>3. ASSUME NEW f \in Files, Discard(f) \/ SetDiffInfo(f) \/ SetCheckState(f) PROVE IndexInv'
      BY <1>3, IndexStutters DEF Discard, SetDiffInfo, SetCheckState
<1>4. ASSUME NEW f \in Files, NEW c \in Held, Save(f, c) PROVE IndexInv'
      BY <1>4, IndexStutters DEF Save
<1>5. ASSUME NEW f \in Files, NEW l \in Lines, ToggleLine(f, l) PROVE IndexInv'
      BY <1>5, IndexStutters DEF ToggleLine
<1>6. CASE DiscardAll
      BY <1>6, IndexMeddled DEF DiscardAll
<1>7. CASE TypeSummary \/ Refresh
      BY <1>7, IndexStutters DEF TypeSummary, Refresh
<1>8. ASSUME NEW c \in Commits, NEW a \in BOOLEAN, Tap(c, a) PROVE IndexInv'
  <2> SUFFICES ASSUME Running = {}
               PROVE  IndexInv'
      BY <1>8 DEF Tap, IndexInv
  <2>1. pc \in [Commits -> {"idle", "restore", "files", "commit", "write", "unstage"}]
        BY TypeParts DEF TaskType
  <2>2. \A d \in Commits \ {c} : pc'[d] = "idle"
        BY <1>8, <2>1 DEF Tap, Running
  <2>3. pc'[c] = "restore"
        BY <1>8, <2>1 DEF Tap
  <2> QED
      BY <2>2, <2>3 DEF IndexInv, Running
<1>9. ASSUME NEW c \in Commits, CommitStep(c) PROVE IndexInv'
  <2>0. filesToAdd \in [Commits -> SUBSET Files] /\ index \in Tree /\ tip \in Tree
        BY TypeParts DEF TaskType, RepoType
  <2>1. CASE RestoreStaged(c)
        BY <2>1, IndexByStep DEF RestoreStaged
  <2>2. CASE KeepFile(c)
        BY <2>2, IndexStutters DEF KeepFile
  <2>3. CASE DiscardLines(c)
    <3>1. pc[c] = "files" /\ UNCHANGED <<tip, index, pc, meddled>>
          BY <2>3 DEF DiscardLines
    <3>2. ~meddled => \A d \in Commits : pc[d] # "commit"
          BY <3>1 DEF IndexInv, Running
    <3> QED
        BY <3>1, <3>2 DEF IndexInv, Running
  <2>4. CASE AddFiles(c)
    <3>1. CASE Throw(c)
          BY <2>4, <3>1, IndexAtEnd DEF AddFiles, Throw
    <3>2. CASE ~Throw(c)
      <4>1. /\ pc[c] = "files" /\ pc' = [pc EXCEPT ![c] = "commit"]
            /\ index' = [f \in Files |-> IF f \in filesToAdd[c] THEN work[f] ELSE index[f]]
            /\ UNCHANGED <<tip, filesToAdd, meddled>>
            BY <2>4, <3>2 DEF AddFiles
      <4>2. ~meddled => \A f \in Files \ filesToAdd'[c] : index'[f] = tip'[f]
            BY <4>1 DEF IndexInv
      <4> QED
          BY <4>1, <4>2, IndexByStep
    <3> QED
        BY <3>1, <3>2
  <2>5. CASE GitCommit(c)
    <3>1. CASE Throw(c)
          BY <2>5, <3>1, IndexAtEnd DEF GitCommit, Throw
    <3>2. CASE ~Throw(c)
          BY <2>5, <3>2, IndexByStep DEF GitCommit
    <3> QED
        BY <3>1, <3>2
  <2>6. CASE WriteBack(c)
        BY <2>6, IndexStutters DEF WriteBack
  <2>7. CASE RemoveFiles(c)
    <3>1. CASE filesToDelete[c] = {}
          BY <2>7, <3>1, IndexByStep DEF RemoveFiles
    <3>2. CASE filesToDelete[c] # {}
      <4>1. pc' = [pc EXCEPT ![c] = "write"]
        <5>1. pc \in [Commits -> {"idle", "restore", "files", "commit", "write", "unstage"}]
              BY TypeParts DEF TaskType
        <5> QED
            BY <2>7, <3>2, <5>1 DEF RemoveFiles
      <4> QED
          BY <2>7, <4>1, IndexByStep DEF RemoveFiles
    <3> QED
        BY <3>1, <3>2
  <2>8. CASE Finish(c)
        BY <2>8, IndexAtEnd DEF Finish
  <2>9. CASE GitFails(c)
        BY <2>9, IndexAtEnd DEF GitFails, Throw
  <2> QED
      BY <1>9, <2>1, <2>2, <2>3, <2>4, <2>5, <2>6, <2>7, <2>8, <2>9 DEF CommitStep
<1> QED
    BY <1>1, <1>2, <1>3, <1>4, <1>5, <1>6, <1>7, <1>8, <1>9 DEF Next, User

\* HEAD moves by a commit of the index only.
LEMMA TipMoves ==
  ASSUME [Next]_vars, tip' # tip
  PROVE  \E c \in Commits : pc[c] = "commit" /\ tip' = index /\ UNCHANGED meddled
<1> USE DEF repoVars, viewVars, taskVars, historyVars
<1>1. ~User /\ ~Refresh /\ ~UNCHANGED vars
      BY DEF User, Refresh, Track, Discard, SetDiffInfo, SetCheckState, Save, ToggleLine, DiscardAll,
             TypeSummary, Tap, vars
<1>2. PICK c \in Commits : CommitStep(c)
      BY <1>1 DEF Next
<1>3. GitCommit(c)
      BY <1>2 DEF CommitStep, RestoreStaged, KeepFile, DiscardLines, AddFiles, WriteBack, RemoveFiles,
                  Finish, GitFails
<1> QED
    BY <1>3 DEF GitCommit

\* A commit changes no file but those checked when it began, all or in part.
THEOREM CommitsWhatIsChecked == Spec => OnlyCheckedCommitted
<1>1. TypeOK /\ IndexInv /\ [Next]_vars =>
          [\A f \in Files : tip'[f] # tip[f] =>
               meddled \/ \E c \in Commits : pc[c] = "commit" /\ f \in filesToAdd[c]]_vars
  <2> SUFFICES ASSUME IndexInv, [Next]_vars, NEW f \in Files, tip'[f] # tip[f], ~meddled
               PROVE  \E c \in Commits : pc[c] = "commit" /\ f \in filesToAdd[c]
      OBVIOUS
  <2>1. PICK c \in Commits : pc[c] = "commit" /\ tip' = index
        BY TipMoves
  <2> QED
      BY <2>1 DEF IndexInv
<1> QED
    BY <1>1, InitTypeOK, StepTypeOK, InitIndex, StepIndex, PTL DEF Spec, OnlyCheckedCommitted
=============================================================================
