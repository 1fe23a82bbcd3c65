----------------------------- MODULE StatusCommit -----------------------------
(***************************************************************************)
(* The status view of Xferro and its "Commit" and "Amend" buttons.  The    *)
(* user checks files, or single changed lines of a file, and commits       *)
(* those.  commit(amend:) does it by way of the work directory: a file of  *)
(* which some lines are selected is read, rewritten, added, committed and  *)
(* written back.  All of it runs in a Task nobody waits for, so that the   *)
(* user, an editor, git and a second tap on the button go on beside it.    *)
(*                                                                         *)
(* A file holds a set of lines, or is Absent.  The lines two contents do   *)
(* not share are the changes a diff shows, each of which can be selected.  *)
(* The history variables are "saved", the content the user last gave a     *)
(* file; "risk", the files of which a commit may lose what was saved; and  *)
(* "meddled", set when the index was not left to the one commit that runs. *)
(***************************************************************************)
EXTENDS Naturals, FiniteSets

CONSTANTS
    Files,       \* paths of the repository
    Tracked,     \* the files of the first commit
    Lines,       \* what a line may be
    Base,        \* the lines of a tracked file in the first commit
    Absent,      \* no such file
    Commits,     \* slots for the Tasks of commit(amend:)
    None,        \* nil
    MaxOps       \* bound on what the user does

Held == {Absent} \cup SUBSET Lines
Tree == [Files -> Held]
Statuses == {"added", "modified", "deleted"}
NoDiff == [work |-> None, selected |-> {}]
Diff == {NoDiff} \cup [work : Held, selected : SUBSET Lines]
Entry == [status : Statuses, head : Held, diff : Diff]

ASSUME StatusAssumption ==
    /\ Tracked \subseteq Files /\ Base \subseteq Lines
    /\ \A c \in SUBSET Lines : c # Absent /\ c # None
    /\ None # Absent /\ None \notin Files
    /\ \A e \in Entry : e # None
    /\ MaxOps \in Nat

VARIABLES
    \* the repository: HEAD's tree, the index, the work directory
    tip, index, work,
    \* StatusViewModel: unsortedTrackedFiles, commitSummary; lastModifiedCache
    tracked, commitSummary, lastModified,
    \* the Tasks: program counter, amend, the files and check states read, partially checked
    \* files to come, the one in hand, filesToWriteBack, filesToAdd, filesToDelete
    pc, amend, list, todo, file, filesToWriteBack, filesToAdd, filesToDelete,
    \* a fatalError or try! stopped the process; what the user did so far
    crashed, ops,
    saved, risk, meddled

repoVars == <<tip, index, work>>
viewVars == <<tracked, commitSummary, lastModified>>
taskVars == <<pc, amend, list, todo, file, filesToWriteBack, filesToAdd, filesToDelete>>
historyVars == <<saved, risk, meddled>>
vars == <<repoVars, viewVars, taskVars, crashed, ops, historyVars>>

----------------------------------------------------------------------------
NoFiles == [f \in Files |-> None]

LinesOf(c) == IF c = Absent THEN {} ELSE c

\* The lines two contents do not share: those added and those deleted.
Changes(a, b) == (LinesOf(a) \ LinesOf(b)) \cup (LinesOf(b) \ LinesOf(a))

\* The changes shown of an entry, and its check box.
ChangesOf(e) == IF e.diff = NoDiff THEN {} ELSE Changes(e.head, e.diff.work)
CheckState(e) ==
    IF e.diff.selected = ChangesOf(e) THEN "checked"
    ELSE IF e.diff.selected = {} THEN "unchecked" ELSE "partiallyChecked"

\* git status: the staged delta counts before the unstaged one.
Delta(old, new) ==
    IF old = new THEN "none" ELSE IF old = Absent THEN "added"
    ELSE IF new = Absent THEN "deleted" ELSE "modified"

StatusOf(f) ==
    LET staged == Delta(tip[f], index[f])
    IN IF staged # "none" THEN staged
       ELSE IF index[f] = Absent /\ work[f] # Absent THEN "untracked"
       ELSE Delta(index[f], work[f])

\* A file is listed as long as it exists, or is gone, as its status says.
ListedAs(f, s) == StatusOf(f) = s /\ s \in Statuses /\ (s = "deleted" <=> work[f] = Absent)

\* A commit has still to put f as it was.
Holds(c, f) == filesToWriteBack[c][f] # None \/ f \in filesToDelete[c]
Running == {c \in Commits : pc[c] # "idle"}

\* The file is written: its modification date is no longer the cached one.
Touched(F) == [f \in Files |-> IF f \in F /\ lastModified[f] = "current" THEN "old" ELSE lastModified[f]]

Init ==
    /\ tip = [f \in Files |-> IF f \in Tracked THEN Base ELSE Absent]
    /\ index = tip
    /\ work \in {w \in Tree : \A f \in Files \ Tracked : w[f] = Absent}
    /\ tracked = [f \in Files |-> None] /\ commitSummary = FALSE
    /\ lastModified = [f \in Files |-> "none"]
    /\ pc = [c \in Commits |-> "idle"] /\ amend = [c \in Commits |-> FALSE]
    /\ list = [c \in Commits |-> NoFiles]
    /\ todo = [c \in Commits |-> {}] /\ file = [c \in Commits |-> None]
    /\ filesToWriteBack = [c \in Commits |-> NoFiles]
    /\ filesToAdd = [c \in Commits |-> {}] /\ filesToDelete = [c \in Commits |-> {}]
    /\ crashed = FALSE /\ ops = 0
    /\ saved = work /\ risk = {} /\ meddled = FALSE

----------------------------------------------------------------------------
(* The user: an editor, git on the command line, the other buttons.        *)

Operate == ~crashed /\ ops < MaxOps /\ ops' = ops + 1

\* The user gives the files in F a new content: what was at risk of them no longer is, unless
\* a commit still has an older content to write back.
UserWrites(F, w) ==
    /\ work' = [f \in Files |-> IF f \in F THEN w[f] ELSE work[f]]
    /\ saved' = [f \in Files |-> IF f \in F THEN w[f] ELSE saved[f]]
    /\ risk' = (risk \ F) \cup {f \in F : \E c \in Commits : Holds(c, f)}
    /\ lastModified' = Touched(F)

\* An editor saves or removes a file.
Save(f, c) ==
    /\ Operate
    /\ c # work[f]
    /\ UserWrites({f}, [work EXCEPT ![f] = c])
    /\ UNCHANGED <<tip, index, tracked, commitSummary, taskVars, crashed, meddled>>

\* track: the file is staged.
Track(f) ==
    /\ Operate
    /\ StatusOf(f) = "untracked"
    /\ index' = [index EXCEPT ![f] = work[f]]
    /\ meddled' = (meddled \/ Running # {})
    /\ UNCHANGED <<tip, work, viewVars, taskVars, crashed, saved, risk>>

\* discard: a new file is removed, another one is restored from the index.
Discard(f) ==
    LET new == tracked[f].status = "added"
    IN /\ Operate
       /\ tracked[f] # None
       /\ IF new /\ work[f] = Absent
          THEN /\ crashed' = TRUE
               /\ UNCHANGED <<work, saved, risk, lastModified>>
          ELSE /\ UserWrites(IF ~new /\ index[f] = Absent THEN {} ELSE {f},
                             [work EXCEPT ![f] = IF new THEN Absent ELSE index[f]])
               /\ UNCHANGED crashed
       /\ UNCHANGED <<tip, index, tracked, commitSummary, taskVars, meddled>>

\* discardAll: git add ., git reset --hard.
DiscardAll ==
    /\ Operate
    /\ UserWrites(Files, tip)
    /\ index' = tip
    /\ meddled' = (meddled \/ Running # {})
    /\ UNCHANGED <<tip, tracked, commitSummary, taskVars, crashed>>

----------------------------------------------------------------------------
(* The list of files and their check boxes.                                *)

\* updateStatus: an entry stays, with the lines selected of it, while its status and the
\* modification date of the file are the ones known.
Refresh ==
    LET listed == {f \in Files : \E s \in Statuses : ListedAs(f, s)}
        stays(f) == /\ tracked[f] # None /\ tracked[f].status = StatusOf(f)
                    /\ StatusOf(f) = "deleted" \/ lastModified[f] = "current"
        new(f) == IF f \notin listed THEN None
                  ELSE IF stays(f) THEN tracked[f]
                  ELSE [status |-> StatusOf(f), head |-> tip[f], diff |-> NoDiff]
    IN /\ ~crashed
       /\ tracked' = [f \in Files |-> new(f)]
       /\ lastModified' = [f \in Files |->
              IF f \in listed /\ tracked[f] # None /\ work[f] # Absent /\ lastModified[f] = "none"
              THEN "current" ELSE lastModified[f]]
       /\ tracked' # tracked \/ lastModified' # lastModified
       /\ UNCHANGED <<repoVars, commitSummary, taskVars, crashed, ops, historyVars>>

\* setDiffInfoForStatus: the diff of a file is made when the file is looked at, every change
\* selected; a listed file that is gone is a fatalError.
SetDiffInfo(f) ==
    /\ ~crashed
    /\ tracked[f] # None
    /\ \/ tracked[f].diff = NoDiff
       \/ tracked[f].status # "deleted" /\ lastModified[f] # "current"
    /\ IF tracked[f].status # "deleted" /\ work[f] = Absent
       THEN crashed' = TRUE /\ UNCHANGED <<tracked, lastModified>>
       ELSE /\ tracked' = [tracked EXCEPT ![f].diff =
                  [work |-> work[f], selected |-> Changes(tracked[f].head, work[f])]]
            /\ lastModified' = IF tracked[f].status = "deleted" THEN lastModified
                               ELSE [lastModified EXCEPT ![f] = "current"]
            /\ UNCHANGED crashed
    /\ UNCHANGED <<repoVars, commitSummary, taskVars, ops, historyVars>>

\* toggleLine of one change.
ToggleLine(f, l) ==
    /\ Operate
    /\ tracked[f] # None /\ l \in ChangesOf(tracked[f])
    /\ tracked' = [tracked EXCEPT ![f].diff.selected =
           IF l \in @ THEN @ \ {l} ELSE @ \cup {l}]
    /\ UNCHANGED <<repoVars, commitSummary, lastModified, taskVars, crashed, historyVars>>

\* The check box of a file whose diff is there.
SetCheckState(f) ==
    /\ Operate
    /\ tracked[f] # None /\ ChangesOf(tracked[f]) # {}
    /\ tracked' = [tracked EXCEPT ![f].diff.selected =
           IF CheckState(tracked[f]) = "checked" THEN {} ELSE ChangesOf(tracked[f])]
    /\ UNCHANGED <<repoVars, commitSummary, lastModified, taskVars, crashed, historyVars>>

TypeSummary ==
    /\ ~crashed
    /\ ~commitSummary
    /\ commitSummary' = TRUE
    /\ UNCHANGED <<repoVars, tracked, lastModified, taskVars, crashed, ops, historyVars>>

----------------------------------------------------------------------------
(* commit(amend:)                                                          *)

\* "Commit" needs a summary, "Amend" does not; neither waits for a commit that runs.
Tap(c, a) ==
    /\ Operate
    /\ pc[c] = "idle"
    /\ a \/ commitSummary
    /\ \E f \in Files : tracked[f] # None \/ StatusOf(f) = "untracked"
    /\ pc' = [pc EXCEPT ![c] = "restore"]
    /\ amend' = [amend EXCEPT ![c] = a]
    /\ meddled' = (Running # {})
    /\ UNCHANGED <<repoVars, viewVars, list, todo, file, filesToWriteBack, filesToAdd,
                   filesToDelete, crashed, saved, risk>>

\* A git command, or the reading of a file, throws: what the Task remembers is gone.
Throw(c) ==
    /\ pc' = [pc EXCEPT ![c] = "idle"]
    /\ risk' = risk \cup {f \in Files : Holds(c, f)}
    /\ amend' = [amend EXCEPT ![c] = FALSE]
    /\ list' = [list EXCEPT ![c] = NoFiles]
    /\ todo' = [todo EXCEPT ![c] = {}] /\ file' = [file EXCEPT ![c] = None]
    /\ filesToWriteBack' = [filesToWriteBack EXCEPT ![c] = NoFiles]
    /\ filesToAdd' = [filesToAdd EXCEPT ![c] = {}]
    /\ filesToDelete' = [filesToDelete EXCEPT ![c] = {}]

\* Mutated form of RestoreStaged: the index is left as it is.
RestoreNothing(c) ==
    LET listed == {f \in Files : tracked[f] # None}
    IN /\ ~crashed
       /\ pc[c] = "restore"
       /\ list' = [list EXCEPT ![c] = tracked]
       /\ filesToAdd' = [filesToAdd EXCEPT ![c] =
              {f \in listed : CheckState(tracked[f]) = "checked"}]
       /\ todo' = [todo EXCEPT ![c] =
              {f \in listed : CheckState(tracked[f]) = "partiallyChecked"}]
       /\ pc' = [pc EXCEPT ![c] = "files"]
       /\ UNCHANGED <<repoVars, viewVars, amend, file, filesToWriteBack, filesToDelete,
                      crashed, ops, historyVars>>

\* git restore --staged ., and the check states are read.
RestoreStaged(c) ==
    LET listed == {f \in Files : tracked[f] # None}
    IN /\ ~crashed
       /\ pc[c] = "restore"
       /\ index' = tip
       /\ list' = [list EXCEPT ![c] = tracked]
       /\ filesToAdd' = [filesToAdd EXCEPT ![c] =
              {f \in listed : CheckState(tracked[f]) = "checked"}]
       /\ todo' = [todo EXCEPT ![c] =
              {f \in listed : CheckState(tracked[f]) = "partiallyChecked"}]
       /\ pc' = [pc EXCEPT ![c] = "files"]
       /\ UNCHANGED <<tip, work, viewVars, amend, file, filesToWriteBack, filesToDelete,
                      crashed, ops, historyVars>>

\* The next partially checked file is read, to be written back; it must exist.  A deleted one
\* is not.
KeepFile(c) ==
    /\ ~crashed
    /\ pc[c] = "files" /\ file[c] = None
    /\ \E f \in todo[c] :
           /\ todo' = [todo EXCEPT ![c] = @ \ {f}]
           /\ file' = [file EXCEPT ![c] = f]
           /\ LET gone == list[c][f].status # "deleted" /\ work[f] = Absent
                  read == list[c][f].status # "deleted" /\ work[f] # Absent
              IN /\ crashed' = gone
                 /\ filesToWriteBack' = IF read THEN [filesToWriteBack EXCEPT ![c][f] = work[f]]
                                        ELSE filesToWriteBack
                 /\ risk' = IF \E d \in Commits : Holds(d, f) THEN risk \cup {f} ELSE risk
    /\ UNCHANGED <<repoVars, viewVars, pc, amend, list, filesToAdd, filesToDelete, ops, saved, meddled>>

\* HEAD's version of f with the given changes of entry e made: the contents
\* makeFileWithSelectedLines may come to.  It goes by line numbers; when the file or HEAD is not
\* the one of the diff any more, there is no telling which lines are left.
Made(f, e, changes) ==
    IF tip[f] = Absent THEN {changes}
    ELSE IF tip[f] = e.head /\ work[f] = e.diff.work
         THEN {(tip[f] \ changes) \cup (changes \ tip[f])}
         ELSE SUBSET (tip[f] \cup LinesOf(work[f]))

\* It is a fatalError when the file is in none of the places, or a line in the wrong one.
Traps(f, e, changes) ==
    IF tip[f] = Absent THEN work[f] = Absent \/ changes \cap LinesOf(e.head) # {}
    ELSE work[f] = Absent /\ ~(changes \subseteq LinesOf(e.head))

\* discardLines with the lines that are not selected; a deleted file comes back, to be deleted
\* in the end.
DiscardLines(c) ==
    LET f == file[c]
        e == list[c][f]
        unselectedLines == ChangesOf(e) \ e.diff.selected
    IN /\ ~crashed
       /\ pc[c] = "files" /\ file[c] # None
       /\ IF Traps(f, e, unselectedLines)
          THEN /\ crashed' = TRUE
               /\ UNCHANGED <<work, lastModified, file, filesToAdd, filesToDelete, risk>>
          ELSE /\ \E made \in Made(f, e, unselectedLines) : work' = [work EXCEPT ![f] = made]
               /\ lastModified' = Touched({f})
               /\ file' = [file EXCEPT ![c] = None]
               /\ filesToAdd' = [filesToAdd EXCEPT ![c] = @ \cup {f}]
               /\ filesToDelete' = IF e.status = "deleted"
                                   THEN [filesToDelete EXCEPT ![c] = @ \cup {f}]
                                   ELSE filesToDelete
               /\ UNCHANGED <<crashed, risk>>
       /\ UNCHANGED <<tip, index, tracked, commitSummary, pc, amend, list, todo, filesToWriteBack,
                      ops, saved, meddled>>

\* git add of the files collected.  git refuses a path that is neither there nor in the index,
\* and adds nothing then.
AddFiles(c) ==
    /\ ~crashed
    /\ pc[c] = "files" /\ file[c] = None /\ todo[c] = {}
    /\ IF \E f \in filesToAdd[c] : work[f] = Absent /\ index[f] = Absent
       THEN Throw(c) /\ UNCHANGED index
       ELSE /\ index' = [f \in Files |-> IF f \in filesToAdd[c] THEN work[f] ELSE index[f]]
            /\ pc' = [pc EXCEPT ![c] = "commit"]
            /\ UNCHANGED <<amend, list, todo, file, filesToWriteBack, filesToAdd, filesToDelete, risk>>
    /\ UNCHANGED <<tip, work, viewVars, crashed, ops, saved, meddled>>

\* git commit --allow-empty; an empty message is refused, unless it amends.  The caches of the
\* listed files are dropped.
GitCommit(c) ==
    /\ ~crashed
    /\ pc[c] = "commit"
    /\ IF ~amend[c] /\ ~commitSummary
       THEN Throw(c) /\ UNCHANGED <<tip, lastModified>>
       ELSE /\ tip' = index
            /\ lastModified' = [f \in Files |-> IF tracked[f] # None THEN "none" ELSE lastModified[f]]
            /\ pc' = [pc EXCEPT ![c] = "write"]
            /\ UNCHANGED <<amend, list, todo, file, filesToWriteBack, filesToAdd, filesToDelete, risk>>
    /\ UNCHANGED <<index, work, tracked, commitSummary, crashed, ops, saved, meddled>>

\* Mutated form of WriteBack: the files are not written, only forgotten.
ForgetFile(c) ==
    /\ ~crashed
    /\ pc[c] = "write"
    /\ \E f \in Files :
           /\ filesToWriteBack[c][f] # None
           /\ filesToWriteBack' = [filesToWriteBack EXCEPT ![c][f] = None]
    /\ UNCHANGED <<repoVars, viewVars, pc, amend, list, todo, file, filesToAdd,
                   filesToDelete, crashed, ops, historyVars>>

\* The files read before are written back, one by one.
WriteBack(c) ==
    /\ ~crashed
    /\ pc[c] = "write"
    /\ \E f \in Files :
           /\ filesToWriteBack[c][f] # None
           /\ work' = [work EXCEPT ![f] = filesToWriteBack[c][f]]
           /\ lastModified' = Touched({f})
           /\ filesToWriteBack' = [filesToWriteBack EXCEPT ![c][f] = None]
    /\ UNCHANGED <<tip, index, tracked, commitSummary, pc, amend, list, todo, file, filesToAdd,
                   filesToDelete, crashed, ops, historyVars>>

\* Mutated form of RemoveFiles: it does not wait for the files to be written back.
RemoveFilesEarly(c) ==
    /\ ~crashed
    /\ pc[c] = "write"
    /\ crashed' = (filesToDelete[c] # {})
    /\ pc' = [pc EXCEPT ![c] = IF filesToDelete[c] = {} THEN "unstage" ELSE @]
    /\ UNCHANGED <<repoVars, viewVars, amend, list, todo, file, filesToWriteBack, filesToAdd,
                   filesToDelete, ops, historyVars>>

\* The deleted files are removed by their path in the repository, which the process, running
\* in another directory, does not find: try! traps.
RemoveFiles(c) ==
    /\ ~crashed
    /\ pc[c] = "write" /\ filesToWriteBack[c] = NoFiles
    /\ crashed' = (filesToDelete[c] # {})
    /\ pc' = [pc EXCEPT ![c] = IF filesToDelete[c] = {} THEN "unstage" ELSE @]
    /\ UNCHANGED <<repoVars, viewVars, amend, list, todo, file, filesToWriteBack, filesToAdd,
                   filesToDelete, ops, historyVars>>

\* git restore --staged . again, and the summary is cleared.
Finish(c) ==
    /\ ~crashed
    /\ pc[c] = "unstage"
    /\ index' = tip
    /\ commitSummary' = FALSE
    /\ pc' = [pc EXCEPT ![c] = "idle"]
    /\ amend' = [amend EXCEPT ![c] = FALSE]
    /\ list' = [list EXCEPT ![c] = NoFiles]
    /\ filesToAdd' = [filesToAdd EXCEPT ![c] = {}]
    /\ UNCHANGED <<tip, work, tracked, lastModified, todo, file, filesToWriteBack, filesToDelete,
                   crashed, ops, historyVars>>

\* git fails: another git holds the index, or a hook refuses the commit; or the next file to
\* be read is not a text.
GitFails(c) ==
    /\ ~crashed
    /\ \/ pc[c] \in {"restore", "commit", "unstage"}
       \/ pc[c] = "files" /\ file[c] = None /\ todo[c] = {}
       \/ /\ pc[c] = "files" /\ file[c] = None
          /\ \E f \in todo[c] : list[c][f].status # "deleted" /\ work[f] # Absent
    /\ Throw(c)
    /\ UNCHANGED <<repoVars, viewVars, crashed, ops, saved, meddled>>

----------------------------------------------------------------------------
User ==
    \/ \E f \in Files : Track(f) \/ Discard(f) \/ SetDiffInfo(f) \/ SetCheckState(f)
    \/ \E f \in Files, c \in Held : Save(f, c)
    \/ \E f \in Files, l \in Lines : ToggleLine(f, l)
    \/ DiscardAll
    \/ TypeSummary
    \/ \E c \in Commits, a \in BOOLEAN : Tap(c, a)

CommitStep(c) ==
    \/ RestoreStaged(c) \/ KeepFile(c) \/ DiscardLines(c) \/ AddFiles(c) \/ GitCommit(c)
    \/ WriteBack(c) \/ RemoveFiles(c) \/ Finish(c) \/ GitFails(c)

Next == User \/ Refresh \/ \E c \in Commits : CommitStep(c)

Spec == Init /\ [][Next]_vars

----------------------------------------------------------------------------
(* Properties.                                                             *)

\* Every variable ranges over what its Swift counterpart may hold.
TypeOK ==
    /\ tip \in Tree /\ index \in Tree /\ work \in Tree
    /\ tracked \in [Files -> {None} \cup Entry]
    /\ commitSummary \in BOOLEAN
    /\ lastModified \in [Files -> {"none", "current", "old"}]
    /\ pc \in [Commits -> {"idle", "restore", "files", "commit", "write", "unstage"}]
    /\ amend \in [Commits -> BOOLEAN]
    /\ list \in [Commits -> [Files -> {None} \cup Entry]]
    /\ todo \in [Commits -> SUBSET Files] /\ file \in [Commits -> Files \cup {None}]
    /\ filesToWriteBack \in [Commits -> [Files -> {None} \cup Held]]
    /\ filesToAdd \in [Commits -> SUBSET Files] /\ filesToDelete \in [Commits -> SUBSET Files]
    /\ \A c \in Commits :
           /\ \A f \in todo[c] \cup ({file[c]} \ {None}) : list[c][f] # None
           /\ pc[c] # "files" => todo[c] = {} /\ file[c] = None
           /\ pc[c] \in {"idle", "unstage"} => filesToWriteBack[c] = NoFiles
    /\ crashed \in BOOLEAN /\ ops \in Nat
    /\ saved \in Tree /\ risk \subseteq Files /\ meddled \in BOOLEAN

\* commit(amend:) rewrites files of the user's and puts them back: the work directory holds
\* what the user saved, except while a commit that has the file to write back is at work, and
\* except where a save or a second commit came in between, or the commit failed half way.
WorkKept ==
    crashed \/ \A f \in Files : \/ work[f] = saved[f]
                                \/ f \in risk
                                \/ \E c \in Commits : Holds(c, f)

\* A commit changes only the files that were checked, all or in part, when it began: whatever
\* else was staged is left out, unless something is staged or committed while it runs.
OnlyCheckedCommitted ==
    [][\A f \in Files : tip'[f] # tip[f] =>
           meddled \/ \E c \in Commits : pc[c] = "commit" /\ f \in filesToAdd[c]]_vars

\* What a commit holds of a file checked in part is HEAD's version with the selected lines.
HoldsSelectedLines ==
    \A c \in Commits : pc[c] = "write" /\ ~meddled =>
        \A f \in filesToAdd[c] :
            LET e == list[c][f]
            IN CheckState(e) = "partiallyChecked" /\ f \notin risk /\ filesToWriteBack[c][f] = e.diff.work =>
                   LinesOf(tip[f]) = {l \in Lines : (l \in LinesOf(e.head)) # (l \in e.diff.selected)}
=============================================================================
