------------------------------ MODULE WipBackup ------------------------------
(***************************************************************************)
(* The backup pipeline of Xferro.  Every save in the work directory of a   *)
(* repository is to end up as a commit on a "wip" branch: the work         *)
(* directory watcher batches file events, a Task per batch copies the      *)
(* changed files to a hidden worktree, and addWipCommit commits that       *)
(* worktree on the wip branch of the repository's HEAD.                    *)
(*                                                                         *)
(* A commit of the user's repository is [n, tree]: n is its serial number  *)
(* (one clock numbers them, so n is also its time), tree maps every file   *)
(* to its content.  Every branch starts at the same root commit.           *)
(***************************************************************************)
EXTENDS Naturals, FiniteSets

CONSTANTS
    Files,       \* paths in the work directory
    Tracked,     \* the files the root commit holds
    Untracked,   \* the other files the work directory holds when the repository is opened
    Contents,    \* what a saved file may hold
    NonText,     \* the contents String(contentsOfFile:encoding:.utf8) rejects
    Root,        \* content of every tracked file in the root commit
    Absent,      \* no such file
    Marked,      \* a file holding merge conflict markers
    Branches,    \* local branches of the repository
    Main,        \* the branch HEAD starts on
    Tasks,       \* slots for the Tasks that handle a batch of events
    UI,          \* the main thread making a manual wip commit
    Refreshers,  \* slots for the others that refresh RepositoryInfo.status
    AutoCommit,  \* the values UserDefaults.autoCommitEnabled may have
    Failing,     \* may a copy, a deletion or a merge in the worktree fail
    Lossy,       \* may FSEvents drop events and ask for a rescan
    MaxOps       \* bound on the user's saves, removals, adds, commits and checkouts

None == "none"
Actors == Tasks \cup {UI}
Readers == Tasks \cup Refreshers
Held == Contents \cup {Absent, Marked}
Tree == [Files -> Held]
Commit == [n : Nat, tree : Tree]
Wip == [live : BOOLEAN, tree : Tree, time : Nat, log : SUBSET Tree,
        merged : [Branches -> Commit]]
Classes == {"clean", "dirty", "untracked"}

ASSUME WipAssumption ==
    /\ Tracked \subseteq Files /\ Untracked \subseteq Files \ Tracked
    /\ NonText \subseteq Contents
    /\ Root \in Contents \ NonText
    /\ Absent \notin Contents /\ Marked \notin Contents /\ Absent # Marked
    /\ Main \in Branches
    /\ UI \notin Tasks /\ None \notin Actors /\ Refreshers \cap Tasks = {}
    /\ None \notin Contents \cup {Absent, Marked} \cup Files
    /\ AutoCommit \subseteq BOOLEAN /\ Lossy \in BOOLEAN /\ Failing \in BOOLEAN
    /\ MaxOps \in Nat

VARIABLES
    \* the user's repository
    head, tip, work, staged, clock, ops,
    \* events on their way: batched paths, a requested rescan, a moved HEAD
    pending, rescan, headMoved,
    \* RepositoryInfo: head, status, fileHashes; the setting for automatic wip commits
    info, status, fileHashes, autoCommit,
    \* the hidden worktree: its files, its HEAD, the wip branches
    wt, wtHead, wip,
    \* addWipCommit: wipCommitLock and the locals of each caller
    wipCommitLock, target, oldTime,
    \* the Tasks: program counter, paths left, path in hand, its content, "changes"
    pc, todo, path, contents, changes,
    \* reads of the status: who awaits one, what git answered
    reading, found,
    \* getWipCommits: program counter, branch it looks up, commit it starts it at
    viewPc, viewBranch, viewOid,
    \* a fatalError stopped the process
    crashed,
    \* auxiliary, read by the properties alone: files whose last copy, or deletion, in the
    \* worktree failed; files last taken for untracked though git tracked them; has a change of
    \* the worktree been left uncommitted, by the setting or by a merge that broke off
    failed, misjudged, declined

repoVars == <<head, tip, work, staged, clock, ops>>
eventVars == <<pending, rescan, headMoved>>
infoVars == <<info, status, fileHashes, autoCommit>>
wipVars == <<wt, wtHead, wip>>
addVars == <<wipCommitLock, target, oldTime>>
taskVars == <<pc, todo, path, contents, changes>>
readVars == <<reading, found>>
viewVars == <<viewPc, viewBranch, viewOid>>
auxVars == <<failed, misjudged, declined>>
vars == <<repoVars, eventVars, infoVars, wipVars, addVars, taskVars, readVars, viewVars, crashed,
          auxVars>>

----------------------------------------------------------------------------
RootCommit == [n |-> 0, tree |-> [f \in Files |-> IF f \in Tracked THEN Root ELSE Absent]]

\* A wip branch just created at commit c of branch b.
FreshWip(b, c) ==
    [live |-> TRUE, tree |-> c.tree, time |-> c.n, log |-> {c.tree},
     merged |-> [x \in Branches |-> IF x = b THEN c ELSE RootCommit]]

NoWip ==
    [live |-> FALSE, tree |-> RootCommit.tree, time |-> 0, log |-> {},
     merged |-> [x \in Branches |-> RootCommit]]

\* What git status says of f: .untracked, another delta, or no delta at all.
Status(f) ==
    IF f \in staged \/ tip[head].tree[f] # Absent
    THEN IF work[f] = tip[head].tree[f] THEN "clean" ELSE "dirty"
    ELSE IF work[f] # Absent THEN "untracked" ELSE "clean"

Clean == [f \in Files |-> "clean"]

Init ==
    /\ head = Main
    /\ tip = [b \in Branches |-> RootCommit]
    /\ work = [f \in Files |-> IF f \in Tracked \cup Untracked THEN Root ELSE Absent]
    /\ staged = {} /\ clock = 0 /\ ops = 0
    /\ pending = {} /\ rescan = FALSE /\ headMoved = FALSE
    /\ info = [branch |-> Main, commit |-> RootCommit]
    /\ status = [f \in Files |-> Status(f)]
    /\ fileHashes = [f \in Files |-> None]
    /\ autoCommit \in AutoCommit
    /\ wt = RootCommit.tree
    /\ wtHead = Main
    /\ wip = [b \in Branches |-> IF b = Main THEN FreshWip(b, RootCommit) ELSE NoWip]
    /\ wipCommitLock = None
    /\ target = [a \in Actors |-> Main]
    /\ oldTime = [a \in Actors |-> 0]
    /\ pc = [a \in Actors |-> "idle"]
    /\ todo = [t \in Tasks |-> {}]
    /\ path = [t \in Tasks |-> None]
    /\ contents = [t \in Tasks |-> Absent]
    /\ changes = [t \in Tasks |-> FALSE]
    /\ reading = {} /\ found = [r \in Readers |-> Clean]
    /\ viewPc = "idle" /\ viewBranch = Main /\ viewOid = RootCommit
    /\ crashed = FALSE
    /\ failed = {} /\ misjudged = {} /\ declined = FALSE

----------------------------------------------------------------------------
(* The user: an editor, and git on the command line.                       *)

\* The user's operations are counted to bound them.
Operate == ops < MaxOps /\ ops' = ops + 1

\* A save or a removal; FSEvents reports the path.
Save(f, c) ==
    /\ ~crashed
    /\ Operate
    /\ c # work[f]
    /\ work' = [work EXCEPT ![f] = c]
    /\ pending' = pending \cup {f}
    /\ UNCHANGED <<head, tip, staged, clock, rescan, headMoved, infoVars, wipVars, addVars,
                   taskVars, viewVars, crashed, readVars, auxVars>>

\* git add of a new file: only .git changes, no event of the work directory.
Add(f) ==
    /\ ~crashed
    /\ Operate
    /\ Status(f) = "untracked"
    /\ staged' = staged \cup {f}
    /\ UNCHANGED <<head, tip, work, clock, eventVars, infoVars, wipVars, addVars, taskVars,
                   viewVars, crashed, readVars, auxVars>>

\* git commit -a.  logs/HEAD changes, which checkHead takes for a change of HEAD.
CommitAll ==
    /\ ~crashed
    /\ Operate
    /\ \E f \in Files : Status(f) = "dirty"
    /\ clock' = clock + 1
    /\ tip' = [tip EXCEPT ![head] = [n |-> clock + 1,
           tree |-> [f \in Files |-> IF Status(f) = "untracked" THEN Absent ELSE work[f]]]]
    /\ staged' = {}
    /\ headMoved' = TRUE
    /\ UNCHANGED <<head, work, pending, rescan, infoVars, wipVars, addVars, taskVars, viewVars,
                   crashed, readVars, auxVars>>

\* git checkout b: refused when it would overwrite a change, else changes are carried.
Checkout(b) ==
    LET differs == {f \in Files : tip[head].tree[f] # tip[b].tree[f]}
    IN /\ ~crashed
       /\ Operate
       /\ b # head
       /\ \A f \in differs : f \notin staged /\ work[f] = tip[head].tree[f]
       /\ head' = b
       /\ work' = [f \in Files |-> IF f \in differs THEN tip[b].tree[f] ELSE work[f]]
       /\ pending' = pending \cup differs
       /\ headMoved' = TRUE
       /\ UNCHANGED <<tip, staged, clock, rescan, infoVars, wipVars, addVars, taskVars, viewVars,
                      crashed, readVars, auxVars>>

----------------------------------------------------------------------------
(* The watchers.                                                           *)

\* FSEvents drops what it has and asks for a rescan: an empty set is published.
DropEvents ==
    /\ ~crashed
    /\ Lossy /\ pending # {}
    /\ pending' = {}
    /\ rescan' = TRUE
    /\ UNCHANGED <<repoVars, headMoved, infoVars, wipVars, addVars, taskVars, viewVars, crashed,
                   readVars, auxVars>>

\* GitWatcher.checkHead published: the main actor reads HEAD and its commit again.
RefreshHead ==
    /\ ~crashed
    /\ headMoved
    /\ headMoved' = FALSE
    /\ info' = [branch |-> head, commit |-> tip[head]]
    /\ UNCHANGED <<repoVars, pending, rescan, status, fileHashes, autoCommit, wipVars, addVars,
                   taskVars, viewVars, crashed, readVars, auxVars>>

\* RepositoryInfo.status is refreshed, after a change of the index or an operation of the app:
\* git is asked for it, and the caller awaits the answer.
StartRefresh(r) ==
    /\ ~crashed
    /\ r \notin reading
    /\ reading' = reading \cup {r}
    /\ found' = [found EXCEPT ![r] = [f \in Files |-> Status(f)]]
    /\ UNCHANGED <<repoVars, eventVars, infoVars, wipVars, addVars, taskVars, viewVars, crashed,
                   auxVars>>

\* The answer is assigned, whatever was assigned meanwhile.
EndRefresh(r) ==
    /\ ~crashed
    /\ r \in reading
    /\ status' = found[r]
    /\ reading' = reading \ {r}
    /\ found' = [found EXCEPT ![r] = Clean]
    /\ UNCHANGED <<repoVars, eventVars, info, fileHashes, autoCommit, wipVars, addVars, taskVars,
                   viewVars, crashed, auxVars>>

\* The switch for automatic wip commits, in the settings and above the list of wip commits.
ToggleAutoCommit ==
    /\ ~crashed
    /\ autoCommit' \in AutoCommit \ {autoCommit}
    /\ UNCHANGED <<repoVars, eventVars, info, status, fileHashes, wipVars, addVars, taskVars,
                   readVars, viewVars, crashed, auxVars>>

\* The debounce window closes: its batch is handed to a new Task.
DeliverBatch(t) ==
    /\ ~crashed
    /\ pc[t] = "idle"
    /\ pending # {} \/ rescan
    /\ pc' = [pc EXCEPT ![t] = "status"]
    /\ todo' = [todo EXCEPT ![t] = pending]
    /\ pending' = {} /\ rescan' = FALSE
    /\ UNCHANGED <<repoVars, headMoved, infoVars, wipVars, addVars, path, contents, changes,
                   viewVars, crashed, readVars, auxVars>>

----------------------------------------------------------------------------
(* A Task handling one batch of paths.                                     *)

\* git is asked for the status, and the answer awaited.
ReadStatus(t) ==
    /\ ~crashed
    /\ pc[t] = "status"
    /\ pc' = [pc EXCEPT ![t] = "assign"]
    /\ found' = [found EXCEPT ![t] = [f \in Files |-> Status(f)]]
    /\ UNCHANGED <<repoVars, eventVars, infoVars, wipVars, addVars, todo, path, contents, changes,
                   reading, viewVars, crashed, auxVars>>

\* RepositoryInfo.status is assigned; an empty batch replaces the watcher, and with it the
\* subject that collects the current window.
AssignStatus(t) ==
    /\ ~crashed
    /\ pc[t] = "assign"
    /\ status' = found[t]
    /\ found' = [found EXCEPT ![t] = Clean]
    /\ pc' = [pc EXCEPT ![t] = "paths"]
    /\ IF todo[t] = {} THEN pending' = {} /\ rescan' = FALSE ELSE UNCHANGED <<pending, rescan>>
    /\ UNCHANGED <<repoVars, headMoved, info, fileHashes, autoCommit, wipVars, addVars, todo, path,
                   contents, changes, reading, viewVars, crashed, auxVars>>

\* Mutated form of DropCopy: the deletion is not noted in "changes".
DropCopyUnnoted(t, f) ==
    /\ status[f] = "untracked" \/ work[f] = Absent
    /\ wt' = [wt EXCEPT ![f] = Absent]
    /\ UNCHANGED <<pc, path, changes, failed, crashed>>

\* The copy in the worktree of a path that is untracked, or gone, is deleted.
DropCopy(t, f) ==
    /\ status[f] = "untracked" \/ work[f] = Absent
    /\ wt' = [wt EXCEPT ![f] = Absent]
    /\ changes' = [changes EXCEPT ![t] = @ \/ wt[f] # Absent]
    /\ UNCHANGED <<pc, path, failed, crashed>>

\* The deletion fails: the error is caught for a path git knows to be changed, else try! traps.
DropFails(f) ==
    /\ Failing
    /\ status[f] = "untracked" \/ work[f] = Absent
    /\ wt[f] # Absent
    /\ failed' = failed \cup {f}
    /\ crashed' = (status[f] # "dirty")
    /\ UNCHANGED <<pc, path, wt, changes>>

\* A path git tracks, and that exists, is to be copied.
WillCopy(t, f) ==
    /\ status[f] # "untracked" /\ work[f] # Absent
    /\ path' = [path EXCEPT ![t] = f]
    /\ pc' = [pc EXCEPT ![t] = IF status[f] = "dirty" THEN "read!" ELSE "read"]
    /\ UNCHANGED <<wt, changes, failed, crashed>>

\* RepositoryInfo.status has f untracked, git does not.
Misjudges(f) == status[f] = "untracked" /\ Status(f) # "untracked"

\* The next path of the batch; a set, so in any order.
HandlePath(t) ==
    /\ ~crashed
    /\ pc[t] = "paths"
    /\ \E f \in todo[t] :
           /\ todo' = [todo EXCEPT ![t] = @ \ {f}]
           /\ misjudged' = IF Misjudges(f) THEN misjudged \cup {f} ELSE misjudged \ {f}
           /\ DropCopy(t, f) \/ DropFails(f) \/ WillCopy(t, f)
    /\ UNCHANGED <<repoVars, eventVars, infoVars, wtHead, wip, addVars, contents, readVars,
                   viewVars, declined>>

\* Mutated form of NextPath: no step on to the next path.
NextPathStuck(t) == UNCHANGED pc /\ path' = [path EXCEPT ![t] = None]

\* The loop goes on to the next path.
NextPath(t) ==
    /\ pc' = [pc EXCEPT ![t] = "paths"]
    /\ path' = [path EXCEPT ![t] = None]

\* String(contentsOfFile:): "read!" is try! and traps, "read" catches and goes on.
ReadFails(t) ==
    /\ ~crashed
    /\ pc[t] \in {"read", "read!"}
    /\ work[path[t]] \in NonText \cup {Absent}
    /\ crashed' = (pc[t] = "read!")
    /\ NextPath(t)
    /\ UNCHANGED <<repoVars, eventVars, infoVars, wipVars, addVars, todo, contents, changes,
                   viewVars, readVars, auxVars>>

\* A content whose hash is the remembered one is not copied again.
SameHash(t) ==
    /\ ~crashed
    /\ pc[t] \in {"read", "read!"}
    /\ work[path[t]] \notin NonText \cup {Absent}
    /\ fileHashes[path[t]] = work[path[t]]
    /\ NextPath(t)
    /\ UNCHANGED <<repoVars, eventVars, infoVars, wipVars, addVars, todo, contents, changes,
                   viewVars, crashed, readVars, auxVars>>

\* The content is read and its hash remembered, before it is copied.
ReadPath(t) ==
    /\ ~crashed
    /\ pc[t] \in {"read", "read!"}
    /\ work[path[t]] \notin NonText \cup {Absent}
    /\ fileHashes[path[t]] # work[path[t]]
    /\ fileHashes' = [fileHashes EXCEPT ![path[t]] = work[path[t]]]
    /\ contents' = [contents EXCEPT ![t] = work[path[t]]]
    /\ pc' = [pc EXCEPT ![t] = "write"]
    /\ UNCHANGED <<repoVars, eventVars, info, status, autoCommit, wipVars, addVars, todo, path,
                   changes, viewVars, crashed, readVars, auxVars>>

\* Mutated form of WriteCopy: the copy is not noted in "changes".
WriteCopyUnnoted(t) ==
    /\ ~crashed
    /\ pc[t] = "write"
    /\ wt' = [wt EXCEPT ![path[t]] = contents[t]]
    /\ failed' = failed \ {path[t]}
    /\ contents' = [contents EXCEPT ![t] = Absent]
    /\ NextPath(t)
    /\ UNCHANGED <<repoVars, eventVars, infoVars, wtHead, wip, addVars, todo, changes, readVars,
                   viewVars, crashed, misjudged, declined>>

\* The content in hand is written to the worktree, or createFile fails; its result is not
\* looked at, and the change is noted either way.
WriteCopy(t) ==
    /\ ~crashed
    /\ pc[t] = "write"
    /\ \/ /\ wt' = [wt EXCEPT ![path[t]] = contents[t]]
          /\ failed' = failed \ {path[t]}
       \/ /\ Failing
          /\ UNCHANGED wt
          /\ failed' = failed \cup {path[t]}
    /\ changes' = [changes EXCEPT ![t] = TRUE]
    /\ contents' = [contents EXCEPT ![t] = Absent]
    /\ NextPath(t)
    /\ UNCHANGED <<repoVars, eventVars, infoVars, wtHead, wip, addVars, todo, readVars, viewVars,
                   crashed, misjudged, declined>>

\* onWorkDirChange is called when something was copied or deleted; it goes by the setting.
EndBatch(t) ==
    /\ ~crashed
    /\ pc[t] = "paths" /\ todo[t] = {}
    /\ pc' = [pc EXCEPT ![t] = IF changes[t] /\ autoCommit THEN "lock" ELSE "idle"]
    /\ changes' = [changes EXCEPT ![t] = FALSE]
    /\ declined' = (declined \/ (changes[t] /\ ~autoCommit))
    /\ UNCHANGED <<repoVars, eventVars, infoVars, wipVars, addVars, todo, path, contents,
                   readVars, viewVars, crashed, failed, misjudged>>

----------------------------------------------------------------------------
(* addWipCommit, by a Task or by the user's "Commit Wip" button.           *)

\* The button is there only while wip commits are not automatic.
ManualCommit ==
    /\ ~crashed
    /\ ~autoCommit
    /\ pc[UI] = "idle"
    /\ pc' = [pc EXCEPT ![UI] = "lock"]
    /\ UNCHANGED <<repoVars, eventVars, infoVars, wipVars, addVars, todo, path, contents, changes,
                   viewVars, crashed, readVars, auxVars>>

\* Mutated form of Lock: it does not wait.
LockNoWait(a) ==
    /\ ~crashed
    /\ pc[a] = "lock"
    /\ wipCommitLock' = a
    /\ pc' = [pc EXCEPT ![a] = "switch"]
    /\ UNCHANGED <<repoVars, eventVars, infoVars, wipVars, target, oldTime, todo, path, contents,
                   changes, viewVars, crashed, readVars, auxVars>>

\* wipCommitLock.lock().
Lock(a) ==
    /\ ~crashed
    /\ pc[a] = "lock"
    /\ wipCommitLock = None
    /\ wipCommitLock' = a
    /\ pc' = [pc EXCEPT ![a] = "switch"]
    /\ UNCHANGED <<repoVars, eventVars, infoVars, wipVars, target, oldTime, todo, path, contents,
                   changes, viewVars, crashed, readVars, auxVars>>

\* The worktree after a forced checkout of wip branch b from h: every file of b, nothing
\* else that h tracks, and whatever neither tracks.
ForcedCheckout(h, b, branches) ==
    [f \in Files |-> IF branches[b].tree[f] # Absent THEN branches[b].tree[f]
                     ELSE IF branches[h].tree[f] # Absent THEN Absent
                     ELSE wt[f]]

\* Mutated form of SwitchBranch: the branch is created without looking for it.
SwitchBranchUnchecked(a) ==
    LET b == info.branch
        branches == [wip EXCEPT ![b] = FreshWip(b, info.commit)]
    IN /\ ~crashed
       /\ pc[a] = "switch"
       /\ wip' = branches
       /\ target' = [target EXCEPT ![a] = b]
       /\ oldTime' = [oldTime EXCEPT ![a] = wip[wtHead].time]
       /\ wtHead' = b
       /\ wt' = IF wtHead = b THEN wt ELSE ForcedCheckout(wtHead, b, branches)
       /\ pc' = [pc EXCEPT ![a] = "commit"]
       /\ UNCHANGED <<repoVars, eventVars, infoVars, wipCommitLock, todo, path, contents, changes,
                      viewVars, crashed, readVars, auxVars>>

\* The wip branch of the HEAD RepositoryInfo knows is created if missing and checked out.
SwitchBranch(a) ==
    LET b == info.branch
        branches == IF wip[b].live THEN wip ELSE [wip EXCEPT ![b] = FreshWip(b, info.commit)]
    IN /\ ~crashed
       /\ pc[a] = "switch"
       /\ wip' = branches
       /\ target' = [target EXCEPT ![a] = b]
       /\ oldTime' = [oldTime EXCEPT ![a] = wip[wtHead].time]
       /\ wtHead' = b
       /\ wt' = IF wtHead = b THEN wt ELSE ForcedCheckout(wtHead, b, branches)
       /\ pc' = [pc EXCEPT ![a] = "commit"]
       /\ UNCHANGED <<repoVars, eventVars, infoVars, wipCommitLock, todo, path, contents, changes,
                      viewVars, crashed, readVars, auxVars>>

\* git add . and a commit on the worktree's HEAD.
CommitWip(a) ==
    /\ ~crashed
    /\ pc[a] = "commit"
    /\ wip' = [wip EXCEPT ![wtHead].tree = wt, ![wtHead].time = clock, ![wtHead].log = @ \cup {wt}]
    /\ declined' = FALSE
    /\ pc' = [pc EXCEPT ![a] = "merge"]
    /\ UNCHANGED <<repoVars, eventVars, infoVars, wt, wtHead, addVars, todo, path, contents,
                   changes, viewVars, crashed, readVars, failed, misjudged>>

\* What merging commit c of branch b into wip branch w makes of f.
MergedFile(w, b, c, f) ==
    LET base == w.merged[b].tree[f]
    IN IF c.tree[f] = base THEN w.tree[f] ELSE c.tree[f]

\* What the merge leaves of f on disk.  Both sides changed f: the index takes theirs, the
\* file keeps the conflict markers, or the one side that has a file.
OnDisk(w, b, c, f) ==
    LET base == w.merged[b].tree[f]
        ours == w.tree[f]
        theirs == c.tree[f]
    IN IF theirs = base \/ theirs = ours THEN wt[f]
       ELSE IF ours = base THEN theirs
       ELSE IF theirs = Absent THEN ours
       ELSE IF ours = Absent THEN theirs
       ELSE Marked

\* The user's HEAD commit is merged if it is newer than the worktree's HEAD was; git
\* refuses a merge that would touch a file changed since the wip commit.  A merge that breaks
\* off, which nobody looks at, leaves the files it came to and makes no commit.
MergeHead(a) ==
    LET w == wip[wtHead]
        b == info.branch
        c == info.commit
        merged == [f \in Files |-> MergedFile(w, b, c, f)]
        touched == {f \in Files : merged[f] # w.tree[f]}
        done == /\ oldTime[a] < c.n
                /\ w.merged[b].n < c.n
                /\ \A f \in touched : wt[f] = w.tree[f]
    IN /\ ~crashed
       /\ pc[a] = "merge"
       /\ \/ /\ done
             /\ wip' = [wip EXCEPT ![wtHead] =
                    [w EXCEPT !.tree = merged, !.time = clock, !.log = @ \cup {merged},
                              !.merged[b] = c]]
             /\ wt' = [f \in Files |-> OnDisk(w, b, c, f)]
             /\ UNCHANGED declined
          \/ /\ done /\ Failing
             /\ \E some \in SUBSET Files :
                    wt' = [f \in Files |-> IF f \in some THEN OnDisk(w, b, c, f) ELSE wt[f]]
             /\ declined' = TRUE
             /\ UNCHANGED wip
          \/ ~done /\ UNCHANGED <<wip, wt, declined>>
       /\ pc' = [pc EXCEPT ![a] = "unlock"]
       /\ UNCHANGED <<repoVars, eventVars, infoVars, wtHead, addVars, todo, path, contents,
                      changes, readVars, viewVars, crashed, failed, misjudged>>

\* Mutated form of Unlock: the lock is kept.
UnlockForgotten(a) ==
    /\ ~crashed
    /\ pc[a] = "unlock"
    /\ target' = [target EXCEPT ![a] = Main]
    /\ oldTime' = [oldTime EXCEPT ![a] = 0]
    /\ pc' = [pc EXCEPT ![a] = "idle"]
    /\ UNCHANGED <<repoVars, eventVars, infoVars, wipVars, wipCommitLock, todo, path, contents,
                   changes, viewVars, crashed, readVars, auxVars>>

\* The lists are reloaded (View) and the lock is released.
Unlock(a) ==
    /\ ~crashed
    /\ pc[a] = "unlock"
    /\ wipCommitLock' = None
    /\ target' = [target EXCEPT ![a] = Main]
    /\ oldTime' = [oldTime EXCEPT ![a] = 0]
    /\ pc' = [pc EXCEPT ![a] = "idle"]
    /\ UNCHANGED <<repoVars, eventVars, infoVars, wipVars, todo, path, contents, changes,
                   viewVars, crashed, readVars, auxVars>>

----------------------------------------------------------------------------
(* getWipCommits: a selection, or a reload, lists a branch's wip commits.  *)

\* The item's wip branch is looked up; if there is one its commits are listed.
View(b) ==
    /\ ~crashed
    /\ viewPc = "idle"
    /\ ~wip[b].live
    /\ viewPc' = "create"
    /\ viewBranch' = b
    /\ viewOid' = IF b = info.branch THEN info.commit ELSE tip[b]
    /\ UNCHANGED <<repoVars, eventVars, infoVars, wipVars, addVars, taskVars, crashed, readVars,
                   auxVars>>

\* createBranch(force: true): git refuses only the branch the worktree has checked out,
\* and mustSucceed makes that a fatalError.
CreateWip ==
    /\ ~crashed
    /\ viewPc = "create"
    /\ viewPc' = "idle" /\ viewBranch' = Main /\ viewOid' = RootCommit
    /\ IF wtHead = viewBranch
       THEN crashed' = TRUE /\ UNCHANGED wip
       ELSE wip' = [wip EXCEPT ![viewBranch] = FreshWip(viewBranch, viewOid)] /\ UNCHANGED crashed
    /\ UNCHANGED <<repoVars, eventVars, infoVars, wt, wtHead, addVars, taskVars, readVars,
                   auxVars>>

----------------------------------------------------------------------------
User ==
    \/ \E f \in Files, c \in Contents \cup {Absent} : Save(f, c)
    \/ \E f \in Files : Add(f)
    \/ CommitAll
    \/ \E b \in Branches : Checkout(b)

RefreshStatus == \E r \in Refreshers : StartRefresh(r) \/ EndRefresh(r)

TaskStep(t) ==
    \/ ReadStatus(t) \/ AssignStatus(t)
    \/ HandlePath(t)
    \/ ReadFails(t) \/ SameHash(t) \/ ReadPath(t)
    \/ WriteCopy(t)
    \/ EndBatch(t)

AddWipCommit(a) == Lock(a) \/ SwitchBranch(a) \/ CommitWip(a) \/ MergeHead(a) \/ Unlock(a)

Viewer == (\E b \in Branches : View(b)) \/ CreateWip

Next ==
    \/ User
    \/ DropEvents \/ RefreshHead \/ RefreshStatus \/ ToggleAutoCommit
    \/ \E t \in Tasks : DeliverBatch(t) \/ TaskStep(t)
    \/ ManualCommit
    \/ \E a \in Actors : AddWipCommit(a)
    \/ Viewer

Spec == Init /\ [][Next]_vars

\* The run loop, the debounce timer, the executor and the lock are fair to every Task; the
\* user is free, and may press "Commit Wip" for ever, so taking the lock needs strong fairness.
Fairness ==
    /\ WF_vars(RefreshHead)
    /\ \A t \in Tasks : WF_vars(DeliverBatch(t) \/ TaskStep(t))
    /\ \A a \in Actors : WF_vars(AddWipCommit(a)) /\ SF_vars(Lock(a))

FairSpec == Spec /\ Fairness

----------------------------------------------------------------------------
(* Properties.                                                             *)

\* Every variable ranges over what its Swift counterpart may hold.
TypeOK ==
    /\ head \in Branches /\ tip \in [Branches -> Commit] /\ work \in Tree
    /\ staged \subseteq Files /\ clock \in Nat /\ ops \in Nat
    /\ pending \subseteq Files /\ rescan \in BOOLEAN /\ headMoved \in BOOLEAN
    /\ info \in [branch : Branches, commit : Commit]
    /\ status \in [Files -> Classes]
    /\ fileHashes \in [Files -> Held \cup {None}]
    /\ autoCommit \in BOOLEAN
    /\ wt \in Tree /\ wtHead \in Branches /\ wip \in [Branches -> Wip]
    /\ wipCommitLock \in Actors \cup {None}
    /\ target \in [Actors -> Branches] /\ oldTime \in [Actors -> Nat]
    /\ pc \in [Actors -> {"idle", "status", "assign", "paths", "read", "read!", "write", "lock",
                          "switch", "commit", "merge", "unlock"}]
    /\ todo \in [Tasks -> SUBSET Files] /\ path \in [Tasks -> Files \cup {None}]
    /\ contents \in [Tasks -> Held] /\ changes \in [Tasks -> BOOLEAN]
    /\ \A t \in Tasks : pc[t] \in {"read", "read!", "write"} => path[t] \in Files
    /\ viewPc \in {"idle", "create"} /\ viewBranch \in Branches /\ viewOid \in Commit
    /\ reading \subseteq Refreshers /\ found \in [Readers -> [Files -> Classes]]
    /\ crashed \in BOOLEAN
    /\ failed \subseteq Files /\ misjudged \subseteq Files /\ declined \in BOOLEAN

\* The caller holds wipCommitLock.
InAdd(a) == pc[a] \in {"switch", "commit", "merge", "unlock"}

\* addWipCommit: the commit a caller makes goes to the wip branch it resolved from the HEAD it
\* read, though other Tasks and the main thread switch the one worktree between branches.
CommitsOnItsBranch ==
    \A a \in Actors : pc[a] \in {"commit", "merge", "unlock"} => wtHead = target[a] /\ wip[wtHead].live

\* Why it holds: the caller inside addWipCommit is the one the lock names, and a wip branch that
\* does not exist has no commits.
Exclusive == \A a \in Actors : InAdd(a) <=> wipCommitLock = a
NoBranchNoCommits == \A b \in Branches : wip[b].live \/ wip[b].log = {}
AddInv == TypeOK /\ Exclusive /\ CommitsOnItsBranch /\ NoBranchNoCommits

\* Every event is handled and nobody is in the middle of something.
Quiet ==
    /\ pending = {} /\ ~rescan /\ ~headMoved /\ ~crashed
    /\ \A a \in Actors : pc[a] = "idle"

\* git tracks f, it differs from HEAD, and it is a text.
NeedsBackup(f) ==
    /\ tip[head].tree[f] # Absent
    /\ work[f] # tip[head].tree[f]
    /\ work[f] \notin NonText

\* A commit of the wip branch of HEAD holds f as it is.
BackedUp(f) == wip[head].live /\ \E tree \in wip[head].log : tree[f] = work[f]

\* What nobody makes up for: the last copy of f failed, or its copy was dropped on a status
\* that was out of date.
Lost(f) == f \in failed \cup misjudged

\* The worktree holds f as it is, for the next wip commit to take in.
Waits(f) == declined /\ wt[f] = work[f]

\* When everything has settled, every tracked file that differs from HEAD is in a commit of
\* HEAD's wip branch as it stands in the work directory, whatever order events, reads of the
\* status and Tasks come in; only a failed copy and a late, older status lose one.
QuietMeansBackedUp ==
    Quiet => \A f \in Files : NeedsBackup(f) => BackedUp(f) \/ Waits(f) \/ Lost(f)

\* When everything has settled, nothing a Task copied is left uncommitted in the worktree,
\* unless the setting was off when its batch ended or a merge broke off, and no wip commit was
\* made since.  A merge that is done leaves conflict markers, or a file the user's commit deleted.
QuietMeansCommitted ==
    Quiet /\ ~declined =>
        \A f \in Files : wt[f] \in {wip[wtHead].tree[f], Marked} \/ wip[wtHead].tree[f] = Absent

\* A save is in a wip commit some time later, if it is not overwritten before and its copy was
\* not lost.
SavesAreBackedUp ==
    \A f \in Files, c \in Contents \cup {Absent} :
        (work[f] = c /\ NeedsBackup(f)) ~>
            (\/ BackedUp(f) \/ Waits(f) \/ Lost(f)
             \/ work[f] # c \/ ~NeedsBackup(f) \/ crashed)

\* A wip branch loses commits in one way only: getWipCommits found no branch, another caller
\* created it and committed, the worktree moved on, and then the branch is created by force.
OnlyForcedCreateLosesCommits ==
    [][\A b \in Branches : \/ wip[b].log \subseteq wip'[b].log
                           \/ viewPc = "create" /\ b = viewBranch /\ b # wtHead]_vars
=============================================================================
