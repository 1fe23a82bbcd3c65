# Xferro in TLA+

Xferro is a macOS Git client. Besides what every Git client does, it keeps a backup of the
user's unfinished work: every save in the work directory is copied to a hidden worktree and
committed there on a "wip" branch that belongs to the branch the user is on. This directory
holds TLA+ modules of the parts of Xferro in which steps of several actors meet, the TLC
configurations that check them, and proofs checked by TLAPS.

## The system: components, state, operations, properties

| component | state | operations | what must hold |
|---|---|---|---|
| **Wip backup** (`WorkDirWatcher`, `RepositoryInfo+WorkDirWatcher`, `CommitsViewModel+Wip`, `WipWorktree`) | the batch of changed paths, `fileHashes`, `RepositoryInfo.status`, the hidden worktree (files, HEAD, wip branches), `wipCommitLock` | batch of paths → Task → copies → `addWipCommit` (lock, create or check out the wip branch, add, commit, merge the user's HEAD); listing of the wip commits (`getWipCommits`), which creates a missing branch by force; manual wip commit | every save of a tracked text file ends in a commit of the wip branch of HEAD; a commit goes to the branch its caller resolved; no wip commit is lost; nothing that was copied stays uncommitted |
| **Git watcher** (`GitWatcher`, `FileMonitor`, `FileEventStream`, `RepositoryInfo+GitWatcher`, `CommitsViewModel+RepositoryInfo`) | the window of changed paths, three caches of refs, `lastIndexChange`, the monitor of packed-refs, the lists of `RepositoryInfo` | observe a batch, compare the refs with the cache on two threads, publish, read the lists again on the main actor | once everything settled the lists and HEAD show what the repository holds; a missed event is made up for |
| **Status view** (`StatusViewModel`, `DiffInfo`, `SelectedLinesDiffMaker`) | check state of each file, selected lines, summary; index and work directory while a commit is made | commit and amend of part of the changes, stage, discard, stash | the commit holds what was selected; what was not selected is still on disk |
| **Repository operations** (`RepositoryInfo`, `ActivityOperation`, `RepositoryInfo+GitWatcher`) | the HEAD, the status and the lists that `RepositoryInfo` remembers; the repository's branches, HEAD and tags | create, check out, delete, merge, rebase, tag, each a Task that runs `git` | HEAD's branch is never deleted; commits are lost by no other operation than a deletion or rebase that was asked for; a check that is passed was passed by what the repository is |
| **Selection** (`CommitsViewModel`, `CommitsViewModel+RepositoryInfo`, `ProjectsViewModel`) | the repositories of the window, the selected item and its repository, the wip commits shown | launch, add and remove a repository, tap, react to a git event, list wip commits | the selection is in the window; nobody but the user leaves a commit or a tag; what is shown belongs to what is selected |
| **Merge** (`Repository+Merge`) | the index and the files of a worktree | fast-forward, normal merge with "theirs" | conflicts resolve one way, in index and file |
| **Reference database in memory** (`MemoryRefDB.c`) | map from name to reference | lookup, write, rename, delete, iterate | the map libgit2's backend contract describes |
| **Remotes** (`Repository+Remote`, `PushOpController`, the credentials callback, `StatusViewModel`'s fetch, pull and push) | the local, the tracking and the server's branch, attempts at credentials, the activity shown | fetch, pull, push, push with lease, commit or amend and push, fall back to `git` | others' work is not overwritten; a push after a commit pushes it; credentials are not retried for ever |
| **Task queue** (`TaskQueue`) | count of running blocks, `busy` | queue a block | `busy` says whether a block is queued |
| **git on the command line** (`GitCLI`) | none of its own | run `git` in a directory | |
| **Wrapper of libgit2** | none of its own | objects, references, index, diff, config, worktrees, submodules | |
| **Projects, users, accounts** | SwiftData models, key chain | add, remove, sign in | |
| **Views** | SwiftUI state | layout | |

How they interact. The user's editor and `git` change the work directory and `.git`. Two
`FileEventStream`s report paths, each through a Combine debounce: one to the work directory
watcher, one to the `GitWatcher`. A batch of the first starts a Task off the main actor (Tasks
of several batches overlap); it calls `onWorkDirChange`, which calls `addWipCommit`. The second
publishes what changed to `RepositoryInfo`, whose subscribers start Tasks on the main actor, and
these call `onGitChange`. The view models read and write the same repository from the main
actor, some of it in un-awaited Tasks. All wip branches of a repository share one worktree, so
`wipCommitLock` (one lock per `CommitsViewModel`) is what keeps two callers apart.

What is hard about it: Tasks of overlapping batches that share `fileHashes`, the worktree and
`RepositoryInfo.status`; state that is read in one step and used several steps later (the
status, HEAD, "there is no such branch"); events that are dropped, and events that arrive after
the state they describe has changed again; caches of the watcher compared on two threads;
`try!` and `mustSucceed` half way through a sequence of changes. `PROJECT.json` lists every such
place under "hazards", with the line and the properties that cover it.


## The modules

Each component has a module of its own that is parameterised by CONSTANTS and used as it is by
TLC (a `.cfg` gives the constants model values, and where these are functions or sequences an
`MC*` module defines them) and by the proofs (`*_proofs.tla` extends it).

| module | proofs | runs | models |
|---|---|---|---|
| `WipBackup` (`MCWipBackup`) | `WipBackup_proofs` | `wip_one`, `wip_two` | the wip backup, from a save to the wip commit |
| `RefCache` | `RefCache_proofs` | `refcache_lists` | the Git watcher and the lists it keeps up to date |
| `StatusCommit` | `StatusCommit_proofs` | `commit_kept`, `commit_selected` | the list of changed files, its check boxes, commit and amend |
| `SelectedLines` | `SelectedLines_proofs` | `lines_made` | the file made of the selected lines of a diff |
| `RemoteOps` | `RemoteOps_proofs` | `remote_push`, `remote_answered` | fetch, pull, push and "Commit and Push" |
| `RepositoryOps` (`MCRepositoryOps`) | `RepositoryOps_proofs` | `ops_kept`, `ops_named` | the operations on branches and tags, and the status they look at |
| `Selection` (`MCSelection`) | `Selection_proofs` | `selection` | the repositories of the window and what is selected in them |
| `MemoryRefDB` (`MCMemoryRefDB`) | `MemoryRefDB_proofs` | `memoryref_map` | the hash table behind libgit2's backend of references |
| `RefMap` | | as `Contract` | the contract of such a backend, a map; `MemoryRefDB` follows it but for the calls it marks |

`StatusCommit` uses what `SelectedLines` is about: its operator `Made` is the file that
`SelectedLines` makes line by line, taken as a set of lines.

### WipBackup

State: the user's repository (`head`, `tip`, `work`, `staged`), the events on their way
(`pending`, `rescan`, `headMoved`), what `RepositoryInfo` remembers (`info`, `status`,
`fileHashes`), the setting for automatic commits (`autoCommit`), the hidden worktree (`wt`,
`wtHead`) with its branches (`wip`), `wipCommitLock`, and the program counter and locals of every
Task. Actions of the user: `Save`, `Add`, `CommitAll`, `Checkout`, and `ToggleAutoCommit`, the
switch in the settings and above the list of wip commits. `DeliverBatch` starts a Task;
`ReadStatus`, `AssignStatus`, `HandlePath`, `ReadPath`, `WriteCopy`, `EndBatch` are the steps of
`workDirChangeObserver`, cut where somebody else can get in; `Lock`, `SwitchBranch`, `CommitWip`,
`MergeHead`, `Unlock` are those of `addWipCommit`. `View` and `CreateWip` are the two halves of
`getWipCommits`, which looks for the wip branch and creates it by force, without the lock.

The status is read by git and assigned later, by a Task as by everybody else who refreshes it
(`StartRefresh`, `EndRefresh`, for each of the `Refreshers`): an older status may be assigned last,
also between a Task's own assignment and its look at a path. The setting is read when a batch ends
(`EndBatch`), so that its copies stay in the worktree while it is off. With `Failing` a copy, a
deletion and the merge may fail: `createFile`'s result is not looked at, so that the change is
noted and the hash kept although nothing is there (`WriteCopy`); a deletion that fails is caught or
ends the program (`DropFails`); the merge is under `try?`, may break off with any of the files it was
to write written (`MergeHead`), and makes no commit then.

A commit is a serial number and a tree. A merge is decided per file from the merge base, as
`git_merge` does, and `acceptTheirs` resolves the index and leaves the file with markers, which
the next wip commit then holds.

Three auxiliary variables, which no action reads, name what the properties except: `failed`, the
files whose last copy or deletion failed; `misjudged`, those last taken for untracked on a status
that was out of date; `declined`, that a change of the worktree was left uncommitted since the last
wip commit, by the setting or by a merge that broke off. These are real losses. The copy of a file
that was added and committed meanwhile is deleted when an older status is assigned last, and no
event comes for it any more; a failed copy is never tried again, since its hash is remembered. None
of the exceptions can be spared: without `failed` or without `misjudged` TLC finds
`QuietMeansBackedUp` violated in `wip_one`, and without `declined` `QuietMeansCommitted` in
`wip_two`. `fileHashes` is never cleared. A content that is saved, dropped from the worktree before
it was committed, and saved again is skipped as known; it is in the history only if it was committed
in between.

With two branches `QuietMeansBackedUp` does not hold (its run has one): copies made while the
worktree is still on the other branch's wip branch are thrown away by the forced checkout in
`SwitchBranch`, and their hashes make later batches skip them. With two Tasks at once it does not
hold either: a Task skips what another one has noted but not yet copied (its run has one Task). So
nobody contends for the lock in `wip_one`; that is what `wip_two` is for.

### RefCache

State: `refs` and `head`; the classes of the paths in the debounce window (`changed`); the monitor
of packed-refs (`armed`: it watches the file there is, `fired`); for each of the two threads the
checks it has still to make and what it read for the first of them (`todo`, `new`); the caches;
the Tasks on their way to the main actor (`posted`); the lists shown. A check is two steps,
`ReadRefs` and `CompareRefs`, because the other thread and git may come in between (a read that
fails, which the code takes for no refs at all, is left out); `RefreshList`
reads the refs again. git's operations are actions of their own: `Commit`, `Create`, `Fetch`,
`Delete`, `Checkout`, `PackRefs`, `TouchIndex`.

### StatusCommit

State: HEAD's tree, the index and the work directory; the entries of the list with their diff and
the lines selected of it (`tracked`), the summary, and of each file whether its modification date
is cached and still current (`lastModified`); for each commit that runs its program counter and
locals (`list`, `todo`, `file`, `filesToWriteBack`, `filesToAdd`, `filesToDelete`). The user may
`Save`, `Track`, `Discard`, `DiscardAll`, toggle lines and check boxes, type a summary and tap the
button, at any time, also while a commit runs: `withActivityOperation` starts a Task and returns.
The steps of `commit(amend:)` are `RestoreStaged`, then for each file checked in part `KeepFile`
(read it) and `DiscardLines` (rewrite it), `AddFiles`, `GitCommit`, `WriteBack` file by file,
`RemoveFiles`, `Finish`. `GitFails` is any git command that fails, and a file that is no text when `KeepFile`
would read it; `Throw` is what the `catch`
in `withActivityOperation` does: everything the Task remembered is gone.

`fatalError` and `try!` set `crashed` and stop the program. One of them always happens: a deleted
file that is committed in part is removed by its path relative to the repository
(`StatusViewModel.swift:922`), which `removeItem` does not find.

Abstractions: a file is a set of lines, so a change is a line that only one of two contents has,
and `HEAD with these changes` is a symmetric difference; their order is what `SelectedLines` is
about. When HEAD or the file is not the one the diff was made of, line numbers no longer fit and
`Made` is any set of their lines. The check states are read in one step with the first git
command (in the code they are read in the loops after it, and the boxes may be clicked between).
A refresh is one step. Renames, conflicts, binary files and pushes are left out.

### SelectedLines

`makeFileWithSelectedLinesForModifiedFile` walks through HEAD's version and the file on disk with
two indices; each branch of its loop is an action (`TakeBoth`, `SkipDeleted`, `KeepDeleted`,
`TakeAdded`, `SkipAdded`, `Break`, `EndOfFile`). The other two cases are one step each. `Expected`
is the reference definition: HEAD's version with the selected changes, gap by gap, each line at the
place it has in that order (`Place`, `InOrder`: sorting by a count of what comes before, which the
proofs can reason about without induction). `Diffs` is the
set of shortest diffs that git's compaction of changes leaves as they are; git's own diff is one
of them. String.lines gives a text that ends in a newline one empty line more than git counts
(`LinesIn`). Left out: `\r` and the Unicode separators, at which `.newlines` splits as well and
git does not; with them the line numbers of the diff do not fit the lines at all.

### RemoteOps

State: for each repository the branch (`local`), the server's (`remote`) and the one git remembers of
the server (`tracking`), `Repository.lock`; `retryCount`, one for the program; the activity shown;
for each operation its button, its repository, and the program counters of its two Tasks, the one
that commits (`cpc`) and the one that talks to the server (`pc`). A commit is a number, a branch the
set of numbers in its history, so that "ancestor of" is "subset of".

A push goes `Lock` → `connect`, where the server asks for credentials (`Ask`, `Load`, `Store`, or
`GiveUp` when the count is up) or lets it in (`Negotiate`) → `Upload` → `StopNet`. Every error of
libgit2 (`ConnectFails`, `GiveUp`, a refused `Negotiate`, `UploadFails`) gives the lock back and goes
on with `git push` (`CliNegotiate`, `CliUpload`, `CliFails`). What libgit2, git and the server do is
modelled from their contracts: the server takes an upload only if its branch is still the one it told
the pusher, libgit2 wants a fast-forward unless the refspec begins with `+`, and
`--force-with-lease` wants the tracking branch to be the server's. `FetchRead`, `FetchWrite` and
`Integrate` are `git fetch` and the two halves of `git pull`; commits replayed by a rebase are one
new commit. `Commit` is `commit(amend:)` as one step; its detail is `StatusCommit`.

That a push with lease keeps others' work rests on an accident, which `RefSpecFound` models: in
`Repository+Remote.swift:95` the refspec is made of a long name and gets `refs/heads/` twice, so
libgit2 finds no such branch and `git push --force-with-lease` is run. With the name repaired
(`LongNameOnce`) libgit2 pushes with `+` and without a lease, and `PushKeepsUnseen` fails.

Left out: the choice of the remote, several branches, the forced push of wip branches (which nobody
else writes), and the second that `refreshStatus` sleeps between a commit and its push: the model
lets any time pass, as the Task of the commit may take any time. So the push of "Commit and Push"
may run before the commit is made, and then sends the branch without it.

### RepositoryOps

State: the branches here, the remote branches git remembers and the names of the server's branches
(`local`, `tracking`, `server`), HEAD (`head`, and `at` when it is on no branch), tags, whether
there are uncommitted changes (`changed`) or a merge or rebase that waits for its conflicts
(`stopped`); what `RepositoryInfo` remembers of that (`info`), the status event on its way and the
status reads under way (`event`, `reads`); of each operation its request and program counter. A
branch is the set of the commits in its history, and the empty set is no branch.

A tap goes `Tap` → `Check`, which looks at `info` alone, as the handlers do, → one git command in
another Task: `Create`, `CreateOut`, `Checkout`, `CheckoutDetached`, `CheckoutGuessed`,
`CheckoutNew`, `Delete`, `DeleteRemote`, `PopoverDelete`, `Tag` and `PushTag`, `FastForward`,
`Merge`, `Rebase`, `Conflict`, or `Fails`. A git command is one step, written from git's contract:
what it refuses, when it moves HEAD, what a conflict leaves. Between the steps the user works in a
terminal (`Save`, `Commit`, `Switch`, `Continue`, `Abort`), and `StartRead`, `Refresh`, `Assign`,
`RefreshHead` and `RefreshLists` bring `info` up to date. Three things the code does are kept
as they are: the deletion from the branch menu runs libgit2 on the main thread with `mustSucceed`, so
that HEAD's branch ends the program (`crashed`); a remote branch whose name is not among the local
ones is checked out with `checkout -b origin/x`, which makes a local branch of that name at HEAD
(`RepositoryInfo.swift:132`) and makes the name ambiguous from then on; and a remote branch is
deleted by what is behind the last slash of its name (`ops_named`).

Three histories make the properties exact: `stale` says that an operation's check looked at what did
not hold or ceased to hold before git ran, `misled` that git then worked on what the handler means
to refuse, `crossed` that the status shown was read before one that was shown earlier.

### Selection

State: the projects of the user and the repositories of the window in their order (`projects`,
`infos`), the item selected and its repository (`item`, `cur`), the repository selected last, the
item whose wip commits are shown and the listings under way (`wip`, `wipTasks`), and the Tasks on
their way to the main actor: the launch, `addRepository`, `setupInitialCurrentSelectedItem`, taps,
removals and events of the git watchers. `Select` and `Deselect` are `setCurrentSelectedItem` with
an item and with nil; `Insert` and `Count` are the two halves of `addRepository`, between which
another repository may come in; `ListAgain` is the listing that follows a wip commit
while the selected item is at HEAD; `ShowWip` is the end of a `getWipCommits`, which assigns its
result whatever is selected by then. `RunEvent` is `onGitChange`: it means to show the selected status
anew, but compares the repository of the event with itself, so that an event in the background takes
the selection to its repository if a status is selected.

Again histories name the exceptions: `late` (a tap or an event of a removed repository selects it
again), `raced` (two additions, neither of which is the only one when it counts), `doubled` (a second
removal hits the repository after it was added again), `crossed` (wip commits of an older
selection come in last). The first repository to be inserted at launch is selected, and not the one
selected last, since `addRepository` selects as soon as there is one. One repository is added once
at a time. The wip worktrees that a removal and a reset delete belong to `WipBackup`'s component.

### MemoryRefDB and RefMap

State: the entry at each address (`entry`), the list of each bucket (`table`), whether the database
is there (`alive`), the iterator, and the last call with its answer. Each callback of
`git_refdb_backend` is an action with all of its returns (`WriteRefused`, `WriteOver`, `WriteNew`,
`Moved`, `Freed`, `Advance`, `AtEnd`, ...). A list is the sequence of its entries' addresses, so
that unlinking through `prev->next` takes out an element; `calloc` returns any address that is
free, or none. `hash` is a constant: any function from names to buckets.

The backend is linked into the program and declared in its bridging header, but no Swift code calls
`create_memory_refdb` yet. The model keeps what the code does: the old value a
write expects is not looked at; `memory_ref_rename` moves the entry and then always returns an
error, and `memory_ref_iterator_next` never delivers a reference, because both go through
`git_reference_create`; the end of an iteration is `GIT_ERROR`, not `GIT_ITEROVER`; the glob is
ignored; an entry that is freed under the iterator is read afterwards (`IteratorDangles`).

`RefMap` is the contract of `refdb_backend.h` on a map from names to values: a write that is not
forced is made only if the reference is at the old value the caller gives, and without one only if
there is no reference; a deletion likewise; and a call that answers with an error has changed
nothing. What iterators hand out is not part of it, only that they leave the map alone. Its variable
`kept` says whether the last call kept the promise; a call that did not may do what it likes to the
names it is about, and to no others (`Broken`), and the next call is held to the contract again.
`MemoryRefDB` breaks it in calls of five kinds, and `Contract` says that these are all:

1. a write that is not forced and comes with an old value: it is not compared, and an existing
   reference refuses the write though it has that value;
2. a forced write of an id over a symbolic reference: the entry keeps its type;
3. a rename that finds its entry: it answers with an error after the entry was moved, or after it
   was freed because `strdup` failed;
4. a deletion whose old value is of the other type: it is not compared;
5. the deletion of a name with a second entry: a forced rename does not look for the new name, so
   that the entry it had is shadowed (`shadowed`) and comes back.

`RenameMoves` says that nothing is lost in the third kind when the answer is that of
`git_reference_create`. Left out: memory that is merely lost (`memory_ref_free` leaks symbolic
targets), and a `strdup` that fails in a forced symbolic write (`MemoryRefDB.c:167-170`), which
leaves an entry without a target and answers 0. An assumption about libgit2, which nothing in the
repository settles: `git_reference_create` answers with an error when the repository is a null
pointer (`MemoryRefDB.c:341`). If it reads through the pointer instead, the program ends there.

## What is checked

Every property has a mutated form of the code in its module (a definition of its own before the one it stands for), listed
under "mutants": with it TLC finds the property violated under the same configuration.

| run | properties | what it shows |
|---|---|---|
| `wip_one` | `QuietMeansBackedUp`, `SavesAreBackedUp` | on one branch, one Task at a time beside another reader of the status, with contents that are no text, copies and merges that may fail: every save of a tracked file reaches a wip commit, except for a failed copy and one dropped on an older status |
| `wip_two` | `TypeOK`, `CommitsOnItsBranch`, `QuietMeansCommitted`, `OnlyForcedCreateLosesCommits` | two Tasks, two branches, the button, the switch for automatic commits, dropped events, failures: commits go where they were meant to go, nothing copied stays uncommitted except while the setting is off or after a merge that broke off, and only the race in `getWipCommits` loses commits |
| `refcache_lists` | `TypeOK`, `QuietMeansHead`, `QuietMeansListed`, `ListOrCache`, `EventuallyListed` | HEAD and the lists catch up with the repository, whatever git does meanwhile, except after a deletion or dropped events; after a deletion at least the list or the cache is right |
| `commit_kept` | `TypeOK`, `WorkKept`, `OnlyCheckedCommitted` | what the user saved is written back, and only checked files change in HEAD, with the exceptions the properties name |
| `commit_selected` | `HoldsSelectedLines` fails | the commit holds the lines that were not selected |
| `lines_made` | `SelectedChangesMade`, `ABeginning` | when the algorithm is right, and that otherwise (files that end differently) it is right up to where it stops |
| `remote_push` | `TypeOK`, `ActivityIsRunning`, `PushKeepsUnseen`, `NormalPushKeepsAll` | two operations at once while others push and rewrite: no push removes what was never fetched, one without lease removes nothing, no operation that is over is shown as going on |
| `remote_answered` | `Answered` | two pushes in one or two repositories end, however often the server refuses the keys |
| `ops_kept` | `TypeOK`, `HeadIsThere`, `OnlyStaleMisleads`, `StatusSettles`, `UnpushedForGood`, `CommitsKept` | whatever two operations and the user do to each other: HEAD's branch stays, commits go only with a deletion or rebase that was asked for, a handler works on what it means to refuse only if it looked at something old, and the status shown is right in the end unless two reads crossed |
| `ops_named` | `DeletesWhatIsNamed` fails | deleting the remote branch origin/x/work deletes the server's branch work |
| `selection` | `TypeOK`, `SelectedIsListed`, `ListedAreProjects`, `SomethingSelected`, `WipOfSelection`, `EventuallySelected`, `OnlyUserLeavesItem` | launch, additions, removals, taps and events in any order: the selection is in the window, nobody takes a commit or a tag from the user, something gets selected in the end, with the exceptions the properties name |
| `memoryref_map` | `TypeOK`, `ListsSound`, `OneEntryPerName`, `IterationSeesAll`, `RenameMoves`, `Contract` | after any sequence of calls each entry is in one list, an iterator misses nothing that stays, a rename loses nothing, and each call is answered as the contract says, but for the five kinds above, which change no other name |

The exceptions in `WorkKept` are real losses, found while the property was made: a save between
the reading and the writing back of a file is overwritten; a second commit started meanwhile takes
the rewritten file for the user's; a commit that throws writes nothing back (for instance a second
tap on "Commit": the first one clears the summary and git refuses the empty message of the
second). They go to `risk`, and the property says that there are no others.

Bounds. `MaxOps` bounds what the user and git do (3 or 4 operations), everything else is bounded by
it. Two Tasks, two commits or two threads are what a race needs; two branches are what a switch
needs; two lines are the least of which one can be selected; `lines_made` takes all texts of up to
three lines over three letters, the empty line among them, and every diff and selection of them:
three lines are enough for a group of two changes and a line behind it. In
`RemoteOps` two operations and two commits besides those of the first state let one push overtake
another, a fetch come between, and others rewrite what was told; every first state (up to date, ahead,
amended) is tried, so that a push has something to send without a commit before it. In
`ops_kept` two operations of fourteen kinds (one of each, and those that get in each other's way) meet two
steps of the user and two status reads: the user's steps are one between the check and git and one
that resolves a conflict, and two reads are what it takes to cross (1.4 million states). `selection`
has three repositories, since two that are added at once and one that is removed or stays are the
least of which the order matters, and three taps, removals, additions or events (330,000 states).
`memoryref_map` has two entries in two buckets, of which one holds two of the three names, so that lists
of length two, shadowed names, moves between lists and running out of memory all happen (45,000 states
up to the symmetry of addresses and of ids); it has no bound on the calls, and deadlock is checked. In
the other runs it is not: once the user has used up the operations the system may rightly come to rest.
`wip_two` has 3.9 million states up to the symmetry of its two Tasks, and no `Refreshers`: its
properties do not depend on who reads the status. `wip_one` (135,000 states) has one, contents that are
no text, and three operations of the user: a file is added, committed and saved, and the status of
before all that may come in last.

Fairness. `SavesAreBackedUp` assumes that the run loop delivers batches, that each Task is run on,
and that whoever waits for `wipCommitLock` gets it in the end: weak fairness for the Tasks (a status that
is awaited comes), none for other readers of the status, strong fairness for the lock, since the user
may press "Commit Wip" for ever. `EventuallyListed` assumes weak fairness of the debounce timer, the queue of the monitor and the jobs of the main actor. These
are promises of Dispatch and the Swift runtime. `Answered` assumes weak fairness of each Task of an
operation: git and the server answer or the connection breaks. That git never blocks on the full pipe
that nobody reads (`GitCLI.swift:70`) is assumed too, and listed as a hazard. `EventuallySelected`
assumes that the main actor serves the Tasks that were started (weak fairness of `Work`). The user,
git and the viewers are never fair.

## What is proved

For all values of the constants that satisfy the module's assumption (`WipAssumption`,
`RefAssumption`, `StatusAssumption`, `LineAssumption`, `RemoteAssumption`, `NamesAssumption`,
`TableAssumption`, `ReposAssumption`: the special values differ from each other and from the ordinary
ones, functions have their domains, `GivenHead` is a branch and a launch names no repository twice;
nothing about sizes):

* `WipBackup_proofs`: `TypeCorrect`; `LockKeepsBranch` (`CommitsOnItsBranch`), from the inductive
  invariant `AddInv`: the lock names exactly the caller inside `addWipCommit`, so nobody else
  moves the worktree while it is between check-out and commit. `NoBranchNoCommits` is needed since
  creating a branch that is not there must not drop commits; from it follows `LossOnlyByForce`
  (`OnlyForcedCreateLosesCommits`). `CopiesAreCommitted` (`QuietMeansCommitted`), from
  `SettleInv`: every file of the worktree is as the last commit leaves it, or somebody is on the way
  to a commit, or a change was declined, by the setting or by a merge that broke off, and no commit
  was made since; the setting may be switched at any time. `SavedIsBackedUp` (`QuietMeansBackedUp`), from
  `CopyInv` (where a content whose hash is remembered is: in the hand of its Task, in the worktree, in a
  wip commit, or lost in a way the property names) and `BackupInv`, holds of behaviours that meet a
  condition all along, and is stated so. `Undisturbed` is the condition: wip commits are automatic,
  HEAD stays on one branch, no batch is delivered while another one is worked on (these three are
  `Steady`), and no rescan is due; files, branches, Tasks, other readers of the status and bounds are
  arbitrary, and copies and merges may fail. As any step may be followed by stuttering, a behaviour that
  leaves the condition is covered up to that point. While the setting is off no change is committed,
  another branch or an overlapping batch loses saves whose hash is remembered, and a rescan drops the
  window with its saves.
* `RefCache_proofs`: `TypeCorrect`; `HeadFollowed` (`QuietMeansHead`), from `HeadInv`: until HEAD is
  shown as it is, its path is in the window or its Task is on its way; `ListsFollow`
  (`QuietMeansListed`), from `AgeInv` (without deletions nothing read or cached is newer than the
  ref) and `ListInv` (a list that is behind is pursued by a Task, or the cache is behind too and a
  check that will find it is still to come). `ListOrCacheRight` (`ListOrCache`), from `CacheInv`:
  unless events were dropped, the list or the cache of a ref is right, or its kind is about to be read
  into the list, or a check that will find it is still to come.
* `StatusCommit_proofs`: `TypeCorrect`; `SavedIsKept` (`WorkKept`), from `KeptInv`: of a file that is
  not at risk, what a commit has to write back is what the user saved, and the file a commit has
  in hand will be written back or is to be deleted. `CommitsWhatIsChecked`
  (`OnlyCheckedCommitted`), from `IndexInv`: while nobody meddles one commit runs, the index equals
  HEAD before it adds its files, and differs from it in those files only afterwards.
* `SelectedLines_proofs`: `MakesSelectedChanges` (`SelectedChangesMade`) and `MakesABeginning`
  (`ABeginning`), from `MadeInv`. As long as deleted lines differ from the next
  line, the loop's two indices are in the same gap of the diff, the deleted lines of a gap are passed before the added ones, and the result is made of exactly
  those items of the right file whose line was passed; since each item has its place by how many
  come before it, the next item taken is the next line of the right file, and no induction over the
  file is needed. That the lines which stay match one by one follows from the one thing a diff
  promises, that both files are the same without its lines; that the diff is a short one, or slid, is
  not used. Where deleted lines differ from the next line the loop is never left by `Break`, which
  is part of the invariant, since the right file would be cut off there.
* `RemoteOps_proofs`: `TypeCorrect`; `ActivityShown` (`ActivityIsRunning`, inductive as it stands);
  `LeaseHolds` (`PushKeepsUnseen`) and `NormalPushKeeps` (`NormalPushKeepsAll`), from `SeenInv` (a
  branch and its tracking branch hold only what the repository has had) and `SentInv` (what is about
  to be sent covers what the server told, or a lease found that in the tracking branch; no push with
  lease gets as far as libgit2's upload).
* `RepositoryOps_proofs`: `TypeCorrect`, with `TagsUnpushed` (`UnpushedForGood`) from `OwnTags` (a
  tag that is being pushed or was not pushed was made by that operation, and by no other);
  `OnlyStale` (`OnlyStaleMisleads`), from `ChecksHold`: an operation that waits for git and is not
  stale still sees what its check saw; `HeadStaysThere` (`HeadIsThere`), from `Remembered`: a
  stopped merge or rebase remembers histories that are not empty, so that going on or giving up
  puts HEAD on something; `KeepsCommits` (`CommitsKept`), step by step from the types;
  `SettlesStatus` (`StatusSettles`), from `Settles`: without an event on its way the youngest read
  found what there is and is still to come back, or only late ones are, and the status is right or
  crossed already.
* `Selection_proofs`: `TypeCorrect`; `SelectedStaysListed` (`SelectedIsListed`) and `UserLeavesItem`
  (`OnlyUserLeavesItem`), by what each Task does; `SettlesSelected` (`SomethingSelected`), from
  `Settling`: while nothing is selected a Task that selects is started, the only repository has still
  to be counted, or the launch goes on; `WipFollowsSelection` (`WipOfSelection`), from `WipFollows`,
  which is to the wip commits what `Settles` is to the status; `ListedStayProjects`
  (`ListedAreProjects`), from `Kept`: what the launch has still to insert is neither listed nor being
  removed, and a removal under way is of a repository that is listed and not read again.
* `MemoryRefDB_proofs`: `Inductive`, the invariant `IInv`: `TypeOK`, `ListsSound`, `OneEntryPerName`
  and, for the iterator, that what stays and was not seen yet is still ahead of it, in its own list
  or in a later bucket. From it `TypeCorrect`, `ListsAreSound`, `OneEntry`, `IterationComplete`,
  `RenamesMove` (`RenameMoves`), and `Implements` (`Contract`): the first state maps to the first state of
  `RefMap`, each call to one of its steps, kept or broken as the call says. A walk that finds a name
  finds the first entry of it, so that taking out any other entry changes no other name (`Reads`). The
  lists enter only through lemmas about `Linked` and `Unlinked`. It is no refinement of a map without
  exceptions: the code is none.

Every safety property of the runs that pass, invariant or action property, is stated by one of these
theorems. Only model-checked are the liveness properties `SavesAreBackedUp`, `EventuallyListed`,
`EventuallySelected` and `Answered` (fairness is out of TLAPS's reach); the safety part of the first,
that what is at rest is backed up, is `SavedIsBackedUp`.

## What is not modelled

`PROJECT.json` lists every component with its status.

* Views, sign-in, property lists and the key chain keep no state that several actors change.
* The wrappers of libgit2 beyond what the modelled handlers call are thin calls without state.
* `TaskQueue`: the program uses its dispatch queue and never calls `execute`, `executeSync` or
  `wait`, so that its counter is never changed.
* `GitCLI`: what git does is part of the actions that call it. That `git` and the program may wait for
  each other when the output fills the pipe (`GitCLI.swift:70`) is listed as a hazard only; it is a
  fact about one call and the size of a buffer, not about an order of steps.
* `WipBackup`: detached HEADs and tags, ignored paths and `~` paths (the code drops them before
  anything else), and the creation and deletion of the hidden worktree.
* `RefCache`: stashes and reflogs; a read of the refs that fails (`try?`, `GitWatcher.swift:208-210`)
  and empties the cache; reading all refs of a kind is one step.
* `StatusCommit`: stash, renames, conflicts, ignore; the check states are read in one step, see above.
* `SelectedLines`: carriage returns, see above. `RemoteOps`: the choice of the remote.
* `MemoryRefDB`: the two omissions and the assumption about `git_reference_create` named above.

Most files of the repository that are not Swift are headers of libgit2, libssh2 and OpenSSL, which
declare and do nothing; its own C code is `MemoryRefDB.c`, modelled but for the omissions above, and
a queue helper of a few lines. The modules are about the Swift code and `MemoryRefDB.c`.

## Plan

Done: `WipBackup`, `RefCache`, `StatusCommit`, `SelectedLines`, `RemoteOps`, `RepositoryOps`,
`Selection`, `MemoryRefDB` with `RefMap`. What would come next:

1. Extensions: worktree creation and detached HEADs in `WipBackup`, stashes in `RefCache`, stash
   and discard of selected lines in `StatusCommit`, the choice of the remote in `RemoteOps`.
2. An abstract backup specification (a set of saved contents per branch) that `WipBackup` implements
   on one branch, and an abstract server (compare and swap of one branch) for `RemoteOps`.
3. Proofs: the refinements of 2, with `BackupInv` and `SentInv` as the invariants to start from.
