------------------------------- MODULE RefCache -------------------------------
(***************************************************************************)
(* How the lists Xferro shows of a repository follow the repository: the   *)
(* GitWatcher batches the paths that change under .git, compares the refs  *)
(* with its caches, and publishes what changed; Tasks on the main actor    *)
(* then read HEAD, the status and the branches again into RepositoryInfo.  *)
(* A FileMonitor on packed-refs does the same comparison on another        *)
(* thread, with the same caches.                                           *)
(*                                                                         *)
(* A ref points to a commit, a number, or is Gone.  Numbers are new ones   *)
(* for new commits, so a ref has an earlier value again only after it was  *)
(* deleted.  The history variables "deleted" and "lost" remember that a    *)
(* ref was deleted, and that events were dropped.                          *)
(***************************************************************************)
EXTENDS Naturals, Sequences

CONSTANTS
    Local,       \* full names under refs/heads
    Nested,      \* those of them with a slash after refs/heads/
    Remote,      \* full names under refs/remotes
    Tags,        \* full names under refs/tags
    Main,        \* the branch HEAD starts on
    Existing,    \* the refs there are at first
    Deletable,   \* the refs that may be deleted
    Lossy,       \* may FSEvents drop events and ask for a rescan
    MaxOps       \* bound on the git operations

ASSUME RefAssumption ==
    /\ Main \in Local \cap Existing /\ Nested \subseteq Local
    /\ Local \cap Remote = {} /\ Local \cap Tags = {} /\ Remote \cap Tags = {}
    /\ Existing \cup Deletable \subseteq Local \cup Remote \cup Tags
    /\ Lossy \in BOOLEAN /\ MaxOps \in Nat

Ref == Local \cup Remote \cup Tags
Kinds == {"local", "remote", "tags"}
OfKind(k) == CASE k = "local" -> Local [] k = "remote" -> Remote [] k = "tags" -> Tags
Gone == 0
Refs == [Ref -> Nat]
Threads == {"main", "monitor"}

VARIABLES
    \* the repository
    head, refs, index, ops, deleted,
    \* the stream of .git: classes of the paths in the window, a requested rescan
    changed, rescan, lost,
    \* FileMonitor of packed-refs: does it watch the file there is, has it an event
    armed, fired,
    \* a thread's checks to come, and the refs it read for the first of them
    todo, new,
    \* the caches by kind, lastIndexChange, and the Tasks on their way to the main actor
    cache, lastIndexChange, posted,
    \* RepositoryInfo: HEAD, the lists by kind, status; the statuses read but not yet assigned
    info, shown, status, reading

repoVars == <<head, refs, index, ops, deleted>>
streamVars == <<changed, rescan, lost>>
monitorVars == <<armed, fired>>
checkVars == <<todo, new, cache>>
infoVars == <<info, shown, status, reading>>
vars == <<repoVars, streamVars, monitorVars, checkVars, lastIndexChange, posted, infoVars>>

----------------------------------------------------------------------------
\* references(withPrefix:) for one kind.
OnlyKind(k, r) == [x \in Ref |-> IF x \in OfKind(k) THEN r[x] ELSE Gone]

Init ==
    /\ head = Main
    /\ refs = [r \in Ref |-> IF r \in Existing THEN 1 ELSE Gone]
    /\ index = 0 /\ ops = 0 /\ deleted = FALSE
    /\ changed = {} /\ rescan = FALSE /\ lost = FALSE
    /\ armed \in BOOLEAN /\ fired = FALSE
    /\ todo = [t \in Threads |-> <<>>]
    /\ new = [t \in Threads |-> <<>>]
    \* references(withPrefix: "") goes to the local cache, the others start empty
    /\ cache = [k \in Kinds |-> [r \in Ref |-> IF k = "local" THEN refs[r] ELSE Gone]]
    /\ lastIndexChange = 0
    /\ posted = {}
    /\ info = [branch |-> Main, oid |-> 1]
    /\ shown = [k \in Kinds |-> OnlyKind(k, refs)]
    /\ status = 0 /\ reading = {}

----------------------------------------------------------------------------
(* git, run by the user or by the app.                                     *)

Operate == ops < MaxOps /\ ops' = ops + 1

\* The paths of a ref's files that GitWatcher.paths takes for its kind: the ones right below
\* refs/heads or refs/tags, and the folder of a nested ref when git makes or removes it.
Seen(r, whole) ==
    IF r \in Tags THEN {{"tags"}}
    ELSE IF r \in Local \ Nested THEN {{"local"}}
    ELSE IF ~whole THEN {{}}
    ELSE IF r \in Nested THEN {{}, {"local"}} ELSE {{}, {"remote"}}

\* packed-refs is written again, under a new inode.
Repack ==
    /\ fired' = (fired \/ armed)
    /\ armed' = FALSE

\* git commit on HEAD's branch.  logs/HEAD counts as HEAD.
Commit ==
    /\ Operate
    /\ refs' = [refs EXCEPT ![head] = ops + 2]
    /\ index' = index + 1
    /\ \E p \in Seen(head, FALSE) : changed' = changed \cup {"HEAD"} \cup p
    /\ UNCHANGED <<head, deleted, rescan, lost, monitorVars, checkVars, lastIndexChange, posted, infoVars>>

\* git branch or git tag: a new ref at HEAD's commit.
Create(r) ==
    /\ Operate
    /\ r \in Local \cup Tags
    /\ refs[r] = Gone
    /\ refs' = [refs EXCEPT ![r] = refs[head]]
    /\ \E p \in Seen(r, TRUE) : changed' = changed \cup p
    /\ UNCHANGED <<head, index, deleted, rescan, lost, monitorVars, checkVars, lastIndexChange, posted,
                   infoVars>>

\* git fetch: the remote branch moves.  FETCH_HEAD counts as HEAD.
Fetch(r) ==
    /\ Operate
    /\ r \in Remote
    /\ refs' = [refs EXCEPT ![r] = ops + 2]
    /\ \E p \in Seen(r, refs[r] = Gone) : changed' = changed \cup {"HEAD"} \cup p
    /\ UNCHANGED <<head, index, deleted, rescan, lost, monitorVars, checkVars, lastIndexChange, posted,
                   infoVars>>

\* git branch -D, git tag -d, git fetch --prune.  A packed ref is removed from packed-refs.
Delete(r) ==
    /\ Operate
    /\ r \in Deletable /\ r # head /\ refs[r] # Gone
    /\ refs' = [refs EXCEPT ![r] = Gone]
    /\ deleted' = TRUE
    /\ \E p \in Seen(r, TRUE) : changed' = changed \cup p
    /\ Repack \/ UNCHANGED monitorVars
    /\ UNCHANGED <<head, index, rescan, lost, checkVars, lastIndexChange, posted, infoVars>>

\* git checkout of a branch.
Checkout(b) ==
    /\ Operate
    /\ b \in Local /\ b # head /\ refs[b] # Gone
    /\ head' = b
    /\ index' = index + 1
    /\ changed' = changed \cup {"HEAD"}
    /\ UNCHANGED <<refs, deleted, rescan, lost, monitorVars, checkVars, lastIndexChange, posted, infoVars>>

\* git pack-refs, by git gc: loose refs move to packed-refs and point where they did.
PackRefs ==
    /\ Operate
    /\ Repack
    /\ \E p \in SUBSET {"local", "tags", "gitDir"} : changed' = changed \cup p
    /\ UNCHANGED <<head, refs, index, deleted, rescan, lost, checkVars, lastIndexChange, posted, infoVars>>

\* git add, git reset: the index alone.
TouchIndex ==
    /\ Operate
    /\ index' = index + 1
    /\ changed' = changed \cup {"index"}
    /\ UNCHANGED <<head, refs, deleted, rescan, lost, monitorVars, checkVars, lastIndexChange, posted,
                   infoVars>>

----------------------------------------------------------------------------
(* The watchers.  Between two steps on the main thread nothing else runs   *)
(* there, but git and the monitor's thread go on.                          *)

MainFree == todo["main"] = <<>>

\* FSEvents drops the events of the window; an empty set is published instead.
DropEvents ==
    /\ Lossy /\ changed # {}
    /\ changed' = {} /\ rescan' = TRUE /\ lost' = TRUE
    /\ UNCHANGED <<repoVars, monitorVars, checkVars, lastIndexChange, posted, infoVars>>

\* The kinds to check for a batch of paths, in the order of checkRefs.
Checks(paths) ==
    LET check(k) == IF k \in paths THEN <<k>> ELSE <<>>
    IN check("local") \o check("remote") \o check("tags")

\* Mutated form of ObserveEvents: checkHead is left out when the index has changed.
ObserveIndexOrHead ==
    /\ MainFree
    /\ changed # {} \/ rescan
    /\ changed' = {} /\ rescan' = FALSE
    /\ lastIndexChange' = index
    /\ posted' = posted \cup (IF lastIndexChange # index THEN {"index"}
                              ELSE IF "HEAD" \in changed THEN {"head"} ELSE {})
    /\ \/ armed' = armed
       \/ "gitDir" \in changed /\ ~fired /\ todo["monitor"] = <<>> /\ armed' = TRUE
    /\ todo' = [todo EXCEPT !["main"] = Checks(changed)]
    /\ UNCHANGED <<repoVars, lost, fired, new, cache, infoVars>>

\* observeEvents: checkIndex, checkHead, a new monitor if packed-refs had none and .git itself
\* changed, then the checks of the refs.
ObserveEvents ==
    /\ MainFree
    /\ changed # {} \/ rescan
    /\ changed' = {} /\ rescan' = FALSE
    /\ lastIndexChange' = index
    /\ posted' = posted \cup (IF lastIndexChange # index THEN {"index"} ELSE {})
                        \cup (IF "HEAD" \in changed THEN {"head"} ELSE {})
    /\ \/ armed' = armed
       \/ "gitDir" \in changed /\ ~fired /\ todo["monitor"] = <<>> /\ armed' = TRUE
    /\ todo' = [todo EXCEPT !["main"] = Checks(changed)]
    /\ UNCHANGED <<repoVars, lost, fired, new, cache, infoVars>>

\* The monitor's event handler: local branches, and remote branches twice.
MonitorEvent ==
    /\ fired /\ todo["monitor"] = <<>>
    /\ fired' = FALSE
    /\ todo' = [todo EXCEPT !["monitor"] = <<"local", "remote", "remote">>]
    /\ UNCHANGED <<repoVars, streamVars, armed, new, cache, lastIndexChange, posted, infoVars>>

\* A check reads the refs of its kind.  (That git fails to read them, which the code takes for
\* no refs at all, is left out.)
ReadRefs(t) ==
    /\ todo[t] # <<>> /\ new[t] = <<>>
    /\ new' = [new EXCEPT ![t] = <<OnlyKind(Head(todo[t]), refs)>>]
    /\ UNCHANGED <<repoVars, streamVars, monitorVars, todo, cache, lastIndexChange, posted, infoVars>>

\* Mutated form of CompareRefs: the refs are cached before they are compared.
CompareCached(t) ==
    LET k == Head(todo[t])
    IN /\ new[t] # <<>>
       /\ cache' = [cache EXCEPT ![k] = new[t][1]]
       /\ posted' = IF new[t][1] # cache'[k] THEN posted \cup {k} ELSE posted
       /\ new' = [new EXCEPT ![t] = <<>>]
       /\ todo' = [todo EXCEPT ![t] = Tail(@)]
       /\ armed' = (armed \/ (t = "monitor" /\ Tail(todo[t]) = <<>>))
       /\ UNCHANGED <<repoVars, streamVars, fired, lastIndexChange, infoVars>>

\* Mutated form of CompareRefs: the refs read are kept for the next check.
CompareKeeping(t) ==
    LET k == Head(todo[t])
    IN /\ new[t] # <<>>
       /\ posted' = IF new[t][1] # cache[k] THEN posted \cup {k} ELSE posted
       /\ cache' = [cache EXCEPT ![k] = new[t][1]]
       /\ todo' = [todo EXCEPT ![t] = Tail(@)]
       /\ armed' = (armed \/ (t = "monitor" /\ Tail(todo[t]) = <<>>))
       /\ UNCHANGED <<repoVars, streamVars, fired, new, lastIndexChange, infoVars>>

\* It publishes if they differ from the cache, and caches them.  The monitor's last check done,
\* the file is opened again.
CompareRefs(t) ==
    LET k == Head(todo[t])
    IN /\ new[t] # <<>>
       /\ posted' = IF new[t][1] # cache[k] THEN posted \cup {k} ELSE posted
       /\ cache' = [cache EXCEPT ![k] = new[t][1]]
       /\ new' = [new EXCEPT ![t] = <<>>]
       /\ todo' = [todo EXCEPT ![t] = Tail(@)]
       /\ armed' = (armed \/ (t = "monitor" /\ Tail(todo[t]) = <<>>))
       /\ UNCHANGED <<repoVars, streamVars, fired, lastIndexChange, infoVars>>

----------------------------------------------------------------------------
(* The Tasks the publishers start on the main actor.                       *)

\* HEAD is read again.
RefreshHead ==
    /\ MainFree /\ "head" \in posted
    /\ posted' = posted \ {"head"}
    /\ info' = [branch |-> head, oid |-> refs[head]]
    /\ UNCHANGED <<repoVars, streamVars, monitorVars, checkVars, lastIndexChange, shown, status, reading>>

\* Mutated form of RefreshList: the refs the check cached are shown.
ShowCached(k) ==
    /\ MainFree /\ k \in posted
    /\ posted' = posted \ {k}
    /\ shown' = [shown EXCEPT ![k] = OnlyKind(k, cache[k])]
    /\ UNCHANGED <<repoVars, streamVars, monitorVars, checkVars, lastIndexChange, info, status, reading>>

\* The list of one kind is read again.
RefreshList(k) ==
    /\ MainFree /\ k \in posted
    /\ posted' = posted \ {k}
    /\ shown' = [shown EXCEPT ![k] = OnlyKind(k, refs)]
    /\ UNCHANGED <<repoVars, streamVars, monitorVars, checkVars, lastIndexChange, info, status, reading>>

\* The status is read off the main actor: two reads may overlap and end in any order.
ReadStatus ==
    /\ MainFree /\ "index" \in posted
    /\ posted' = posted \ {"index"}
    /\ reading' = reading \cup {index}
    /\ UNCHANGED <<repoVars, streamVars, monitorVars, checkVars, lastIndexChange, info, shown, status>>

AssignStatus ==
    /\ MainFree
    /\ \E s \in reading : status' = s /\ reading' = reading \ {s}
    /\ UNCHANGED <<repoVars, streamVars, monitorVars, checkVars, lastIndexChange, posted, info, shown>>

----------------------------------------------------------------------------
Git ==
    \/ Commit \/ PackRefs \/ TouchIndex
    \/ \E r \in Ref : Create(r) \/ Fetch(r) \/ Delete(r)
    \/ \E b \in Local : Checkout(b)

Watch == ObserveEvents \/ MonitorEvent \/ \E t \in Threads : ReadRefs(t) \/ CompareRefs(t)

Refresh == RefreshHead \/ (\E k \in Kinds : RefreshList(k)) \/ ReadStatus \/ AssignStatus

Next == Git \/ DropEvents \/ Watch \/ Refresh

Spec == Init /\ [][Next]_vars

\* The run loop's timer, the dispatch queues and the main actor are fair to each of their jobs.
FairSpec ==
    /\ Spec
    /\ WF_vars(ObserveEvents) /\ WF_vars(MonitorEvent)
    /\ \A t \in Threads : WF_vars(ReadRefs(t)) /\ WF_vars(CompareRefs(t))
    /\ WF_vars(RefreshHead) /\ \A k \in Kinds : WF_vars(RefreshList(k))
    /\ WF_vars(ReadStatus) /\ WF_vars(AssignStatus)

----------------------------------------------------------------------------
(* Properties.                                                             *)

\* Every variable ranges over what its counterpart may hold.
TypeOK ==
    /\ head \in Local /\ refs \in Refs /\ index \in Nat /\ ops \in Nat /\ deleted \in BOOLEAN
    /\ changed \subseteq {"HEAD", "local", "remote", "tags", "gitDir", "index"}
    /\ rescan \in BOOLEAN /\ lost \in BOOLEAN /\ armed \in BOOLEAN /\ fired \in BOOLEAN
    /\ todo \in [Threads -> Seq(Kinds)] /\ new \in [Threads -> Seq(Refs)]
    /\ \A t \in Threads : new[t] # <<>> => Len(new[t]) = 1 /\ todo[t] # <<>>
    /\ cache \in [Kinds -> Refs] /\ lastIndexChange \in Nat
    /\ posted \subseteq Kinds \cup {"head", "index"}
    /\ info \in [branch : Local, oid : Nat] /\ shown \in [Kinds -> Refs]
    /\ status \in Nat /\ reading \subseteq Nat

\* No event is on its way and no check or Task is at work.
Quiet ==
    /\ changed = {} /\ ~rescan /\ ~fired /\ posted = {} /\ reading = {}
    /\ \A t \in Threads : todo[t] = <<>>

\* The refs GitWatcher follows by path, and whether the list of their kind shows them as they are.
Followed == (Local \ Nested) \cup Tags
KindOf(r) == CHOOSE k \in Kinds : r \in OfKind(k)
Listed(r) == shown[KindOf(r)][r] = refs[r]

\* Once everything has settled HEAD is shown as it is, though commits and checkouts go on while
\* a Task reads it.
QuietMeansHead == Quiet /\ ~lost => info = [branch |-> head, oid |-> refs[head]]

\* So are the followed refs, if none was ever deleted: two threads compare with the same caches,
\* and a cache may lag, but a commit that is new is new to every cache.
QuietMeansListed == Quiet /\ ~lost /\ ~deleted => \A r \in Followed : Listed(r)

\* With deletions a list may stay behind: a ref goes back to its cached value while the list is
\* read, or was not cached in the first place.  Then the cache is right: never are both behind.
ListOrCache == Quiet /\ ~lost => \A r \in Followed : Listed(r) \/ cache[KindOf(r)][r] = refs[r]

\* Lists that are behind catch up, without another operation.
EventuallyListed == (\E r \in Followed : ~Listed(r)) ~> (deleted \/ lost \/ \A r \in Followed : Listed(r))
=============================================================================
