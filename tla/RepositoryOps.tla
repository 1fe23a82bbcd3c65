----------------------------- MODULE RepositoryOps -----------------------------
(***************************************************************************)
(* The operations of RepositoryInfo on branches and tags.  A handler looks *)
(* at the HEAD and the status that RepositoryInfo remembers, then runs git *)
(* in another Task; meanwhile the user works in a terminal and other       *)
(* handlers run.                                                           *)
(*                                                                         *)
(* A branch is the set of the commits in its history, the empty set where  *)
(* there is none; a replayed series is one new commit.  A remote branch    *)
(* goes by its name in the list ("origin/f/x"): it tracks f/x of the       *)
(* server, and LastPart is what is behind the last slash, x.  A git        *)
(* command is one step.  The histories stale, misled and crossed say which *)
(* operations decided on what no longer held, which of them then worked on *)
(* a repository they mean to refuse, and whether the status shown was read *)
(* before one shown earlier.                                               *)
(***************************************************************************)
EXTENDS Naturals, Sequences, SequencesExt

CONSTANTS
    Ops,               \* taps of the user
    Taps,              \* what may be tapped
    Names,             \* local branches and branches of the server
    RemoteNames,       \* remote branches, as the lists name them
    Tracks, LastPart,
    Tags,
    GivenLocal, GivenTracking, GivenHead, FirstNew,     \* the repository at first
    Absent,            \* HEAD on no branch, no argument
    MaxUser, MaxReads  \* bounds: steps of the user, status reads under way

LocalNames == Names \cup RemoteNames
Branches == SUBSET Nat        \* {} is no branch
GivenServer == {Tracks[r] : r \in RemoteNames} \cup {LastPart[r] : r \in RemoteNames}

Request ==
    [op : {"create", "createOut"}, name : Names, other : LocalNames]
    \cup [op : {"checkout", "delete", "popover"}, name : LocalNames, other : {Absent}]
    \cup [op : {"checkoutRemote", "deleteRemote"}, name : RemoteNames, other : {Absent}]
    \cup [op : {"tag", "tagPush"}, name : Tags, other : {Absent}]
    \cup [op : {"merge", "rebase"}, name : LocalNames, other : LocalNames]
NoRequest == [op |-> "none", name |-> Absent, other |-> Absent]

ASSUME NamesAssumption ==
    /\ Names \cap RemoteNames = {} /\ Absent \notin LocalNames \cup Tags
    /\ Taps \subseteq Request
    /\ Tracks \in [RemoteNames -> Names] /\ LastPart \in [RemoteNames -> Names]
    /\ GivenLocal \in [LocalNames -> Branches] /\ GivenTracking \in [RemoteNames -> Branches]
    /\ GivenHead \in LocalNames /\ GivenLocal[GivenHead] # {}
    /\ FirstNew \in Nat
    /\ MaxUser \in Nat /\ MaxReads \in Nat

VARIABLES
    local, tracking, server,    \* branches here, remote branches here, names of the server's branches
    head, at,                   \* HEAD's branch; the history at HEAD if it is on none
    tags, pushedTags,
    fresh,                      \* the number of the next commit
    changed,                    \* there are uncommitted changes
    stopped,                    \* a merge or rebase that waits for conflicts to be resolved
    info,                       \* head, status (not empty?) and local branches of RepositoryInfo
    event, reads,               \* a status event on its way; the status reads, oldest first
    req, pc, stale, misled, crossed, used, crashed

refs == <<local, tracking, server, head, at, tags, pushedTags, fresh>>
repo == <<refs, changed, stopped>>
shown == <<info, event, reads, crossed>>
vars == <<repo, shown, req, pc, stale, misled, used, crashed>>

NotStopped == [by |-> "none", on |-> Absent, was |-> {}, with |-> {}]
Stopped == stopped.by # "none"
Dirty == changed \/ Stopped
HeadCommits == IF head = Absent THEN at ELSE local[head]

\* What git takes a name for, when it looks for a commit.
Commits(n) == IF local[n] = {} /\ n \in RemoteNames THEN tracking[n] ELSE local[n]
Ambiguous(n) == n \in RemoteNames /\ local[n] # {} /\ tracking[n] # {}
HeadMoves(commits) ==
    IF head = Absent THEN at' = commits /\ UNCHANGED local
                     ELSE local' = [local EXCEPT ![head] = commits] /\ UNCHANGED at

Init ==
    /\ local = GivenLocal /\ tracking = GivenTracking /\ head = GivenHead /\ at = {}
    /\ server = GivenServer
    /\ tags = {} /\ pushedTags = {} /\ fresh = FirstNew
    /\ changed = FALSE /\ stopped = NotStopped
    /\ info = [head |-> GivenHead, status |-> FALSE,
               locals |-> {b \in LocalNames : GivenLocal[b] # {}}]
    /\ event = FALSE /\ reads = <<>> /\ crossed = FALSE
    /\ req = [o \in Ops |-> NoRequest] /\ pc = [o \in Ops |-> "idle"]
    /\ stale = [o \in Ops |-> FALSE] /\ misled = [o \in Ops |-> FALSE]
    /\ used = 0 /\ crashed = FALSE

-----------------------------------------------------------------------------
(* The handlers up to git *)

\* Mutant: merge and rebase look at the status only.
RefusedByStatus(r) ==
    \/ r.op \in {"createOut", "checkout", "checkoutRemote", "merge", "rebase"} /\ info.status
    \/ r.op \in {"delete", "deleteRemote"} /\ info.head = r.name

Refused(r) ==
    \/ r.op \in {"createOut", "checkout", "checkoutRemote", "merge", "rebase"} /\ info.status
    \/ r.op \in {"delete", "deleteRemote"} /\ info.head = r.name
    \/ r.op \in {"merge", "rebase"} /\ info.head # r.other

\* What the handlers mean to refuse, of the repository as it is.
Unwanted(r) ==
    \/ r.op \in {"createOut", "checkout", "checkoutRemote", "merge", "rebase"} /\ Dirty
    \/ r.op \in {"merge", "rebase"} /\ head # r.other

\* The histories: looked at something old, and nobody changed it since.
Watch ==
    stale' = [o \in Ops |->
        \/ stale[o]
        \/ pc[o] = "check" /\ pc'[o] = "git" /\ (info.head # head \/ info.status # Dirty)
        \/ pc[o] = "git" /\ pc'[o] = "git" /\ (head' # head \/ Dirty' # Dirty)]

\* Mutant: the request gets lost on the way to the handler.
TapLost(o) ==
    /\ ~crashed /\ pc[o] = "idle" /\ pc' = [pc EXCEPT ![o] = "check"]
    /\ UNCHANGED <<repo, shown, req, misled, used, crashed>> /\ Watch

Tap(o) ==
    /\ ~crashed /\ pc[o] = "idle"
    /\ \E r \in Taps : req' = [req EXCEPT ![o] = r]
    /\ pc' = [pc EXCEPT ![o] = "check"]
    /\ UNCHANGED <<repo, shown, misled, used, crashed>> /\ Watch

Check(o) ==
    /\ ~crashed /\ pc[o] = "check"
    /\ pc' = [pc EXCEPT ![o] = IF Refused(req[o]) THEN "done" ELSE "git"]
    /\ UNCHANGED <<repo, shown, req, misled, used, crashed>> /\ Watch

-----------------------------------------------------------------------------
(* The git commands: o's handler runs the one of its request *)

Running(o, ops) == ~crashed /\ pc[o] = "git" /\ req[o].op \in ops
Finish(o) ==
    /\ pc' = [pc EXCEPT ![o] = "done"] /\ misled' = [misled EXCEPT ![o] = Unwanted(req[o])]
    /\ UNCHANGED <<info, reads, crossed, req, used, crashed>> /\ Watch
HeadTo(n) == head' = n /\ at' = {} /\ event' = TRUE

\* Mutant: -f and -B create a branch over another one.
CanCreateOver(r) == Commits(r.other) # {} /\ ~Ambiguous(r.other)

CanCreate(r) ==
    local[r.name] = {} /\ Commits(r.other) # {} /\ ~Ambiguous(r.other)

Create(o) ==
    /\ Running(o, {"create"}) /\ CanCreate(req[o])
    /\ local' = [local EXCEPT ![req[o].name] = Commits(req[o].other)]
    /\ UNCHANGED <<tracking, server, head, at, tags, pushedTags, fresh, changed, stopped, event>>
    /\ Finish(o)

CreateOut(o) ==
    /\ Running(o, {"createOut"}) /\ CanCreate(req[o]) /\ ~Stopped
    /\ local' = [local EXCEPT ![req[o].name] = Commits(req[o].other)]
    /\ HeadTo(req[o].name)
    /\ UNCHANGED <<tracking, server, tags, pushedTags, fresh, changed, stopped>>
    /\ Finish(o)

\* A remote branch that the list of local ones holds is checked out like one of those.
ByName(o) == req[o].op = "checkout" \/ req[o].name \in info.locals

Checkout(o) ==
    /\ Running(o, {"checkout", "checkoutRemote"}) /\ ByName(o)
    /\ ~Stopped /\ local[req[o].name] # {}
    /\ HeadTo(req[o].name)
    /\ UNCHANGED <<local, tracking, server, tags, pushedTags, fresh, changed, stopped>>
    /\ Finish(o)

\* The list was old: git takes the name for the remote branch and leaves HEAD on none.
CheckoutDetached(o) ==
    /\ Running(o, {"checkout", "checkoutRemote"}) /\ ByName(o)
    /\ ~Stopped /\ local[req[o].name] = {} /\ Commits(req[o].name) # {}
    /\ head' = Absent /\ at' = Commits(req[o].name) /\ event' = TRUE
    /\ UNCHANGED <<local, tracking, server, tags, pushedTags, fresh, changed, stopped>>
    /\ Finish(o)

\* git checkout x, where only a remote has x: git makes the local branch.
Guessed(n) == {tracking[r] : r \in {q \in RemoteNames : Tracks[q] = n}} \ {{}}
CheckoutGuessed(o) ==
    /\ Running(o, {"checkout"}) /\ ~Stopped /\ Commits(req[o].name) = {}
    /\ \E commits \in Guessed(req[o].name) : local' = [local EXCEPT ![req[o].name] = commits]
    /\ HeadTo(req[o].name)
    /\ UNCHANGED <<tracking, server, tags, pushedTags, fresh, changed, stopped>>
    /\ Finish(o)

\* checkout -b origin/x: a new branch of that name, at HEAD.
CheckoutNew(o) ==
    /\ Running(o, {"checkoutRemote"}) /\ ~ByName(o)
    /\ ~Stopped /\ local[req[o].name] = {}
    /\ local' = [local EXCEPT ![req[o].name] = HeadCommits]
    /\ HeadTo(req[o].name)
    /\ UNCHANGED <<tracking, server, tags, pushedTags, fresh, changed, stopped>>
    /\ Finish(o)

Rebasing(n) == stopped.by = "rebase" /\ stopped.on = n
\* Mutant: the ref is deleted, wherever HEAD is.
CanDeleteRef(r) == local[r.name] # {}

CanDelete(r) == local[r.name] # {} /\ head # r.name /\ ~Rebasing(r.name)

Delete(o) ==
    /\ Running(o, {"delete"}) /\ CanDelete(req[o])
    /\ local' = [local EXCEPT ![req[o].name] = {}]
    /\ UNCHANGED <<tracking, server, head, at, tags, pushedTags, fresh, changed, stopped, event>>
    /\ Finish(o)

\* The branch named to the server: what follows the last slash.
Named(r) == LastPart[r.name]

DeleteRemote(o) ==
    /\ Running(o, {"deleteRemote"}) /\ Named(req[o]) \in server
    /\ server' = server \ {Named(req[o])}
    /\ tracking' = [r \in RemoteNames |-> IF Tracks[r] = Named(req[o]) THEN {} ELSE tracking[r]]
    /\ UNCHANGED <<local, head, at, tags, pushedTags, fresh, changed, stopped, event>>
    /\ Finish(o)

\* The branch menu deletes with libgit2, on the main thread: HEAD's branch ends the process.
PopoverDelete(o) ==
    /\ Running(o, {"popover"})
    /\ crashed' = (head = req[o].name)
    /\ local' = [local EXCEPT ![req[o].name] = IF head = req[o].name THEN @ ELSE {}]
    /\ pc' = [pc EXCEPT ![o] = "done"]
    /\ UNCHANGED <<tracking, server, head, at, tags, pushedTags, fresh, changed, stopped>>
    /\ UNCHANGED <<shown, req, misled, used>> /\ Watch

\* Mutant: tag -f.
TagForced(o) ==
    /\ Running(o, {"tag", "tagPush"}) /\ tags' = tags \cup {req[o].name}
    /\ pc' = [pc EXCEPT ![o] = IF req[o].op = "tagPush" THEN "push" ELSE "done"]
    /\ UNCHANGED <<local, tracking, server, head, at, pushedTags, fresh, changed, stopped>>
    /\ UNCHANGED <<shown, req, misled, used, crashed>> /\ Watch

Tag(o) ==
    /\ Running(o, {"tag", "tagPush"}) /\ req[o].name \notin tags
    /\ tags' = tags \cup {req[o].name}
    /\ pc' = [pc EXCEPT ![o] = IF req[o].op = "tagPush" THEN "push" ELSE "done"]
    /\ UNCHANGED <<local, tracking, server, head, at, pushedTags, fresh, changed, stopped>>
    /\ UNCHANGED <<shown, req, misled, used, crashed>> /\ Watch

PushTag(o) ==
    /\ ~crashed /\ pc[o] = "push"
    /\ \/ pushedTags' = pushedTags \cup {req[o].name} /\ pc' = [pc EXCEPT ![o] = "done"]
       \/ pushedTags' = pushedTags /\ pc' = [pc EXCEPT ![o] = "unpushed"]
    /\ UNCHANGED <<local, tracking, server, head, at, tags, fresh, changed, stopped>>
    /\ UNCHANGED <<shown, req, misled, used, crashed>> /\ Watch

Target(o) == Commits(req[o].name)
Joinable(o) == ~Stopped /\ Target(o) # {}
Apart(o) == ~(Target(o) \subseteq HeadCommits) /\ ~(HeadCommits \subseteq Target(o))

\* Nothing to do, or HEAD moves forward: merge and rebase alike.
FastForward(o) ==
    /\ Running(o, {"merge", "rebase"}) /\ Joinable(o) /\ ~Apart(o)
    /\ HeadMoves(HeadCommits \cup Target(o)) /\ event' = TRUE
    /\ UNCHANGED <<tracking, server, head, tags, pushedTags, fresh, changed, stopped>>
    /\ Finish(o)

Merge(o) ==
    /\ Running(o, {"merge"}) /\ Joinable(o) /\ Apart(o)
    /\ HeadMoves(HeadCommits \cup Target(o) \cup {fresh}) /\ fresh' = fresh + 1 /\ event' = TRUE
    /\ UNCHANGED <<tracking, server, head, tags, pushedTags, changed, stopped>>
    /\ Finish(o)

Rebase(o) ==
    /\ Running(o, {"rebase"}) /\ Joinable(o) /\ Apart(o)
    /\ HeadMoves(Target(o) \cup {fresh}) /\ fresh' = fresh + 1 /\ event' = TRUE
    /\ UNCHANGED <<tracking, server, head, tags, pushedTags, changed, stopped>>
    /\ Finish(o)

\* A conflict: git fails and leaves the merge or rebase stopped, the latter on no branch.
Conflict(o) ==
    /\ Running(o, {"merge", "rebase"}) /\ Joinable(o) /\ Apart(o)
    /\ stopped' = [by |-> req[o].op, on |-> head, was |-> HeadCommits, with |-> Target(o)]
    /\ IF req[o].op = "rebase" THEN head' = Absent /\ at' = Target(o) ELSE UNCHANGED <<head, at>>
    /\ event' = TRUE
    /\ pc' = [pc EXCEPT ![o] = "refresh"] /\ misled' = [misled EXCEPT ![o] = Unwanted(req[o])]
    /\ UNCHANGED <<local, tracking, server, tags, pushedTags, fresh, changed>>
    /\ UNCHANGED <<info, reads, crossed, req, used, crashed>> /\ Watch

\* When git may refuse.  Uncommitted changes stop what would touch the same files;
\* the server may be out of reach.
MayFail(o) ==
    \/ Running(o, {"create"}) /\ ~CanCreate(req[o])
    \/ Running(o, {"createOut"}) /\ (~CanCreate(req[o]) \/ Dirty)
    \/ /\ Running(o, {"checkout", "checkoutRemote"})
       /\ \/ Dirty
          \/ ByName(o) /\ Commits(req[o].name) = {}
             /\ (req[o].op = "checkoutRemote" \/ Guessed(req[o].name) = {})
          \/ ~ByName(o) /\ local[req[o].name] # {}
    \/ Running(o, {"delete"}) /\ ~CanDelete(req[o])
    \/ Running(o, {"deleteRemote"})
    \/ Running(o, {"tag", "tagPush"}) /\ req[o].name \in tags
    \/ Running(o, {"merge", "rebase"}) /\ (Dirty \/ Target(o) = {})

\* The message is shown; merge and rebase show none and read the status again.
Fails(o) ==
    /\ MayFail(o)
    /\ pc' = [pc EXCEPT ![o] = IF req[o].op \in {"merge", "rebase"} THEN "refresh" ELSE "done"]
    /\ UNCHANGED <<repo, shown, req, misled, used, crashed>> /\ Watch

-----------------------------------------------------------------------------
(* What RepositoryInfo remembers *)

Sample == Append(reads, [dirty |-> Dirty, late |-> FALSE])

\* Mutant: an event during a read is taken to be answered by it.
StartReadOnce ==
    /\ ~crashed /\ event /\ Len(reads) < MaxReads
    /\ event' = FALSE /\ reads' = IF reads = <<>> THEN Sample ELSE reads
    /\ UNCHANGED <<repo, info, crossed, req, pc, misled, used, crashed>> /\ Watch

\* The index or the work directory changed: a Task reads the status.
StartRead ==
    /\ ~crashed /\ event /\ Len(reads) < MaxReads
    /\ event' = FALSE /\ reads' = Sample
    /\ UNCHANGED <<repo, info, crossed, req, pc, misled, used, crashed>> /\ Watch

\* refreshStatus after a failed merge or rebase.
Refresh(o) ==
    /\ ~crashed /\ pc[o] = "refresh" /\ Len(reads) < MaxReads
    /\ reads' = Sample /\ pc' = [pc EXCEPT ![o] = "done"]
    /\ UNCHANGED <<repo, info, event, crossed, req, misled, used, crashed>> /\ Watch

\* The reads run side by side and come back in any order.
Assign(i) ==
    /\ ~crashed /\ i \in 1..Len(reads)
    /\ info' = [info EXCEPT !.status = reads[i].dirty] /\ crossed' = reads[i].late
    /\ reads' = RemoveAt([j \in DOMAIN reads |->
                   [reads[j] EXCEPT !.late = @ \/ j < i]], i)
    /\ UNCHANGED <<repo, event, req, pc, misled, used, crashed>> /\ Watch

RefreshHead ==
    /\ ~crashed /\ info.head # head /\ info' = [info EXCEPT !.head = head]
    /\ UNCHANGED <<repo, event, reads, crossed, req, pc, misled, used, crashed>> /\ Watch

Listed == {b \in LocalNames : local[b] # {}}
RefreshLists ==
    /\ ~crashed /\ info.locals # Listed /\ info' = [info EXCEPT !.locals = Listed]
    /\ UNCHANGED <<repo, event, reads, crossed, req, pc, misled, used, crashed>> /\ Watch

-----------------------------------------------------------------------------
(* The user, in an editor and a terminal *)

UserStep ==
    /\ ~crashed /\ used < MaxUser /\ used' = used + 1 /\ event' = TRUE
    /\ UNCHANGED <<tracking, server, tags, pushedTags, info, reads, crossed, req, pc, misled, crashed>>

Save ==
    /\ UserStep /\ ~changed /\ changed' = TRUE
    /\ UNCHANGED <<local, head, at, fresh, stopped>> /\ Watch

Commit ==
    /\ UserStep /\ changed /\ ~Stopped /\ changed' = FALSE
    /\ HeadMoves(HeadCommits \cup {fresh}) /\ fresh' = fresh + 1
    /\ UNCHANGED <<head, stopped>> /\ Watch

Switch(n) ==
    /\ UserStep /\ ~Stopped /\ local[n] # {} /\ n # head
    /\ head' = n /\ at' = {}
    /\ UNCHANGED <<local, fresh, changed, stopped>> /\ Watch

\* Conflicts resolved: the merge commit, or the branch moved to what was replayed, which git
\* does only if it still is where the rebase found it.
Continue ==
    /\ UserStep /\ Stopped /\ changed' = FALSE /\ stopped' = NotStopped /\ fresh' = fresh + 1
    /\ IF stopped.by = "rebase"
       THEN LET replayed == stopped.with \cup {fresh} IN
            /\ stopped.on = Absent \/ local[stopped.on] = stopped.was
            /\ head' = stopped.on
            /\ IF stopped.on = Absent
               THEN at' = replayed /\ UNCHANGED local
               ELSE at' = {} /\ local' = [local EXCEPT ![stopped.on] = replayed]
       ELSE HeadMoves(stopped.was \cup stopped.with \cup {fresh}) /\ UNCHANGED head
    /\ Watch

Abort ==
    /\ UserStep /\ Stopped /\ changed' = FALSE /\ stopped' = NotStopped
    /\ IF stopped.by = "rebase"
       THEN LET back == stopped.was IN
            /\ head' = stopped.on
            /\ IF stopped.on = Absent
               THEN at' = back /\ UNCHANGED local
               ELSE at' = {} /\ local' = [local EXCEPT ![stopped.on] = back]
       ELSE UNCHANGED <<local, head, at>>
    /\ UNCHANGED fresh /\ Watch

Git(o) ==
    \/ Create(o) \/ CreateOut(o)
    \/ Checkout(o) \/ CheckoutDetached(o) \/ CheckoutGuessed(o) \/ CheckoutNew(o)
    \/ Delete(o) \/ DeleteRemote(o) \/ PopoverDelete(o)
    \/ Tag(o) \/ PushTag(o)
    \/ FastForward(o) \/ Merge(o) \/ Rebase(o) \/ Conflict(o) \/ Fails(o)

Next ==
    \/ \E o \in Ops : Tap(o) \/ Check(o) \/ Git(o) \/ Refresh(o)
    \/ StartRead \/ \E i \in 1..MaxReads : Assign(i)
    \/ RefreshHead \/ RefreshLists
    \/ Save \/ Commit \/ (\E n \in LocalNames : Switch(n)) \/ Continue \/ Abort

Spec == Init /\ [][Next]_vars

-----------------------------------------------------------------------------
(* Properties *)

\* The type of the state.
TypeOK ==
    /\ local \in [LocalNames -> Branches] /\ tracking \in [RemoteNames -> Branches]
    /\ server \subseteq Names /\ head \in LocalNames \cup {Absent} /\ at \in SUBSET Nat
    /\ tags \subseteq Tags /\ pushedTags \subseteq tags
    /\ fresh \in Nat /\ changed \in BOOLEAN
    /\ stopped \in [by : {"none", "merge", "rebase"}, on : LocalNames \cup {Absent},
                    was : SUBSET Nat, with : SUBSET Nat]
    /\ info \in [head : LocalNames \cup {Absent}, status : BOOLEAN, locals : SUBSET LocalNames]
    /\ event \in BOOLEAN /\ reads \in Seq([dirty : BOOLEAN, late : BOOLEAN]) /\ Len(reads) <= MaxReads
    /\ req \in [Ops -> Taps \cup {NoRequest}]
    /\ pc \in [Ops -> {"idle", "check", "git", "push", "unpushed", "refresh", "done"}]
    /\ \A o \in Ops : pc[o] # "idle" => req[o] \in Taps
    /\ stale \in [Ops -> BOOLEAN] /\ misled \in [Ops -> BOOLEAN]
    /\ crossed \in BOOLEAN /\ used \in 0..MaxUser /\ crashed \in BOOLEAN

\* HEAD has a history: it is on a branch that exists, or on a commit.  Whatever is deleted
\* by whichever way while checkouts, merges and rebases run, git and not the handler's
\* check sees to that: the check looks at an old HEAD (RepositoryInfo.swift:144).
HeadIsThere == HeadCommits # {}

\* A merge, rebase or checkout works on uncommitted changes or on another branch than the
\* one it was asked for only if the status or the HEAD it looked at was old, or changed
\* before git ran: the checks leave no other way (RepositoryInfo.swift:114, 189, 198).
OnlyStaleMisleads == \A o \in Ops : misled[o] => stale[o]

\* When no event and no read of the status is left, RepositoryInfo shows the status of the
\* repository, unless a read was overtaken by a later one and came back after it.
StatusSettles == ~event /\ reads = <<>> /\ ~crossed => info.status = Dirty

\* A tag whose push failed cannot be pushed by asking for it again: git tag refuses first.
UnpushedForGood == \A o \in Ops : pc[o] = "unpushed" => req[o].name \notin pushedTags

Held == UNION {local[b] : b \in Listed}
Deletes(b) == \E o \in Ops :
    req[o].name = b /\ req[o].op \in {"delete", "popover"} /\ pc[o] = "git" /\ pc'[o] = "done"
Rebases(b) ==
    \/ head = b /\ \E o \in Ops : req[o].op = "rebase" /\ pc[o] = "git" /\ pc'[o] = "done"
    \/ Rebasing(b) /\ stopped' = NotStopped

\* A commit leaves the branches only with a branch that was to be deleted, or out of the
\* branch that is rebased; no branch is created over another one.
CommitsKept == [][\A c \in Held \ Held' : \E b \in Listed :
                      c \in local[b] /\ (Deletes(b) \/ Rebases(b))]_vars

\* The server has lost only branches that were asked to be deleted: the activity of a
\* handler is "Deleting remote branch origin/x/work" (RepositoryInfo.swift:154).
DeletesWhatIsNamed == \A n \in GivenServer \ server : \E o \in Ops :
    req[o].op = "deleteRemote" /\ n = Tracks[req[o].name]

=============================================================================
