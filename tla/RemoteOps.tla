------------------------------- MODULE RemoteOps -------------------------------
(***************************************************************************)
(* Fetch, pull, push and the "Commit and Push" family of Xferro's buttons, *)
(* each in a Task nobody waits for, on one branch per repository.  A push  *)
(* first asks libgit2, whose credentials callback counts its attempts in   *)
(* one counter for the whole program, and after any error runs git push.   *)
(* Meanwhile others push to the server.                                    *)
(*                                                                         *)
(* A commit is a number, a branch the set of the commits in its history:   *)
(* one tip is an ancestor of another iff its set is a subset, and no two   *)
(* tips have the same set.  The history variable "seen" holds the commits   *)
(* a repository ever had on its branch or its tracking branch.             *)
(***************************************************************************)
EXTENDS Naturals, FiniteSets

CONSTANTS
    Repos,       \* the open repositories
    Buttons,     \* the kinds of operation the user starts
    MaxOps,      \* bound on what the user starts
    MaxCommit,   \* bound on the numbers of commits
    None         \* nil

Ops == 1..MaxOps   \* in the order they are started
Pulls == {"mergePull", "rebasePull"}
Normals == {"push", "commitAndPush", "amendAndPush"}
Leases == {"lease", "commitAndLease", "amendAndLease"}
Pushes == Normals \cup Leases
Commits == {"commitAndPush", "commitAndLease"}
Amends == {"amendAndPush", "amendAndLease"}

ASSUME RemoteAssumption ==
    /\ Buttons \subseteq {"fetch"} \cup Pulls \cup Pushes
    /\ MaxOps \in Nat /\ MaxCommit \in Nat
    /\ None \notin Ops /\ None \notin Ops \X {"commit", "net"} /\ None \notin Repos
    /\ None \notin Buttons

VARIABLES
    \* each repository's branch, the server's, and refs/remotes/origin/...
    local, remote, tracking,
    next,            \* the number of the next commit
    \* the operations: button and repository; program counters of the Task that commits and of
    \* the one that talks to the server; what the server advertised and what is sent to it
    kind, repo, cpc, pc, adv, src,
    lock,            \* Repository.lock: the push that holds it
    retryCount,      \* the attempts, and the value of it a callback has read
    loaded,
    activity,        \* ProgressManager.activity: the Task it is of
    seen

repoVars == <<local, remote, tracking, next, seen>>
authVars == <<lock, retryCount, loaded>>
vars == <<repoVars, kind, repo, cpc, pc, adv, src, authVars, activity>>

----------------------------------------------------------------------------
\* The last commit of a branch; the branch with one more commit, and with its tip replaced.
Tip(b) == CHOOSE c \in b : \A d \in b : d <= c
Extend(b) == b \cup {next}
Replace(b) == (b \ {Tip(b)}) \cup {next}

Roles == {"idle", "tapped", "running", "stop", "done", "failed"}
TypeOK ==
    /\ local \in [Repos -> SUBSET Nat] /\ remote \in [Repos -> SUBSET Nat]
    /\ tracking \in [Repos -> SUBSET Nat] /\ seen \in [Repos -> SUBSET Nat]
    /\ next \in Nat
    /\ kind \in [Ops -> Buttons \cup {None}] /\ repo \in [Ops -> Repos \cup {None}]
    /\ cpc \in [Ops -> Roles]
    /\ pc \in [Ops -> Roles \cup {"fetched", "integrate", "connect", "load", "store", "upload",
                                  "cli", "cliUpload"}]
    /\ adv \in [Ops -> SUBSET Nat] /\ src \in [Ops -> SUBSET Nat]
    /\ lock \in [Repos -> Ops \cup {None}]
    /\ retryCount \in Nat /\ loaded \in [Ops -> Nat]
    /\ activity \in (Ops \X {"commit", "net"}) \cup {None}
    /\ \A o \in Ops : pc[o] # "idle" => repo[o] \in Repos /\ kind[o] \in Buttons
    /\ \A o \in Ops : cpc[o] # "idle" => pc[o] # "idle" /\ kind[o] \in Commits \cup Amends

\* Each repository is up to date with the server, one commit ahead, or has its last one amended.
Init ==
    /\ local \in [Repos -> {{1, 2}, {1, 2, 3}, {1, 3}}]
    /\ remote = [r \in Repos |-> {1, 2}] /\ tracking = remote
    /\ seen = [r \in Repos |-> local[r] \cup {1, 2}]
    /\ next = 4
    /\ kind = [o \in Ops |-> None] /\ repo = kind
    /\ cpc = [o \in Ops |-> "idle"] /\ pc = cpc
    /\ adv = [o \in Ops |-> {}] /\ src = adv
    /\ lock = [r \in Repos |-> None]
    /\ retryCount = 0 /\ loaded = [o \in Ops |-> 0]
    /\ activity = None

Goto(o, label) == pc' = [pc EXCEPT ![o] = label]

----------------------------------------------------------------------------
\* What others do on the server: one more commit, or a rewritten last one.
OthersPush(r) ==
    /\ next <= MaxCommit
    /\ \E b \in {Extend(remote[r]), Replace(remote[r])} : remote' = [remote EXCEPT ![r] = b]
    /\ next' = next + 1
    /\ UNCHANGED <<local, tracking, seen, kind, repo, cpc, pc, adv, src, authVars, activity>>

\* The ...Tapped functions; the buttons stay enabled, whatever runs.  The Task starts and shows its
\* activity.  commitAndPush awaits a commit() that has only started a Task, and the second that
\* refreshStatus sleeps, then starts the push.
Tap(o, k, r) ==
    /\ pc[o] = "idle" /\ \A p \in 1..(o - 1) : pc[p] # "idle"
    /\ kind' = [kind EXCEPT ![o] = k] /\ repo' = [repo EXCEPT ![o] = r]
    /\ IF k \in Commits \cup Amends
       THEN /\ cpc' = [cpc EXCEPT ![o] = "running"] /\ Goto(o, "tapped")
            /\ activity' = <<o, "commit">>
       ELSE Goto(o, "running") /\ activity' = <<o, "net">> /\ UNCHANGED cpc
    /\ UNCHANGED <<repoVars, adv, src, authVars>>

StartPush(o) ==
    /\ pc[o] = "tapped"
    /\ Goto(o, "running")
    /\ activity' = <<o, "net">>
    /\ UNCHANGED <<repoVars, kind, repo, cpc, adv, src, authVars>>

\* stopActivity, in a Task of its own, clears whatever activity is shown.
StopNothing == activity' = activity
StopActivity == activity' = None

StopCommit(o) ==
    /\ cpc[o] = "stop"
    /\ cpc' = [cpc EXCEPT ![o] = "done"]
    /\ StopActivity
    /\ UNCHANGED <<repoVars, kind, repo, pc, adv, src, authVars>>

StopNet(o) ==
    /\ pc[o] = "stop"
    /\ Goto(o, "done")
    /\ StopActivity
    /\ adv' = [adv EXCEPT ![o] = {}]
    /\ UNCHANGED <<repoVars, kind, repo, cpc, src, authVars>>

\* commit(amend:), whose detail is in StatusCommit; an error leaves the activity as it is.
Commit(o) ==
    LET r == repo[o]
        b == IF kind[o] \in Amends THEN Replace(local[r]) ELSE Extend(local[r])
    IN  /\ cpc[o] = "running"
        /\ next <= MaxCommit
        /\ local' = [local EXCEPT ![r] = b]
        /\ seen' = [seen EXCEPT ![r] = @ \cup b]
        /\ next' = next + 1
        /\ cpc' = [cpc EXCEPT ![o] = "stop"]
        /\ UNCHANGED <<remote, tracking, kind, repo, pc, adv, src, authVars, activity>>

CommitFails(o) ==
    /\ cpc[o] = "running"
    /\ cpc' = [cpc EXCEPT ![o] = "failed"]
    /\ UNCHANGED <<repoVars, kind, repo, pc, adv, src, authVars, activity>>

----------------------------------------------------------------------------
\* git fetch reads the server's branch, then moves the tracking branch, back as well as forth.
FetchRead(o) ==
    /\ pc[o] = "running" /\ kind[o] \in Pulls \cup {"fetch"}
    /\ adv' = [adv EXCEPT ![o] = remote[repo[o]]]
    /\ Goto(o, "fetched")
    /\ UNCHANGED <<repoVars, kind, repo, cpc, src, authVars, activity>>

FetchWrite(o) ==
    LET r == repo[o] IN
    /\ pc[o] = "fetched"
    /\ tracking' = [tracking EXCEPT ![r] = adv[o]]
    /\ seen' = [seen EXCEPT ![r] = @ \cup adv[o]]
    /\ Goto(o, IF kind[o] = "fetch" THEN "stop" ELSE "integrate")
    /\ UNCHANGED <<local, remote, next, kind, repo, cpc, adv, src, authVars, activity>>

\* fetch() shows the error of git and leaves the activity; pull() catches it.
FetchFails(o) ==
    /\ pc[o] \in {"running", "fetched"} /\ kind[o] \in Pulls \cup {"fetch"}
    /\ IF kind[o] = "fetch" THEN Goto(o, "failed")
       ELSE Goto(o, "stop")
    /\ UNCHANGED <<repoVars, kind, repo, cpc, adv, src, authVars, activity>>

\* The second half of git pull; the commits replayed by a rebase are one new commit here.
Integrated(o) ==
    LET ours == local[repo[o]]
        theirs == tracking[repo[o]]
    IN  IF ours \subseteq theirs THEN theirs
        ELSE IF theirs \subseteq ours THEN ours
        ELSE IF kind[o] = "mergePull" THEN Extend(ours \cup theirs) ELSE Extend(theirs)

Integrate(o) ==
    LET r == repo[o]
        b == Integrated(o)
    IN  /\ pc[o] = "integrate"
        /\ next \in b => next <= MaxCommit
        /\ local' = [local EXCEPT ![r] = b]
        /\ seen' = [seen EXCEPT ![r] = @ \cup b]
        /\ next' = IF next \in b THEN next + 1 ELSE next
        /\ Goto(o, "stop")
        /\ UNCHANGED <<remote, tracking, kind, repo, cpc, adv, src, authVars, activity>>

\* Conflicts stop git; pull() catches that too.
Conflict(o) ==
    /\ pc[o] = "integrate"
    /\ Goto(o, "stop")
    /\ UNCHANGED <<repoVars, kind, repo, cpc, adv, src, authVars, activity>>

----------------------------------------------------------------------------
\* Repository.push: the lock, the refspec, the attempts back to zero, then git_remote_push.
Lock(o) ==
    /\ pc[o] = "running" /\ kind[o] \in Pushes
    /\ lock[repo[o]] = None
    /\ lock' = [lock EXCEPT ![repo[o]] = o]
    /\ retryCount' = 0
    /\ Goto(o, "connect")
    /\ UNCHANGED <<repoVars, kind, repo, cpc, adv, src, loaded, activity>>

\* An error of libgit2: the lock is given back and git push is tried.
Release(o) == lock' = [lock EXCEPT ![repo[o]] = None]
FallBack(o) == Release(o) /\ Goto(o, "cli")

\* The server cannot be reached, or the callback has no key to offer and returns -1.
ConnectFails(o) ==
    /\ pc[o] = "connect"
    /\ FallBack(o)
    /\ UNCHANGED <<repoVars, kind, repo, cpc, adv, src, retryCount, loaded, activity>>

\* The server wants credentials, for the first time or since it refused the last ones.
GiveUp(o) ==
    /\ pc[o] = "connect" /\ retryCount > 1
    /\ retryCount' = 0
    /\ FallBack(o)
    /\ UNCHANGED <<repoVars, kind, repo, cpc, adv, src, loaded, activity>>

Ask(o) ==
    /\ pc[o] = "connect" /\ ~(retryCount > 1)
    /\ Goto(o, "load")
    /\ UNCHANGED <<repoVars, kind, repo, cpc, adv, src, authVars, activity>>

Uncounted(n) == n
CountedDown(n) == n - 1
Counted(n) == n + 1

\* retryCount += 1 is a load and a store; pushes of other repositories run in between.
Load(o) ==
    /\ pc[o] = "load"
    /\ loaded' = [loaded EXCEPT ![o] = retryCount]
    /\ Goto(o, "store")
    /\ UNCHANGED <<repoVars, kind, repo, cpc, adv, src, lock, retryCount, activity>>

Store(o) ==
    /\ pc[o] = "store"
    /\ retryCount' = Counted(loaded[o])
    /\ loaded' = [loaded EXCEPT ![o] = 0]
    /\ Goto(o, "connect")
    /\ UNCHANGED <<repoVars, kind, repo, cpc, adv, src, lock, activity>>

\* The refspec of a push with lease is +refs/heads/...:refs/heads/..., made of a long name that
\* begins with refs/heads/ already: its source is no branch.
LongNameOnce(o) == TRUE
RefSpecFound(o) == kind[o] \in Normals
AlwaysForced(o) == TRUE
Forced(o) == kind[o] \in Leases

\* The server lets the push in and tells its branch; libgit2 looks for the source and wants a
\* fast-forward unless the refspec is forced.
Negotiate(o) ==
    LET r == repo[o]
        ok == RefSpecFound(o) /\ (Forced(o) \/ remote[r] \subseteq local[r])
    IN  /\ pc[o] = "connect"
        /\ adv' = [adv EXCEPT ![o] = remote[r]] /\ src' = [src EXCEPT ![o] = local[r]]
        /\ IF ok THEN Goto(o, "upload") /\ UNCHANGED lock ELSE FallBack(o)
        /\ UNCHANGED <<repoVars, kind, repo, cpc, retryCount, loaded, activity>>

\* The server takes what was sent if its branch is still the one it told.
Taken(o) == remote' = [remote EXCEPT ![repo[o]] = src[o]]
Follow(o) ==
    /\ tracking' = [tracking EXCEPT ![repo[o]] = src[o]]
    /\ seen' = [seen EXCEPT ![repo[o]] = @ \cup src[o]]

\* A branch that moved meanwhile is refused, which git_remote_push does not count as an error
\* and push_update_reference, which would be told, is not set.
Upload(o) ==
    /\ pc[o] = "upload"
    /\ IF remote[repo[o]] = adv[o] THEN Taken(o) /\ Follow(o)
       ELSE UNCHANGED <<remote, tracking, seen>>
    /\ Release(o) /\ Goto(o, "stop")
    /\ UNCHANGED <<local, next, kind, repo, cpc, adv, src, retryCount, loaded, activity>>

\* The connection breaks, before or after the server took what was sent.
UploadFails(o) ==
    /\ pc[o] = "upload"
    /\ UNCHANGED remote \/ (remote[repo[o]] = adv[o] /\ Taken(o))
    /\ FallBack(o)
    /\ UNCHANGED <<local, tracking, next, seen, kind, repo, cpc, adv, src, retryCount, loaded, activity>>

\* git push, which knows other credentials: a fast-forward, or with --force-with-lease a tracking
\* branch that is what the server has.
CliNegotiate(o) ==
    LET r == repo[o] IN
    /\ pc[o] = "cli"
    /\ IF kind[o] \in Leases THEN tracking[r] = remote[r] ELSE remote[r] \subseteq local[r]
    /\ adv' = [adv EXCEPT ![o] = remote[r]] /\ src' = [src EXCEPT ![o] = local[r]]
    /\ Goto(o, "cliUpload")
    /\ UNCHANGED <<repoVars, kind, repo, cpc, authVars, activity>>

CliUpload(o) ==
    /\ pc[o] = "cliUpload" /\ remote[repo[o]] = adv[o]
    /\ Taken(o) /\ Follow(o)
    /\ Goto(o, "stop")
    /\ UNCHANGED <<local, next, kind, repo, cpc, adv, src, authVars, activity>>

\* git refuses, is refused, or loses the connection; the error is shown, the Task ends as well.
CliFails(o) ==
    /\ pc[o] \in {"cli", "cliUpload"}
    /\ UNCHANGED remote \/ (pc[o] = "cliUpload" /\ remote[repo[o]] = adv[o] /\ Taken(o))
    /\ Goto(o, "stop")
    /\ UNCHANGED <<local, tracking, next, seen, kind, repo, cpc, adv, src, authVars, activity>>

----------------------------------------------------------------------------
CommitStep(o) == Commit(o) \/ CommitFails(o) \/ StopCommit(o)
PullStep(o) ==
    FetchRead(o) \/ FetchWrite(o) \/ FetchFails(o) \/ Integrate(o) \/ Conflict(o)
AuthStep(o) == ConnectFails(o) \/ GiveUp(o) \/ Ask(o) \/ Load(o) \/ Store(o)
PushStep(o) ==
    Lock(o) \/ Negotiate(o) \/ Upload(o) \/ UploadFails(o) \/ CliNegotiate(o) \/ CliUpload(o)
    \/ CliFails(o)
NetStep(o) == StartPush(o) \/ StopNet(o) \/ PullStep(o) \/ AuthStep(o) \/ PushStep(o)

Next ==
    \/ \E r \in Repos : OthersPush(r) \/ \E o \in Ops, k \in Buttons : Tap(o, k, r)
    \/ \E o \in Ops : CommitStep(o) \/ NetStep(o)

Spec == Init /\ [][Next]_vars

\* Tasks run on, and git and the server answer them; nobody need tap or push.
FairSpec == Spec /\ \A o \in Ops : WF_vars(CommitStep(o)) /\ WF_vars(NetStep(o))

----------------------------------------------------------------------------
\* A push never takes a commit from the server that its repository has not had: it fast-forwards,
\* or its lease holds, whatever was fetched, committed and pushed beside it (InfoTexts.swift 14).
PushKeepsUnseen ==
    [][\A o \in Ops : pc'[o] # pc[o] /\ repo[o] # None =>
           remote[repo[o]] \ remote'[repo[o]] \subseteq seen[repo[o]]]_vars

\* A push without lease takes no commit from the server, own or not (InfoTexts.swift 88).
NormalPushKeepsAll ==
    [][\A o \in Ops : pc'[o] # pc[o] /\ kind[o] \in Normals =>
           remote[repo[o]] \subseteq remote'[repo[o]]]_vars

\* The activity shown is that of a Task that still runs, or that ended with an error: whatever is
\* started and ended beside it, an operation that is over is not shown as going on.
ActivityIsRunning ==
    \A o \in Ops :
        /\ activity = <<o, "commit">> => cpc[o] \in {"running", "stop", "failed"}
        /\ activity = <<o, "net">> => pc[o] \notin {"idle", "tapped", "done"}

\* Every operation ends, however often the server refuses the keys and however the pushes of
\* other repositories disturb the count of the attempts.
Answered ==
    \A o \in Ops : pc[o] # "idle" ~> pc[o] \in {"done", "failed"}
=============================================================================
