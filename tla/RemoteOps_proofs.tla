--------------------------- MODULE RemoteOps_proofs ---------------------------
(***************************************************************************)
(* What pushes guarantee for every number of repositories, operations and  *)
(* commits: no push, with a lease or without one, takes from the server    *)
(* what its repository has never had.                                      *)
(***************************************************************************)
EXTENDS RemoteOps, TLAPS

\* A commit, an amended one and what a pull makes of a branch are branches again.
LEMMA BranchType ==
  ASSUME next \in Nat, NEW b \in SUBSET Nat
  PROVE  Extend(b) \in SUBSET Nat /\ Replace(b) \in SUBSET Nat
  BY DEF Extend, Replace

LEMMA IntegratedType ==
  ASSUME TypeOK, NEW o \in Ops, repo[o] \in Repos
  PROVE  Integrated(o) \in SUBSET Nat
  <1>1. local[repo[o]] \in SUBSET Nat /\ tracking[repo[o]] \in SUBSET Nat
    BY DEF TypeOK
  <1> QED BY <1>1 DEF TypeOK, Integrated, Extend

LEMMA TypeInit == Init => TypeOK
  BY DEF Init, TypeOK, Roles

LEMMA TypeNext == TypeOK /\ [Next]_vars => TypeOK'
<1> SUFFICES ASSUME TypeOK, [Next]_vars PROVE TypeOK'
  OBVIOUS
<1> USE DEF TypeOK, Roles
<1>1. ASSUME NEW r \in Repos, OthersPush(r) PROVE TypeOK'
  BY <1>1, BranchType DEF OthersPush, authVars
<1>2. ASSUME NEW o \in Ops, NEW k \in Buttons, NEW r \in Repos, Tap(o, k, r) PROVE TypeOK'
  <2>1. \A p \in Ops \ {o} : pc'[p] = pc[p] /\ cpc'[p] = cpc[p] /\ kind'[p] = kind[p] /\ repo'[p] = repo[p]
    BY <1>2 DEF Tap, Goto
  <2>2. pc'[o] # "idle" /\ kind'[o] = k /\ repo'[o] = r
        /\ (cpc'[o] # "idle" => k \in Commits \cup Amends)
    BY <1>2 DEF Tap, Goto
  <2>3. activity' \in (Ops \X {"commit", "net"}) \cup {None}
    BY <1>2 DEF Tap
  <2> QED BY <1>2, <2>1, <2>2, <2>3 DEF Tap, Goto, repoVars, authVars
<1>3. ASSUME NEW o \in Ops, CommitStep(o) PROVE TypeOK'
  <2>1. CASE Commit(o)
    BY <2>1, BranchType DEF Commit, authVars
  <2>2. CASE CommitFails(o)
    BY <2>2 DEF CommitFails, repoVars, authVars
  <2>3. CASE StopCommit(o)
    BY <2>3 DEF StopCommit, StopActivity, repoVars, authVars
  <2> QED BY <1>3, <2>1, <2>2, <2>3 DEF CommitStep
<1>4. ASSUME NEW o \in Ops, NetStep(o) PROVE TypeOK'
  <2>1. CASE StartPush(o)
    BY <2>1 DEF StartPush, Goto, repoVars, authVars
  <2>2. CASE StopNet(o)
    BY <2>2 DEF StopNet, StopActivity, Goto, repoVars, authVars
  <2>3. CASE FetchRead(o)
    BY <2>3 DEF FetchRead, Goto, repoVars, authVars
  <2>4. CASE FetchWrite(o)
    BY <2>4 DEF FetchWrite, Goto, authVars
  <2>5. CASE FetchFails(o)
    BY <2>5 DEF FetchFails, Goto, repoVars, authVars
  <2>6. CASE Integrate(o)
    <3>1. repo[o] \in Repos /\ Integrated(o) \in SUBSET Nat
      BY <2>6, IntegratedType DEF Integrate
    <3> QED BY <2>6, <3>1 DEF Integrate, Goto, authVars
  <2>7. CASE Conflict(o)
    BY <2>7 DEF Conflict, Goto, repoVars, authVars
  <2>8. CASE AuthStep(o)
    BY <2>8 DEF AuthStep, ConnectFails, GiveUp, Ask, Load, Store, Counted, FallBack, Release, Goto,
                repoVars, authVars
  <2>9. CASE Lock(o)
    BY <2>9 DEF Lock, Goto, repoVars, authVars
  <2>10. CASE Negotiate(o)
    BY <2>10 DEF Negotiate, FallBack, Release, Goto, repoVars
  <2>11. CASE Upload(o)
    BY <2>11 DEF Upload, Taken, Follow, Release, Goto
  <2>12. CASE UploadFails(o)
    BY <2>12 DEF UploadFails, Taken, FallBack, Release, Goto
  <2>13. CASE CliNegotiate(o)
    BY <2>13 DEF CliNegotiate, Goto, repoVars, authVars
  <2>14. CASE CliUpload(o)
    BY <2>14 DEF CliUpload, Taken, Follow, Goto, authVars
  <2>15. CASE CliFails(o)
    BY <2>15 DEF CliFails, Taken, Goto, authVars
  <2> QED BY <1>4, <2>1, <2>2, <2>3, <2>4, <2>5, <2>6, <2>7, <2>8, <2>9, <2>10, <2>11, <2>12, <2>13,
             <2>14, <2>15 DEF NetStep, PullStep, PushStep
<1>5. CASE UNCHANGED vars
  BY <1>5 DEF vars, repoVars, authVars
<1> QED BY <1>1, <1>2, <1>3, <1>4, <1>5 DEF Next

\* Every variable keeps its type.
THEOREM TypeCorrect == Spec => []TypeOK
  BY TypeInit, TypeNext, PTL DEF Spec

----------------------------------------------------------------------------
\* Unfolds the step of an operation to what each handler does.
LEMMA StepCases ==
  ASSUME NEW o \in Ops, CommitStep(o) \/ NetStep(o)
  PROVE  \/ Commit(o) \/ CommitFails(o) \/ StopCommit(o) \/ StartPush(o) \/ StopNet(o)
         \/ FetchRead(o) \/ FetchWrite(o) \/ FetchFails(o) \/ Integrate(o) \/ Conflict(o)
         \/ AuthStep(o) \/ Lock(o) \/ Negotiate(o) \/ Upload(o) \/ UploadFails(o)
         \/ CliNegotiate(o) \/ CliUpload(o) \/ CliFails(o)
  BY DEF CommitStep, NetStep, PullStep, PushStep

\* The activity shown is that of a Task that still runs, or that failed.
THEOREM ActivityShown == Spec => []ActivityIsRunning
<1>1. Init => ActivityIsRunning
  <2> SUFFICES ASSUME Init PROVE ActivityIsRunning
    OBVIOUS
  <2>1. \A o \in Ops, t \in {"commit", "net"} : <<o, t>> \in Ops \X {"commit", "net"}
    OBVIOUS
  <2> QED BY <2>1, RemoteAssumption DEF Init, ActivityIsRunning
<1>2. TypeOK /\ ActivityIsRunning /\ [Next]_vars => ActivityIsRunning'
  <2> SUFFICES ASSUME TypeOK, ActivityIsRunning, [Next]_vars PROVE ActivityIsRunning'
    OBVIOUS
  <2> USE DEF ActivityIsRunning
  <2>n. \A o \in Ops, t \in {"commit", "net"} : <<o, t>> # None
    BY RemoteAssumption
  <2>t. pc \in [Ops -> Roles \cup {"fetched", "integrate", "connect", "load", "store", "upload",
                                   "cli", "cliUpload"}] /\ cpc \in [Ops -> Roles]
    BY DEF TypeOK
  <2>1. ASSUME NEW r \in Repos, OthersPush(r) PROVE ActivityIsRunning'
    BY <2>1 DEF OthersPush
  <2>2. ASSUME NEW p \in Ops, NEW k \in Buttons, NEW r \in Repos, Tap(p, k, r)
        PROVE  ActivityIsRunning'
    BY <2>2, <2>t DEF Tap, Goto
  <2>3. ASSUME NEW p \in Ops, CommitStep(p) \/ NetStep(p) PROVE ActivityIsRunning'
    <3>1. CASE Commit(p) \/ CommitFails(p)
      BY <3>1, <2>t DEF Commit, CommitFails
    <3>2. CASE StopCommit(p) \/ StopNet(p)
      BY <3>2, <2>n DEF StopCommit, StopNet, StopActivity
    <3>3. CASE StartPush(p)
      BY <3>3, <2>t DEF StartPush, Goto
    <3>4. CASE FetchRead(p) \/ FetchWrite(p) \/ FetchFails(p) \/ Integrate(p) \/ Conflict(p)
      BY <3>4, <2>t DEF FetchRead, FetchWrite, FetchFails, Integrate, Conflict, Goto
    <3>5. CASE AuthStep(p)
      BY <3>5, <2>t DEF AuthStep, ConnectFails, GiveUp, Ask, Load, Store, FallBack, Goto
    <3>6. CASE Lock(p) \/ Negotiate(p) \/ Upload(p) \/ UploadFails(p)
      BY <3>6, <2>t DEF Lock, Negotiate, Upload, UploadFails, FallBack, Goto
    <3>7. CASE CliNegotiate(p) \/ CliUpload(p) \/ CliFails(p)
      BY <3>7, <2>t DEF CliNegotiate, CliUpload, CliFails, Goto
    <3> QED BY <2>3, <3>1, <3>2, <3>3, <3>4, <3>5, <3>6, <3>7, StepCases
  <2>4. CASE UNCHANGED vars
    BY <2>4 DEF vars
  <2> QED BY <2>1, <2>2, <2>3, <2>4 DEF Next
<1> QED BY <1>1, <1>2, TypeInit, TypeNext, PTL DEF Spec

----------------------------------------------------------------------------
\* What a repository has had covers its branch and its tracking branch.  What a push is about to
\* send covers what the server told it, unless a lease was compared with the tracking branch; no
\* push with lease gets as far as libgit2's upload.
SeenInv == \A r \in Repos : local[r] \subseteq seen[r] /\ tracking[r] \subseteq seen[r]
SentInv ==
    \A o \in Ops :
        /\ pc[o] = "upload" => kind[o] \notin Leases /\ adv[o] \subseteq src[o]
        /\ pc[o] = "cliUpload" =>
              IF kind[o] \in Leases THEN adv[o] \subseteq seen[repo[o]] ELSE adv[o] \subseteq src[o]

LEMMA PushInit == Init => SeenInv /\ SentInv
<1> SUFFICES ASSUME Init PROVE SeenInv /\ SentInv
  OBVIOUS
<1>1. \A r \in Repos : tracking[r] = {1, 2} /\ seen[r] = local[r] \cup {1, 2}
  BY DEF Init
<1>2. \A o \in Ops : pc[o] = "idle"
  BY DEF Init
<1> QED BY <1>1, <1>2 DEF SeenInv, SentInv

\* What a repository has had is never forgotten, and the branches stay within it.
LEMMA SeenNext ==
  TypeOK /\ SeenInv /\ [Next]_vars => SeenInv' /\ \A r \in Repos : seen[r] \subseteq seen'[r]
<1> SUFFICES ASSUME TypeOK, SeenInv, [Next]_vars
             PROVE  SeenInv' /\ \A r \in Repos : seen[r] \subseteq seen'[r]
  OBVIOUS
<1> DEFINE Same == UNCHANGED <<local, tracking, seen>>
<1>t. /\ local \in [Repos -> SUBSET Nat] /\ tracking \in [Repos -> SUBSET Nat]
      /\ seen \in [Repos -> SUBSET Nat]
  BY DEF TypeOK
<1>s. ASSUME Same PROVE SeenInv' /\ \A r \in Repos : seen[r] \subseteq seen'[r]
  BY <1>s DEF SeenInv
<1>1. ASSUME NEW r \in Repos, OthersPush(r) PROVE Same
  BY <1>1 DEF OthersPush
<1>2. ASSUME NEW o \in Ops, NEW k \in Buttons, NEW r \in Repos, Tap(o, k, r) PROVE Same
  BY <1>2 DEF Tap, repoVars
<1>3. ASSUME NEW o \in Ops, CommitStep(o) \/ NetStep(o)
      PROVE  SeenInv' /\ \A r \in Repos : seen[r] \subseteq seen'[r]
  <2>1. CASE Commit(o)
    <3>1. PICK b : local' = [local EXCEPT ![repo[o]] = b]
                   /\ seen' = [seen EXCEPT ![repo[o]] = seen[repo[o]] \cup b] /\ tracking' = tracking
      BY <2>1 DEF Commit
    <3> QED BY <3>1, <1>t DEF SeenInv
  <2>2. CASE Integrate(o)
    <3>1. PICK b : local' = [local EXCEPT ![repo[o]] = b]
                   /\ seen' = [seen EXCEPT ![repo[o]] = seen[repo[o]] \cup b] /\ tracking' = tracking
      BY <2>2 DEF Integrate
    <3> QED BY <3>1, <1>t DEF SeenInv
  <2>3. CASE FetchWrite(o)
    BY <2>3, <1>t DEF FetchWrite, SeenInv
  <2>4. CASE Upload(o)
    <3>1. CASE Follow(o) /\ local' = local
      BY <3>1, <1>t DEF Follow, SeenInv
    <3> QED BY <2>4, <3>1, <1>s DEF Upload
  <2>5. CASE CliUpload(o)
    BY <2>5, <1>t DEF CliUpload, Follow, SeenInv
  <2>6. CASE CommitFails(o) \/ StopCommit(o) \/ StartPush(o) \/ StopNet(o)
    BY <2>6, <1>s DEF CommitFails, StopCommit, StartPush, StopNet, repoVars
  <2>7. CASE FetchRead(o) \/ FetchFails(o) \/ Conflict(o)
    BY <2>7, <1>s DEF FetchRead, FetchFails, Conflict, repoVars
  <2>8. CASE AuthStep(o)
    BY <2>8, <1>s DEF AuthStep, ConnectFails, GiveUp, Ask, Load, Store, repoVars
  <2>9. CASE Lock(o) \/ Negotiate(o) \/ UploadFails(o) \/ CliNegotiate(o) \/ CliFails(o)
    BY <2>9, <1>s DEF Lock, Negotiate, UploadFails, CliNegotiate, CliFails, repoVars
  <2> QED BY <1>3, <2>1, <2>2, <2>3, <2>4, <2>5, <2>6, <2>7, <2>8, <2>9, StepCases
<1>4. CASE UNCHANGED vars
  BY <1>4, <1>s DEF vars, repoVars
<1> QED BY <1>1, <1>2, <1>3, <1>4, <1>s DEF Next

LEMMA LeasesAndNormals == Leases \cap Normals = {}
  BY DEF Leases, Normals

\* SentInv of an operation holds on as long as it does not move.
LEMMA SentStays ==
  ASSUME SentInv, \A r \in Repos : seen[r] \subseteq seen'[r], NEW o \in Ops,
         pc[o] # "idle" => repo[o] \in Repos,
         pc'[o] = pc[o] /\ kind'[o] = kind[o] /\ repo'[o] = repo[o] /\ adv'[o] = adv[o]
         /\ src'[o] = src[o]
  PROVE  /\ pc'[o] = "upload" => kind'[o] \notin Leases /\ adv'[o] \subseteq src'[o]
         /\ pc'[o] = "cliUpload" =>
               IF kind'[o] \in Leases THEN adv'[o] \subseteq seen'[repo'[o]]
               ELSE adv'[o] \subseteq src'[o]
  BY DEF SentInv

LEMMA SentNext == TypeOK /\ SeenInv /\ SentInv /\ [Next]_vars => SentInv'
<1> SUFFICES ASSUME TypeOK, SeenInv, SentInv, [Next]_vars PROVE SentInv'
  OBVIOUS
<1>g. \A r \in Repos : seen[r] \subseteq seen'[r]
  BY SeenNext
<1>t. /\ \A p \in Ops : pc[p] # "idle" => repo[p] \in Repos
      /\ pc \in [Ops -> Roles \cup {"fetched", "integrate", "connect", "load", "store", "upload",
                                   "cli", "cliUpload"}]
      /\ adv \in [Ops -> SUBSET Nat] /\ src \in [Ops -> SUBSET Nat]
      /\ kind \in [Ops -> Buttons \cup {None}] /\ repo \in [Ops -> Repos \cup {None}]
  BY DEF TypeOK
<1> DEFINE Still(p) ==
      pc'[p] = pc[p] /\ kind'[p] = kind[p] /\ repo'[p] = repo[p] /\ adv'[p] = adv[p] /\ src'[p] = src[p]
<1>s. ASSUME \A p \in Ops : Still(p) PROVE SentInv'
  <2> SUFFICES ASSUME NEW p \in Ops
               PROVE  /\ pc'[p] = "upload" => kind'[p] \notin Leases /\ adv'[p] \subseteq src'[p]
                      /\ pc'[p] = "cliUpload" =>
                           IF kind'[p] \in Leases THEN adv'[p] \subseteq seen'[repo'[p]]
                           ELSE adv'[p] \subseteq src'[p]
    BY DEF SentInv
  <2> QED BY <1>s, <1>g, <1>t, SentStays
<1>o. ASSUME NEW o \in Ops, \A p \in Ops \ {o} : Still(p), pc'[o] \notin {"upload", "cliUpload"}
      PROVE  SentInv'
  <2> SUFFICES ASSUME NEW p \in Ops
               PROVE  /\ pc'[p] = "upload" => kind'[p] \notin Leases /\ adv'[p] \subseteq src'[p]
                      /\ pc'[p] = "cliUpload" =>
                           IF kind'[p] \in Leases THEN adv'[p] \subseteq seen'[repo'[p]]
                           ELSE adv'[p] \subseteq src'[p]
    BY DEF SentInv
  <2> QED BY <1>o, <1>g, <1>t, SentStays
<1>1. ASSUME NEW r \in Repos, OthersPush(r) PROVE SentInv'
  BY <1>1, <1>s DEF OthersPush
<1>2. ASSUME NEW o \in Ops, NEW k \in Buttons, NEW r \in Repos, Tap(o, k, r) PROVE SentInv'
  BY <1>2, <1>o, <1>t DEF Tap, Goto
<1>3. ASSUME NEW o \in Ops, CommitStep(o) \/ NetStep(o) PROVE SentInv'
  <2>1. CASE Commit(o) \/ CommitFails(o) \/ StopCommit(o)
    BY <2>1, <1>s DEF Commit, CommitFails, StopCommit, repoVars
  <2>2. CASE StartPush(o) \/ StopNet(o)
    BY <2>2, <1>o, <1>t DEF StartPush, StopNet, Goto
  <2>3. CASE FetchRead(o) \/ FetchWrite(o) \/ FetchFails(o)
    BY <2>3, <1>o, <1>t DEF FetchRead, FetchWrite, FetchFails, Goto
  <2>4. CASE Integrate(o) \/ Conflict(o)
    BY <2>4, <1>o, <1>t DEF Integrate, Conflict, Goto
  <2>5. CASE AuthStep(o)
    BY <2>5, <1>o, <1>t DEF AuthStep, ConnectFails, GiveUp, Ask, Load, Store, FallBack, Goto
  <2>6. CASE Lock(o) \/ Upload(o) \/ UploadFails(o)
    BY <2>6, <1>o, <1>t DEF Lock, Upload, UploadFails, FallBack, Goto
  <2>7. CASE CliUpload(o) \/ CliFails(o)
    BY <2>7, <1>o, <1>t DEF CliUpload, CliFails, Goto
  <2>8. CASE Negotiate(o)
    <3>1. CASE pc'[o] = "upload"
      <4>1. kind[o] \in Normals /\ remote[repo[o]] \subseteq local[repo[o]]
        BY <2>8, <3>1, <1>t DEF Negotiate, FallBack, Goto, RefSpecFound, Forced, Leases, Normals
      <4>2. kind'[o] \notin Leases /\ adv'[o] \subseteq src'[o]
        BY <2>8, <4>1, <1>t, LeasesAndNormals DEF Negotiate
      <4>3. \A p \in Ops \ {o} : Still(p)
        BY <2>8, <1>t DEF Negotiate, FallBack, Goto
      <4> QED BY <3>1, <4>2, <4>3, <1>g, <1>t, SentStays DEF SentInv
    <3>2. CASE pc'[o] # "upload"
      BY <2>8, <3>2, <1>o, <1>t DEF Negotiate, FallBack, Goto
    <3> QED BY <3>1, <3>2
  <2>9. CASE CliNegotiate(o)
    <3>1. repo[o] \in Repos /\ pc'[o] = "cliUpload" /\ kind'[o] = kind[o] /\ repo'[o] = repo[o]
          /\ adv'[o] = remote[repo[o]] /\ src'[o] = local[repo[o]] /\ seen' = seen
      BY <2>9, <1>t DEF CliNegotiate, Goto, repoVars
    <3>2. IF kind'[o] \in Leases THEN adv'[o] \subseteq seen'[repo'[o]] ELSE adv'[o] \subseteq src'[o]
      BY <2>9, <3>1 DEF CliNegotiate, SeenInv
    <3>3. \A p \in Ops \ {o} : Still(p)
      BY <2>9, <1>t DEF CliNegotiate, Goto
    <3> QED BY <3>1, <3>2, <3>3, <1>g, <1>t, SentStays DEF SentInv
  <2> QED BY <1>3, <2>1, <2>2, <2>3, <2>4, <2>5, <2>6, <2>7, <2>8, <2>9, StepCases
<1>4. CASE UNCHANGED vars
  BY <1>4, <1>s DEF vars
<1> QED BY <1>1, <1>2, <1>3, <1>4 DEF Next

\* Who moves the server's branch: others, or an upload of what was told for what is sent.
LEMMA RemoteMoves ==
  ASSUME TypeOK, NEW o \in Ops, CommitStep(o) \/ NetStep(o)
  PROVE  /\ \A p \in Ops \ {o} : pc'[p] = pc[p]
         /\ \/ remote' = remote
            \/ /\ pc[o] \in {"upload", "cliUpload"} /\ remote[repo[o]] = adv[o]
               /\ remote' = [remote EXCEPT ![repo[o]] = src[o]]
<1> USE DEF Taken, Goto, repoVars
<1>t. pc \in [Ops -> Roles \cup {"fetched", "integrate", "connect", "load", "store", "upload",
                                   "cli", "cliUpload"}]
  BY DEF TypeOK
<1>1. CASE Commit(o) \/ CommitFails(o) \/ StopCommit(o) \/ StartPush(o) \/ StopNet(o)
  BY <1>1, <1>t DEF Commit, CommitFails, StopCommit, StartPush, StopNet
<1>2. CASE FetchRead(o) \/ FetchWrite(o) \/ FetchFails(o) \/ Integrate(o) \/ Conflict(o)
  BY <1>2, <1>t DEF FetchRead, FetchWrite, FetchFails, Integrate, Conflict
<1>3. CASE AuthStep(o)
  BY <1>3, <1>t DEF AuthStep, ConnectFails, GiveUp, Ask, Load, Store, FallBack
<1>4. CASE Lock(o) \/ Negotiate(o) \/ CliNegotiate(o)
  BY <1>4, <1>t DEF Lock, Negotiate, CliNegotiate, FallBack
<1>5. CASE Upload(o) \/ UploadFails(o)
  BY <1>5, <1>t DEF Upload, UploadFails, FallBack
<1>6. CASE CliUpload(o) \/ CliFails(o)
  BY <1>6, <1>t DEF CliUpload, CliFails
<1> QED BY <1>1, <1>2, <1>3, <1>4, <1>5, <1>6, StepCases

\* A step that is not an upload keeps the server's branch, or is none of an operation's.
LEMMA KeptByStep ==
  ASSUME TypeOK, SentInv, [Next]_vars, NEW o \in Ops, pc'[o] # pc[o], repo[o] \in Repos
  PROVE  /\ remote[repo[o]] \ remote'[repo[o]] \subseteq seen[repo[o]]
         /\ kind[o] \in Normals => remote[repo[o]] \subseteq remote'[repo[o]]
<1>1. CASE \E p \in Ops : CommitStep(p) \/ NetStep(p)
  <2>1. PICK p \in Ops : CommitStep(p) \/ NetStep(p)
    BY <1>1
  <2>2. p = o
    BY <2>1, RemoteMoves
  <2>3. CASE remote' = remote
    BY <2>3
  <2>4. CASE /\ pc[o] \in {"upload", "cliUpload"} /\ remote[repo[o]] = adv[o]
             /\ remote' = [remote EXCEPT ![repo[o]] = src[o]]
    <3>1. remote'[repo[o]] = src[o]
      BY <2>4 DEF TypeOK
    <3> QED BY <2>4, <3>1, LeasesAndNormals DEF SentInv
  <2> QED BY <2>1, <2>2, <2>3, <2>4, RemoteMoves
<1>2. CASE \E p \in Ops, k \in Buttons, r \in Repos : Tap(p, k, r)
  BY <1>2 DEF Tap, repoVars
<1>3. CASE (\E r \in Repos : OthersPush(r)) \/ UNCHANGED vars
  BY <1>3 DEF OthersPush, vars
<1> QED BY <1>1, <1>2, <1>3 DEF Next

\* No push takes from the server a commit its repository has never had.
THEOREM LeaseHolds == Spec => PushKeepsUnseen
<1>1. TypeOK /\ SentInv /\ [Next]_vars =>
        [\A o \in Ops : pc'[o] # pc[o] /\ repo[o] # None =>
           remote[repo[o]] \ remote'[repo[o]] \subseteq seen[repo[o]]]_vars
  <2>1. TypeOK => \A o \in Ops : repo[o] # None => repo[o] \in Repos
    BY DEF TypeOK
  <2> QED BY <2>1, KeptByStep
<1> QED BY <1>1, TypeInit, TypeNext, PushInit, SeenNext, SentNext, PTL DEF Spec, PushKeepsUnseen

\* A push without lease takes no commit from the server at all.
THEOREM NormalPushKeeps == Spec => NormalPushKeepsAll
<1>1. TypeOK /\ SentInv /\ [Next]_vars =>
        [\A o \in Ops : pc'[o] # pc[o] /\ kind[o] \in Normals =>
           remote[repo[o]] \subseteq remote'[repo[o]]]_vars
  <2> SUFFICES ASSUME TypeOK, SentInv, [Next]_vars, NEW o \in Ops, pc'[o] # pc[o],
                      kind[o] \in Normals
               PROVE  remote[repo[o]] \subseteq remote'[repo[o]]
    OBVIOUS
  <2>1. CASE repo[o] \in Repos
    BY <2>1, KeptByStep
  <2>2. CASE pc[o] = "idle"
    <3>1. CASE \E p \in Ops : CommitStep(p) \/ NetStep(p)
      BY <3>1, <2>2, RemoteMoves
    <3>2. CASE \E p \in Ops, k \in Buttons, r \in Repos : Tap(p, k, r)
      BY <3>2 DEF Tap, repoVars
    <3>3. CASE (\E r \in Repos : OthersPush(r)) \/ UNCHANGED vars
      BY <3>3 DEF OthersPush, vars
    <3> QED BY <3>1, <3>2, <3>3 DEF Next
  <2> QED BY <2>1, <2>2 DEF TypeOK
<1> QED BY <1>1, TypeInit, TypeNext, PushInit, SeenNext, SentNext, PTL DEF Spec, NormalPushKeepsAll
===============================================================================
