------------------------------- MODULE Selection -------------------------------
(***************************************************************************)
(* CommitsViewModel: the repositories of the window, the item selected in  *)
(* one of them and the wip commits shown for it.  Taps, git events, the    *)
(* adding and the removal of a repository are Tasks that end on the main   *)
(* actor, in whatever order they get there.                                *)
(*                                                                         *)
(* An item is a status, a commit (those two have wip commits) or a tag of  *)
(* a repository.  The histories: late, a Task for a removed repository     *)
(* changed the selection; raced, a repository was inserted while the count *)
(* of another one's insertion was still to be looked at; doubled, the      *)
(* repositories whose removal was asked for twice; crossed, the wip        *)
(* commits shown were asked for before others, or before the last reset.   *)
(***************************************************************************)
EXTENDS Naturals, Sequences, SequencesExt, FiniteSets

CONSTANTS
    Repos, None,
    Launches,           \* what the projects of the user may be at launch, in their order
    GivenLast,          \* the repository that was selected last, or None
    MaxUser             \* bound: taps, removals, additions, git events and wip commits

Kinds == {"status", "commit", "tag"}
HasWip == {"status", "commit"}
Item == [kind : Kinds, repo : Repos]
NoItem == [kind |-> "none", repo |-> None]

ASSUME ReposAssumption ==
    /\ None \notin Repos
    /\ \A list \in Launches : list \in Seq(Repos) /\ IsInjective(list)
    /\ GivenLast \in Repos \cup {None} /\ MaxUser \in Nat

VARIABLES
    given,              \* the projects at launch
    projects,           \* user.projects
    infos,              \* the keys of currentRepositoryInfos, in order
    item, cur,          \* currentSelectedItem, the repository of currentRepositoryInfo
    last,               \* user.lastSelectedRepositoryPath
    wip, wipTasks,      \* the item of currentWipCommits; getWipCommits under way, oldest first
    launch,             \* projects the launch has still to add
    adding,             \* of each repository: where addRepository is
    setups,             \* Tasks of setupInitialCurrentSelectedItem
    taps, deletes, events,
    late, raced, doubled, crossed, used

selection == <<item, cur, last, wip, wipTasks, crossed>>
tasks == <<launch, adding, setups, taps, deletes, events>>
vars == <<given, projects, infos, selection, tasks, late, raced, doubled, used>>

Listed == ToSet(infos)
Adding == {r \in Repos : adding[r] # "none"}

Init ==
    /\ given \in Launches /\ projects = ToSet(given) /\ infos = <<>>
    /\ item = NoItem /\ cur = None /\ last = GivenLast
    /\ wip = NoItem /\ wipTasks = <<>>
    /\ launch = given /\ adding = [r \in Repos |-> "none"]
    /\ setups = IF given = <<>> THEN 1 ELSE 0
    /\ taps = {} /\ deletes = [r \in Repos |-> 0] /\ events = {}
    /\ late = FALSE /\ raced = FALSE /\ doubled = {} /\ crossed = FALSE /\ used = 0

-----------------------------------------------------------------------------
(* setCurrentSelectedItem *)

\* Mutant: the info is assigned only if there is none.
SelectKeepsInfo(i) ==
    /\ item' = i /\ cur' = IF cur = None THEN i.repo ELSE cur
    /\ last' = i.repo
    /\ wipTasks' = IF i.kind \in HasWip
                   THEN Append(wipTasks, [item |-> i, late |-> FALSE]) ELSE wipTasks
    /\ UNCHANGED <<wip, crossed>>

\* Mutant: the wip commits are read again only for another repository.
SelectSameRepo(i) ==
    /\ item' = i /\ cur' = i.repo /\ last' = i.repo
    /\ wipTasks' = IF i.kind \in HasWip /\ i.repo # cur
                   THEN Append(wipTasks, [item |-> i, late |-> FALSE]) ELSE wipTasks
    /\ UNCHANGED <<wip, crossed>>

Select(i) ==
    /\ item' = i /\ cur' = i.repo /\ last' = i.repo
    /\ wipTasks' = IF i.kind \in HasWip
                   THEN Append(wipTasks, [item |-> i, late |-> FALSE]) ELSE wipTasks
    /\ UNCHANGED <<wip, crossed>>

\* Mutant: nothing looks for something to select.
DeselectOnly ==
    /\ item' = NoItem /\ cur' = None /\ wip' = NoItem /\ crossed' = FALSE
    /\ wipTasks' = [j \in DOMAIN wipTasks |-> [wipTasks[j] EXCEPT !.late = TRUE]]
    /\ UNCHANGED <<last, setups>>

\* With nil: nothing is selected, and a Task looks for something to select.
Deselect ==
    /\ item' = NoItem /\ cur' = None /\ wip' = NoItem /\ crossed' = FALSE
    /\ wipTasks' = [j \in DOMAIN wipTasks |-> [wipTasks[j] EXCEPT !.late = TRUE]]
    /\ setups' = setups + 1
    /\ UNCHANGED last

\* getWipCommits assigns what it found, whatever is selected by then.
ShowWip(j) ==
    /\ j \in DOMAIN wipTasks
    /\ wip' = wipTasks[j].item /\ crossed' = wipTasks[j].late
    /\ wipTasks' = RemoveAt([k \in DOMAIN wipTasks |->
                       [wipTasks[k] EXCEPT !.late = @ \/ k < j]], j)
    /\ UNCHANGED <<given, projects, infos, item, cur, last, tasks, late, raced, doubled, used>>

\* After a wip commit the selected item is listed again, if it is at HEAD.
ListAgain ==
    /\ used < MaxUser /\ used' = used + 1
    /\ item.kind \in HasWip /\ wipTasks' = Append(wipTasks, [item |-> item, late |-> FALSE])
    /\ UNCHANGED <<given, projects, infos, item, cur, last, wip, crossed, tasks, late, raced, doubled>>

\* The repository selected last if it is there, or else the first one.
Initial == IF last \in Listed THEN last ELSE Head(infos)

Setup ==
    /\ setups > 0 /\ setups' = setups - 1
    /\ IF item = NoItem /\ infos # <<>>
       THEN Select([kind |-> "status", repo |-> Initial])
       ELSE UNCHANGED selection
    /\ UNCHANGED <<given, projects, infos, launch, adding, taps, deletes, events>>
    /\ UNCHANGED <<late, raced, doubled, used>>

-----------------------------------------------------------------------------
(* addRepository: the info is made, inserted on the main actor, then the count is read *)

\* The launch adds one project after the other.
LaunchNext ==
    /\ launch # <<>> /\ adding[Head(launch)] = "none"
    /\ adding' = [adding EXCEPT ![Head(launch)] = "load"]
    /\ UNCHANGED <<given, projects, infos, selection, launch, setups, taps, deletes, events>>
    /\ UNCHANGED <<late, raced, doubled, used>>

AddProject(r) ==
    /\ used < MaxUser /\ used' = used + 1
    /\ r \notin projects /\ adding[r] = "none" /\ projects' = projects \cup {r}
    /\ adding' = [adding EXCEPT ![r] = "load"]
    /\ UNCHANGED <<given, infos, selection, launch, setups, taps, deletes, events>>
    /\ UNCHANGED <<late, raced, doubled>>

Insert(r) ==
    /\ adding[r] = "load" /\ adding' = [adding EXCEPT ![r] = "count"]
    /\ infos' = IF r \in Listed THEN infos ELSE Append(infos, r)
    /\ raced' = (raced \/ \E q \in Repos : adding[q] = "count")
    /\ UNCHANGED <<given, projects, selection, launch, setups, taps, deletes, events, late, doubled, used>>

\* Mutant: the count of before the insertion.
CountBefore(r) ==
    /\ adding[r] = "count" /\ adding' = [adding EXCEPT ![r] = "none"]
    /\ LET launched == launch # <<>> /\ r = Head(launch)
           only == IF infos = <<>> THEN 1 ELSE 0
           all == IF launched /\ Tail(launch) = <<>> THEN 1 ELSE 0
       IN  /\ launch' = IF launched THEN Tail(launch) ELSE launch
           /\ setups' = setups + only + all
    /\ UNCHANGED <<given, projects, infos, selection, taps, deletes, events>>
    /\ UNCHANGED <<late, raced, doubled, used>>

\* The first repository is selected, and what there is when the launch has added all.
Count(r) ==
    /\ adding[r] = "count" /\ adding' = [adding EXCEPT ![r] = "none"]
    /\ LET launched == launch # <<>> /\ r = Head(launch)
           only == IF Len(infos) = 1 THEN 1 ELSE 0
           all == IF launched /\ Tail(launch) = <<>> THEN 1 ELSE 0
       IN  /\ launch' = IF launched THEN Tail(launch) ELSE launch
           /\ setups' = setups + only + all
    /\ UNCHANGED <<given, projects, infos, selection, taps, deletes, events, late, raced, doubled, used>>

-----------------------------------------------------------------------------
(* Taps of the user, and events of the git watchers *)

Tap(i) ==
    /\ used < MaxUser /\ used' = used + 1
    /\ i.repo \in Listed /\ taps' = taps \cup {i}
    /\ UNCHANGED <<given, projects, infos, selection, launch, adding, setups, deletes, events>>
    /\ UNCHANGED <<late, raced, doubled>>

RunTap(i) ==
    /\ i \in taps /\ taps' = taps \ {i}
    /\ Select(i) /\ late' = (i.repo \notin Listed)
    /\ UNCHANGED <<given, projects, infos, launch, adding, setups, deletes, events, raced, doubled, used>>

\* Mutant: the project is removed before the Task starts.
DeleteTapFirst(r) ==
    /\ used < MaxUser /\ used' = used + 1
    /\ r \in Listed /\ deletes' = [deletes EXCEPT ![r] = @ + 1]
    /\ doubled' = IF deletes[r] > 0 THEN doubled \cup {r} ELSE doubled
    /\ projects' = projects \ {r}
    /\ UNCHANGED <<given, infos, selection, launch, adding, setups, taps, events, late, raced>>

DeleteTap(r) ==
    /\ used < MaxUser /\ used' = used + 1
    /\ r \in Listed /\ deletes' = [deletes EXCEPT ![r] = @ + 1]
    /\ doubled' = IF deletes[r] > 0 THEN doubled \cup {r} ELSE doubled
    /\ UNCHANGED <<given, projects, infos, selection, launch, adding, setups, taps, events, late, raced>>

\* A key is taken out of the ordered dictionary, if it is there.
Places(list, r) == {i \in DOMAIN list : list[i] = r}
Without(list, r) ==
    IF Places(list, r) = {} THEN list ELSE RemoveAt(list, CHOOSE i \in Places(list, r) : TRUE)

\* Mutant: the removed repository stays selected.
RunDeleteKeeps(r) ==
    /\ deletes[r] > 0 /\ deletes' = [deletes EXCEPT ![r] = @ - 1]
    /\ infos' = Without(infos, r) /\ projects' = projects \ {r}
    /\ UNCHANGED <<given, selection, launch, adding, setups, taps, events, late, raced, doubled, used>>

RunDelete(r) ==
    /\ deletes[r] > 0 /\ deletes' = [deletes EXCEPT ![r] = @ - 1]
    /\ infos' = Without(infos, r) /\ projects' = projects \ {r}
    /\ IF item # NoItem /\ cur = r
       THEN Deselect /\ late' = FALSE
       ELSE UNCHANGED <<selection, setups, late>>
    /\ UNCHANGED <<given, launch, adding, taps, events, raced, doubled, used>>

\* HEAD or the index of a repository changed; its info is there while it is listed or selected.
GitChange(r) ==
    /\ used < MaxUser /\ used' = used + 1
    /\ r \in Listed \cup {cur} /\ events' = events \cup {r}
    /\ UNCHANGED <<given, projects, infos, selection, launch, adding, setups, taps, deletes>>
    /\ UNCHANGED <<late, raced, doubled>>

\* Mutant: an event selects the status, whatever was selected.
RunEventAny(r) ==
    /\ r \in events /\ events' = events \ {r}
    /\ Select([kind |-> "status", repo |-> r]) /\ late' = (r \notin Listed)
    /\ UNCHANGED <<given, projects, infos, launch, adding, setups, taps, deletes>>
    /\ UNCHANGED <<raced, doubled, used>>

\* A status is selected: the handler means to show it anew, but compares the repository
\* of the event with itself, so that the one of the event is selected.
RunEvent(r) ==
    /\ r \in events /\ events' = events \ {r}
    /\ IF item.kind = "status"
       THEN Select([kind |-> "status", repo |-> r]) /\ late' = (r \notin Listed)
       ELSE UNCHANGED <<selection, late>>
    /\ UNCHANGED <<given, projects, infos, launch, adding, setups, taps, deletes, raced, doubled, used>>

\* The info was gone when the Task began.
DropEvent(r) ==
    /\ r \in events /\ r \notin Listed \cup {cur} /\ events' = events \ {r}
    /\ UNCHANGED <<given, projects, infos, selection, launch, adding, setups, taps, deletes>>
    /\ UNCHANGED <<late, raced, doubled, used>>

Work ==
    \/ LaunchNext \/ Setup \/ (\E j \in 1..Len(wipTasks) : ShowWip(j))
    \/ \E r \in Repos : Insert(r) \/ Count(r) \/ RunDelete(r) \/ RunEvent(r) \/ DropEvent(r)
    \/ \E i \in Item : RunTap(i)
User ==
    \/ \E r \in Repos : AddProject(r) \/ DeleteTap(r) \/ GitChange(r)
    \/ \E i \in Item : Tap(i)
    \/ ListAgain
Next == Work \/ User

Spec == Init /\ [][Next]_vars

\* Every Task that was started runs: the main actor serves all of them.
FairSpec == Spec /\ WF_vars(Work)

-----------------------------------------------------------------------------
(* Properties *)

\* The type of the state.  An item is selected with the info of its own repository,
\* otherwise removing a repository would end the process (CommitsViewModel.swift:218).
TypeOK ==
    /\ given \in Launches /\ projects \subseteq Repos /\ infos \in Seq(Repos) /\ IsInjective(infos)
    /\ item \in Item \cup {NoItem} /\ cur = item.repo /\ last \in Repos \cup {None}
    /\ wip \in Item \cup {NoItem} /\ wipTasks \in Seq([item : Item, late : BOOLEAN])
    /\ launch \in Seq(Repos) /\ adding \in [Repos -> {"none", "load", "count"}]
    /\ setups \in Nat /\ taps \subseteq Item /\ deletes \in [Repos -> Nat] /\ events \subseteq Repos
    /\ late \in BOOLEAN /\ raced \in BOOLEAN /\ doubled \subseteq Repos /\ crossed \in BOOLEAN
    /\ used \in 0..MaxUser

\* The selected repository is one of the window, unless a tap or an event of a removed
\* one came in after the removal.
SelectedIsListed == cur # None /\ ~late => cur \in Listed

\* Whatever is listed or about to be is a project of the user, and will be there at the
\* next launch, unless its removal was asked for twice.
ListedAreProjects ==
    (Listed \cup {r \in Repos : adding[r] = "load"}) \ doubled \subseteq projects

\* Once no Task is left that would select, something is selected if there is anything,
\* unless two repositories were added at once: then neither is the only one.
AddsDone == launch = <<>> /\ Adding = {}
SomethingSelected ==
    AddsDone /\ setups = 0 /\ infos # <<>> /\ ~raced => item # NoItem

\* When no Task is left, the wip commits shown are those of the selected status or commit,
\* unless they came in after others that were asked for later.
WipOfSelection ==
    wipTasks = <<>> /\ ~crossed /\ item.kind \in HasWip => wip = item

\* Only the user replaces an item that is no status: a commit or a tag that is looked at
\* stays whatever happens in the repositories.
OnlyUserLeavesItem == [][item.kind \in {"commit", "tag"} /\ item' # item =>
    taps' # taps \/ deletes' # deletes]_vars

\* As long as there are repositories something gets selected in the end, after a launch and
\* after the removal of the selected one, unless two repositories were added at once.
EventuallySelected ==
    (infos # <<>> /\ ~raced) ~> (item # NoItem \/ infos = <<>> \/ raced)

=============================================================================
