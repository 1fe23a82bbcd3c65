---------------------------- MODULE MCRepositoryOps ----------------------------
(***************************************************************************)
(* main and work have a commit of their own each; nested, "x/work", is     *)
(* only on the server.  The list of remote branches has it as              *)
(* "origin/x/work", whose last part is "work"; somebody checked that out   *)
(* before, so that there is a local branch of this name too.  The taps are *)
(* one of each kind, and those that get in each other's way.               *)
(***************************************************************************)
EXTENDS RepositoryOps, TLC

CONSTANTS main, work, nested, originNested, v1

R(op, name, other) == [op |-> op, name |-> name, other |-> other]
MCTaps ==
    {R("create", nested, main), R("create", nested, originNested), R("createOut", nested, work),
     R("checkout", work, Absent), R("checkout", nested, Absent),
     R("checkoutRemote", originNested, Absent),
     R("delete", work, Absent), R("delete", originNested, Absent), R("popover", work, Absent), R("deleteRemote", originNested, Absent),
     R("tagPush", v1, Absent),
     R("merge", work, main), R("merge", originNested, main), R("rebase", work, main)}

MCTracks == [r \in RemoteNames |-> nested]
MCLast == [r \in RemoteNames |-> work]
MCLocal == [n \in LocalNames |->
    IF n = main THEN {1, 2} ELSE IF n = work THEN {1, 3}
    ELSE IF n = originNested THEN {1} ELSE {}]
MCTracking == [r \in RemoteNames |-> {1, 2, 4}]
MCSymmetry == Permutations(Ops)
=============================================================================
