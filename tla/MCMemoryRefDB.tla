---------------------------- MODULE MCMemoryRefDB -----------------------------
(***************************************************************************)
(* A small table: two buckets, two names in one of them, two entries.      *)
(* Nothing tells the addresses apart, or the object ids, so permutations   *)
(* of either are symmetric; nothing reads the answer of an earlier call,   *)
(* or whether it was kept to, so the view leaves them out.                 *)
(***************************************************************************)
EXTENDS MemoryRefDB, TLC

CONSTANTS head, main, work
ASSUME MCNames == Names = {head, main, work}

\* head and main meet in the second bucket.
MCHash == [n \in Names |-> IF n = work THEN 1 ELSE 2]

MCView == <<entry, table, alive, it, seen, stay, shadowed>>
MCSymmetry == Permutations(Address) \cup Permutations(Oids)
=============================================================================
