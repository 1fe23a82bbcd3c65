------------------------------ MODULE MCSelection ------------------------------
(***************************************************************************)
(* Three repositories.  At launch the user has none of them or all, and    *)
(* the third was selected last.                                            *)
(***************************************************************************)
EXTENDS Selection

CONSTANTS r1, r2, r3
MCLaunches == {<<>>, <<r1, r2, r3>>}
=============================================================================
