---- MODULE MCWipBackup ----
(* Two Tasks do the same, so states that differ in their names alone are one. *)
EXTENDS WipBackup, TLC

TaskSymmetry == Permutations(Tasks)
====
