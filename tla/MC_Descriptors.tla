----------------------------- MODULE MC_Descriptors -----------------------------
(* A finite instance of Descriptors: two processes with three descriptors   *)
(* each, three OpenFile objects, one pipe and one inode.                    *)
EXTENDS Descriptors, TLC

(* At most one descriptor number is marked close-on-exec at a time, in one  *)
(* process or in both (a fork copies the mark).                             *)
MarksBound == Cardinality(UNION {close_on_exec[p] : p \in Pids}) <= 1

Symmetry == Permutations(Pids) \cup Permutations(Files)
=============================================================================
