------------------------------ MODULE MCSched ------------------------------
(***************************************************************************)
(* Small instances of Sched for TLC: kmain and two other tasks, one-tick   *)
(* time slices.                                                            *)
(***************************************************************************)
EXTENDS Sched, TLC

\* The tasks other than kmain are interchangeable.
Symmetry == Permutations(Task \ {Kmain})
=============================================================================
