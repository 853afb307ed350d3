----------------------------- MODULE MCLoadAttach -----------------------------
(***************************************************************************)
(* Instances of LoadAttach for TLC: tasks, CPUs and groups are             *)
(* interchangeable.                                                        *)
(***************************************************************************)
EXTENDS LoadAttach, TLC

Symmetry == Permutations(Tasks) \cup Permutations(Cpus) \cup Permutations(Groups)
=============================================================================
