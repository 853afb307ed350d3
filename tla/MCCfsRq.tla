------------------------------- MODULE MCCfsRq -------------------------------
(***************************************************************************)
(* The virtual time of one CPU is about to wrap around, that of the other  *)
(* has done so.  Tasks are interchangeable.                                *)
(***************************************************************************)
EXTENDS CfsRq
CONSTANTS c0, c1, t1, t2, t3
NearWrap == (c0 :> VMod - 1 @@ c1 :> 12)
Symmetry == Permutations(Tasks)
=============================================================================
