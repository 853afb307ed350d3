---------------------------- MODULE MCLoadBalance ----------------------------
(***************************************************************************)
(* Two clusters, CPUs 0 and 1 and CPU 2, at the domain that spans both.    *)
(***************************************************************************)
EXTENDS LoadBalance, TLC

DieDomain == [c \in Cpus |-> <<[group |-> IF c = 2 THEN {2} ELSE {0, 1}, span |-> Cpus, newidle |-> c = 2]>>]

\* CPU 0 balances for itself, or for an idle CPU 1, too.
Own == {<<0, 0>>}
OwnAndNohz == {<<0, 0>>, <<0, 1>>}

UnitLoad == [t \in Tasks |-> 1]
AllOrBigger == {Cpus, {1, 2}}
Crossed == {{0, 2}, {1, 2}}
Symmetry == Permutations(Tasks)
=============================================================================
