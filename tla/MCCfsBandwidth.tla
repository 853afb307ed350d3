--------------------------- MODULE MCCfsBandwidth ---------------------------
(***************************************************************************)
(* Instances of CfsBandwidth for TLC: two interchangeable CPUs.            *)
(***************************************************************************)
EXTENDS CfsBandwidth, TLC

CONSTANTS c1, c2

\* The quota is lowered or lifted while the group runs.
NewQuotas == {1, RUNTIME_INF}

Symmetry == Permutations({c1, c2})

\* The history variable, which no action reads, is left out where no property but
\* TypeOK does.
WithoutHistory == <<cfs_b, throttled_list, stale, cfs_rq, rq, timerVars, envVars>>
=============================================================================
