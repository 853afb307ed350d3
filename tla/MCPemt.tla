------------------------------- MODULE MCPemt -------------------------------
(***************************************************************************)
(* An instance of Pemt: on the work core a task in a group and a task of   *)
(* the root cfs_rq, and a CPU that only makes remote calls.                *)
(***************************************************************************)
EXTENDS Pemt, TLC
CONSTANTS c0, c1, a, b, g

MCCpuOf   == (a :> c0 @@ b :> c0)
MCGroupOf == (a :> g @@ b :> Root)
MCMaxTime == (c0 :> 3 @@ c1 :> 2)

\* The two trackers share only the clocks and are explored one at a time.
OneTracker ==
  \/ module.pc = "out" /\ \A c \in Cpus : ~prev[c]
     /\ \A e \in Ses : avg.se[e] = {}
  \/ ~cycle /\ exec.time = 0 /\ exec.store = -1 /\ governor = None /\ total = 0
=============================================================================
