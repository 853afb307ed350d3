------------------------------ MODULE Placement ------------------------------
(***************************************************************************)
(* What the run queues and the load balancer promise together, without     *)
(* queues, locks or virtual time: a task is queued on one CPU or on none,  *)
(* a CPU runs a task that is queued on it or nothing of the fair class,    *)
(* and a task that runs is taken away by its own CPU only.                 *)
(***************************************************************************)
CONSTANTS Cpus, Tasks,
          Nobody,     \* runs on a CPU without a fair task
          Nowhere     \* the place of a task that is blocked, detached or waking

VARIABLES at,         \* the CPU a task is queued on, or Nowhere
          running     \* the task each CPU runs, or Nobody

Init == /\ at \in [Tasks -> Cpus \cup {Nowhere}]
        /\ running = [c \in Cpus |-> Nobody]

Runs(t) == \E c \in Cpus : running[c] = t

\* A wakeup, the beginning of a migration, or its end, for all that move together.
Move(moved, place) == /\ UNCHANGED running
                      /\ at' = [t \in Tasks |-> IF t \in moved THEN place ELSE at[t]]
                      /\ \A t \in moved : ~Runs(t)

\* A CPU turns to another task that is queued on it; the one it ran may block, or
\* its CPU's stopper may push it away.
Switch(c) ==
  /\ \/ UNCHANGED at
     \/ running[c] # Nobody /\ \E place \in (Cpus \cup {Nowhere}) \ {c} :
          at' = [at EXCEPT ![running[c]] = place]
  /\ \E t \in {Nobody} \cup {u \in Tasks : at'[u] = c} : running' = [running EXCEPT ![c] = t]

Next == \/ \E moved \in SUBSET Tasks, place \in Cpus \cup {Nowhere} : Move(moved, place)
        \/ \E c \in Cpus : Switch(c)

Spec == Init /\ [][Next]_<<at, running>>
=============================================================================
