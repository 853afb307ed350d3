------------------------------ MODULE LoadAttach ------------------------------
(***************************************************************************)
(* Which cfs_rq a task's averages are part of: attach_entity_load_avg,     *)
(* detach_entity_load_avg and remove_entity_load_avg of                    *)
(* kernel/sched/fair.c under everything that moves a task, and the gates   *)
(* that per-entity memory tracking (PEMT) put into them.                   *)
(*                                                                         *)
(* Values.  Every task has a load and utilisation of one unit, and of core *)
(* and memory utilisation none or one unit; time does not decay them.      *)
(* "util" stands for load_avg, util_avg and util_fast_avg with their sums, *)
(* "core" for core_util and memory_util, slow and fast, which the code     *)
(* treats alike and only while pkshin_pemt_enabled is set.                 *)
(*                                                                         *)
(* Atomicity.  A section under rq->lock is one step.  A wakeup holds the   *)
(* task's pi_lock only: it removes the task from its old cfs_rq without    *)
(* that CPU's lock, in two steps, and may hand the task to the wake_list   *)
(* of the new CPU.                                                         *)
(***************************************************************************)
EXTENDS Integers, FiniteSets

CONSTANTS
  Tasks, Cpus,
  Groups,        \* the task groups, each with one cfs_rq per CPU
  Unattached,    \* bound: do tasks change class or group before wake_up_new_task
                 \* or while they wait on a wake_list?
  MaxChanges,    \* bound: changes of class or group
  MaxToggles     \* bound: loads and unloads of the pemt module

ASSUME SetsAssumption  == IsFiniteSet(Tasks) /\ IsFiniteSet(Cpus) /\ IsFiniteSet(Groups)
ASSUME BoundAssumption == /\ Unattached \in BOOLEAN
                          /\ MaxChanges \in Nat /\ MaxToggles \in Nat

VARIABLES
  task,          \* per task: state, CPU, group, class, last_update_time # 0, core
  cfs_rq,        \* per group and CPU: avg and the removed_*_avg
  pkshin_pemt_enabled,
  toggles, changes

vars == <<task, cfs_rq, pkshin_pemt_enabled, toggles, changes>>

Queues == Groups \X Cpus
QueueOf(p) == <<p.group, p.cpu>>

None == [util |-> 0, core |-> 0]

Init ==
  /\ \E c \in Cpus, g \in Groups :
       task = [t \in Tasks |-> [state |-> "none", cpu |-> c, dest |-> c, group |-> g,
                                fair |-> TRUE, updated |-> FALSE, core |-> 0]]
  /\ cfs_rq = [q \in Queues |-> [avg |-> None, removed |-> None]]
  /\ pkshin_pemt_enabled = FALSE
  /\ toggles = 0
  /\ changes = 0

\* What the core and memory averages of an entity count for at this moment.
gated(core) == IF pkshin_pemt_enabled THEN core ELSE 0

-----------------------------------------------------------------------------
(***************************************************************************)
(* The averages of a cfs_rq l.                                             *)
(***************************************************************************)
sub_positive(var, val) == IF val > var THEN 0 ELSE var - val

\* update_cfs_rq_load_avg takes out what tasks have left in removed_*_avg.
update_cfs_rq_load_avg(l) ==
  LET core == gated(l.removed.core)
  IN  [avg     |-> [util |-> sub_positive(l.avg.util, l.removed.util),
                    core |-> sub_positive(l.avg.core, core)],
       removed |-> [util |-> 0, core |-> l.removed.core - core]]

attach_entity_load_avg(l, core) ==
  [l EXCEPT !.avg = [util |-> @.util + 1, core |-> @.core + gated(core)]]

\* Mutant: the core and memory averages are left behind.
detach_util_only(l, core) ==
  [l EXCEPT !.avg = [util |-> sub_positive(@.util, 1), core |-> @.core]]

detach_entity_load_avg(l, core) ==
  [l EXCEPT !.avg = [util |-> sub_positive(@.util, 1), core |-> sub_positive(@.core, gated(core))]]

\* Mutant: every enqueue attaches.
always_attach(l, p) == attach_entity_load_avg(l, p.core)

\* enqueue_entity_load_avg: a task whose last_update_time is 0 has migrated.
enqueue_entity_load_avg(l, p) ==
  IF p.updated THEN l ELSE attach_entity_load_avg(l, p.core)

-----------------------------------------------------------------------------
(***************************************************************************)
(* What the operations are made of.                                        *)
(***************************************************************************)
Becomes(t, p) == task' = [task EXCEPT ![t] = p]
SetQueue(q, l) == cfs_rq' = [cfs_rq EXCEPT ![q] = l]

unchangedBounds == <<pkshin_pemt_enabled, toggles, changes>>

\* The averages of task t's cfs_rq after update_load_avg.
Updated(q) == update_cfs_rq_load_avg(cfs_rq[q])

\* activate_task, on the CPU that p names by now: enqueue_entity.
activate_task(t, p) ==
  /\ IF p.fair
       THEN /\ SetQueue(QueueOf(p), enqueue_entity_load_avg(Updated(QueueOf(p)), p))
            /\ Becomes(t, [p EXCEPT !.state = "queued", !.updated = TRUE])
       ELSE cfs_rq' = cfs_rq /\ Becomes(t, [p EXCEPT !.state = "queued"])
  /\ UNCHANGED unchangedBounds

\* dequeue_entity.
deactivate_task(t, state) ==
  /\ task[t].state = "queued"
  /\ Becomes(t, [task[t] EXCEPT !.state = state])
  /\ IF task[t].fair THEN SetQueue(QueueOf(task[t]), Updated(QueueOf(task[t])))
     ELSE cfs_rq' = cfs_rq
  /\ UNCHANGED unchangedBounds

-----------------------------------------------------------------------------
(***************************************************************************)
(* The life of a task.                                                     *)
(***************************************************************************)

\* sched_fork with init_entity_runnable_average and task_set_group_fair.
sched_fork(t, g) ==
  /\ task[t].state = "none"
  /\ Becomes(t, [task[t] EXCEPT !.state = "new", !.group = g])
  /\ UNCHANGED <<cfs_rq, unchangedBounds>>

\* wake_up_new_task with post_init_entity_util_avg, which attaches a fair task.
wake_up_new_task(t, c) ==
  /\ task[t].state = "new"
  /\ LET p == [task[t] EXCEPT !.state = "queued", !.cpu = c, !.dest = c, !.updated = TRUE,
                                  !.core = gated(1)]
     IN /\ Becomes(t, p)
        /\ IF p.fair
             THEN SetQueue(QueueOf(p), attach_entity_load_avg(Updated(QueueOf(p)), p.core))
             ELSE cfs_rq' = cfs_rq
  /\ UNCHANGED unchangedBounds

\* What a task with core utilisation core accrues with PEMT.
gain(core) == gated(1 - core)

\* A tick of the running task: task and cfs_rq accrue the same.
task_tick_fair(t) ==
  /\ task[t].state = "queued" /\ task[t].fair
  /\ LET q == QueueOf(task[t])
     IN /\ Becomes(t, [task[t] EXCEPT !.core = @ + gain(@)])
        /\ SetQueue(q, [Updated(q) EXCEPT !.avg.core = @ + gain(task[t].core)])
  /\ UNCHANGED unchangedBounds

\* The task goes to sleep, or to do_exit.
dequeue_task_fair(t) == deactivate_task(t, "sleeping")
do_exit(t) == deactivate_task(t, "exiting")

\* try_to_wake_up takes pi_lock and picks CPU c.  migrate_task_rq_fair is a
\* method of the fair class.
try_to_wake_up(t, c) ==
  /\ task[t].state = "sleeping"
  /\ Becomes(t, IF c = task[t].cpu THEN [task[t] EXCEPT !.state = "woken"]
                ELSE IF task[t].fair THEN [task[t] EXCEPT !.state = "waking", !.dest = c]
                ELSE [task[t] EXCEPT !.state = "woken", !.cpu = c, !.dest = c])
  /\ UNCHANGED <<cfs_rq, unchangedBounds>>

\* remove_entity_load_avg for migrate_task_rq_fair and for task_dead_fair: first
\* load and utilisation ...
remove_entity_load_avg(t) ==
  /\ \/ task[t].state = "waking" /\ Becomes(t, [task[t] EXCEPT !.state = "removing"])
     \/ task[t].state = "exiting" /\ Becomes(t, [task[t] EXCEPT !.state =
                                       IF task[t].fair THEN "dying" ELSE "dead"])
  /\ cfs_rq' = IF task[t].fair
                 THEN [cfs_rq EXCEPT ![QueueOf(task[t])].removed.util = @ + 1]
                 ELSE cfs_rq
  /\ UNCHANGED unchangedBounds

\* ... then what PEMT tracks; and migrate_task_rq_fair clears last_update_time.
remove_entity_pemt(t) ==
  /\ \/ /\ task[t].state = "removing"
        /\ Becomes(t, [task[t] EXCEPT !.state = "woken", !.cpu = task[t].dest, !.updated = FALSE])
     \/ /\ task[t].state = "dying"
        /\ Becomes(t, [task[t] EXCEPT !.state = "dead"])
  /\ cfs_rq' = [cfs_rq EXCEPT ![QueueOf(task[t])].removed.core = @ + gated(task[t].core)]
  /\ UNCHANGED unchangedBounds

\* ttwu_queue activates the task, or puts it on the wake_list of its CPU and drops
\* pi_lock; sched_ttwu_pending activates it there.
ttwu_queue(t) == task[t].state = "woken" /\ activate_task(t, task[t])
ttwu_queue_remote(t) ==
  /\ task[t].state = "woken"
  /\ Becomes(t, [task[t] EXCEPT !.state = "listed"])
  /\ UNCHANGED <<cfs_rq, unchangedBounds>>
sched_ttwu_pending(t) == task[t].state = "listed" /\ activate_task(t, task[t])

-----------------------------------------------------------------------------
(***************************************************************************)
(* Load balancing, changes of class and group, the rest.                   *)
(***************************************************************************)

\* detach_task of the load balancer, under the lock of the source CPU ...
detach_task(t, c) ==
  /\ task[t].state = "queued" /\ task[t].fair /\ c # task[t].cpu
  /\ LET q == QueueOf(task[t])
     IN SetQueue(q, [Updated(q) EXCEPT !.removed.util = @ + 1,
                                       !.removed.core = @ + gated(task[t].core)])
  /\ Becomes(t, [task[t] EXCEPT !.state = "migrating", !.cpu = c, !.dest = c, !.updated = FALSE])
  /\ UNCHANGED unchangedBounds

\* ... and attach_task, under the lock of the destination.
attach_task(t) == task[t].state = "migrating" /\ activate_task(t, task[t])

\* task_rq_lock takes pi_lock and rq->lock, and waits for a migrating task.
CanChange(t, unattached) ==
  /\ changes < MaxChanges
  /\ task[t].state \in {"sleeping", "queued"} \cup (IF Unattached THEN unattached ELSE {})

\* sched_setscheduler moves t out of the fair class: switched_from_fair.
switched_from_fair(t) ==
  /\ CanChange(t, {"new", "listed"})
  /\ task[t].fair
  /\ LET q == QueueOf(task[t])
     IN SetQueue(q, detach_entity_load_avg(Updated(q), task[t].core))
  /\ Becomes(t, [task[t] EXCEPT !.fair = FALSE])
  /\ changes' = changes + 1
  /\ UNCHANGED <<pkshin_pemt_enabled, toggles>>

\* ... and back: a queued task is enqueued again before switched_to_fair.
switched_to_fair(t) ==
  /\ CanChange(t, {"new", "listed"})
  /\ ~task[t].fair
  /\ LET p == task[t]
         l == IF p.state = "queued" THEN enqueue_entity_load_avg(Updated(QueueOf(p)), p)
              ELSE Updated(QueueOf(p))
     IN SetQueue(QueueOf(p), attach_entity_load_avg(l, p.core))
  /\ Becomes(t, [task[t] EXCEPT !.fair = TRUE, !.updated = TRUE])
  /\ changes' = changes + 1
  /\ UNCHANGED <<pkshin_pemt_enabled, toggles>>

\* sched_move_task with task_move_group_fair; other classes only get set_task_rq.
task_move_group_fair(t, g) ==
  /\ CanChange(t, {"listed"})
  /\ g # task[t].group
  /\ LET p == task[t]
         q == QueueOf(p)
         r == <<g, p.cpu>>
     IN IF p.fair
          THEN /\ cfs_rq' = [cfs_rq EXCEPT ![q] = detach_entity_load_avg(Updated(q), p.core),
                                           ![r] = attach_entity_load_avg(Updated(r), p.core)]
               /\ Becomes(t, [p EXCEPT !.group = g, !.updated = TRUE])
          ELSE cfs_rq' = cfs_rq /\ Becomes(t, [p EXCEPT !.group = g])
  /\ changes' = changes + 1
  /\ UNCHANGED <<pkshin_pemt_enabled, toggles>>

\* update_blocked_averages, under rq->lock.
update_blocked_averages(c) ==
  /\ cfs_rq' = [q \in Queues |-> IF q[2] = c THEN Updated(q) ELSE cfs_rq[q]]
  /\ UNCHANGED <<task, unchangedBounds>>

\* The pemt module is loaded or unloaded.
pemt_module ==
  /\ toggles < MaxToggles
  /\ pkshin_pemt_enabled' = ~pkshin_pemt_enabled
  /\ toggles' = toggles + 1
  /\ UNCHANGED <<task, cfs_rq, changes>>

-----------------------------------------------------------------------------
Wakeup(t) == \/ remove_entity_load_avg(t) \/ remove_entity_pemt(t)
             \/ ttwu_queue(t) \/ ttwu_queue_remote(t) \/ sched_ttwu_pending(t)

Next ==
  \/ \E t \in Tasks :
       \/ Wakeup(t) \/ task_tick_fair(t) \/ dequeue_task_fair(t) \/ do_exit(t)
       \/ attach_task(t) \/ switched_from_fair(t) \/ switched_to_fair(t)
       \/ \E c \in Cpus : wake_up_new_task(t, c) \/ try_to_wake_up(t, c) \/ detach_task(t, c)
       \/ \E g \in Groups : sched_fork(t, g) \/ task_move_group_fair(t, g)
  \/ \E c \in Cpus : update_blocked_averages(c)
  \/ pemt_module

Spec == Init /\ [][Next]_vars

-----------------------------------------------------------------------------
(***************************************************************************)
(* Properties.                                                             *)
(***************************************************************************)
States == {"none", "new", "queued", "sleeping", "waking", "removing", "woken", "listed",
           "migrating", "exiting", "dying", "dead"}

AvgType == [util : Nat, core : Nat]

\* The averages and the removed_*_avg of a cfs_rq are unsigned and never wrap, and a
\* task's CPU and group are always those of one cfs_rq.
TypeOK ==
  /\ task \in [Tasks -> [state : States, cpu : Cpus, dest : Cpus, group : Groups,
                         fair : BOOLEAN, updated : BOOLEAN, core : {0, 1}]]
  /\ cfs_rq \in [Queues -> [avg : AvgType, removed : AvgType]]
  /\ pkshin_pemt_enabled \in BOOLEAN
  /\ toggles \in 0 .. MaxToggles /\ changes \in 0 .. MaxChanges

\* The entities of cfs_rq q, blocked and runnable, as far as load and utilisation
\* are concerned; and as far as PEMT is.
Entity(t, q, leaving) ==
  /\ QueueOf(task[t]) = q /\ task[t].fair
  /\ \/ task[t].state \in {"queued", "sleeping", "waking", "exiting"} \cup leaving
     \/ task[t].state \in {"new", "woken", "listed"} /\ task[t].updated

Entities(q)     == {t \in Tasks : Entity(t, q, {})}
CoreEntities(q) == {t \in Tasks : Entity(t, q, {"removing", "dying"}) /\ task[t].core = 1}

\* "The cfs_rq avg is the direct sum of all its entities (blocked and runnable) avg"
\* (update_cfs_rq_load_avg), with what waits in removed_util_avg taken out: through
\* forks, exits, lock-free migrations, balancing and changes of class and group no
\* task is counted twice, at two places or after it has gone.
DirectSum ==
  \A q \in Queues : cfs_rq[q].avg.util = cfs_rq[q].removed.util + Cardinality(Entities(q))

\* The same for core and memory utilisation while the pemt module tracks them:
\* loading it while tasks run, sleep and migrate leaves no cfs_rq with a part of a
\* task that is not on it, or without its part of one that is.
CoreDirectSum ==
  pkshin_pemt_enabled => \A q \in Queues :
    cfs_rq[q].avg.core = cfs_rq[q].removed.core + Cardinality(CoreEntities(q))

(***************************************************************************)
(* What makes DirectSum inductive, for ~Unattached.                        *)
(***************************************************************************)

\* Where last_update_time is set: a task has it from wake_up_new_task on, except
\* between its removal from one cfs_rq and its enqueue on the next, and there it
\* stays in the fair class.
Attached(p) ==
  /\ p.state \in {"queued", "sleeping", "waking", "removing", "exiting", "dying"} => p.updated
  /\ p.state \in {"woken", "listed"} /\ ~p.fair => p.updated
  /\ p.state \in {"none", "new", "migrating"} => ~p.updated
  /\ p.state \in {"waking", "removing", "migrating", "dying"} => p.fair

AttachedInv == \A t \in Tasks : Attached(task[t])
=============================================================================
