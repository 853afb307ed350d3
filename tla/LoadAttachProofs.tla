--------------------------- MODULE LoadAttachProofs ---------------------------
(***************************************************************************)
(* The averages of a cfs_rq are the direct sum of its entities, for every  *)
(* finite set of tasks, CPUs and groups, as long as only attached tasks    *)
(* change class or group; core and memory utilisation as well, if the pemt *)
(* module is loaded once.                                                  *)
(***************************************************************************)
EXTENDS LoadAttach, FiniteSetTheorems, TLAPS

TaskType  == [state : States, cpu : Cpus, dest : Cpus, group : Groups,
              fair : BOOLEAN, updated : BOOLEAN, core : {0, 1}]
QueueType == [avg : AvgType, removed : AvgType]

-----------------------------------------------------------------------------
(***************************************************************************)
(* The operators on a cfs_rq.                                              *)
(***************************************************************************)

\* sub_positive never wraps.
LEMMA SubPositive ==
  ASSUME NEW a \in Nat, NEW b \in Nat
  PROVE  sub_positive(a, b) \in Nat /\ (b <= a => sub_positive(a, b) = a - b)
  BY DEF sub_positive

\* What the PEMT gate lets through is part of what there is.
LEMMA GatedType ==
  ASSUME NEW n \in Nat
  PROVE  gated(n) \in Nat /\ gated(n) <= n /\ n - gated(n) \in Nat
  BY DEF gated

\* Folding takes what was removed out of the average.
LEMMA Fold ==
  ASSUME NEW l \in QueueType
  PROVE  /\ update_cfs_rq_load_avg(l) \in QueueType
         /\ l.removed.util <= l.avg.util =>
              /\ update_cfs_rq_load_avg(l).avg.util = l.avg.util - l.removed.util
              /\ update_cfs_rq_load_avg(l).removed.util = 0
  <1>1. /\ l.avg.util \in Nat /\ l.avg.core \in Nat
        /\ l.removed.util \in Nat /\ l.removed.core \in Nat
    BY DEF QueueType, AvgType
  <1>2. gated(l.removed.core) \in Nat /\ l.removed.core - gated(l.removed.core) \in Nat
    BY <1>1, GatedType
  <1>3. /\ sub_positive(l.avg.util, l.removed.util) \in Nat
        /\ l.removed.util <= l.avg.util =>
             sub_positive(l.avg.util, l.removed.util) = l.avg.util - l.removed.util
    BY <1>1, SubPositive
  <1>4. sub_positive(l.avg.core, gated(l.removed.core)) \in Nat
    BY <1>1, <1>2, SubPositive
  <1> QED BY <1>1, <1>2, <1>3, <1>4 DEF update_cfs_rq_load_avg, QueueType, AvgType

\* Attaching adds one to the average.
LEMMA Attach ==
  ASSUME NEW l \in QueueType, NEW n \in {0, 1}
  PROVE  /\ attach_entity_load_avg(l, n) \in QueueType
         /\ attach_entity_load_avg(l, n).avg.util = l.avg.util + 1
         /\ attach_entity_load_avg(l, n).removed = l.removed
  <1>1. gated(n) \in Nat
    BY GatedType
  <1> QED BY <1>1 DEF attach_entity_load_avg, QueueType, AvgType

\* What leaves an average later is added to what waits to be folded.
LEMMA Removal ==
  ASSUME NEW l \in QueueType, NEW n \in Nat
  PROVE  LET m == [l EXCEPT !.removed.util = @ + 1, !.removed.core = @ + n]
         IN  m \in QueueType /\ m.avg = l.avg /\ m.removed.util = l.removed.util + 1
  <1> DEFINE a == [l EXCEPT !.removed.util = @ + 1]
             m == [a EXCEPT !.removed.core = @ + n]
  <1>1. a \in QueueType /\ a.avg = l.avg /\ a.removed.util = l.removed.util + 1
    BY DEF QueueType, AvgType
  <1> HIDE DEF a
  <1>2. m \in QueueType /\ m.avg = a.avg /\ m.removed.util = a.removed.util
    BY <1>1 DEF QueueType, AvgType
  <1> QED BY <1>1, <1>2 DEF a

\* Detaching takes one off it, and never wraps.
LEMMA Detach ==
  ASSUME NEW l \in QueueType, NEW n \in {0, 1}
  PROVE  /\ detach_entity_load_avg(l, n) \in QueueType
         /\ l.avg.util >= 1 => detach_entity_load_avg(l, n).avg.util = l.avg.util - 1
         /\ detach_entity_load_avg(l, n).removed = l.removed
  <1>1. l.avg.util \in Nat /\ l.avg.core \in Nat
    BY DEF QueueType, AvgType
  <1>2. gated(n) \in Nat
    BY GatedType
  <1>3. /\ sub_positive(l.avg.util, 1) \in Nat
        /\ l.avg.util >= 1 => sub_positive(l.avg.util, 1) = l.avg.util - 1
    BY <1>1, SubPositive
  <1>4. sub_positive(l.avg.core, gated(n)) \in Nat
    BY <1>1, <1>2, SubPositive
  <1> QED BY <1>3, <1>4 DEF detach_entity_load_avg, QueueType, AvgType

-----------------------------------------------------------------------------
(***************************************************************************)
(* Type correctness.                                                       *)
(***************************************************************************)
LEMMA TaskTyped ==
  ASSUME TypeOK, NEW t \in Tasks
  PROVE  /\ task[t] \in TaskType
         /\ QueueOf(task[t]) \in Queues /\ cfs_rq[QueueOf(task[t])] \in QueueType
  <1>1. task[t] \in TaskType
    BY DEF TypeOK, TaskType
  <1>2. QueueOf(task[t]) \in Queues
    BY <1>1 DEF TaskType, QueueOf, Queues
  <1> QED BY <1>1, <1>2 DEF TypeOK, QueueType

\* update_cfs_rq_load_avg with the removed averages folded in.
LEMMA UpdatedTyped ==
  ASSUME TypeOK, NEW q \in Queues
  PROVE  Updated(q) \in QueueType
  <1>1. cfs_rq[q] \in QueueType
    BY DEF TypeOK, QueueType
  <1> QED BY <1>1, Fold DEF Updated

\* A step that sets one task and one cfs_rq.
LEMMA StepTyped ==
  ASSUME TypeOK, NEW t \in Tasks, NEW p \in TaskType, Becomes(t, p),
         \/ cfs_rq' = cfs_rq
         \/ \E q \in Queues, l \in QueueType : SetQueue(q, l),
         pkshin_pemt_enabled' = pkshin_pemt_enabled, toggles' = toggles,
         changes' \in 0 .. MaxChanges
  PROVE  TypeOK'
  <1>1. task' \in [Tasks -> TaskType]
    BY DEF Becomes, TypeOK, TaskType
  <1>2. cfs_rq' \in [Queues -> QueueType]
    <2>1. cfs_rq \in [Queues -> QueueType]
      BY DEF TypeOK, QueueType
    <2> QED BY <2>1 DEF SetQueue
  <1> QED BY <1>1, <1>2 DEF TypeOK, TaskType, QueueType

\* Enqueueing keeps the type.
LEMMA EnqueueTyped ==
  ASSUME NEW l \in QueueType, NEW p \in TaskType
  PROVE  enqueue_entity_load_avg(l, p) \in QueueType
  <1>1. p.core \in {0, 1}
    BY DEF TaskType
  <1> QED BY <1>1, Attach DEF enqueue_entity_load_avg

\* So do activate_task ...
LEMMA ActivateTyped ==
  ASSUME TypeOK, NEW t \in Tasks, activate_task(t, task[t])
  PROVE  TypeOK'
  <1>1. task[t] \in TaskType /\ QueueOf(task[t]) \in Queues
    BY TaskTyped
  <1>2. enqueue_entity_load_avg(Updated(QueueOf(task[t])), task[t]) \in QueueType
    BY <1>1, UpdatedTyped, EnqueueTyped
  <1>3. /\ [task[t] EXCEPT !.state = "queued", !.updated = TRUE] \in TaskType
        /\ [task[t] EXCEPT !.state = "queued"] \in TaskType
    BY <1>1 DEF TaskType, States
  <1>4. /\ pkshin_pemt_enabled' = pkshin_pemt_enabled /\ toggles' = toggles
        /\ changes' \in 0 .. MaxChanges
    BY DEF activate_task, unchangedBounds, TypeOK
  <1>5. CASE task[t].fair
    BY <1>1, <1>2, <1>3, <1>4, <1>5, StepTyped DEF activate_task
  <1>6. CASE ~task[t].fair
    BY <1>3, <1>4, <1>6, StepTyped DEF activate_task
  <1> QED BY <1>5, <1>6

\* ... and deactivate_task ...
LEMMA DeactivateTyped ==
  ASSUME TypeOK, NEW t \in Tasks, NEW s \in States, deactivate_task(t, s)
  PROVE  TypeOK'
  <1>1. task[t] \in TaskType /\ QueueOf(task[t]) \in Queues
    BY TaskTyped
  <1>2. Updated(QueueOf(task[t])) \in QueueType
    BY <1>1, UpdatedTyped
  <1>3. [task[t] EXCEPT !.state = s] \in TaskType
    BY <1>1 DEF TaskType
  <1>4. /\ pkshin_pemt_enabled' = pkshin_pemt_enabled /\ toggles' = toggles
        /\ changes' \in 0 .. MaxChanges
    BY DEF deactivate_task, unchangedBounds, TypeOK
  <1> QED BY <1>1, <1>2, <1>3, <1>4, StepTyped DEF deactivate_task

\* remove_entity_load_avg and remove_entity_pemt only add to what waits to be
\* folded.
LEMMA RemoveTyped ==
  ASSUME TypeOK, NEW t \in Tasks,
         remove_entity_load_avg(t) \/ remove_entity_pemt(t)
  PROVE  TypeOK'
  <1> DEFINE q == QueueOf(task[t])
  <1>1. task[t] \in TaskType /\ q \in Queues /\ cfs_rq[q] \in QueueType
    BY TaskTyped
  <1>2. gated(task[t].core) \in Nat
    BY <1>1, GatedType DEF TaskType
  <1>3. /\ [cfs_rq[q] EXCEPT !.removed.util = @ + 1] \in QueueType
        /\ [cfs_rq[q] EXCEPT !.removed.core = @ + gated(task[t].core)] \in QueueType
    BY <1>1, <1>2 DEF QueueType, AvgType
  <1>4. /\ pkshin_pemt_enabled' = pkshin_pemt_enabled /\ toggles' = toggles
        /\ changes' \in 0 .. MaxChanges
    BY DEF remove_entity_load_avg, remove_entity_pemt, unchangedBounds, TypeOK
  <1>5. \E p \in TaskType : Becomes(t, p)
    <2>1. /\ \A s \in States : [task[t] EXCEPT !.state = s] \in TaskType
          /\ [task[t] EXCEPT !.state = "woken", !.cpu = task[t].dest, !.updated = FALSE]
               \in TaskType
      BY <1>1 DEF TaskType, States
    <2>2. {"removing", "dying", "dead"} \subseteq States
      BY DEF States
    <2> QED BY <2>1, <2>2 DEF remove_entity_load_avg, remove_entity_pemt
  <1>6. cfs_rq' = cfs_rq \/ \E l \in QueueType : SetQueue(q, l)
    BY <1>1, <1>3 DEF remove_entity_load_avg, remove_entity_pemt, SetQueue
  <1> HIDE DEF q
  <1> QED BY <1>1, <1>4, <1>5, <1>6, StepTyped

\* sched_fork, wake_up_new_task, the tick and try_to_wake_up.
LEMMA LifeTyped ==
  ASSUME TypeOK, NEW t \in Tasks, NEW c \in Cpus, NEW g \in Groups,
         \/ sched_fork(t, g) \/ wake_up_new_task(t, c) \/ task_tick_fair(t)
         \/ try_to_wake_up(t, c)
  PROVE  TypeOK'
  <1>1. task[t] \in TaskType /\ QueueOf(task[t]) \in Queues
    BY TaskTyped
  <1>2. /\ pkshin_pemt_enabled' = pkshin_pemt_enabled /\ toggles' = toggles
        /\ changes' \in 0 .. MaxChanges
    BY DEF sched_fork, wake_up_new_task, task_tick_fair, try_to_wake_up, unchangedBounds,
           TypeOK
  <1>3. gated(1) \in {0, 1}
    BY DEF gated
  <1>4. CASE sched_fork(t, g)
    <2>1. [task[t] EXCEPT !.state = "new", !.group = g] \in TaskType
      BY <1>1 DEF TaskType, States
    <2> QED BY <1>2, <1>4, <2>1, StepTyped DEF sched_fork
  <1>5. CASE wake_up_new_task(t, c)
    <2> DEFINE p == [task[t] EXCEPT !.state = "queued", !.cpu = c, !.dest = c,
                                    !.updated = TRUE, !.core = gated(1)]
    <2>1. p \in TaskType /\ p.core \in {0, 1}
      BY <1>1, <1>3 DEF TaskType, States
    <2>2. QueueOf(p) \in Queues
      BY <2>1 DEF TaskType, QueueOf, Queues
    <2>3. Becomes(t, p) /\ (IF p.fair
             THEN SetQueue(QueueOf(p), attach_entity_load_avg(Updated(QueueOf(p)), p.core))
             ELSE cfs_rq' = cfs_rq)
      BY <1>5 DEF wake_up_new_task
    <2> HIDE DEF p
    <2>4. attach_entity_load_avg(Updated(QueueOf(p)), p.core) \in QueueType
      BY <2>1, <2>2, UpdatedTyped, Attach
    <2> QED BY <1>2, <2>1, <2>2, <2>3, <2>4, StepTyped
  <1>6. CASE task_tick_fair(t)
    <2> DEFINE q == QueueOf(task[t])
    <2>1. /\ task[t].core + gain(task[t].core) \in {0, 1}
          /\ gain(task[t].core) \in {0, 1}
      BY <1>1 DEF TaskType, gain, gated
    <2>2. [task[t] EXCEPT !.core = @ + gain(@)] \in TaskType
      BY <1>1, <2>1 DEF TaskType
    <2>3. [Updated(q) EXCEPT !.avg.core = @ + gain(task[t].core)] \in QueueType
      <3>1. Updated(q) \in QueueType
        BY <1>1, UpdatedTyped
      <3> QED BY <2>1, <3>1 DEF QueueType, AvgType
    <2> QED BY <1>1, <1>2, <1>6, <2>2, <2>3, StepTyped DEF task_tick_fair
  <1>7. CASE try_to_wake_up(t, c)
    <2>1. /\ [task[t] EXCEPT !.state = "woken"] \in TaskType
          /\ [task[t] EXCEPT !.state = "waking", !.dest = c] \in TaskType
          /\ [task[t] EXCEPT !.state = "woken", !.cpu = c, !.dest = c] \in TaskType
      BY <1>1 DEF TaskType, States
    <2> QED BY <1>2, <1>7, <2>1, StepTyped DEF try_to_wake_up
  <1> QED BY <1>4, <1>5, <1>6, <1>7

\* Balancing, changes of class and group.
LEMMA MoveTyped ==
  ASSUME TypeOK, NEW t \in Tasks, NEW c \in Cpus, NEW g \in Groups,
         \/ detach_task(t, c) \/ switched_from_fair(t) \/ switched_to_fair(t)
         \/ task_move_group_fair(t, g)
  PROVE  TypeOK'
  <1> DEFINE q == QueueOf(task[t])
  <1>1. task[t] \in TaskType /\ q \in Queues /\ task[t].core \in {0, 1}
    BY TaskTyped DEF TaskType
  <1>2. Updated(q) \in QueueType
    BY <1>1, UpdatedTyped
  <1>3. /\ pkshin_pemt_enabled' = pkshin_pemt_enabled /\ toggles' = toggles
        /\ changes' \in 0 .. MaxChanges
    BY BoundAssumption DEF detach_task, switched_from_fair, switched_to_fair,
       task_move_group_fair, CanChange, unchangedBounds, TypeOK
  <1>4. CASE detach_task(t, c)
    <2>1. [task[t] EXCEPT !.state = "migrating", !.cpu = c, !.dest = c, !.updated = FALSE]
            \in TaskType
      BY <1>1 DEF TaskType, States
    <2>2. [Updated(q) EXCEPT !.removed.util = @ + 1,
                             !.removed.core = @ + gated(task[t].core)] \in QueueType
      <3>1. gated(task[t].core) \in Nat
        BY <1>1, GatedType
      <3> QED BY <1>2, <3>1, Removal
    <2> QED BY <1>1, <1>3, <1>4, <2>1, <2>2, StepTyped DEF detach_task
  <1>5. CASE switched_from_fair(t)
    <2>1. [task[t] EXCEPT !.fair = FALSE] \in TaskType
      BY <1>1 DEF TaskType
    <2>2. detach_entity_load_avg(Updated(q), task[t].core) \in QueueType
      BY <1>1, <1>2, Detach
    <2> QED BY <1>1, <1>3, <1>5, <2>1, <2>2, StepTyped DEF switched_from_fair
  <1>6. CASE switched_to_fair(t)
    <2> DEFINE l == IF task[t].state = "queued"
                      THEN enqueue_entity_load_avg(Updated(q), task[t]) ELSE Updated(q)
    <2>1. [task[t] EXCEPT !.fair = TRUE, !.updated = TRUE] \in TaskType
      BY <1>1 DEF TaskType
    <2>2. l \in QueueType
      BY <1>1, <1>2, EnqueueTyped
    <2>3. SetQueue(q, attach_entity_load_avg(l, task[t].core))
      BY <1>6 DEF switched_to_fair
    <2> HIDE DEF l
    <2>4. attach_entity_load_avg(l, task[t].core) \in QueueType
      BY <1>1, <2>2, Attach
    <2> QED BY <1>1, <1>3, <1>6, <2>1, <2>3, <2>4, StepTyped DEF switched_to_fair
  <1>7. CASE task_move_group_fair(t, g)
    <2> DEFINE r == <<g, task[t].cpu>>
    <2>1. /\ [task[t] EXCEPT !.group = g, !.updated = TRUE] \in TaskType
          /\ [task[t] EXCEPT !.group = g] \in TaskType
      BY <1>1 DEF TaskType
    <2>2. r \in Queues
      BY <1>1 DEF TaskType, Queues
    <2>3. CASE task[t].fair
      <3>1. /\ detach_entity_load_avg(Updated(q), task[t].core) \in QueueType
            /\ attach_entity_load_avg(Updated(r), task[t].core) \in QueueType
        BY <1>1, <1>2, <2>2, UpdatedTyped, Attach, Detach
      <3>2. cfs_rq' = [cfs_rq EXCEPT ![q] = detach_entity_load_avg(Updated(q), task[t].core),
                                     ![r] = attach_entity_load_avg(Updated(r), task[t].core)]
        BY <1>7, <2>3 DEF task_move_group_fair
      <3>3. cfs_rq \in [Queues -> QueueType]
        BY DEF TypeOK, QueueType
      <3>4. cfs_rq' \in [Queues -> QueueType]
        BY <3>1, <3>2, <3>3
      <3>5. task' \in [Tasks -> TaskType]
        BY <1>7, <2>1, <2>3 DEF task_move_group_fair, Becomes, TypeOK, TaskType
      <3> QED BY <1>3, <3>4, <3>5 DEF TypeOK, TaskType, QueueType
    <2>4. CASE ~task[t].fair
      BY <1>3, <1>7, <2>1, <2>4, StepTyped DEF task_move_group_fair
    <2> QED BY <2>3, <2>4
  <1> QED BY <1>4, <1>5, <1>6, <1>7

\* ... and it holds at the start ...
LEMMA InitTyped == Init => TypeOK
  <1> SUFFICES ASSUME Init PROVE TypeOK
    OBVIOUS
  <1>1. None \in AvgType
    BY DEF None, AvgType
  <1>2. task \in [Tasks -> TaskType]
    BY DEF Init, TaskType, States
  <1>3. cfs_rq \in [Queues -> QueueType]
    BY <1>1 DEF Init, QueueType
  <1>4. pkshin_pemt_enabled \in BOOLEAN
    BY DEF Init
  <1>5. toggles = 0 /\ changes = 0
    BY DEF Init
  <1>6. toggles \in 0 .. MaxToggles /\ changes \in 0 .. MaxChanges
    BY <1>5, BoundAssumption
  <1> QED BY <1>2, <1>3, <1>4, <1>6 DEF TypeOK, TaskType, QueueType

\* ... and after every step.
LEMMA NextTyped == TypeOK /\ [Next]_vars => TypeOK'
  <1> SUFFICES ASSUME TypeOK, [Next]_vars PROVE TypeOK'
    OBVIOUS
  <1>1. CASE UNCHANGED vars
    BY <1>1 DEF vars, TypeOK
  <1>2. ASSUME NEW t \in Tasks, Wakeup(t) PROVE TypeOK'
    <2>1. CASE remove_entity_load_avg(t) \/ remove_entity_pemt(t)
      BY <2>1, RemoveTyped
    <2>2. CASE ttwu_queue(t) \/ sched_ttwu_pending(t)
      BY <2>2, ActivateTyped DEF ttwu_queue, sched_ttwu_pending
    <2>3. CASE ttwu_queue_remote(t)
      <3>1. [task[t] EXCEPT !.state = "listed"] \in TaskType
        BY TaskTyped DEF TaskType, States
      <3>2. /\ pkshin_pemt_enabled' = pkshin_pemt_enabled /\ toggles' = toggles
            /\ changes' \in 0 .. MaxChanges
        BY <2>3 DEF ttwu_queue_remote, unchangedBounds, TypeOK
      <3> QED BY <2>3, <3>1, <3>2, StepTyped DEF ttwu_queue_remote
    <2> QED BY <1>2, <2>1, <2>2, <2>3 DEF Wakeup
  <1>3. ASSUME NEW t \in Tasks,
               task_tick_fair(t) \/ dequeue_task_fair(t) \/ do_exit(t) \/ attach_task(t)
        PROVE  TypeOK'
    <2>1. \E c \in Cpus, g \in Groups : TRUE
      BY TaskTyped DEF TaskType
    <2>2. CASE task_tick_fair(t)
      BY <2>1, <2>2, LifeTyped
    <2>3. CASE dequeue_task_fair(t) \/ do_exit(t)
      BY <2>3, DeactivateTyped DEF dequeue_task_fair, do_exit, States
    <2>4. CASE attach_task(t)
      BY <2>4, ActivateTyped DEF attach_task
    <2> QED BY <1>3, <2>2, <2>3, <2>4
  <1>4. ASSUME NEW t \in Tasks, switched_from_fair(t) \/ switched_to_fair(t)
        PROVE  TypeOK'
    <2>1. \E c \in Cpus, g \in Groups : TRUE
      BY TaskTyped DEF TaskType
    <2> QED BY <1>4, <2>1, MoveTyped
  <1>5. ASSUME NEW t \in Tasks, NEW c \in Cpus,
               wake_up_new_task(t, c) \/ try_to_wake_up(t, c) \/ detach_task(t, c)
        PROVE  TypeOK'
    <2>1. \E g \in Groups : TRUE
      BY TaskTyped DEF TaskType
    <2> QED BY <1>5, <2>1, LifeTyped, MoveTyped
  <1>6. ASSUME NEW t \in Tasks, NEW g \in Groups,
               sched_fork(t, g) \/ task_move_group_fair(t, g)
        PROVE  TypeOK'
    <2>1. \E c \in Cpus : TRUE
      BY TaskTyped DEF TaskType
    <2> QED BY <1>6, <2>1, LifeTyped, MoveTyped
  <1>7. ASSUME NEW c \in Cpus, update_blocked_averages(c) PROVE TypeOK'
    <2>1. cfs_rq \in [Queues -> QueueType]
      BY DEF TypeOK, QueueType
    <2>2. cfs_rq' \in [Queues -> QueueType]
      BY <1>7, <2>1, UpdatedTyped DEF update_blocked_averages
    <2> QED BY <1>7, <2>2 DEF update_blocked_averages, unchangedBounds, TypeOK, QueueType
  <1>8. CASE pemt_module
    BY <1>8, BoundAssumption DEF pemt_module, TypeOK
  <1> QED BY <1>1, <1>2, <1>3, <1>4, <1>5, <1>6, <1>7, <1>8 DEF Next

\* No average of a cfs_rq ever wraps, and a task always belongs to one cfs_rq.
THEOREM AttachTypeCorrect == Spec => []TypeOK
  BY InitTyped, NextTyped, PTL DEF Spec

-----------------------------------------------------------------------------
(***************************************************************************)
(* Counting entities.                                                      *)
(***************************************************************************)

\* Two finite sets that differ in t at most.
LEMMA CountOne ==
  ASSUME NEW A, NEW B, IsFiniteSet(A), IsFiniteSet(B), NEW t, A \ {t} = B \ {t}
  PROVE  /\ Cardinality(A) \in Nat /\ Cardinality(B) \in Nat
         /\ t \in A => Cardinality(A) >= 1
         /\ Cardinality(B) = Cardinality(A) + (IF t \in B THEN 1 ELSE 0)
                                            - (IF t \in A THEN 1 ELSE 0)
  <1>1. /\ Cardinality(A) \in Nat /\ Cardinality(B) \in Nat
        /\ IsFiniteSet(A \ {t}) /\ Cardinality(A \ {t}) \in Nat
    BY FS_CardinalityType, FS_RemoveElement
  <1>2. /\ Cardinality(A \ {t}) = IF t \in A THEN Cardinality(A) - 1 ELSE Cardinality(A)
        /\ Cardinality(B \ {t}) = IF t \in B THEN Cardinality(B) - 1 ELSE Cardinality(B)
    BY FS_RemoveElement
  <1> QED BY <1>1, <1>2

\* A task p counts for its cfs_rq, as Entity says.
Counts(p) ==
  /\ p.fair
  /\ \/ p.state \in {"queued", "sleeping", "waking", "exiting"}
     \/ p.state \in {"new", "woken", "listed"} /\ p.updated
Weight(p, q) == IF QueueOf(p) = q /\ Counts(p) THEN 1 ELSE 0

\* What a cfs_rq l amounts to once its removed_*_avg are folded.
Balance(l) == l.avg.util - l.removed.util

\* The entities a cfs_rq counts are finitely many.
LEMMA EntitiesFinite ==
  ASSUME NEW q
  PROVE  IsFiniteSet(Entities(q)) /\ IsFiniteSet(Entities(q)')
  <1>1. Entities(q) \in SUBSET Tasks /\ Entities(q)' \in SUBSET Tasks
    BY DEF Entities
  <1> QED BY <1>1, SetsAssumption, FS_Subset

\* Which of them a task is.
LEMMA EntityCounts ==
  ASSUME NEW t \in Tasks, NEW q
  PROVE  /\ t \in Entities(q) <=> QueueOf(task[t]) = q /\ Counts(task[t])
         /\ t \in Entities(q)' <=> QueueOf(task'[t]) = q /\ Counts(task'[t])
  BY DEF Entities, Entity, Counts, QueueOf

\* The balance of a cfs_rq is at least the weight of each task on it, and it is
\* what update_load_avg leaves as the average.
LEMMA Refreshed ==
  ASSUME TypeOK, DirectSum, NEW q \in Queues, NEW t \in Tasks
  PROVE  /\ Updated(q) \in QueueType
         /\ Updated(q).removed.util = 0
         /\ Updated(q).avg.util = Balance(cfs_rq[q])
         /\ Balance(cfs_rq[q]) \in Nat
         /\ Balance(cfs_rq[q]) >= Weight(task[t], q)
  <1>1. cfs_rq[q] \in QueueType
    BY DEF TypeOK, QueueType
  <1>2. cfs_rq[q].avg.util \in Nat /\ cfs_rq[q].removed.util \in Nat
    BY <1>1 DEF QueueType, AvgType
  <1>3. Cardinality(Entities(q)) \in Nat
        /\ (t \in Entities(q) => Cardinality(Entities(q)) >= 1)
    BY EntitiesFinite, CountOne
  <1>4. cfs_rq[q].avg.util = cfs_rq[q].removed.util + Cardinality(Entities(q))
    BY DEF DirectSum
  <1>5. t \in Entities(q) <=> QueueOf(task[t]) = q /\ Counts(task[t])
    BY EntityCounts
  <1>6. /\ Updated(q) \in QueueType /\ Updated(q).removed.util = 0
        /\ Updated(q).avg.util = cfs_rq[q].avg.util - cfs_rq[q].removed.util
    BY <1>1, <1>2, <1>3, <1>4, Fold DEF Updated
  <1> QED BY <1>2, <1>3, <1>4, <1>5, <1>6 DEF Balance, Weight

\* A step of task t keeps the sums if every balance changes as t's weight does.
LEMMA StepKeepsSum ==
  ASSUME TypeOK, TypeOK', DirectSum, NEW t \in Tasks,
         \A u \in Tasks \ {t} : task'[u] = task[u],
         \A q \in Queues : Balance(cfs_rq'[q]) =
           Balance(cfs_rq[q]) + Weight(task'[t], q) - Weight(task[t], q)
  PROVE  DirectSum'
  <1> SUFFICES ASSUME NEW q \in Queues
               PROVE  cfs_rq'[q].avg.util =
                        cfs_rq'[q].removed.util + Cardinality(Entities(q)')
    BY DEF DirectSum
  <1>1. /\ cfs_rq[q].avg.util \in Nat /\ cfs_rq[q].removed.util \in Nat
        /\ cfs_rq'[q].avg.util \in Nat /\ cfs_rq'[q].removed.util \in Nat
    BY DEF TypeOK, AvgType
  <1>2. Entities(q) \ {t} = Entities(q)' \ {t}
    <2>1. \A u \in Tasks \ {t} : u \in Entities(q) <=> u \in Entities(q)'
      BY EntityCounts
    <2> QED BY <2>1 DEF Entities
  <1>3. /\ Cardinality(Entities(q)) \in Nat /\ Cardinality(Entities(q)') \in Nat
        /\ Cardinality(Entities(q)') = Cardinality(Entities(q))
             + (IF t \in Entities(q)' THEN 1 ELSE 0) - (IF t \in Entities(q) THEN 1 ELSE 0)
    BY <1>2, EntitiesFinite, CountOne
  <1>4. Cardinality(Entities(q)') =
          Cardinality(Entities(q)) + Weight(task'[t], q) - Weight(task[t], q)
    BY <1>3, EntityCounts DEF Weight
  <1>5. cfs_rq[q].avg.util = cfs_rq[q].removed.util + Cardinality(Entities(q))
    BY DEF DirectSum
  <1>6. Weight(task'[t], q) \in {0, 1} /\ Weight(task[t], q) \in {0, 1}
    BY DEF Weight
  <1> QED BY <1>1, <1>3, <1>4, <1>5, <1>6 DEF Balance

\* A step that sets task t and one cfs_rq r.
LEMMA OneQueueKeepsSum ==
  ASSUME TypeOK, TypeOK', DirectSum, NEW t \in Tasks, NEW p, NEW r \in Queues, NEW m,
         Becomes(t, p), SetQueue(r, m),
         Counts(task[t]) => QueueOf(task[t]) = r,
         Counts(p) => QueueOf(p) = r,
         Balance(m) = Balance(cfs_rq[r]) + (IF Counts(p) THEN 1 ELSE 0)
                                         - (IF Counts(task[t]) THEN 1 ELSE 0)
  PROVE  DirectSum'
  <1>1. task'[t] = p /\ \A u \in Tasks \ {t} : task'[u] = task[u]
    BY DEF Becomes, TypeOK
  <1>2. cfs_rq'[r] = m /\ \A q \in Queues \ {r} : cfs_rq'[q] = cfs_rq[q]
    BY DEF SetQueue, TypeOK
  <1>3. \A q \in Queues : Balance(cfs_rq[q]) \in Int
    BY DEF TypeOK, AvgType, Balance
  <1>4. ASSUME NEW q \in Queues
        PROVE  Balance(cfs_rq'[q]) =
                 Balance(cfs_rq[q]) + Weight(task'[t], q) - Weight(task[t], q)
    <2>1. CASE q = r
      BY <1>1, <1>2, <2>1 DEF Weight
    <2>2. CASE q # r
      <3>1. Weight(task'[t], q) = 0 /\ Weight(task[t], q) = 0
        BY <1>1, <2>2 DEF Weight
      <3> QED BY <1>2, <1>3, <2>2, <3>1
    <2> QED BY <2>1, <2>2
  <1> QED BY <1>1, <1>4, StepKeepsSum

\* A step that leaves every balance alone.
LEMMA NoQueueKeepsSum ==
  ASSUME TypeOK, TypeOK', DirectSum, NEW t \in Tasks, NEW p, Becomes(t, p),
         \A q \in Queues : Balance(cfs_rq'[q]) = Balance(cfs_rq[q]),
         Counts(p) <=> Counts(task[t]),
         Counts(p) => QueueOf(p) = QueueOf(task[t])
  PROVE  DirectSum'
  <1>1. task'[t] = p /\ \A u \in Tasks \ {t} : task'[u] = task[u]
    BY DEF Becomes, TypeOK
  <1>2. \A q \in Queues : Balance(cfs_rq[q]) \in Int
    BY DEF TypeOK, AvgType, Balance
  <1>3. \A q \in Queues : /\ Weight(task'[t], q) = Weight(task[t], q)
                          /\ Weight(task[t], q) \in {0, 1}
    BY <1>1 DEF Weight
  <1>4. \A q \in Queues : Balance(cfs_rq'[q]) =
          Balance(cfs_rq[q]) + Weight(task'[t], q) - Weight(task[t], q)
    BY <1>2, <1>3
  <1> QED BY <1>1, <1>4, StepKeepsSum

-----------------------------------------------------------------------------
(***************************************************************************)
(* Each step keeps the sums.                                               *)
(***************************************************************************)
LEMMA ActivateSum ==
  ASSUME TypeOK, TypeOK', AttachedInv, DirectSum, NEW t \in Tasks,
         task[t].state \in {"woken", "listed", "migrating"}, activate_task(t, task[t])
  PROVE  DirectSum'
  <1> DEFINE q == QueueOf(task[t])
  <1>1. task[t] \in TaskType /\ q \in Queues /\ task[t].core \in {0, 1}
    BY TaskTyped DEF TaskType
  <1>2. CASE task[t].fair
    <2> DEFINE p == [task[t] EXCEPT !.state = "queued", !.updated = TRUE]
               m == enqueue_entity_load_avg(Updated(q), task[t])
    <2>1. Becomes(t, p) /\ SetQueue(q, m)
      BY <1>2 DEF activate_task
    <2>2. Counts(p) /\ QueueOf(p) = q
      BY <1>1, <1>2 DEF Counts, QueueOf, TaskType
    <2>3. Counts(task[t]) <=> task[t].updated
      BY <1>1, <1>2 DEF Counts, TaskType, AttachedInv, Attached
    <2>4. /\ Updated(q) \in QueueType /\ Updated(q).removed.util = 0
          /\ Updated(q).avg.util = Balance(cfs_rq[q]) /\ Balance(cfs_rq[q]) \in Nat
      BY <1>1, Refreshed
    <2>5. Balance(m) = Balance(cfs_rq[q]) + (IF task[t].updated THEN 0 ELSE 1)
      BY <1>1, <2>4, Attach DEF enqueue_entity_load_avg, Balance
    <2>6. Balance(m) = Balance(cfs_rq[q]) + (IF Counts(p) THEN 1 ELSE 0)
                                          - (IF Counts(task[t]) THEN 1 ELSE 0)
      BY <2>2, <2>3, <2>4, <2>5
    <2> HIDE DEF p, m, q
    <2> QED BY <1>1, <2>1, <2>2, <2>6, OneQueueKeepsSum DEF q
  <1>3. CASE ~task[t].fair
    <2>1. ~Counts([task[t] EXCEPT !.state = "queued"]) /\ ~Counts(task[t])
      BY <1>1, <1>3 DEF Counts, TaskType
    <2> QED BY <1>3, <2>1, NoQueueKeepsSum DEF activate_task
  <1> QED BY <1>2, <1>3

\* A task that leaves takes along what it added.
LEMMA DeactivateSum ==
  ASSUME TypeOK, TypeOK', DirectSum, NEW t \in Tasks,
         dequeue_task_fair(t) \/ do_exit(t)
  PROVE  DirectSum'
  <1> DEFINE q == QueueOf(task[t])
  <1>1. task[t] \in TaskType /\ q \in Queues
    BY TaskTyped
  <1>2. PICK s \in {"sleeping", "exiting"} : deactivate_task(t, s)
    BY DEF dequeue_task_fair, do_exit
  <1> DEFINE p == [task[t] EXCEPT !.state = s]
  <1>3. /\ Becomes(t, p) /\ QueueOf(p) = q
        /\ Counts(p) <=> task[t].fair
        /\ Counts(task[t]) <=> task[t].fair
    BY <1>1, <1>2 DEF deactivate_task, Counts, QueueOf, TaskType
  <1>4. CASE task[t].fair
    <2>1. SetQueue(q, Updated(q))
      BY <1>2, <1>4 DEF deactivate_task
    <2>2. Balance(Updated(q)) = Balance(cfs_rq[q]) /\ Balance(cfs_rq[q]) \in Nat
      BY <1>1, Refreshed DEF Balance, QueueType, AvgType
    <2> HIDE DEF p
    <2> QED BY <1>1, <1>3, <1>4, <2>1, <2>2, OneQueueKeepsSum
  <1>5. CASE ~task[t].fair
    <2>1. cfs_rq' = cfs_rq
      BY <1>2, <1>5 DEF deactivate_task
    <2> HIDE DEF p
    <2> QED BY <1>3, <1>5, <2>1, NoQueueKeepsSum
  <1> QED BY <1>4, <1>5

\* First load and utilisation leave the entities, then nothing that counts.
LEMMA RemoveSum ==
  ASSUME TypeOK, TypeOK', AttachedInv, DirectSum, NEW t \in Tasks,
         remove_entity_load_avg(t) \/ remove_entity_pemt(t)
  PROVE  DirectSum'
  <1> DEFINE q == QueueOf(task[t])
  <1>1. task[t] \in TaskType /\ q \in Queues /\ cfs_rq[q] \in QueueType
    BY TaskTyped
  <1>2. cfs_rq[q].avg.util \in Nat /\ cfs_rq[q].removed.util \in Nat
    BY <1>1 DEF QueueType, AvgType
  <1>3. CASE remove_entity_load_avg(t)
    <2>1. PICK s \in {"removing", "dying", "dead"} :
            Becomes(t, [task[t] EXCEPT !.state = s])
      BY <1>3 DEF remove_entity_load_avg
    <2> DEFINE p == [task[t] EXCEPT !.state = s]
               m == [cfs_rq[q] EXCEPT !.removed.util = @ + 1]
    <2>2. ~Counts(p) /\ (Counts(task[t]) <=> task[t].fair)
      BY <1>1, <1>3, <2>1 DEF Counts, TaskType, remove_entity_load_avg
    <2>3. CASE task[t].fair
      <3>1. SetQueue(q, m)
        BY <1>1, <1>3, <2>3 DEF remove_entity_load_avg, SetQueue, TypeOK
      <3>2. Balance(m) = Balance(cfs_rq[q]) - 1
        BY <1>1, <1>2 DEF Balance, QueueType, AvgType
      <3>3. Balance(cfs_rq[q]) \in Int
        BY <1>2 DEF Balance
      <3> HIDE DEF p, m
      <3> QED BY <1>1, <2>1, <2>2, <2>3, <3>1, <3>2, <3>3, OneQueueKeepsSum DEF p
    <2>4. CASE ~task[t].fair
      <3>1. cfs_rq' = cfs_rq
        BY <1>3, <2>4 DEF remove_entity_load_avg
      <3> HIDE DEF p
      <3> QED BY <2>1, <2>2, <2>4, <3>1, NoQueueKeepsSum DEF p
    <2> QED BY <2>3, <2>4
  <1>4. CASE remove_entity_pemt(t)
    <2>1. PICK p \in {[task[t] EXCEPT !.state = "woken", !.cpu = task[t].dest,
                                      !.updated = FALSE],
                      [task[t] EXCEPT !.state = "dead"]} : Becomes(t, p)
      BY <1>4 DEF remove_entity_pemt
    <2>2. ~Counts(p) /\ ~Counts(task[t])
      BY <1>1, <1>4, <2>1 DEF Counts, TaskType, remove_entity_pemt
    <2>3. \A r \in Queues : Balance(cfs_rq'[r]) = Balance(cfs_rq[r])
      BY <1>1, <1>4 DEF remove_entity_pemt, Balance, TypeOK, AvgType
    <2> QED BY <2>1, <2>2, <2>3, NoQueueKeepsSum
  <1> QED BY <1>3, <1>4

\* A new task is attached once; the tick and the first half of a wakeup move
\* nothing.
LEMMA LifeSum ==
  ASSUME TypeOK, TypeOK', AttachedInv, DirectSum,
         NEW t \in Tasks, NEW c \in Cpus, NEW g \in Groups,
         \/ sched_fork(t, g) \/ wake_up_new_task(t, c) \/ task_tick_fair(t)
         \/ try_to_wake_up(t, c) \/ ttwu_queue_remote(t)
  PROVE  DirectSum'
  <1> DEFINE q == QueueOf(task[t])
  <1>1. task[t] \in TaskType /\ q \in Queues
    BY TaskTyped
  <1>2. CASE sched_fork(t, g)
    <2> DEFINE p == [task[t] EXCEPT !.state = "new", !.group = g]
    <2>1. ~Counts(p) /\ ~Counts(task[t])
      BY <1>1, <1>2 DEF Counts, TaskType, AttachedInv, Attached, sched_fork
    <2>2. Becomes(t, p) /\ cfs_rq' = cfs_rq
      BY <1>2 DEF sched_fork
    <2> HIDE DEF p
    <2> QED BY <2>1, <2>2, NoQueueKeepsSum
  <1>3. CASE wake_up_new_task(t, c)
    <2> DEFINE p == [task[t] EXCEPT !.state = "queued", !.cpu = c, !.dest = c,
                                    !.updated = TRUE, !.core = gated(1)]
               r == QueueOf(p)
               m == attach_entity_load_avg(Updated(r), p.core)
    <2>1. /\ p \in TaskType /\ p.core \in {0, 1}
          /\ ~Counts(task[t]) /\ (Counts(p) <=> p.fair)
      BY <1>1, <1>3 DEF TaskType, States, Counts, AttachedInv, Attached, wake_up_new_task, gated
    <2>2. Becomes(t, p) /\ (IF p.fair THEN SetQueue(r, m) ELSE cfs_rq' = cfs_rq)
      BY <1>3 DEF wake_up_new_task
    <2> HIDE DEF p
    <2>3. r \in Queues
      BY <2>1 DEF TaskType, QueueOf, Queues
    <2>4. /\ Updated(r) \in QueueType /\ Updated(r).removed.util = 0
          /\ Updated(r).avg.util = Balance(cfs_rq[r]) /\ Balance(cfs_rq[r]) \in Nat
      BY <2>3, Refreshed
    <2>5. Balance(m) = Balance(cfs_rq[r]) + 1
      BY <2>1, <2>4, Attach DEF Balance
    <2>6. CASE p.fair
      BY <2>1, <2>2, <2>3, <2>4, <2>5, <2>6, OneQueueKeepsSum
    <2>7. CASE ~p.fair
      BY <2>1, <2>2, <2>7, NoQueueKeepsSum
    <2> QED BY <2>6, <2>7
  <1>4. CASE task_tick_fair(t)
    <2> DEFINE p == [task[t] EXCEPT !.core = @ + gain(@)]
               m == [Updated(q) EXCEPT !.avg.core = @ + gain(task[t].core)]
    <2>1. Becomes(t, p) /\ SetQueue(q, m)
      BY <1>4 DEF task_tick_fair
    <2>2. Counts(p) /\ Counts(task[t]) /\ QueueOf(p) = q
      BY <1>1, <1>4 DEF task_tick_fair, Counts, QueueOf, TaskType
    <2>3. /\ Updated(q) \in QueueType /\ Updated(q).removed.util = 0
          /\ Updated(q).avg.util = Balance(cfs_rq[q]) /\ Balance(cfs_rq[q]) \in Nat
      BY <1>1, Refreshed
    <2>4. Balance(m) = Balance(cfs_rq[q])
      BY <2>3 DEF Balance, QueueType, AvgType
    <2> HIDE DEF p, m
    <2> QED BY <1>1, <2>1, <2>2, <2>3, <2>4, OneQueueKeepsSum
  <1>5. CASE try_to_wake_up(t, c)
    <2>1. PICK p \in {[task[t] EXCEPT !.state = "woken"],
                      [task[t] EXCEPT !.state = "waking", !.dest = c],
                      [task[t] EXCEPT !.state = "woken", !.cpu = c, !.dest = c]} :
            /\ Becomes(t, p)
            /\ task[t].fair => p.cpu = task[t].cpu
      BY <1>1, <1>5 DEF try_to_wake_up, TaskType
    <2>2. (Counts(p) <=> task[t].fair) /\ (Counts(task[t]) <=> task[t].fair)
      BY <1>1, <1>5, <2>1 DEF try_to_wake_up, Counts, TaskType, AttachedInv, Attached
    <2>3. task[t].fair => QueueOf(p) = q
      BY <1>1, <2>1 DEF QueueOf, TaskType
    <2>4. cfs_rq' = cfs_rq
      BY <1>5 DEF try_to_wake_up
    <2> QED BY <2>1, <2>2, <2>3, <2>4, NoQueueKeepsSum
  <1>6. CASE ttwu_queue_remote(t)
    <2> DEFINE p == [task[t] EXCEPT !.state = "listed"]
    <2>1. (Counts(p) <=> Counts(task[t])) /\ QueueOf(p) = q
      BY <1>1, <1>6 DEF ttwu_queue_remote, Counts, QueueOf, TaskType
    <2>2. Becomes(t, p) /\ cfs_rq' = cfs_rq
      BY <1>6 DEF ttwu_queue_remote
    <2> HIDE DEF p
    <2> QED BY <2>1, <2>2, NoQueueKeepsSum
  <1> QED BY <1>2, <1>3, <1>4, <1>5, <1>6

\* Balancing takes a task out of its average; a change of class or group of an
\* attached task takes it out, puts it in, or moves it.
LEMMA MoveSum ==
  ASSUME ~Unattached, TypeOK, TypeOK', AttachedInv, DirectSum,
         NEW t \in Tasks, NEW c \in Cpus, NEW g \in Groups,
         \/ detach_task(t, c) \/ switched_from_fair(t) \/ switched_to_fair(t)
         \/ task_move_group_fair(t, g)
  PROVE  DirectSum'
  <1> DEFINE q == QueueOf(task[t])
  <1>1. task[t] \in TaskType /\ q \in Queues /\ task[t].core \in {0, 1}
    BY TaskTyped DEF TaskType
  <1>2. /\ Updated(q) \in QueueType /\ Updated(q).removed.util = 0
        /\ Updated(q).avg.util = Balance(cfs_rq[q]) /\ Balance(cfs_rq[q]) \in Nat
        /\ Balance(cfs_rq[q]) >= Weight(task[t], q)
    BY <1>1, Refreshed
  <1>3. Counts(task[t]) => Balance(cfs_rq[q]) >= 1
    BY <1>2 DEF Weight
  <1>4. CASE detach_task(t, c)
    <2> DEFINE p == [task[t] EXCEPT !.state = "migrating", !.cpu = c, !.dest = c,
                                    !.updated = FALSE]
               m == [Updated(q) EXCEPT !.removed.util = @ + 1,
                                       !.removed.core = @ + gated(task[t].core)]
    <2>1. Becomes(t, p) /\ SetQueue(q, m)
      BY <1>4 DEF detach_task
    <2>2. Counts(task[t]) /\ ~Counts(p)
      BY <1>1, <1>4 DEF detach_task, Counts, TaskType
    <2>3. Balance(m) = Balance(cfs_rq[q]) - 1
      <3>1. gated(task[t].core) \in Nat
        BY <1>1, GatedType
      <3>2. m.avg = Updated(q).avg /\ m.removed.util = Updated(q).removed.util + 1
        BY <1>2, <3>1, Removal
      <3> HIDE DEF m
      <3> QED BY <1>2, <3>2 DEF Balance
    <2> HIDE DEF p, m
    <2> QED BY <1>1, <1>2, <2>1, <2>2, <2>3, OneQueueKeepsSum
  <1>5. CASE switched_from_fair(t)
    <2> DEFINE p == [task[t] EXCEPT !.fair = FALSE]
               m == detach_entity_load_avg(Updated(q), task[t].core)
    <2>1. Becomes(t, p) /\ SetQueue(q, m)
      BY <1>5 DEF switched_from_fair
    <2>2. Counts(task[t]) /\ ~Counts(p)
      BY <1>1, <1>5 DEF switched_from_fair, CanChange, Counts, TaskType
    <2>3. Balance(m) = Balance(cfs_rq[q]) - 1
      BY <1>1, <1>2, <1>3, <2>2, Detach DEF Balance
    <2> HIDE DEF p, m
    <2> QED BY <1>1, <1>2, <2>1, <2>2, <2>3, OneQueueKeepsSum
  <1>6. CASE switched_to_fair(t)
    <2> DEFINE p == [task[t] EXCEPT !.fair = TRUE, !.updated = TRUE]
               m == attach_entity_load_avg(Updated(q), task[t].core)
    <2>1. task[t].state \in {"sleeping", "queued"} /\ task[t].updated /\ ~task[t].fair
      BY <1>6 DEF switched_to_fair, CanChange, AttachedInv, Attached
    <2>2. Becomes(t, p) /\ SetQueue(q, m)
      BY <1>6, <2>1 DEF switched_to_fair, enqueue_entity_load_avg
    <2>3. ~Counts(task[t]) /\ Counts(p) /\ QueueOf(p) = q
      BY <1>1, <2>1 DEF Counts, QueueOf, TaskType
    <2>4. Balance(m) = Balance(cfs_rq[q]) + 1
      BY <1>1, <1>2, Attach DEF Balance
    <2> HIDE DEF p, m
    <2> QED BY <1>1, <1>2, <2>2, <2>3, <2>4, OneQueueKeepsSum
  <1>7. CASE task_move_group_fair(t, g) /\ ~task[t].fair
    <2> DEFINE p == [task[t] EXCEPT !.group = g]
    <2>1. Becomes(t, p) /\ cfs_rq' = cfs_rq
      BY <1>7 DEF task_move_group_fair
    <2>2. ~Counts(p) /\ ~Counts(task[t])
      BY <1>1, <1>7 DEF Counts, TaskType
    <2> HIDE DEF p
    <2> QED BY <2>1, <2>2, NoQueueKeepsSum
  <1>8. CASE task_move_group_fair(t, g) /\ task[t].fair
    <2> DEFINE p == [task[t] EXCEPT !.group = g, !.updated = TRUE]
               r == <<g, task[t].cpu>>
               m == detach_entity_load_avg(Updated(q), task[t].core)
               n == attach_entity_load_avg(Updated(r), task[t].core)
    <2>1. Becomes(t, p) /\ cfs_rq' = [cfs_rq EXCEPT ![q] = m, ![r] = n]
      BY <1>8 DEF task_move_group_fair
    <2>2. r \in Queues /\ q # r
      BY <1>1, <1>8 DEF task_move_group_fair, Queues, QueueOf, TaskType
    <2>3. Counts(task[t]) /\ Counts(p) /\ QueueOf(p) = r
      BY <1>1, <1>8 DEF task_move_group_fair, CanChange, Counts, QueueOf, TaskType
    <2>4. Balance(m) = Balance(cfs_rq[q]) - 1
      BY <1>1, <1>2, <1>3, <2>3, Detach DEF Balance
    <2>5. Balance(n) = Balance(cfs_rq[r]) + 1
      <3>1. /\ Updated(r) \in QueueType /\ Updated(r).removed.util = 0
            /\ Updated(r).avg.util = Balance(cfs_rq[r]) /\ Balance(cfs_rq[r]) \in Nat
        BY <2>2, Refreshed
      <3> QED BY <1>1, <3>1, Attach DEF Balance
    <2> HIDE DEF p, m, n
    <2>6. task'[t] = p /\ \A u \in Tasks \ {t} : task'[u] = task[u]
      BY <2>1 DEF Becomes, TypeOK
    <2>7. cfs_rq'[q] = m /\ cfs_rq'[r] = n
          /\ \A x \in Queues \ {q, r} : cfs_rq'[x] = cfs_rq[x]
      BY <1>1, <2>1, <2>2 DEF TypeOK
    <2>8. \A x \in Queues : Balance(cfs_rq[x]) \in Int
      BY DEF TypeOK, AvgType, Balance
    <2>9. \A x \in Queues : /\ Weight(task'[t], x) = IF x = r THEN 1 ELSE 0
                            /\ Weight(task[t], x) = IF x = q THEN 1 ELSE 0
      BY <2>3, <2>6 DEF Weight
    <2> HIDE DEF q, r
    <2>10. \A x \in Queues : Balance(cfs_rq'[x]) =
             Balance(cfs_rq[x]) + Weight(task'[t], x) - Weight(task[t], x)
      BY <2>2, <2>4, <2>5, <2>7, <2>8, <2>9
    <2> QED BY <2>6, <2>10, StepKeepsSum
  <1> QED BY <1>4, <1>5, <1>6, <1>7, <1>8

-----------------------------------------------------------------------------
(***************************************************************************)
(* Where last_update_time is set.                                          *)
(***************************************************************************)
LEMMA AttachedStep ==
  ASSUME TypeOK, AttachedInv, NEW t \in Tasks, NEW p, Becomes(t, p), Attached(p)
  PROVE  AttachedInv'
  <1>1. task'[t] = p /\ \A u \in Tasks \ {t} : task'[u] = task[u]
    BY DEF Becomes, TypeOK
  <1> QED BY <1>1 DEF AttachedInv, Attached

\* Every step keeps the attachment consistent ...
LEMMA AttachedNext ==
  ~Unattached /\ TypeOK /\ AttachedInv /\ [Next]_vars => AttachedInv'
  <1> SUFFICES ASSUME ~Unattached, TypeOK, AttachedInv, [Next]_vars PROVE AttachedInv'
    OBVIOUS
  <1>1. \A t \in Tasks : task[t] \in TaskType /\ Attached(task[t])
    BY TaskTyped DEF AttachedInv, Attached
  <1>2. ASSUME UNCHANGED task PROVE AttachedInv'
    BY <1>2 DEF AttachedInv, Attached
  <1>3. ASSUME NEW t \in Tasks, NEW s \in {"woken", "listed", "migrating"},
               task[t].state = s, activate_task(t, task[t])
        PROVE  AttachedInv'
    <2>1. /\ task[t].fair => Attached([task[t] EXCEPT !.state = "queued", !.updated = TRUE])
          /\ ~task[t].fair => Attached([task[t] EXCEPT !.state = "queued"])
      BY <1>1, <1>3 DEF Attached, TaskType
    <2> QED BY <1>3, <2>1, AttachedStep DEF activate_task
  <1>4. ASSUME NEW t \in Tasks, Wakeup(t) PROVE AttachedInv'
    <2>1. CASE remove_entity_load_avg(t)
      <3>1. /\ task[t].state = "waking" => Attached([task[t] EXCEPT !.state = "removing"])
            /\ task[t].state = "exiting" /\ task[t].fair =>
                 Attached([task[t] EXCEPT !.state = "dying"])
            /\ Attached([task[t] EXCEPT !.state = "dead"])
        BY <1>1 DEF Attached, TaskType
      <3> QED BY <2>1, <3>1, AttachedStep DEF remove_entity_load_avg
    <2>2. CASE remove_entity_pemt(t)
      <3>1. /\ task[t].state = "removing" =>
                 Attached([task[t] EXCEPT !.state = "woken", !.cpu = task[t].dest,
                                          !.updated = FALSE])
            /\ Attached([task[t] EXCEPT !.state = "dead"])
        BY <1>1 DEF Attached, TaskType
      <3> QED BY <2>2, <3>1, AttachedStep DEF remove_entity_pemt
    <2>3. CASE ttwu_queue(t) \/ sched_ttwu_pending(t)
      BY <1>3, <2>3 DEF ttwu_queue, sched_ttwu_pending
    <2>4. CASE ttwu_queue_remote(t)
      <3>1. task[t].state = "woken" => Attached([task[t] EXCEPT !.state = "listed"])
        BY <1>1 DEF Attached, TaskType
      <3> QED BY <2>4, <3>1, AttachedStep DEF ttwu_queue_remote
    <2> QED BY <1>4, <2>1, <2>2, <2>3, <2>4 DEF Wakeup
  <1>5. ASSUME NEW t \in Tasks,
               task_tick_fair(t) \/ dequeue_task_fair(t) \/ do_exit(t) \/ attach_task(t)
        PROVE  AttachedInv'
    <2>1. CASE task_tick_fair(t)
      <3>1. Attached([task[t] EXCEPT !.core = @ + gain(@)])
        BY <1>1 DEF Attached, TaskType
      <3> QED BY <2>1, <3>1, AttachedStep DEF task_tick_fair
    <2>2. CASE dequeue_task_fair(t) \/ do_exit(t)
      <3>1. task[t].state = "queued" => /\ Attached([task[t] EXCEPT !.state = "sleeping"])
                                        /\ Attached([task[t] EXCEPT !.state = "exiting"])
        BY <1>1 DEF Attached, TaskType
      <3> QED BY <2>2, <3>1, AttachedStep DEF dequeue_task_fair, do_exit, deactivate_task
    <2>3. CASE attach_task(t)
      BY <1>3, <2>3 DEF attach_task
    <2> QED BY <1>5, <2>1, <2>2, <2>3
  <1>6. ASSUME NEW t \in Tasks, switched_from_fair(t) \/ switched_to_fair(t)
        PROVE  AttachedInv'
    <2>1. task[t].state \in {"sleeping", "queued"}
      BY <1>6 DEF switched_from_fair, switched_to_fair, CanChange
    <2>2. /\ Attached([task[t] EXCEPT !.fair = FALSE])
          /\ Attached([task[t] EXCEPT !.fair = TRUE, !.updated = TRUE])
      BY <1>1, <2>1 DEF Attached, TaskType
    <2> QED BY <1>6, <2>2, AttachedStep DEF switched_from_fair, switched_to_fair
  <1>7. ASSUME NEW t \in Tasks, NEW c \in Cpus,
               wake_up_new_task(t, c) \/ try_to_wake_up(t, c) \/ detach_task(t, c)
        PROVE  AttachedInv'
    <2>1. CASE wake_up_new_task(t, c)
      <3>1. Attached([task[t] EXCEPT !.state = "queued", !.cpu = c, !.dest = c,
                                     !.updated = TRUE, !.core = gated(1)])
        BY <1>1 DEF Attached, TaskType
      <3> QED BY <2>1, <3>1, AttachedStep DEF wake_up_new_task
    <2>2. CASE try_to_wake_up(t, c)
      <3>1. task[t].state = "sleeping" =>
              /\ Attached([task[t] EXCEPT !.state = "woken"])
              /\ task[t].fair => Attached([task[t] EXCEPT !.state = "waking", !.dest = c])
              /\ Attached([task[t] EXCEPT !.state = "woken", !.cpu = c, !.dest = c])
        BY <1>1 DEF Attached, TaskType
      <3> QED BY <2>2, <3>1, AttachedStep DEF try_to_wake_up
    <2>3. CASE detach_task(t, c)
      <3>1. task[t].fair => Attached([task[t] EXCEPT !.state = "migrating", !.cpu = c,
                                                     !.dest = c, !.updated = FALSE])
        BY <1>1 DEF Attached, TaskType
      <3> QED BY <2>3, <3>1, AttachedStep DEF detach_task
    <2> QED BY <1>7, <2>1, <2>2, <2>3
  <1>8. ASSUME NEW t \in Tasks, NEW g \in Groups,
               sched_fork(t, g) \/ task_move_group_fair(t, g)
        PROVE  AttachedInv'
    <2>1. CASE sched_fork(t, g)
      <3>1. task[t].state = "none" => Attached([task[t] EXCEPT !.state = "new", !.group = g])
        BY <1>1 DEF Attached, TaskType
      <3> QED BY <2>1, <3>1, AttachedStep DEF sched_fork
    <2>2. CASE task_move_group_fair(t, g)
      <3>1. task[t].state \in {"sleeping", "queued"}
        BY <2>2 DEF task_move_group_fair, CanChange
      <3>2. /\ Attached([task[t] EXCEPT !.group = g, !.updated = TRUE])
            /\ Attached([task[t] EXCEPT !.group = g])
        BY <1>1, <3>1 DEF Attached, TaskType
      <3> QED BY <2>2, <3>2, AttachedStep DEF task_move_group_fair
    <2> QED BY <1>8, <2>1, <2>2
  <1>9. ASSUME NEW c \in Cpus, update_blocked_averages(c) PROVE AttachedInv'
    BY <1>2, <1>9 DEF update_blocked_averages
  <1>10. CASE pemt_module
    BY <1>2, <1>10 DEF pemt_module
  <1>11. CASE UNCHANGED vars
    BY <1>2, <1>11 DEF vars
  <1> QED BY <1>4, <1>5, <1>6, <1>7, <1>8, <1>9, <1>10, <1>11 DEF Next

-----------------------------------------------------------------------------
\* A step that sets no task and no balance keeps the sums.
LEMMA IdleKeepsSum ==
  ASSUME TypeOK, TypeOK', DirectSum, UNCHANGED task,
         \A q \in Queues : Balance(cfs_rq'[q]) = Balance(cfs_rq[q])
  PROVE  DirectSum'
  <1> SUFFICES ASSUME NEW q \in Queues
               PROVE  cfs_rq'[q].avg.util =
                        cfs_rq'[q].removed.util + Cardinality(Entities(q)')
    BY DEF DirectSum
  <1>1. /\ cfs_rq[q].avg.util \in Nat /\ cfs_rq[q].removed.util \in Nat
        /\ cfs_rq'[q].avg.util \in Nat /\ cfs_rq'[q].removed.util \in Nat
    BY DEF TypeOK, AvgType
  <1>2. Entities(q)' = Entities(q)
    BY DEF Entities, Entity, QueueOf
  <1>3. Cardinality(Entities(q)) \in Nat
    BY EntitiesFinite, FS_CardinalityType
  <1>4. cfs_rq[q].avg.util = cfs_rq[q].removed.util + Cardinality(Entities(q))
    BY DEF DirectSum
  <1> QED BY <1>1, <1>2, <1>3, <1>4 DEF Balance

\* Every cfs_rq starts empty.
LEMMA InitSum == Init => AttachedInv /\ DirectSum
  <1> SUFFICES ASSUME Init PROVE AttachedInv /\ DirectSum
    OBVIOUS
  <1>1. \A t \in Tasks : task[t].state = "none" /\ ~task[t].updated
    BY DEF Init
  <1>2. AttachedInv
    BY <1>1 DEF AttachedInv, Attached
  <1>3. ASSUME NEW q \in Queues
        PROVE  cfs_rq[q].avg.util = cfs_rq[q].removed.util + Cardinality(Entities(q))
    <2>1. Entities(q) = {}
      BY <1>1 DEF Entities, Entity
    <2>2. cfs_rq[q].avg.util = 0 /\ cfs_rq[q].removed.util = 0
      BY DEF Init, None
    <2> QED BY <2>1, <2>2, FS_EmptySet
  <1> QED BY <1>2, <1>3 DEF DirectSum

\* ... and the average the sum of its entities.
LEMMA SumNext ==
  ~Unattached /\ TypeOK /\ TypeOK' /\ AttachedInv /\ DirectSum /\ [Next]_vars => DirectSum'
  <1> SUFFICES ASSUME ~Unattached, TypeOK, TypeOK', AttachedInv, DirectSum, [Next]_vars
               PROVE  DirectSum'
    OBVIOUS
  <1>1. ASSUME NEW t \in Tasks PROVE \E c \in Cpus, g \in Groups : TRUE
    BY TaskTyped DEF TaskType
  <1>2. ASSUME NEW t \in Tasks, Wakeup(t) PROVE DirectSum'
    <2>1. CASE remove_entity_load_avg(t) \/ remove_entity_pemt(t)
      BY <2>1, RemoveSum
    <2>2. CASE ttwu_queue(t) \/ sched_ttwu_pending(t)
      BY <2>2, ActivateSum DEF ttwu_queue, sched_ttwu_pending
    <2>3. CASE ttwu_queue_remote(t)
      BY <1>1, <2>3, LifeSum
    <2> QED BY <1>2, <2>1, <2>2, <2>3 DEF Wakeup
  <1>3. ASSUME NEW t \in Tasks,
               task_tick_fair(t) \/ dequeue_task_fair(t) \/ do_exit(t) \/ attach_task(t)
        PROVE  DirectSum'
    <2>1. CASE task_tick_fair(t)
      BY <1>1, <2>1, LifeSum
    <2>2. CASE dequeue_task_fair(t) \/ do_exit(t)
      BY <2>2, DeactivateSum
    <2>3. CASE attach_task(t)
      BY <2>3, ActivateSum DEF attach_task
    <2> QED BY <1>3, <2>1, <2>2, <2>3
  <1>4. ASSUME NEW t \in Tasks, switched_from_fair(t) \/ switched_to_fair(t)
        PROVE  DirectSum'
    BY <1>1, <1>4, MoveSum
  <1>5. ASSUME NEW t \in Tasks, NEW c \in Cpus,
               wake_up_new_task(t, c) \/ try_to_wake_up(t, c) \/ detach_task(t, c)
        PROVE  DirectSum'
    BY <1>1, <1>5, LifeSum, MoveSum
  <1>6. ASSUME NEW t \in Tasks, NEW g \in Groups,
               sched_fork(t, g) \/ task_move_group_fair(t, g)
        PROVE  DirectSum'
    BY <1>1, <1>6, LifeSum, MoveSum
  <1>7. ASSUME NEW c \in Cpus, update_blocked_averages(c) PROVE DirectSum'
    <2>1. ASSUME NEW q \in Queues PROVE Balance(Updated(q)) = Balance(cfs_rq[q])
      <3>1. /\ cfs_rq[q] \in QueueType
            /\ cfs_rq[q].avg.util \in Nat /\ cfs_rq[q].removed.util \in Nat
        BY DEF TypeOK, QueueType, AvgType
      <3>2. Cardinality(Entities(q)) \in Nat
        BY EntitiesFinite, FS_CardinalityType
      <3>3. cfs_rq[q].removed.util <= cfs_rq[q].avg.util
        BY <3>1, <3>2 DEF DirectSum
      <3> QED BY <3>1, <3>3, Fold DEF Updated, Balance
    <2>2. \A q \in Queues : cfs_rq'[q] = Updated(q) \/ cfs_rq'[q] = cfs_rq[q]
      BY <1>7 DEF update_blocked_averages
    <2>3. \A q \in Queues : Balance(cfs_rq'[q]) = Balance(cfs_rq[q])
      BY <2>1, <2>2
    <2> QED BY <1>7, <2>3, IdleKeepsSum DEF update_blocked_averages
  <1>8. CASE pemt_module
    BY <1>8, IdleKeepsSum DEF pemt_module
  <1>9. CASE UNCHANGED vars
    BY <1>9, IdleKeepsSum DEF vars
  <1> QED BY <1>2, <1>3, <1>4, <1>5, <1>6, <1>7, <1>8, <1>9 DEF Next

\* The load and utilisation of a cfs_rq are the direct sum of its entities, through
\* any number of forks, exits, lock-free migrations, balancing moves and changes of
\* class and group, if only attached tasks make such a change.
THEOREM AttachedIsDirectSum == ~Unattached => (Spec => []DirectSum)
  <1> SUFFICES ASSUME ~Unattached PROVE Spec => []DirectSum
    OBVIOUS
  <1>1. Init => TypeOK /\ AttachedInv /\ DirectSum
    BY InitTyped, InitSum
  <1>2. TypeOK /\ AttachedInv /\ DirectSum /\ [Next]_vars
          => TypeOK' /\ AttachedInv' /\ DirectSum'
    BY NextTyped, AttachedNext, SumNext
  <1> QED BY <1>1, <1>2, PTL DEF Spec

-----------------------------------------------------------------------------
(***************************************************************************)
(* Core and memory utilisation.  Until the pemt module is loaded nothing   *)
(* has any; while it is loaded the gates are open.  One load is assumed,   *)
(* and one unload: what the gates leave behind after that stays.           *)
(***************************************************************************)
CoreCounts(p) ==
  /\ p.fair /\ p.core = 1
  /\ \/ p.state \in {"queued", "sleeping", "waking", "removing", "exiting", "dying"}
     \/ p.state \in {"new", "woken", "listed"} /\ p.updated
CoreWeight(p, q) == IF QueueOf(p) = q /\ CoreCounts(p) THEN 1 ELSE 0
CoreBalance(l)   == l.avg.core - l.removed.core

\* Nothing has core utilisation.
BlankQueue(l) == l.avg.core = 0 /\ l.removed.core = 0
Blank == /\ \A t \in Tasks : task[t].core = 0
         /\ \A q \in Queues : BlankQueue(cfs_rq[q])

CoreSum == \A q \in Queues :
  cfs_rq[q].avg.core = cfs_rq[q].removed.core + Cardinality(CoreEntities(q))

\* The load is the first toggle, the unload the second.
ToggleInv == pkshin_pemt_enabled <=> toggles = 1
CoreInv   == ToggleInv /\ (toggles = 0 => Blank) /\ (toggles = 1 => CoreSum)

\* The entities with core utilisation are finitely many.
LEMMA CoreFinite ==
  ASSUME NEW q
  PROVE  IsFiniteSet(CoreEntities(q)) /\ IsFiniteSet(CoreEntities(q)')
  <1>1. CoreEntities(q) \in SUBSET Tasks /\ CoreEntities(q)' \in SUBSET Tasks
    BY DEF CoreEntities
  <1> QED BY <1>1, SetsAssumption, FS_Subset

\* Which of them a task is.
LEMMA CoreEntityCounts ==
  ASSUME NEW t \in Tasks, NEW q
  PROVE  /\ t \in CoreEntities(q) <=> QueueOf(task[t]) = q /\ CoreCounts(task[t])
         /\ t \in CoreEntities(q)' <=> QueueOf(task'[t]) = q /\ CoreCounts(task'[t])
  BY DEF CoreEntities, Entity, CoreCounts, QueueOf

\* An open gate: what update_load_avg leaves as the average is the balance, and there is
\* enough of it to take a task out.
LEMMA CoreRefreshed ==
  ASSUME TypeOK, pkshin_pemt_enabled, CoreSum, NEW q \in Queues
  PROVE  /\ Updated(q) \in QueueType
         /\ Updated(q).removed.core = 0
         /\ Updated(q).avg.core = CoreBalance(cfs_rq[q])
         /\ CoreBalance(cfs_rq[q]) \in Nat
         /\ \A t \in Tasks : CoreWeight(task[t], q) <= CoreBalance(cfs_rq[q])
  <1> DEFINE l == cfs_rq[q]
  <1>1. l \in QueueType
    BY DEF TypeOK, QueueType
  <1>2. /\ l.avg.core \in Nat /\ l.removed.core \in Nat
        /\ l.avg.util \in Nat /\ l.removed.util \in Nat
    BY <1>1 DEF QueueType, AvgType
  <1>3. Cardinality(CoreEntities(q)) \in Nat
        /\ \A t \in Tasks : t \in CoreEntities(q) => Cardinality(CoreEntities(q)) >= 1
    BY CoreFinite, CountOne
  <1>4. l.avg.core = l.removed.core + Cardinality(CoreEntities(q))
    BY DEF CoreSum
  <1>5. gated(l.removed.core) = l.removed.core
    BY DEF gated
  <1>6. sub_positive(l.avg.core, l.removed.core) = l.avg.core - l.removed.core
    <2>1. l.removed.core <= l.avg.core
      BY <1>2, <1>3, <1>4
    <2> QED BY <1>2, <2>1 DEF sub_positive
  <1>7. Updated(q) \in QueueType
    BY <1>1, Fold DEF Updated
  <1>8. Updated(q).removed.core = 0 /\ Updated(q).avg.core = CoreBalance(l)
    BY <1>2, <1>5, <1>6 DEF Updated, update_cfs_rq_load_avg, CoreBalance
  <1>9. CoreBalance(l) = Cardinality(CoreEntities(q))
    BY <1>2, <1>3, <1>4 DEF CoreBalance
  <1>10. \A t \in Tasks : CoreWeight(task[t], q) <= CoreBalance(l)
    BY <1>3, <1>9, CoreEntityCounts DEF CoreWeight
  <1> QED BY <1>3, <1>7, <1>8, <1>9, <1>10

\* A step of task t keeps the sums if every balance changes as t's weight does.
LEMMA StepKeepsCore ==
  ASSUME TypeOK, TypeOK', CoreSum, NEW t \in Tasks,
         \A u \in Tasks \ {t} : task'[u] = task[u],
         \A q \in Queues : CoreBalance(cfs_rq'[q]) =
           CoreBalance(cfs_rq[q]) + CoreWeight(task'[t], q) - CoreWeight(task[t], q)
  PROVE  CoreSum'
  <1> SUFFICES ASSUME NEW q \in Queues
               PROVE  cfs_rq'[q].avg.core =
                        cfs_rq'[q].removed.core + Cardinality(CoreEntities(q)')
    BY DEF CoreSum
  <1>1. /\ cfs_rq[q].avg.core \in Nat /\ cfs_rq[q].removed.core \in Nat
        /\ cfs_rq'[q].avg.core \in Nat /\ cfs_rq'[q].removed.core \in Nat
    BY DEF TypeOK, AvgType
  <1>2. CoreEntities(q) \ {t} = CoreEntities(q)' \ {t}
    <2>1. \A u \in Tasks \ {t} : u \in CoreEntities(q) <=> u \in CoreEntities(q)'
      BY CoreEntityCounts
    <2> QED BY <2>1 DEF CoreEntities
  <1>3. /\ Cardinality(CoreEntities(q)) \in Nat /\ Cardinality(CoreEntities(q)') \in Nat
        /\ Cardinality(CoreEntities(q)') = Cardinality(CoreEntities(q))
             + (IF t \in CoreEntities(q)' THEN 1 ELSE 0) - (IF t \in CoreEntities(q) THEN 1 ELSE 0)
    BY <1>2, CoreFinite, CountOne
  <1>4. Cardinality(CoreEntities(q)') =
          Cardinality(CoreEntities(q)) + CoreWeight(task'[t], q) - CoreWeight(task[t], q)
    BY <1>3, CoreEntityCounts DEF CoreWeight
  <1>5. cfs_rq[q].avg.core = cfs_rq[q].removed.core + Cardinality(CoreEntities(q))
    BY DEF CoreSum
  <1>6. CoreWeight(task'[t], q) \in {0, 1} /\ CoreWeight(task[t], q) \in {0, 1}
    BY DEF CoreWeight
  <1> QED BY <1>1, <1>3, <1>4, <1>5, <1>6 DEF CoreBalance

\* A step that sets task t and one cfs_rq r.
LEMMA OneQueueKeepsCore ==
  ASSUME TypeOK, TypeOK', CoreSum, NEW t \in Tasks, NEW p, NEW r \in Queues, NEW m,
         Becomes(t, p), SetQueue(r, m),
         CoreCounts(task[t]) => QueueOf(task[t]) = r,
         CoreCounts(p) => QueueOf(p) = r,
         CoreBalance(m) = CoreBalance(cfs_rq[r]) + (IF CoreCounts(p) THEN 1 ELSE 0)
                                                 - (IF CoreCounts(task[t]) THEN 1 ELSE 0)
  PROVE  CoreSum'
  <1>1. task'[t] = p /\ \A u \in Tasks \ {t} : task'[u] = task[u]
    BY DEF Becomes, TypeOK
  <1>2. cfs_rq'[r] = m /\ \A q \in Queues \ {r} : cfs_rq'[q] = cfs_rq[q]
    BY DEF SetQueue, TypeOK
  <1>3. \A q \in Queues : CoreBalance(cfs_rq[q]) \in Int
    BY DEF TypeOK, AvgType, CoreBalance
  <1>4. ASSUME NEW q \in Queues
        PROVE  CoreBalance(cfs_rq'[q]) =
                 CoreBalance(cfs_rq[q]) + CoreWeight(task'[t], q) - CoreWeight(task[t], q)
    <2>1. CASE q = r
      BY <1>1, <1>2, <2>1 DEF CoreWeight
    <2>2. CASE q # r
      <3>1. CoreWeight(task'[t], q) = 0 /\ CoreWeight(task[t], q) = 0
        BY <1>1, <2>2 DEF CoreWeight
      <3> QED BY <1>2, <1>3, <2>2, <3>1
    <2> QED BY <2>1, <2>2
  <1> QED BY <1>1, <1>4, StepKeepsCore

\* A step that leaves every balance alone.
LEMMA NoQueueKeepsCore ==
  ASSUME TypeOK, TypeOK', CoreSum, NEW t \in Tasks, NEW p, Becomes(t, p),
         \A q \in Queues : CoreBalance(cfs_rq'[q]) = CoreBalance(cfs_rq[q]),
         CoreCounts(p) <=> CoreCounts(task[t]),
         CoreCounts(p) => QueueOf(p) = QueueOf(task[t])
  PROVE  CoreSum'
  <1>1. task'[t] = p /\ \A u \in Tasks \ {t} : task'[u] = task[u]
    BY DEF Becomes, TypeOK
  <1>2. \A q \in Queues : CoreBalance(cfs_rq[q]) \in Int
    BY DEF TypeOK, AvgType, CoreBalance
  <1>3. \A q \in Queues : /\ CoreWeight(task'[t], q) = CoreWeight(task[t], q)
                          /\ CoreWeight(task[t], q) \in {0, 1}
    BY <1>1 DEF CoreWeight
  <1>4. \A q \in Queues : CoreBalance(cfs_rq'[q]) =
          CoreBalance(cfs_rq[q]) + CoreWeight(task'[t], q) - CoreWeight(task[t], q)
    BY <1>2, <1>3
  <1> QED BY <1>1, <1>4, StepKeepsCore

\* A step that sets no task and no balance.
LEMMA IdleKeepsCore ==
  ASSUME TypeOK, TypeOK', CoreSum, UNCHANGED task,
         \A q \in Queues : CoreBalance(cfs_rq'[q]) = CoreBalance(cfs_rq[q])
  PROVE  CoreSum'
  <1> SUFFICES ASSUME NEW q \in Queues
               PROVE  cfs_rq'[q].avg.core =
                        cfs_rq'[q].removed.core + Cardinality(CoreEntities(q)')
    BY DEF CoreSum
  <1>1. /\ cfs_rq[q].avg.core \in Nat /\ cfs_rq[q].removed.core \in Nat
        /\ cfs_rq'[q].avg.core \in Nat /\ cfs_rq'[q].removed.core \in Nat
    BY DEF TypeOK, AvgType
  <1>2. CoreEntities(q)' = CoreEntities(q)
    BY DEF CoreEntities, Entity, QueueOf
  <1>3. Cardinality(CoreEntities(q)) \in Nat
    BY CoreFinite, FS_CardinalityType
  <1>4. cfs_rq[q].avg.core = cfs_rq[q].removed.core + Cardinality(CoreEntities(q))
    BY DEF CoreSum
  <1> QED BY <1>1, <1>2, <1>3, <1>4 DEF CoreBalance

-----------------------------------------------------------------------------
(***************************************************************************)
(* Each step keeps the core sums while the module is loaded.               *)
(***************************************************************************)
\* What the open gate makes of an average: attaching adds a task's core utilisation,
\* detaching takes it away, leaving puts it aside.
LEMMA OpenGate ==
  ASSUME pkshin_pemt_enabled, NEW l \in QueueType, NEW n \in {0, 1}
  PROVE  /\ gated(n) = n
         /\ CoreBalance(attach_entity_load_avg(l, n)) = CoreBalance(l) + n
         /\ n <= l.avg.core => CoreBalance(detach_entity_load_avg(l, n)) = CoreBalance(l) - n
         /\ CoreBalance([l EXCEPT !.removed.core = @ + n]) = CoreBalance(l) - n
         /\ CoreBalance([l EXCEPT !.removed.util = @ + 1, !.removed.core = @ + n]) =
              CoreBalance(l) - n
         /\ CoreBalance([l EXCEPT !.avg.core = @ + n]) = CoreBalance(l) + n
  <1>1. gated(n) = n
    BY DEF gated
  <1>2. /\ l.avg.core \in Nat /\ l.removed.core \in Nat /\ n \in Nat
        /\ l.avg.util \in Nat /\ l.removed.util \in Nat
    BY DEF QueueType, AvgType
  <1>3. CoreBalance(attach_entity_load_avg(l, n)) = CoreBalance(l) + n
    BY <1>1, <1>2 DEF attach_entity_load_avg, CoreBalance, QueueType, AvgType
  <1>4. n <= l.avg.core => CoreBalance(detach_entity_load_avg(l, n)) = CoreBalance(l) - n
    BY <1>1, <1>2 DEF detach_entity_load_avg, sub_positive, CoreBalance, QueueType, AvgType
  <1>5. CoreBalance([l EXCEPT !.removed.core = @ + n]) = CoreBalance(l) - n
    <2> DEFINE m == [l EXCEPT !.removed.core = @ + n]
    <2>1. m.avg.core = l.avg.core /\ m.removed.core = l.removed.core + n
      BY DEF QueueType, AvgType
    <2> QED BY <1>2, <2>1 DEF CoreBalance
  <1>6. CoreBalance([l EXCEPT !.removed.util = @ + 1, !.removed.core = @ + n]) = CoreBalance(l) - n
    <2> DEFINE m == [l EXCEPT !.removed.util = @ + 1, !.removed.core = @ + n]
    <2>1. m.avg.core = l.avg.core /\ m.removed.core = l.removed.core + n
      BY DEF QueueType, AvgType
    <2> QED BY <1>2, <2>1 DEF CoreBalance
  <1>7. CoreBalance([l EXCEPT !.avg.core = @ + n]) = CoreBalance(l) + n
    <2> DEFINE m == [l EXCEPT !.avg.core = @ + n]
    <2>1. m.avg.core = l.avg.core + n /\ m.removed.core = l.removed.core
      BY DEF QueueType, AvgType
    <2> QED BY <1>2, <2>1 DEF CoreBalance
  <1> QED BY <1>1, <1>3, <1>4, <1>5, <1>6, <1>7

\* A task brings its core utilisation where its load is attached.
LEMMA ActivateCore ==
  ASSUME TypeOK, TypeOK', AttachedInv, pkshin_pemt_enabled, CoreSum, NEW t \in Tasks,
         task[t].state \in {"woken", "listed", "migrating"}, activate_task(t, task[t])
  PROVE  CoreSum'
  <1> DEFINE q == QueueOf(task[t])
  <1>1. task[t] \in TaskType /\ q \in Queues /\ task[t].core \in {0, 1}
    BY TaskTyped DEF TaskType
  <1>2. CASE task[t].fair
    <2> DEFINE p == [task[t] EXCEPT !.state = "queued", !.updated = TRUE]
               m == enqueue_entity_load_avg(Updated(q), task[t])
    <2>1. Becomes(t, p) /\ SetQueue(q, m)
      BY <1>2 DEF activate_task
    <2>2. (CoreCounts(p) <=> task[t].core = 1) /\ QueueOf(p) = q
      BY <1>1, <1>2 DEF CoreCounts, QueueOf, TaskType
    <2>3. CoreCounts(task[t]) <=> task[t].updated /\ task[t].core = 1
      BY <1>1, <1>2 DEF CoreCounts, TaskType, AttachedInv, Attached
    <2>4. /\ Updated(q) \in QueueType /\ Updated(q).removed.core = 0
          /\ Updated(q).avg.core = CoreBalance(cfs_rq[q]) /\ CoreBalance(cfs_rq[q]) \in Nat
      BY <1>1, CoreRefreshed
    <2>5. CoreBalance(m) = CoreBalance(cfs_rq[q]) + (IF task[t].updated THEN 0 ELSE task[t].core)
      <3>1. CoreBalance(Updated(q)) = CoreBalance(cfs_rq[q])
        BY <2>4 DEF CoreBalance
      <3>2. CoreBalance(attach_entity_load_avg(Updated(q), task[t].core)) =
              CoreBalance(Updated(q)) + task[t].core
        BY <1>1, <2>4, OpenGate
      <3> QED BY <2>4, <3>1, <3>2 DEF enqueue_entity_load_avg
    <2>6. CoreBalance(m) = CoreBalance(cfs_rq[q]) + (IF CoreCounts(p) THEN 1 ELSE 0)
                                                  - (IF CoreCounts(task[t]) THEN 1 ELSE 0)
      BY <1>1, <2>2, <2>3, <2>4, <2>5
    <2> HIDE DEF p, m, q
    <2> QED BY <1>1, <2>1, <2>2, <2>6, OneQueueKeepsCore DEF q
  <1>3. CASE ~task[t].fair
    <2>1. ~CoreCounts([task[t] EXCEPT !.state = "queued"]) /\ ~CoreCounts(task[t])
      BY <1>1, <1>3 DEF CoreCounts, TaskType
    <2> QED BY <1>3, <2>1, NoQueueKeepsCore DEF activate_task
  <1> QED BY <1>2, <1>3

\* A task that goes to sleep stays an entity of its cfs_rq.
LEMMA DeactivateCore ==
  ASSUME TypeOK, TypeOK', pkshin_pemt_enabled, CoreSum, NEW t \in Tasks,
         dequeue_task_fair(t) \/ do_exit(t)
  PROVE  CoreSum'
  <1> DEFINE q == QueueOf(task[t])
  <1>1. task[t] \in TaskType /\ q \in Queues
    BY TaskTyped
  <1>2. PICK s \in {"sleeping", "exiting"} : deactivate_task(t, s)
    BY DEF dequeue_task_fair, do_exit
  <1> DEFINE p == [task[t] EXCEPT !.state = s]
  <1>3. /\ Becomes(t, p) /\ QueueOf(p) = q
        /\ CoreCounts(p) <=> CoreCounts(task[t])
    BY <1>1, <1>2 DEF deactivate_task, CoreCounts, QueueOf, TaskType
  <1>4. CASE task[t].fair
    <2>1. SetQueue(q, Updated(q))
      BY <1>2, <1>4 DEF deactivate_task
    <2>2. CoreBalance(Updated(q)) = CoreBalance(cfs_rq[q]) /\ CoreBalance(cfs_rq[q]) \in Nat
      BY <1>1, CoreRefreshed DEF CoreBalance
    <2> HIDE DEF p
    <2> QED BY <1>1, <1>3, <1>4, <2>1, <2>2, OneQueueKeepsCore
  <1>5. CASE ~task[t].fair
    <2>1. cfs_rq' = cfs_rq
      BY <1>2, <1>5 DEF deactivate_task
    <2> HIDE DEF p
    <2> QED BY <1>3, <1>5, <2>1, NoQueueKeepsCore
  <1> QED BY <1>4, <1>5

\* What PEMT tracks of a task leaves in the second half of the removal.
LEMMA RemoveCore ==
  ASSUME TypeOK, TypeOK', AttachedInv, pkshin_pemt_enabled, CoreSum, NEW t \in Tasks,
         remove_entity_load_avg(t) \/ remove_entity_pemt(t)
  PROVE  CoreSum'
  <1> DEFINE q == QueueOf(task[t])
  <1>1. task[t] \in TaskType /\ q \in Queues /\ cfs_rq[q] \in QueueType /\ task[t].core \in {0, 1}
    BY TaskTyped DEF TaskType
  <1>2. CASE remove_entity_load_avg(t)
    <2>1. PICK s \in {"removing", "dying", "dead"} :
            /\ Becomes(t, [task[t] EXCEPT !.state = s])
            /\ s = "dead" => ~task[t].fair
      BY <1>2 DEF remove_entity_load_avg
    <2> DEFINE p == [task[t] EXCEPT !.state = s]
    <2>2. (CoreCounts(p) <=> CoreCounts(task[t])) /\ QueueOf(p) = q
      BY <1>1, <1>2, <2>1 DEF CoreCounts, QueueOf, TaskType, remove_entity_load_avg
    <2>3. \A r \in Queues : CoreBalance(cfs_rq'[r]) = CoreBalance(cfs_rq[r])
      BY <1>1, <1>2 DEF remove_entity_load_avg, CoreBalance, TypeOK, AvgType
    <2> HIDE DEF p
    <2> QED BY <2>1, <2>2, <2>3, NoQueueKeepsCore DEF p
  <1>3. CASE remove_entity_pemt(t)
    <2>1. PICK p \in {[task[t] EXCEPT !.state = "woken", !.cpu = task[t].dest,
                                      !.updated = FALSE],
                      [task[t] EXCEPT !.state = "dead"]} : Becomes(t, p)
      BY <1>3 DEF remove_entity_pemt
    <2> DEFINE m == [cfs_rq[q] EXCEPT !.removed.core = @ + task[t].core]
    <2>2. ~CoreCounts(p) /\ (CoreCounts(task[t]) <=> task[t].core = 1)
      <3>1. (p.state = "woken" /\ ~p.updated) \/ p.state = "dead"
        BY <1>1, <2>1 DEF TaskType
      <3>2. task[t].state \in {"removing", "dying"} /\ task[t].fair
        BY <1>3 DEF remove_entity_pemt, AttachedInv, Attached
      <3> QED BY <3>1, <3>2 DEF CoreCounts
    <2>3. SetQueue(q, m)
      <3>1. gated(task[t].core) = task[t].core
        BY DEF gated
      <3> QED BY <1>1, <1>3, <3>1 DEF remove_entity_pemt, SetQueue, TypeOK
    <2>4. CoreBalance(m) = CoreBalance(cfs_rq[q]) - task[t].core
      BY <1>1, OpenGate
    <2>5. CoreBalance(cfs_rq[q]) \in Nat
      BY <1>1, CoreRefreshed
    <2> HIDE DEF m
    <2> QED BY <1>1, <2>1, <2>2, <2>3, <2>4, <2>5, OneQueueKeepsCore
  <1> QED BY <1>2, <1>3

\* A new task is attached with its core utilisation, a tick may give it some, and the first
\* half of a wakeup moves nothing.
LEMMA LifeCore ==
  ASSUME TypeOK, TypeOK', AttachedInv, pkshin_pemt_enabled, CoreSum,
         NEW t \in Tasks, NEW c \in Cpus, NEW g \in Groups,
         \/ sched_fork(t, g) \/ wake_up_new_task(t, c) \/ task_tick_fair(t)
         \/ try_to_wake_up(t, c) \/ ttwu_queue_remote(t)
  PROVE  CoreSum'
  <1> DEFINE q == QueueOf(task[t])
  <1>1. task[t] \in TaskType /\ q \in Queues /\ task[t].core \in {0, 1}
    BY TaskTyped DEF TaskType
  <1>2. CASE sched_fork(t, g)
    <2> DEFINE p == [task[t] EXCEPT !.state = "new", !.group = g]
    <2>1. ~CoreCounts(p) /\ ~CoreCounts(task[t])
      BY <1>1, <1>2 DEF CoreCounts, TaskType, AttachedInv, Attached, sched_fork
    <2>2. Becomes(t, p) /\ cfs_rq' = cfs_rq
      BY <1>2 DEF sched_fork
    <2> HIDE DEF p
    <2> QED BY <2>1, <2>2, NoQueueKeepsCore
  <1>3. CASE wake_up_new_task(t, c)
    <2> DEFINE p == [task[t] EXCEPT !.state = "queued", !.cpu = c, !.dest = c,
                                    !.updated = TRUE, !.core = gated(1)]
               r == QueueOf(p)
               m == attach_entity_load_avg(Updated(r), p.core)
    <2>1. /\ p \in TaskType /\ p.core = 1
          /\ ~CoreCounts(task[t]) /\ (CoreCounts(p) <=> p.fair)
      BY <1>1, <1>3 DEF TaskType, States, CoreCounts, AttachedInv, Attached, wake_up_new_task, gated
    <2>2. Becomes(t, p) /\ (IF p.fair THEN SetQueue(r, m) ELSE cfs_rq' = cfs_rq)
      BY <1>3 DEF wake_up_new_task
    <2> HIDE DEF p
    <2>3. r \in Queues
      BY <2>1 DEF TaskType, QueueOf, Queues
    <2>4. /\ Updated(r) \in QueueType /\ CoreBalance(Updated(r)) = CoreBalance(cfs_rq[r])
          /\ CoreBalance(cfs_rq[r]) \in Nat
      BY <2>3, CoreRefreshed DEF CoreBalance
    <2>5. CoreBalance(m) = CoreBalance(cfs_rq[r]) + 1
      BY <2>1, <2>4, OpenGate
    <2>6. CASE p.fair
      BY <2>1, <2>2, <2>3, <2>4, <2>5, <2>6, OneQueueKeepsCore
    <2>7. CASE ~p.fair
      BY <2>1, <2>2, <2>7, NoQueueKeepsCore
    <2> QED BY <2>6, <2>7
  <1>4. CASE task_tick_fair(t)
    <2> DEFINE p == [task[t] EXCEPT !.core = @ + gain(@)]
               m == [Updated(q) EXCEPT !.avg.core = @ + (1 - task[t].core)]
    <2>1. gain(task[t].core) = 1 - task[t].core
      BY DEF gain, gated
    <2>2. Becomes(t, p) /\ SetQueue(q, m)
      BY <1>4, <2>1 DEF task_tick_fair
    <2>3. /\ CoreCounts(p) /\ QueueOf(p) = q
          /\ CoreCounts(task[t]) <=> task[t].core = 1
      BY <1>1, <1>4, <2>1 DEF task_tick_fair, CoreCounts, QueueOf, TaskType
    <2>4. /\ Updated(q) \in QueueType /\ CoreBalance(Updated(q)) = CoreBalance(cfs_rq[q])
          /\ CoreBalance(cfs_rq[q]) \in Nat
      BY <1>1, CoreRefreshed DEF CoreBalance
    <2>5. CoreBalance(m) = CoreBalance(cfs_rq[q]) + (1 - task[t].core)
      <3>1. 1 - task[t].core \in {0, 1}
        BY <1>1
      <3> HIDE DEF q
      <3> QED BY <2>4, <3>1, OpenGate
    <2>6. CoreBalance(m) = CoreBalance(cfs_rq[q]) + (IF CoreCounts(p) THEN 1 ELSE 0)
                                                  - (IF CoreCounts(task[t]) THEN 1 ELSE 0)
      BY <1>1, <2>3, <2>4, <2>5
    <2> HIDE DEF p, m
    <2> QED BY <1>1, <2>2, <2>3, <2>6, OneQueueKeepsCore
  <1>5. CASE try_to_wake_up(t, c)
    <2>1. PICK p \in {[task[t] EXCEPT !.state = "woken"],
                      [task[t] EXCEPT !.state = "waking", !.dest = c],
                      [task[t] EXCEPT !.state = "woken", !.cpu = c, !.dest = c]} :
            /\ Becomes(t, p)
            /\ task[t].fair => p.cpu = task[t].cpu
      BY <1>1, <1>5 DEF try_to_wake_up, TaskType
    <2>2. CoreCounts(p) <=> CoreCounts(task[t])
      BY <1>1, <1>5, <2>1 DEF try_to_wake_up, CoreCounts, TaskType, AttachedInv, Attached
    <2>3. CoreCounts(p) => QueueOf(p) = q
      BY <1>1, <2>1 DEF QueueOf, TaskType, CoreCounts
    <2>4. cfs_rq' = cfs_rq
      BY <1>5 DEF try_to_wake_up
    <2> QED BY <2>1, <2>2, <2>3, <2>4, NoQueueKeepsCore
  <1>6. CASE ttwu_queue_remote(t)
    <2> DEFINE p == [task[t] EXCEPT !.state = "listed"]
    <2>1. (CoreCounts(p) <=> CoreCounts(task[t])) /\ QueueOf(p) = q
      BY <1>1, <1>6 DEF ttwu_queue_remote, CoreCounts, QueueOf, TaskType
    <2>2. Becomes(t, p) /\ cfs_rq' = cfs_rq
      BY <1>6 DEF ttwu_queue_remote
    <2> HIDE DEF p
    <2> QED BY <2>1, <2>2, NoQueueKeepsCore
  <1> QED BY <1>2, <1>3, <1>4, <1>5, <1>6

\* Balancing takes a task's core utilisation out; a change of class or group of an attached
\* task takes it out, puts it in, or moves it.
LEMMA MoveCore ==
  ASSUME ~Unattached, TypeOK, TypeOK', AttachedInv, pkshin_pemt_enabled, CoreSum,
         NEW t \in Tasks, NEW c \in Cpus, NEW g \in Groups,
         \/ detach_task(t, c) \/ switched_from_fair(t) \/ switched_to_fair(t)
         \/ task_move_group_fair(t, g)
  PROVE  CoreSum'
  <1> DEFINE q == QueueOf(task[t])
             n == task[t].core
  <1>1. task[t] \in TaskType /\ q \in Queues /\ n \in {0, 1} /\ gated(n) = n
    BY TaskTyped DEF TaskType, gated
  <1>2. /\ Updated(q) \in QueueType /\ CoreBalance(Updated(q)) = CoreBalance(cfs_rq[q])
        /\ Updated(q).avg.core = CoreBalance(cfs_rq[q]) /\ CoreBalance(cfs_rq[q]) \in Nat
        /\ CoreWeight(task[t], q) <= CoreBalance(cfs_rq[q])
    BY <1>1, CoreRefreshed DEF CoreBalance
  <1>3. (n = 0 \/ CoreCounts(task[t])) =>
          CoreBalance(detach_entity_load_avg(Updated(q), n)) = CoreBalance(cfs_rq[q]) - n
    <2>1. CoreCounts(task[t]) => CoreWeight(task[t], q) = 1
      BY DEF CoreWeight
    <2>2. (n = 0 \/ CoreCounts(task[t])) => n <= Updated(q).avg.core
      <3> HIDE DEF q, n
      <3> QED BY <1>1, <1>2, <2>1
    <2> QED BY <1>1, <1>2, <2>2, OpenGate
  <1>4. CASE detach_task(t, c)
    <2> DEFINE p == [task[t] EXCEPT !.state = "migrating", !.cpu = c, !.dest = c,
                                    !.updated = FALSE]
               m == [Updated(q) EXCEPT !.removed.util = @ + 1, !.removed.core = @ + n]
    <2>1. Becomes(t, p) /\ SetQueue(q, m)
      BY <1>1, <1>4 DEF detach_task
    <2>2. (CoreCounts(task[t]) <=> n = 1) /\ ~CoreCounts(p)
      BY <1>1, <1>4 DEF detach_task, CoreCounts, TaskType
    <2>3. CoreBalance(m) = CoreBalance(cfs_rq[q]) - n
      BY <1>1, <1>2, OpenGate
    <2> HIDE DEF p, m
    <2> QED BY <1>1, <1>2, <2>1, <2>2, <2>3, OneQueueKeepsCore
  <1>5. CASE switched_from_fair(t)
    <2> DEFINE p == [task[t] EXCEPT !.fair = FALSE]
               m == detach_entity_load_avg(Updated(q), n)
    <2>1. Becomes(t, p) /\ SetQueue(q, m)
      BY <1>5 DEF switched_from_fair
    <2>2. (CoreCounts(task[t]) <=> n = 1) /\ ~CoreCounts(p)
      BY <1>1, <1>5 DEF switched_from_fair, CanChange, CoreCounts, TaskType
    <2>3. CoreBalance(m) = CoreBalance(cfs_rq[q]) - n
      BY <1>1, <1>3, <2>2
    <2> HIDE DEF p, m
    <2> QED BY <1>1, <1>2, <2>1, <2>2, <2>3, OneQueueKeepsCore
  <1>6. CASE switched_to_fair(t)
    <2> DEFINE p == [task[t] EXCEPT !.fair = TRUE, !.updated = TRUE]
               m == attach_entity_load_avg(Updated(q), n)
    <2>1. task[t].state \in {"sleeping", "queued"} /\ task[t].updated /\ ~task[t].fair
      BY <1>6 DEF switched_to_fair, CanChange, AttachedInv, Attached
    <2>2. Becomes(t, p) /\ SetQueue(q, m)
      BY <1>6, <2>1 DEF switched_to_fair, enqueue_entity_load_avg
    <2>3. ~CoreCounts(task[t]) /\ (CoreCounts(p) <=> n = 1) /\ QueueOf(p) = q
      BY <1>1, <2>1 DEF CoreCounts, QueueOf, TaskType
    <2>4. CoreBalance(m) = CoreBalance(cfs_rq[q]) + n
      BY <1>1, <1>2, OpenGate
    <2> HIDE DEF p, m
    <2> QED BY <1>1, <1>2, <2>2, <2>3, <2>4, OneQueueKeepsCore
  <1>7. CASE task_move_group_fair(t, g) /\ ~task[t].fair
    <2> DEFINE p == [task[t] EXCEPT !.group = g]
    <2>1. Becomes(t, p) /\ cfs_rq' = cfs_rq
      BY <1>7 DEF task_move_group_fair
    <2>2. ~CoreCounts(p) /\ ~CoreCounts(task[t])
      BY <1>1, <1>7 DEF CoreCounts, TaskType
    <2> HIDE DEF p
    <2> QED BY <2>1, <2>2, NoQueueKeepsCore
  <1>8. CASE task_move_group_fair(t, g) /\ task[t].fair
    <2> DEFINE p == [task[t] EXCEPT !.group = g, !.updated = TRUE]
               r == <<g, task[t].cpu>>
               l == detach_entity_load_avg(Updated(q), n)
               m == attach_entity_load_avg(Updated(r), n)
    <2>1. Becomes(t, p) /\ cfs_rq' = [cfs_rq EXCEPT ![q] = l, ![r] = m]
      BY <1>8 DEF task_move_group_fair
    <2>2. r \in Queues /\ q # r
      BY <1>1, <1>8 DEF task_move_group_fair, Queues, QueueOf, TaskType
    <2>3. /\ CoreCounts(task[t]) <=> n = 1
          /\ CoreCounts(p) <=> n = 1
          /\ QueueOf(p) = r
      BY <1>1, <1>8 DEF task_move_group_fair, CanChange, CoreCounts, QueueOf, TaskType
    <2>4. CoreBalance(l) = CoreBalance(cfs_rq[q]) - n
      BY <1>1, <1>3, <2>3
    <2>5. CoreBalance(m) = CoreBalance(cfs_rq[r]) + n
      <3>1. Updated(r) \in QueueType /\ CoreBalance(Updated(r)) = CoreBalance(cfs_rq[r])
        BY <2>2, CoreRefreshed DEF CoreBalance
      <3> QED BY <1>1, <3>1, OpenGate
    <2> HIDE DEF p, l, m
    <2>6. task'[t] = p /\ \A u \in Tasks \ {t} : task'[u] = task[u]
      BY <2>1 DEF Becomes, TypeOK
    <2>7. cfs_rq'[q] = l /\ cfs_rq'[r] = m
          /\ \A x \in Queues \ {q, r} : cfs_rq'[x] = cfs_rq[x]
      BY <1>1, <2>1, <2>2 DEF TypeOK
    <2>8. \A x \in Queues : CoreBalance(cfs_rq[x]) \in Int
      BY DEF TypeOK, AvgType, CoreBalance
    <2>9. \A x \in Queues : /\ CoreWeight(task'[t], x) = IF x = r THEN n ELSE 0
                            /\ CoreWeight(task[t], x) = IF x = q THEN n ELSE 0
      BY <1>1, <2>3, <2>6 DEF CoreWeight
    <2> HIDE DEF q, r, n
    <2>10. \A x \in Queues : CoreBalance(cfs_rq'[x]) =
             CoreBalance(cfs_rq[x]) + CoreWeight(task'[t], x) - CoreWeight(task[t], x)
      BY <1>1, <2>2, <2>4, <2>5, <2>7, <2>8, <2>9
    <2> QED BY <2>6, <2>10, StepKeepsCore
  <1> QED BY <1>4, <1>5, <1>6, <1>7, <1>8

-----------------------------------------------------------------------------
(***************************************************************************)
(* Before the first load nothing has core utilisation.                     *)
(***************************************************************************)
\* A closed gate makes none.
LEMMA ClosedGate ==
  ASSUME ~pkshin_pemt_enabled, NEW l \in QueueType, BlankQueue(l)
  PROVE  /\ gated(0) = 0 /\ gated(1) = 0
         /\ BlankQueue(update_cfs_rq_load_avg(l))
         /\ BlankQueue(attach_entity_load_avg(l, 0))
         /\ BlankQueue(detach_entity_load_avg(l, 0))
         /\ \A p \in TaskType : p.core = 0 => BlankQueue(enqueue_entity_load_avg(l, p))
  <1>1. \A n : gated(n) = 0
    BY DEF gated
  <1>2. l.avg.core = 0 /\ l.removed.core = 0
    BY DEF BlankQueue
  <1>3. sub_positive(0, 0) = 0
    BY DEF sub_positive
  <1>4. BlankQueue(update_cfs_rq_load_avg(l))
    BY <1>1, <1>2, <1>3 DEF update_cfs_rq_load_avg, BlankQueue
  <1>5. BlankQueue(attach_entity_load_avg(l, 0))
    BY <1>1, <1>2 DEF attach_entity_load_avg, BlankQueue, QueueType
  <1>6. BlankQueue(detach_entity_load_avg(l, 0))
    BY <1>1, <1>2, <1>3 DEF detach_entity_load_avg, BlankQueue, QueueType
  <1> QED BY <1>1, <1>4, <1>5, <1>6 DEF enqueue_entity_load_avg

\* A step that sets one task, and leaves the cfs_rqs blank.
LEMMA BlankStep ==
  ASSUME TypeOK, Blank, NEW t \in Tasks, NEW p, Becomes(t, p), p.core = 0,
         \A q \in Queues : BlankQueue(cfs_rq'[q])
  PROVE  Blank'
  <1>1. task'[t] = p /\ \A u \in Tasks \ {t} : task'[u] = task[u]
    BY DEF Becomes, TypeOK
  <1> QED BY <1>1 DEF Blank, BlankQueue

\* A step that sets one cfs_rq, or none.
LEMMA BlankQueues ==
  ASSUME TypeOK, Blank
  PROVE  /\ cfs_rq' = cfs_rq => \A q \in Queues : BlankQueue(cfs_rq'[q])
         /\ \A r \in Queues : \A m : SetQueue(r, m) /\ BlankQueue(m) =>
              \A q \in Queues : BlankQueue(cfs_rq'[q])
  BY DEF Blank, SetQueue, TypeOK

\* What a step may make of a blank cfs_rq.
LEMMA BlankUpdated ==
  ASSUME TypeOK, Blank, ~pkshin_pemt_enabled, NEW q \in Queues
  PROVE  /\ Updated(q) \in QueueType /\ BlankQueue(Updated(q))
         /\ BlankQueue(attach_entity_load_avg(Updated(q), 0))
         /\ BlankQueue(detach_entity_load_avg(Updated(q), 0))
         /\ \A p \in TaskType : p.core = 0 => BlankQueue(enqueue_entity_load_avg(Updated(q), p))
  <1>1. cfs_rq[q] \in QueueType /\ BlankQueue(cfs_rq[q])
    BY DEF TypeOK, QueueType, Blank
  <1>2. Updated(q) \in QueueType /\ BlankQueue(Updated(q))
    BY <1>1, Fold, ClosedGate DEF Updated
  <1> QED BY <1>2, ClosedGate

\* A task is activated or deactivated.
LEMMA ActivateBlank ==
  ASSUME TypeOK, Blank, ~pkshin_pemt_enabled, NEW t \in Tasks,
         activate_task(t, task[t]) \/ \E s \in States : deactivate_task(t, s)
  PROVE  Blank'
  <1> DEFINE q == QueueOf(task[t])
  <1>1. task[t] \in TaskType /\ q \in Queues /\ task[t].core = 0
    BY TaskTyped DEF Blank
  <1>2. BlankQueue(Updated(q)) /\ BlankQueue(enqueue_entity_load_avg(Updated(q), task[t]))
    BY <1>1, BlankUpdated
  <1>3. \A r \in Queues : BlankQueue(cfs_rq'[r])
    BY <1>1, <1>2, BlankQueues DEF activate_task, deactivate_task
  <1>4. CASE activate_task(t, task[t])
    <2>1. PICK p \in {[task[t] EXCEPT !.state = "queued", !.updated = TRUE],
                      [task[t] EXCEPT !.state = "queued"]} : Becomes(t, p)
      BY <1>4 DEF activate_task
    <2>2. p.core = 0
      BY <1>1, <2>1 DEF TaskType
    <2> QED BY <1>3, <2>1, <2>2, BlankStep
  <1>5. CASE \E s \in States : deactivate_task(t, s)
    <2>1. PICK s \in States : Becomes(t, [task[t] EXCEPT !.state = s])
      BY <1>5 DEF deactivate_task
    <2>2. [task[t] EXCEPT !.state = s].core = 0
      BY <1>1 DEF TaskType
    <2> QED BY <1>3, <2>1, <2>2, BlankStep
  <1> QED BY <1>4, <1>5

\* A task is removed.
LEMMA RemoveBlank ==
  ASSUME TypeOK, Blank, ~pkshin_pemt_enabled, NEW t \in Tasks,
         remove_entity_load_avg(t) \/ remove_entity_pemt(t)
  PROVE  Blank'
  <1> DEFINE q == QueueOf(task[t])
  <1>1. task[t] \in TaskType /\ q \in Queues /\ task[t].core = 0
    BY TaskTyped DEF Blank
  <1>2. gated(task[t].core) = 0
    BY DEF gated
  <1>3. /\ cfs_rq[q] \in QueueType /\ BlankQueue(cfs_rq[q])
        /\ BlankQueue([cfs_rq[q] EXCEPT !.removed.util = @ + 1])
        /\ BlankQueue([cfs_rq[q] EXCEPT !.removed.core = @ + 0])
    BY <1>1 DEF Blank, BlankQueue, TypeOK, QueueType, AvgType
  <1>4. \A r \in Queues : BlankQueue(cfs_rq'[r])
    <2>1. CASE remove_entity_load_avg(t)
      <3>1. cfs_rq' = cfs_rq \/ SetQueue(q, [cfs_rq[q] EXCEPT !.removed.util = @ + 1])
        BY <1>1, <2>1 DEF remove_entity_load_avg, SetQueue, TypeOK
      <3> QED BY <1>1, <1>3, <3>1, BlankQueues
    <2>2. CASE remove_entity_pemt(t)
      <3>1. SetQueue(q, [cfs_rq[q] EXCEPT !.removed.core = @ + 0])
        BY <1>1, <1>2, <2>2 DEF remove_entity_pemt, SetQueue, TypeOK
      <3> QED BY <1>1, <1>3, <3>1, BlankQueues
    <2> QED BY <2>1, <2>2
  <1>5. PICK p \in {[task[t] EXCEPT !.state = "removing"], [task[t] EXCEPT !.state = "dying"],
                    [task[t] EXCEPT !.state = "dead"],
                    [task[t] EXCEPT !.state = "woken", !.cpu = task[t].dest, !.updated = FALSE]} :
          Becomes(t, p)
    BY DEF remove_entity_load_avg, remove_entity_pemt
  <1>6. p.core = 0
    BY <1>1, <1>5 DEF TaskType
  <1> QED BY <1>4, <1>5, <1>6, BlankStep

\* A task is born, wakes, runs, or moves.
LEMMA LifeBlank ==
  ASSUME TypeOK, Blank, ~pkshin_pemt_enabled, AttachedInv, ~Unattached,
         NEW t \in Tasks, NEW c \in Cpus, NEW g \in Groups,
         \/ sched_fork(t, g) \/ wake_up_new_task(t, c) \/ task_tick_fair(t)
         \/ try_to_wake_up(t, c) \/ ttwu_queue_remote(t)
         \/ detach_task(t, c) \/ switched_from_fair(t) \/ switched_to_fair(t)
         \/ task_move_group_fair(t, g)
  PROVE  Blank'
  <1> DEFINE q == QueueOf(task[t])
  <1>1. task[t] \in TaskType /\ q \in Queues /\ task[t].core = 0
    BY TaskTyped DEF Blank
  <1>2. /\ Updated(q) \in QueueType /\ BlankQueue(Updated(q))
        /\ BlankQueue(attach_entity_load_avg(Updated(q), 0))
        /\ BlankQueue(detach_entity_load_avg(Updated(q), 0))
    BY <1>1, BlankUpdated
  <1>3. \A n : gated(n) = 0
    BY DEF gated
  <1>4. CASE sched_fork(t, g) \/ try_to_wake_up(t, c) \/ ttwu_queue_remote(t)
    <2>1. PICK p \in {[task[t] EXCEPT !.state = "new", !.group = g],
                      [task[t] EXCEPT !.state = "woken"],
                      [task[t] EXCEPT !.state = "waking", !.dest = c],
                      [task[t] EXCEPT !.state = "woken", !.cpu = c, !.dest = c],
                      [task[t] EXCEPT !.state = "listed"]} : Becomes(t, p)
      BY <1>4 DEF sched_fork, try_to_wake_up, ttwu_queue_remote
    <2>2. p.core = 0
      BY <1>1, <2>1 DEF TaskType
    <2>3. \A r \in Queues : BlankQueue(cfs_rq'[r])
      BY <1>4, BlankQueues DEF sched_fork, try_to_wake_up, ttwu_queue_remote
    <2> QED BY <2>1, <2>2, <2>3, BlankStep
  <1>5. CASE wake_up_new_task(t, c)
    <2> DEFINE p == [task[t] EXCEPT !.state = "queued", !.cpu = c, !.dest = c,
                                    !.updated = TRUE, !.core = gated(1)]
               r == QueueOf(p)
    <2>1. p \in TaskType /\ p.core = 0
      BY <1>1, <1>3 DEF TaskType, States
    <2>2. /\ Becomes(t, p)
          /\ IF p.fair THEN SetQueue(r, attach_entity_load_avg(Updated(r), p.core)) ELSE cfs_rq' = cfs_rq
      BY <1>5 DEF wake_up_new_task
    <2> HIDE DEF p
    <2>3. r \in Queues
      BY <2>1 DEF TaskType, QueueOf, Queues
    <2>4. BlankQueue(attach_entity_load_avg(Updated(r), 0))
      BY <2>3, BlankUpdated
    <2>5. \A x \in Queues : BlankQueue(cfs_rq'[x])
      BY <2>1, <2>2, <2>3, <2>4, BlankQueues
    <2> QED BY <2>1, <2>2, <2>5, BlankStep
  <1>6. CASE task_tick_fair(t)
    <2> DEFINE p == [task[t] EXCEPT !.core = @ + gain(@)]
               m == [Updated(q) EXCEPT !.avg.core = @ + gain(task[t].core)]
    <2>1. Becomes(t, p) /\ SetQueue(q, m)
      BY <1>6 DEF task_tick_fair
    <2>2. p.core = 0 /\ BlankQueue(m)
      BY <1>1, <1>2, <1>3 DEF gain, TaskType, QueueType, AvgType, BlankQueue
    <2> HIDE DEF p, m
    <2>3. \A r \in Queues : BlankQueue(cfs_rq'[r])
      BY <1>1, <2>1, <2>2, BlankQueues
    <2> QED BY <2>1, <2>2, <2>3, BlankStep
  <1>7. CASE detach_task(t, c)
    <2> DEFINE p == [task[t] EXCEPT !.state = "migrating", !.cpu = c, !.dest = c, !.updated = FALSE]
               m == [Updated(q) EXCEPT !.removed.util = @ + 1, !.removed.core = @ + 0]
    <2>1. Becomes(t, p) /\ SetQueue(q, m)
      BY <1>3, <1>7 DEF detach_task
    <2>2. BlankQueue(m)
      <3> DEFINE l == [Updated(q) EXCEPT !.removed.util = @ + 1]
      <3>1. l.avg.core = 0 /\ l.removed.core = 0 /\ l \in QueueType
        BY <1>2 DEF QueueType, AvgType, BlankQueue
      <3> HIDE DEF l
      <3>2. BlankQueue([l EXCEPT !.removed.core = @ + 0])
        BY <3>1 DEF QueueType, AvgType, BlankQueue
      <3> QED BY <3>2 DEF l
    <2>3. p.core = 0
      BY <1>1 DEF TaskType
    <2> HIDE DEF p, m
    <2>4. \A r \in Queues : BlankQueue(cfs_rq'[r])
      BY <1>1, <2>1, <2>2, BlankQueues
    <2> QED BY <2>1, <2>3, <2>4, BlankStep
  <1>8. CASE switched_from_fair(t) \/ switched_to_fair(t)
    <2>1. PICK p \in {[task[t] EXCEPT !.fair = FALSE],
                      [task[t] EXCEPT !.fair = TRUE, !.updated = TRUE]} : Becomes(t, p)
      BY <1>8 DEF switched_from_fair, switched_to_fair
    <2>2. p.core = 0
      BY <1>1, <2>1 DEF TaskType
    <2>3. CASE switched_from_fair(t)
      <3>1. SetQueue(q, detach_entity_load_avg(Updated(q), 0))
        BY <1>1, <2>3 DEF switched_from_fair
      <3>2. \A r \in Queues : BlankQueue(cfs_rq'[r])
        BY <1>1, <1>2, <3>1, BlankQueues
      <3> QED BY <2>1, <2>2, <3>2, BlankStep
    <2>4. CASE switched_to_fair(t)
      <3>1. task[t].updated
        BY <2>4 DEF switched_to_fair, CanChange, AttachedInv, Attached
      <3>2. SetQueue(q, attach_entity_load_avg(Updated(q), 0))
        BY <1>1, <2>4, <3>1 DEF switched_to_fair, enqueue_entity_load_avg
      <3>3. \A r \in Queues : BlankQueue(cfs_rq'[r])
        BY <1>1, <1>2, <3>2, BlankQueues
      <3> QED BY <2>1, <2>2, <3>3, BlankStep
    <2> QED BY <1>8, <2>3, <2>4
  <1>9. CASE task_move_group_fair(t, g)
    <2> DEFINE r == <<g, task[t].cpu>>
    <2>1. PICK p \in {[task[t] EXCEPT !.group = g, !.updated = TRUE],
                      [task[t] EXCEPT !.group = g]} : Becomes(t, p)
      BY <1>9 DEF task_move_group_fair
    <2>2. p.core = 0
      BY <1>1, <2>1 DEF TaskType
    <2>3. r \in Queues
      BY <1>1 DEF Queues, TaskType
    <2>4. BlankQueue(attach_entity_load_avg(Updated(r), 0))
      BY <2>3, BlankUpdated
    <2>5. \/ cfs_rq' = cfs_rq
          \/ cfs_rq' = [cfs_rq EXCEPT ![q] = detach_entity_load_avg(Updated(q), 0),
                                      ![r] = attach_entity_load_avg(Updated(r), 0)]
      BY <1>1, <1>9 DEF task_move_group_fair
    <2> HIDE DEF r
    <2>6. \A x \in Queues : BlankQueue(cfs_rq'[x])
      BY <1>1, <1>2, <2>3, <2>4, <2>5 DEF Blank, TypeOK
    <2> QED BY <2>1, <2>2, <2>6, BlankStep
  <1> QED BY <1>4, <1>5, <1>6, <1>7, <1>8, <1>9

-----------------------------------------------------------------------------
(***************************************************************************)
(* Every step keeps CoreInv.                                               *)
(***************************************************************************)
\* A step of the scheduler, which does not touch the module.
LEMMA TaskCore ==
  ASSUME ~Unattached, TypeOK, TypeOK', AttachedInv, CoreInv, NEW t \in Tasks,
         \/ Wakeup(t) \/ task_tick_fair(t) \/ dequeue_task_fair(t) \/ do_exit(t)
         \/ attach_task(t) \/ switched_from_fair(t) \/ switched_to_fair(t)
         \/ \E c \in Cpus : wake_up_new_task(t, c) \/ try_to_wake_up(t, c) \/ detach_task(t, c)
         \/ \E g \in Groups : sched_fork(t, g) \/ task_move_group_fair(t, g)
  PROVE  (toggles = 0 => Blank') /\ (toggles = 1 => CoreSum')
  <1>1. \E c \in Cpus, g \in Groups : TRUE
    BY TaskTyped DEF TaskType
  <1>2. CASE remove_entity_load_avg(t) \/ remove_entity_pemt(t)
    BY <1>2, RemoveBlank, RemoveCore DEF CoreInv, ToggleInv
  <1>3. CASE ttwu_queue(t) \/ sched_ttwu_pending(t) \/ attach_task(t)
    <2>1. task[t].state \in {"woken", "listed", "migrating"} /\ activate_task(t, task[t])
      BY <1>3 DEF ttwu_queue, sched_ttwu_pending, attach_task
    <2> QED BY <2>1, ActivateBlank, ActivateCore DEF CoreInv, ToggleInv
  <1>4. CASE dequeue_task_fair(t) \/ do_exit(t)
    <2>1. \E s \in States : deactivate_task(t, s)
      BY <1>4 DEF dequeue_task_fair, do_exit, States
    <2> QED BY <1>4, <2>1, ActivateBlank, DeactivateCore DEF CoreInv, ToggleInv
  <1>5. ASSUME NEW c \in Cpus, NEW g \in Groups,
               \/ sched_fork(t, g) \/ wake_up_new_task(t, c) \/ task_tick_fair(t)
               \/ try_to_wake_up(t, c) \/ ttwu_queue_remote(t)
        PROVE  (toggles = 0 => Blank') /\ (toggles = 1 => CoreSum')
    BY <1>5, LifeBlank, LifeCore DEF CoreInv, ToggleInv
  <1>6. ASSUME NEW c \in Cpus, NEW g \in Groups,
               \/ detach_task(t, c) \/ switched_from_fair(t) \/ switched_to_fair(t)
               \/ task_move_group_fair(t, g)
        PROVE  (toggles = 0 => Blank') /\ (toggles = 1 => CoreSum')
    BY <1>6, LifeBlank, MoveCore DEF CoreInv, ToggleInv
  <1> QED BY <1>1, <1>2, <1>3, <1>4, <1>5, <1>6 DEF Wakeup

\* update_blocked_averages folds the removed averages of a CPU.
LEMMA BlockedCore ==
  ASSUME TypeOK, TypeOK', CoreInv, NEW c \in Cpus, update_blocked_averages(c)
  PROVE  (toggles = 0 => Blank') /\ (toggles = 1 => CoreSum')
  <1>1. task' = task /\ \A q \in Queues : cfs_rq'[q] = Updated(q) \/ cfs_rq'[q] = cfs_rq[q]
    BY DEF update_blocked_averages
  <1>2. CASE toggles = 0
    <2>1. \A q \in Queues : BlankQueue(Updated(q))
      BY <1>2, BlankUpdated DEF CoreInv, ToggleInv
    <2> QED BY <1>1, <1>2, <2>1 DEF CoreInv, Blank, BlankQueue
  <1>3. CASE toggles = 1
    <2>1. \A q \in Queues : CoreBalance(Updated(q)) = CoreBalance(cfs_rq[q])
      BY <1>3, CoreRefreshed DEF CoreInv, ToggleInv, CoreBalance
    <2>2. \A q \in Queues : CoreBalance(cfs_rq'[q]) = CoreBalance(cfs_rq[q])
      BY <1>1, <2>1
    <2> QED BY <1>1, <1>3, <2>2, IdleKeepsCore DEF CoreInv
  <1> QED BY <1>2, <1>3

\* Where nothing has core utilisation, every cfs_rq has the sum of its entities.
LEMMA BlankSums == Blank => CoreSum
  <1> SUFFICES ASSUME Blank, NEW q \in Queues
               PROVE  cfs_rq[q].avg.core = cfs_rq[q].removed.core + Cardinality(CoreEntities(q))
    BY DEF CoreSum
  <1>1. CoreEntities(q) = {}
    BY DEF Blank, CoreEntities
  <1>2. cfs_rq[q].avg.core = 0 /\ cfs_rq[q].removed.core = 0
    BY DEF Blank, BlankQueue
  <1> QED BY <1>1, <1>2, FS_EmptySet

\* The whole next-state relation.
LEMMA CoreNext ==
  ~Unattached /\ MaxToggles <= 2 /\ TypeOK /\ TypeOK' /\ AttachedInv /\ CoreInv /\ [Next]_vars
    => CoreInv'
  <1> SUFFICES ASSUME ~Unattached, MaxToggles <= 2, TypeOK, TypeOK', AttachedInv, CoreInv, [Next]_vars
               PROVE  CoreInv'
    OBVIOUS
  <1>1. ASSUME UNCHANGED <<pkshin_pemt_enabled, toggles>>,
               toggles = 0 => Blank', toggles = 1 => CoreSum'
        PROVE  CoreInv'
    BY <1>1 DEF CoreInv, ToggleInv
  <1>2. CASE \E t \in Tasks :
               \/ Wakeup(t) \/ task_tick_fair(t) \/ dequeue_task_fair(t) \/ do_exit(t)
               \/ attach_task(t) \/ switched_from_fair(t) \/ switched_to_fair(t)
               \/ \E c \in Cpus : wake_up_new_task(t, c) \/ try_to_wake_up(t, c) \/ detach_task(t, c)
               \/ \E g \in Groups : sched_fork(t, g) \/ task_move_group_fair(t, g)
    <2>1. UNCHANGED <<pkshin_pemt_enabled, toggles>>
      BY <1>2, ZenonT(40) DEF Wakeup, remove_entity_load_avg, remove_entity_pemt, ttwu_queue, ttwu_queue_remote,
                  sched_ttwu_pending, attach_task, activate_task, task_tick_fair, dequeue_task_fair,
                  do_exit, deactivate_task, switched_from_fair, switched_to_fair, wake_up_new_task,
                  try_to_wake_up, detach_task, sched_fork, task_move_group_fair, unchangedBounds
    <2> QED BY <1>1, <1>2, <2>1, TaskCore
  <1>3. CASE \E c \in Cpus : update_blocked_averages(c)
    BY <1>1, <1>3, BlockedCore DEF update_blocked_averages, unchangedBounds
  <1>4. CASE pemt_module
    <2>1. toggles \in {0, 1} /\ toggles' = toggles + 1
      BY <1>4, BoundAssumption DEF pemt_module, TypeOK
    <2>2. ToggleInv'
      <3>1. pkshin_pemt_enabled' <=> ~pkshin_pemt_enabled
        BY <1>4, Zenon DEF pemt_module
      <3>2. toggles' = 1 <=> ~(toggles = 1)
        BY <2>1
      <3> QED BY <3>1, <3>2, Zenon DEF CoreInv, ToggleInv
    <2>3. toggles' = 1 => CoreSum'
      <3>1. toggles' = 1 => Blank'
        BY <1>4, <2>1 DEF CoreInv, Blank, BlankQueue, pemt_module
      <3>2. Blank' => CoreSum'
        BY BlankSums, PTL
      <3> QED BY <3>1, <3>2
    <2> QED BY <2>1, <2>2, <2>3 DEF CoreInv
  <1>5. CASE UNCHANGED vars
    BY <1>5 DEF vars, CoreInv, ToggleInv, Blank, BlankQueue, CoreSum, CoreEntities, Entity, QueueOf
  <1> QED BY <1>2, <1>3, <1>4, <1>5 DEF Next

\* At first there is no core utilisation.
LEMMA InitCore == Init => CoreInv
  <1> SUFFICES ASSUME Init PROVE CoreInv
    OBVIOUS
  <1>1. Blank
    BY DEF Init, Blank, BlankQueue, None
  <1> QED BY <1>1 DEF Init, CoreInv, ToggleInv

\* With one load of the pemt module, at any moment and followed by an unload or not, every
\* cfs_rq has exactly the core and memory utilisation of its entities while the module is there,
\* whatever slept, migrated or changed its class or group meanwhile.
THEOREM CoreIsDirectSum == ~Unattached /\ MaxToggles <= 2 => (Spec => []CoreDirectSum)
  <1> SUFFICES ASSUME ~Unattached, MaxToggles <= 2 PROVE Spec => []CoreDirectSum
    OBVIOUS
  <1>1. Init => TypeOK /\ AttachedInv /\ CoreInv
    BY InitTyped, InitSum, InitCore
  <1>2. TypeOK /\ AttachedInv /\ CoreInv /\ [Next]_vars => TypeOK' /\ AttachedInv' /\ CoreInv'
    BY NextTyped, AttachedNext, CoreNext
  <1>3. CoreInv => CoreDirectSum
    BY DEF CoreInv, ToggleInv, CoreSum, CoreDirectSum
  <1> QED BY <1>1, <1>2, <1>3, PTL DEF Spec
=============================================================================
