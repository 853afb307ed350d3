-------------------------------- MODULE Pemt --------------------------------
(***************************************************************************)
(* Per-entity memory tracking: how the PMU counters are sampled, how the   *)
(* ratio travels from the running task to its cfs_rq and its group, how    *)
(* pemt_module.c and cycle_module.c switch the tracking, and the execution *)
(* time the governor reads and clears (kernel/sched/fair.c, the last part  *)
(* of sugov_next_freq_shared).                                             *)
(*                                                                         *)
(* A memory_cycle_ratio is modelled by the tasks whose cycles it was       *)
(* computed from: {} is the zero of a missing sample, or the few cycles of *)
(* the scheduler itself.  The hierarchy has the root cfs_rq and one level  *)
(* of groups.  A group's entity on a CPU and the cfs_rq it owns have the   *)
(* same name <<group, cpu>>.  Time counts in the units of 1024 ns to which *)
(* __update_load_avg rounds.                                               *)
(***************************************************************************)
EXTENDS Integers

CONSTANTS Cpus, WorkCore,    \* work_core, the CPU the governor tracks
          Tasks, CpuOf,      \* the CPU of each task
          GroupOf,           \* its task group, or Root
          Root, None,
          MaxTime,           \* bounds on the clocks of the run queues
          MaxLag,            \* bound on the time a group spends throttled
          SpanMod,           \* 2^54: a difference of clocks wraps at 2^64 ns, before the shift
          TimeMod            \* 2^64: the modulus of exec_time and of the sums

Ges == {<<GroupOf[t], CpuOf[t]>> : t \in Tasks} \ ({Root} \X Cpus)
                                            \* group entities and their cfs_rqs

\* None is the null pointer and the idle task, and no task has the name of a group entity.
ASSUME PemtAssumption == /\ WorkCore \in Cpus /\ CpuOf \in [Tasks -> Cpus]
                         /\ None \notin Tasks \cup Ges /\ Tasks \cap Ges = {}
                         /\ MaxTime \in [Cpus -> Nat \ {0}]
                         /\ MaxLag \in Nat /\ SpanMod \in Nat \ {0}
                         /\ TimeMod \in Nat \ {0} /\ TimeMod % SpanMod = 0

\* MaxTime is how long the sums are watched.  A sample on a clock that lags may take
\* up to MaxLag from them; what all samples can take does not wrap around.
ASSUME HorizonAssumption == SpanMod > 2 * MaxTime[WorkCore] * (MaxLag + 1)

Rqs == Ges \cup ({Root} \X Cpus)
Ses == Tasks \cup Ges
cfs_rq_of(e) == IF e \in Tasks THEN <<GroupOf[e], CpuOf[e]>> ELSE <<Root, e[2]>>
CpuOfRq(q)   == q[2]

VARIABLES
  clock,      \* rq_clock_task of each run queue
  lag,        \* throttled_clock_task_time of each group's cfs_rqs
  queued,     \* tasks that are on_rq
  curr,       \* cfs_rq->curr of each cfs_rq
  counted,    \* whose cycles a CPU's counters counted since its prev values, if not zero
  prev,       \* the prev values of a CPU are not zero
  avg,        \* [se, rq, seTime, rqTime]: ratios and last_update_time
  pemt,       \* pkshin_pemt_enabled
  module,     \* what the loader of the pemt module does: [pc, ipi]
  cycle,      \* pkshin_cycle_enabled
  exec,       \* [time, clear, store]: exec_time, exec_clear_time of WorkCore and
              \* the value a CPU has computed and not yet stored, or -1
  total,      \* total_idle_time_sum + total_busy_time_sum
  governor,   \* None, or the clock a governor on another CPU has read
  remote,     \* another CPU updated the averages of a task while it ran
  raced       \* an update of exec_time overlapped a governor on another CPU
vars == <<clock, lag, queued, curr, counted, prev, avg, pemt, module, cycle, exec, total,
          governor, remote, raced>>

TypeOK ==
  /\ \A c \in Cpus : clock[c] \in 1 .. MaxTime[c]
  /\ lag \in [Ges -> 0 .. MaxLag]
  /\ queued \subseteq Tasks /\ curr \in [Rqs -> Ses \cup {None}]
  /\ counted \in [Cpus -> SUBSET (Tasks \cup {None})] /\ prev \in [Cpus -> BOOLEAN]
  /\ avg.se \in [Ses -> SUBSET (Tasks \cup {None})]
  /\ avg.rq \in [Rqs -> SUBSET (Tasks \cup {None})]
  /\ pemt \in BOOLEAN /\ cycle \in BOOLEAN
  /\ module \in [pc : {"out", "init", "in", "exit"}, ipi : SUBSET Cpus]
  /\ exec.time \in 0 .. TimeMod - 1 /\ exec.clear \in 0 .. MaxTime[WorkCore]
  /\ exec.store \in -1 .. TimeMod - 1
  /\ total \in 0 .. TimeMod - 1 /\ governor \in (1 .. MaxTime[WorkCore]) \cup {None}
  /\ remote \in BOOLEAN /\ raced \in BOOLEAN

Init ==
  /\ clock = [c \in Cpus |-> 1] /\ lag = [g \in Ges |-> 0]
  /\ queued = Tasks /\ curr = [q \in Rqs |-> None]
  /\ pemt \in BOOLEAN /\ module = [pc |-> IF pemt THEN "in" ELSE "out", ipi |-> {}]
  /\ counted = [c \in Cpus |-> {}] /\ prev = [c \in Cpus |-> pemt]
  /\ avg = [se |-> [e \in Ses |-> {}], rq |-> [q \in Rqs |-> {}],
            seTime |-> [e \in Ses |-> 1], rqTime |-> [q \in Rqs |-> 1]]
  /\ cycle = FALSE
  /\ exec = [time |-> 0, clear |-> 0, store |-> -1] /\ total = 0 /\ governor = None
  /\ remote = FALSE /\ raced = FALSE

(***************************************************************************)
(* The handlers below are sequences of updates.  They work on a record:    *)
(*   [curr, counted, prev, avg, exec]                                      *)
(***************************************************************************)
Now == [curr |-> curr, counted |-> counted, prev |-> prev, avg |-> avg, exec |-> exec]

Becomes(v) == /\ curr' = v.curr /\ counted' = v.counted /\ prev' = v.prev
              /\ avg' = v.avg /\ exec' = v.exec

cfs_rq_clock_task(q) == clock[CpuOfRq(q)] - (IF q \in Ges THEN lag[q] ELSE 0)

----------------------------------------------------------------------------
(* The counters *)

\* Mutant: the counters run on over a task switch.
no_pmu_update(v, me) == v

\* pkshin_pmu_update: the counters of the executing CPU start over.
pkshin_pmu_update(v, me) ==
  IF pemt THEN [v EXCEPT !.counted[me] = {}, !.prev[me] = TRUE] ELSE v

\* pkshin_pmu_get reads the counters of the executing CPU and starts them over; a
\* prev value of zero makes the difference, and the ratio, zero.
pkshin_pmu_get(v, me) == IF v.prev[me] THEN v.counted[me] ELSE {}

----------------------------------------------------------------------------
(* __update_load_avg *)

\* Mutant: an update that began before the last clear counts in full.
exec_whole_delta(last, now) == now - last

\* The execution time an update adds: the time since the last update, or since
\* the governor cleared it if that was later.  The clock of a group that was
\* throttled may be behind exec_clear_time: the difference wraps, and shifted right
\* it is no small negative number modulo 2^64, but one modulo 2^54.
ExecDelta(last, now) ==
  IF last > exec.clear THEN now - last ELSE (now - exec.clear) % SpanMod

\* Mutant: a group whose task has just been put has no ratio.
leaf_ratio_only(v, e) == IF v.curr[e] = None THEN {} ELSE v.avg.se[v.curr[e]]

\* The ratio of a group entity: of the task that runs below it, or of its cfs_rq
\* when that task has just been put.
GroupRatio(v, e) == IF v.curr[e] = None THEN v.avg.rq[e] ELSE v.avg.se[v.curr[e]]

\* __update_load_avg for an entity, executed on the CPU me.
UpdateSe(v, e, me) ==
  LET q     == cfs_rq_of(e)
      now   == cfs_rq_clock_task(q)
      last  == v.avg.seTime[e]
      runs  == v.curr[q] = e
      ratio == IF e \in Tasks THEN pkshin_pmu_get(v, me) ELSE GroupRatio(v, e)
      timed == [v EXCEPT !.avg.seTime[e] = now]
      rated == IF ~(pemt /\ runs) THEN timed
               ELSE IF e \in Ges THEN [timed EXCEPT !.avg.se[e] = ratio]
               ELSE [timed EXCEPT !.avg.se[e] = ratio, !.avg.rq[q] = ratio,
                                  !.counted[me] = {}, !.prev[me] = TRUE]
  IN  IF now = last THEN v
      ELSE IF cycle /\ runs /\ e \in Tasks /\ CpuOf[e] = WorkCore
        THEN [rated EXCEPT !.exec.store = (exec.time + ExecDelta(last, now)) % TimeMod]
        ELSE rated

\* __update_load_avg for a cfs_rq, which counts as running while it has a curr.
UpdateRq(v, q) ==
  LET now   == cfs_rq_clock_task(q)
      timed == [v EXCEPT !.avg.rqTime[q] = now]
  IN  IF now = v.avg.rqTime[q] THEN v
      ELSE IF pemt /\ v.curr[q] # None
        THEN [timed EXCEPT !.avg.rq[q] = v.avg.se[v.curr[q]]]
        ELSE timed

update_load_avg(v, e, me) == UpdateRq(UpdateSe(v, e, me), cfs_rq_of(e))

\* The entities of a task are the task and, if it is in a group, the group's entity.
Grouped(t) == cfs_rq_of(t) \in Ges
UpdatePath(v, t, me) ==
  LET w == update_load_avg(v, t, me)
  IN  IF Grouped(t) THEN update_load_avg(w, cfs_rq_of(t), me) ELSE w

----------------------------------------------------------------------------
(* Putting and setting entities *)

RootRq(c)  == <<Root, c>>
\* The task that runs on a CPU, or None: the CPU idles or runs another class.
Running(c) == LET e == curr[RootRq(c)] IN IF e \in Ges THEN curr[e] ELSE e
on_rq(e)   == \E t \in queued' : e \in {t, cfs_rq_of(t)}

put_prev_entity(v, e, me) ==
  LET w == IF on_rq(e) THEN update_load_avg(v, e, me) ELSE v
  IN  [w EXCEPT !.curr[cfs_rq_of(e)] = None]
set_next_entity(v, e, me) ==
  [update_load_avg(v, e, me) EXCEPT !.curr[cfs_rq_of(e)] = e]

PutAll(v, p, me) == LET w == put_prev_entity(v, p, me)
                    IN  IF Grouped(p) THEN put_prev_entity(w, cfs_rq_of(p), me) ELSE w
SetAll(v, t, me) == LET w == IF Grouped(t) THEN set_next_entity(v, cfs_rq_of(t), me) ELSE v
                    IN  set_next_entity(w, t, me)

\* The part of the hierarchy that changes between two fair tasks: below the top
\* the old one is put before the new one is set, and at the top again.
Switch(v, p, t, me) ==
  LET below  == IF Grouped(p) THEN put_prev_entity(v, p, me) ELSE v
      placed == IF Grouped(t) THEN set_next_entity(below, t, me) ELSE below
      top(q) == IF Grouped(q) THEN cfs_rq_of(q) ELSE q
  IN  IF p = t THEN v
      ELSE IF cfs_rq_of(p) = cfs_rq_of(t)
        THEN set_next_entity(put_prev_entity(v, p, me), t, me)
        ELSE set_next_entity(put_prev_entity(placed, top(p), me), top(t), me)

----------------------------------------------------------------------------
(* The run queues.  A handler runs under the rq->lock of its CPU: while a   *)
(* CPU has computed exec_time and not stored it, WorkCore's lock is held.  *)

RqLock(c) == c = WorkCore => exec.store = -1
Rest == UNCHANGED <<clock, lag, pemt, module, cycle, total, governor, raced>>

\* Time passes on a CPU; whoever runs there is counted.  Groups that do not run
\* there may be throttled meanwhile: their clock stands still.
Run(c) ==
  /\ RqLock(c) /\ clock[c] < MaxTime[c]
  /\ clock' = [clock EXCEPT ![c] = @ + 1]
  /\ counted' = [counted EXCEPT ![c] = IF prev[c] THEN @ \cup {Running(c)} ELSE @]
  /\ \E throttled \in SUBSET {g \in Ges : g[2] = c /\ curr[g] = None /\ lag[g] < MaxLag} :
       lag' = [g \in Ges |-> IF g \in throttled THEN lag[g] + 1 ELSE lag[g]]
  /\ UNCHANGED <<queued, curr, prev, avg, pemt, module, cycle, exec, total, governor,
                 remote, raced>>

\* entity_tick for every level of the running task.
Tick(c) ==
  /\ RqLock(c) /\ Running(c) # None
  /\ Becomes(UpdatePath(Now, Running(c), c))
  /\ UNCHANGED <<queued, remote>> /\ Rest

\* enqueue_task_fair: the averages of the path are brought up to date.
Wake(t) ==
  /\ RqLock(CpuOf[t]) /\ t \notin queued /\ Running(CpuOf[t]) # t
  /\ queued' = queued \cup {t}
  /\ Becomes(UpdatePath(Now, t, CpuOf[t]))
  /\ UNCHANGED remote /\ Rest

\* __schedule: the running task may sleep, dequeue_task_fair updates its path.
Deactivated(c, sleeps) ==
  IF sleeps THEN UpdatePath(Now, Running(c), c) ELSE Now
Deactivate(c, sleeps) ==
  /\ RqLock(c) /\ (sleeps => Running(c) # None)
  /\ queued' = IF sleeps THEN queued \ {Running(c)} ELSE queued
  /\ UNCHANGED remote /\ Rest

\* pick_next_task_fair restarts the counters before the task that ran is put.
PickFair(c, sleeps, t) ==
  /\ Deactivate(c, sleeps)
  /\ t \in queued' /\ CpuOf[t] = c
  /\ LET v == pkshin_pmu_update(Deactivated(c, sleeps), c)
     IN  Becomes(IF Running(c) = None THEN SetAll(v, t, c) ELSE Switch(v, Running(c), t, c))

\* No fair task is left: pick_next_task_fair returns NULL and the idle task puts it.
PickIdle(c, sleeps) ==
  /\ Deactivate(c, sleeps)
  /\ ~\E t \in queued' : CpuOf[t] = c
  /\ Running(c) # None
  /\ Becomes(PutAll(pkshin_pmu_update(Deactivated(c, sleeps), c), Running(c), c))

\* A task of a class above fair is picked and puts the fair task itself.
PickOther(c, sleeps) ==
  /\ Deactivate(c, sleeps)
  /\ Running(c) # None
  /\ Becomes(PutAll(Deactivated(c, sleeps), Running(c), c))

\* Another CPU dequeues and requeues a running task (a change of its priority):
\* the guard that would keep its counters out is commented out.
RemoteUpdate(me, t) ==
  /\ me # CpuOf[t] /\ RqLock(CpuOf[t]) /\ Running(CpuOf[t]) = t
  /\ Becomes(UpdatePath(Now, t, me))
  /\ remote' = TRUE
  /\ UNCHANGED queued /\ Rest

----------------------------------------------------------------------------
(* exec_time and the governor *)

\* The store that ends exec_time[cpu] += delta.
StoreExec ==
  /\ exec.store # -1
  /\ exec' = [exec EXCEPT !.time = exec.store, !.store = -1]
  /\ raced' = (raced \/ governor # None)
  /\ UNCHANGED <<clock, lag, queued, curr, counted, prev, avg, pemt, module, cycle, total,
                 governor, remote>>

\* The tail of sugov_next_freq_shared for a clock read as now.
Clear(now) ==
  LET interval == (now - exec.clear) % SpanMod
      idle     == IF interval > exec.time THEN interval - exec.time ELSE 0
  IN  IF interval = 0 THEN UNCHANGED <<exec, total>>
      ELSE /\ total' = (total + idle + exec.time) % TimeMod
           /\ exec' = [exec EXCEPT !.time = 0, !.clear = now]

Unsampled == UNCHANGED <<clock, lag, queued, curr, counted, prev, avg, pemt, module, remote>>

\* The governor on WorkCore itself, which holds its rq->lock.
Govern ==
  /\ cycle /\ exec.store = -1 /\ governor = None
  /\ Clear(clock[WorkCore])
  /\ UNCHANGED <<cycle, governor, raced>> /\ Unsampled

\* The governor on another CPU of the policy reads WorkCore's clock ...
GovernRead ==
  /\ cycle /\ governor = None
  /\ governor' = clock[WorkCore]
  /\ raced' = (raced \/ exec.store # -1)
  /\ UNCHANGED <<cycle, exec, total>> /\ Unsampled
\* ... and clears exec_time later.
GovernClear ==
  /\ governor # None
  /\ Clear(governor) /\ governor' = None
  /\ raced' = (raced \/ exec.store # -1)
  /\ UNCHANGED cycle /\ Unsampled

\* A read or a write of cycle_module's attribute clears the sums.
ClearSums ==
  /\ cycle /\ total' = 0
  /\ UNCHANGED <<cycle, exec, governor, raced>> /\ Unsampled

\* cycle_module is loaded or removed.
CycleModule ==
  /\ cycle' = ~cycle
  /\ UNCHANGED <<exec, total, governor, raced>> /\ Unsampled

----------------------------------------------------------------------------
(* pemt_module *)

Loading(pc, ipi) == module' = [pc |-> pc, ipi |-> ipi]
Loader == UNCHANGED <<clock, lag, queued, curr, avg, cycle, exec, total, governor, remote, raced>>

\* on_each_cpu starts its calls: enable_pmu_want before the flag is set ...
pkshin_init ==
  /\ module.pc = "out" /\ Loading("init", Cpus)
  /\ UNCHANGED <<counted, prev, pemt>> /\ Loader
\* ... disable_all_pmu after it is cleared.
pkshin_exit ==
  /\ module.pc = "in" /\ pemt' = FALSE /\ Loading("exit", Cpus)
  /\ UNCHANGED <<counted, prev>> /\ Loader
\* The call on one CPU: both handlers end with prev values of zero.
Ipi(c) ==
  /\ c \in module.ipi /\ RqLock(c)
  /\ Loading(module.pc, module.ipi \ {c})
  /\ prev' = [prev EXCEPT ![c] = FALSE] /\ counted' = [counted EXCEPT ![c] = {}]
  /\ UNCHANGED pemt /\ Loader
Loaded ==
  /\ module.pc = "init" /\ module.ipi = {}
  /\ pemt' = TRUE /\ Loading("in", {})
  /\ UNCHANGED <<counted, prev>> /\ Loader
Removed ==
  /\ module.pc = "exit" /\ module.ipi = {}
  /\ Loading("out", {})
  /\ UNCHANGED <<counted, prev, pemt>> /\ Loader

Next ==
  \/ \E c \in Cpus : Run(c) \/ Tick(c) \/ Ipi(c)
  \/ \E c \in Cpus, sleeps \in BOOLEAN :
       \/ PickIdle(c, sleeps) \/ PickOther(c, sleeps)
       \/ \E t \in Tasks : PickFair(c, sleeps, t)
  \/ \E t \in Tasks : Wake(t) \/ \E me \in Cpus : RemoteUpdate(me, t)
  \/ StoreExec \/ Govern \/ GovernRead \/ GovernClear \/ ClearSums \/ CycleModule
  \/ pkshin_init \/ pkshin_exit \/ Loaded \/ Removed

Spec == Init /\ [][Next]_vars

----------------------------------------------------------------------------
(* Properties *)

\* The sample of a task holds no cycles of another task, and that of a group or a
\* cfs_rq only cycles of tasks below it, whatever switches, wakeups and loads and
\* removals of the module lie between the samples: the counters are restarted by
\* pick_next_task_fair and read before each switch.  The exception is a task that
\* another CPU updates while it runs: it gets that CPU's cycles, and so do the
\* groups above it and, from their cfs_rq, what runs there later.
NoForeignCycles ==
  ~remote =>
    /\ \A t \in Tasks : avg.se[t] \subseteq {t}
    /\ \A g \in Ges : avg.se[g] \cup avg.rq[g] \subseteq {t \in Tasks : cfs_rq_of(t) = g}
    /\ \A c \in Cpus : avg.rq[RootRq(c)] \subseteq {t \in Tasks : CpuOf[t] = c}

\* What the samples and the update of the averages rely on: every variable keeps its
\* type, so that no average names a task that never ran, and NoForeignCycles.
SamplesConsistent == TypeOK /\ NoForeignCycles

\* The group entity above a running task follows it: a step that updates the
\* group's average while it runs leaves it with the ratio of the task that ran
\* below it, also when that task is put first and the group has no curr.  A task that
\* has only just been set has not run: until its first sample the group has what it or
\* the task before it had.
RatioFollowsRunner ==
  [][\A g \in Ges :
       (/\ pemt /\ curr[RootRq(g[2])] = g /\ curr[g] # None
        /\ avg.seTime[curr[g]] # cfs_rq_clock_task(g) /\ avg'.seTime[g] # avg.seTime[g])
         => avg'.se[g] = avg'.se[curr[g]]]_vars

\* The number that x stands for if differences that wrapped are read as negative.
Signed(x) == LET w == x % SpanMod IN IF 2 * w >= SpanMod THEN w - SpanMod ELSE w

\* A group of WorkCore has been throttled.
Lagged == \E g \in Ges : CpuOfRq(g) = WorkCore /\ lag[g] # 0

\* The execution time since the governor cleared it fits into the time since then,
\* and the idle and busy sums it was added to into the time up to the clear.  After
\* a group was throttled this is so only up to a multiple of 2^54 for each
\* difference that wrapped.  It needs that no governor on another CPU cleared
\* exec_time during an update of it, which is not locked out.
ExecTimeFits ==
  ~raced => /\ Signed(exec.time) <= clock[WorkCore] - exec.clear
            /\ Signed(total) <= exec.clear
            /\ ~Lagged => /\ exec.time <= clock[WorkCore] - exec.clear
                          /\ total <= exec.clear
=============================================================================
