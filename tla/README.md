# A TLA+ project for mSchedutil

The repository is a Linux 4.9 scheduler for the Jetson AGX Xavier with two
extensions: per-entity memory tracking (PEMT), which splits the tracked
utilisation of a task into core and memory time with hardware counters, and a
schedutil governor that asks for the frequency at which core and memory time
fit. This directory holds TLA+ models of it, the TLC runs that check them and
the TLAPS proofs about them. In what follows S is
`mSchedutil/kernel/sched/cpufreq_schedutil.c`, F is
`mSchedutil/kernel/sched/fair.c`, H is `mSchedutil/kernel/sched/sched.h`.

## 1. Inventory

| component | state | operations | interacts with |
|---|---|---|---|
| governor arithmetic (S 248-382) | none | utilisation, margin, frequency | averages, tunables |
| governor instance (S 151-222, 384-626, 662-746, 965-1024) | `sugov_policy`, `sugov_cpu`, tunables | update hooks, irq_work, kthread, start, stop, limits, sysfs stores | scheduler hooks, cpufreq core |
| governor lifecycle (S 858-963) | `global_tunables`, kthread | init, exit | cpufreq core |
| CFS bandwidth (F 4700-5520) | pool `cfs_b`, per-CPU runtime, throttled list, two hrtimers | account, assign, throttle, distribute, return slack, hotplug | enqueue, dequeue, pick, `tg_set_cfs_bandwidth` |
| attachment of averages (F 3740-4160, 11168-11365) | `cfs_rq.avg`, `removed_*`, `se.avg.last_update_time` | attach, detach, remove, fold | fork, wakeup, balancing, class and group change, pemt module |
| PELT numerics (F 885-890, 2960-3434) | sums and averages | `__update_load_avg` | clock, PMU ratio |
| PEMT sampling (F 60-178, `pemt_module.c`) | per-CPU previous counters, `memory_cycle_ratio` | sample, restart, load, remove | PELT, pick_next_task |
| cycle tracking (F 3239-3256, S 526-546, `cycle_module.c`) | `exec_time`, `exec_clear_time`, sums | add, clear, show | governor of another CPU |
| run queue (F 644-880, 4219-4640, 8045-8372) | rb-tree, `min_vruntime`, buddies | enqueue, dequeue, place, pick, preempt, yield, fork, migrate | everything |
| groups (F 2848-2957, 3487-3728) | shares, propagation flags | reweight, propagate | attachment, bandwidth |
| load balancing (F 8509-8893, 9889-10634, 10778-10879, H 1795-1917) | `cfs_tasks`, runqueue locks, `lb_env`, `active_balance`, `push_cpu` | pull, push, lock two queues | stopper, affinity, wakeups |
| its statistics (F 9081-10059) | group capacity, overutilized mark | busiest group and queue, imbalance | load balancing |
| cpu_load (F 5723-5991) | `cpu_load[]` | update at the tick and after nohz | wakeup placement |
| nohz balancing, intervals (F 10641-10770, 10881-11026) | idle masks, kick flags, intervals | kick, elect | load balancing, tick |
| wakeup placement and energy model (F 6000-7951) | none of its own | idle sibling, idlest group and CPU, best target, energy difference | all statistics, `select_task_rq` |
| NUMA balancing | preferred nodes | scan, swap | off on one node |
| switches (`ms_module.c`, `perf_module.c`, `track_module.c`, `overhead_module.c`) | one flag each | load, unload | governor |

What is hard in this code:

* the governor runs on several CPUs, in an interrupt and in a kthread, and its
  fields are protected by three different locks or by none;
* starting and stopping it must order hooks, irq_work and kthread work;
* bandwidth control drops `cfs_b->lock` while it distributes what it has read,
  walks a list under RCU that others change, and has two timers;
* a wakeup takes a task's averages out of another CPU's `cfs_rq` without that
  CPU's lock, in several atomic additions;
* load balancing decides on queues it has not locked, drops a lock in the middle
  of moving a task, locks two queues in both directions and changes its
  destination half way;
* PEMT tests a global switch at each place that moves averages, and the switch
  may change between an attach and the matching detach; the counters it reads
  count whatever the CPU runs, so samples and restarts must meet the switches of
  tasks; its execution time is added to and cleared by two CPUs without a lock;
* virtual time wraps around, is relative to one of many `min_vruntime` at a time,
  and the buddies are pointers nobody counts;
* the arithmetic has tables, inverses, shifts and minima in integers, where an
  error of one does not show in a test.

`PROJECT.json` lists these as hazards, each with its line and the properties
that would catch it.

## 2. Modules

| module | models | extends |
|---|---|---|
| `SugovMath` | the governor's arithmetic, pure operators | |
| `Sugov` | one running governor instance | `SugovMath` |
| `SugovProofs` | type correctness, inductive invariant and safety of `Sugov`, proved | `Sugov` |
| `Pelt` | `__update_load_avg`, its tables, its PEMT sums | |
| `CpuLoad` | `cpu_load[]` and its decay over missed ticks | |
| `CfsSlice` | periods, slices, virtual time | |
| `LbStats` | which group and queue are busiest, and the imbalance | |
| `EnergyModel` | the energy of groups of CPUs before and after a move | `LbStats` |
| `WakePlacement` | `select_task_rq_fair` | `EnergyModel` |
| `Pemt` | counters, samples, ratios, execution time, the two modules | |
| `CfsRq` | run queues of tasks: virtual time, tree, buddies, picking | `CfsSlice` |
| `CfsRqProofs` | order, credit, monotony and fairness of the run queues, refinement of `Placement`, proved | `CfsRq`, `ListLemmas` |
| `PemtProofs` | whose cycles a sample holds, whose ratio a group has, and that execution time fits, proved | `Pemt` |
| `CfsBandwidth` | bandwidth control of one group | |
| `CfsBandwidthProofs` | list, timers, overruns and accounting, proved | `CfsBandwidth`, `ListLemmas` |
| `LoadAttach` | attachment of averages and the PEMT gates | |
| `LoadAttachProofs` | direct sums of load, utilisation and core utilisation, proved | `LoadAttach` |
| `LoadBalance` | pulling and pushing tasks between CPUs | |
| `ListLemmas` | lists without repetition, least elements: lemmas | |
| `LoadBalanceProofs` | the inductive invariant of `LoadBalance`, and the steps that pull tasks | `LoadBalance`, `ListLemmas` |
| `LoadBalanceSafety` | the other steps, the safety theorems, and that `LoadBalance` implements `Placement` | `LoadBalanceProofs` |
| `Placement` | what run queues and balancer promise: the abstract specification | |
| `MCArith`, `MCWake` | inputs and properties of the pure modules | those modules |
| other `MC...` | instances for TLC | the module they name |

Definitions keep the C names. Operators named "Mutant" in a comment are
faulty variants of the definition below them; no specification uses them. They
are there to show that the property named for them in `PROJECT.json` would
notice that fault.

### 2.1 SugovMath and Sugov

The variables of `Sugov` are the fields of `sugov_policy`, `sugov_tunables`,
`sugov_cpu` and `cpufreq_policy`, an activation record `frame[c]` per running
hook, and a program counter for the kthread (`worker`), the cpufreq core
(`core`) and the sysfs writer (`store`).

* **Hook** (`sugov_update_shared`, `sugov_update_single`): the scheduler samples
  its clock (`cpufreq_update_util`), the hook waits for `update_lock` if the
  policy is shared and passes `sugov_should_update_freq` (`sugov_update_enter`),
  clears a limits request (`sugov_force_update`: the test of
  `need_freq_update` and its clearing are two steps because `sugov_limits`
  writes the flag without a lock), evaluates (`sugov_eval_max`,
  `sugov_eval_util`), commits (`sugov_update_commit`) and unlocks.
  `sugov_eval_oops` is the NULL dereference of the work core's `sg_policy`.
* **irq_work and kthread**: `sugov_irq_work`, then `sugov_work` in five steps,
  because it reads `next_freq` and clears `work_in_progress` without
  `update_lock`.
* **cpufreq core**: `sugov_start` and `sugov_stop` loop over the CPUs in steps;
  `sugov_limits` takes `work_lock`, applies the limits and raises
  `need_freq_update`.
* **sysfs**: the stores of the two rate limits are three steps (tunable, delay,
  minimum), interleaved with `sugov_start` and the hook.
* **Modules**: loading and unloading flips a member of `mods`.

`SugovMath` keeps the integer rounding, saturation and truncation. The scale
1024 and 2^32 are constants.

Assumed of what is outside the repository: the driver's table lookup is
CPUFREQ_RELATION_L; policy limits are table frequencies; the core calls
`limits` after `start`; no fast switch (S 26-30 stub it out); division by zero
gives 0 (arm64 UDIV; the Makefile builds for aarch64); `work_core` is a CPU of
the policy. Xavier's clusters have two CPUs, so the policy of `work_core` = 3
is {2,3}. There a hook of CPU 2 may run before `sugov_start` has set up CPU 3 and
meets a NULL `sg_policy` (`sugov_eval_oops`), which stops that CPU; liveness
promises nothing after that.

### 2.2 CfsBandwidth

One group below the root. Its state is the pool, one `cfs_rq` per CPU, the
throttled list with the `next` pointers of unlinked entries (`stale`), which an
RCU walker may still follow, both timers, and for each timer the
`distribute_cfs_runtime` in progress (`walk`). A section under `cfs_b->lock` is
one step; `rq[c]` says which operation holds the lock of CPU c and what it has
left to do, so that an operation that asks the pool for runtime in its middle is
several steps (`update_curr`, `assign_cfs_rq_runtime`, then `Rest`).
`idle_balance` drops and retakes `rq->lock`. `handed` is a history variable over the
time since the last refill: what the pool has given out less what came back (`out`), the
most by which more came back than was given out (`back`), and what slack distributions
could give (`slack`).

Assumed: `cfs_bandwidth_used()` is true; clocks of the CPUs agree and stand
still while an operation holds `rq->lock` (the kernel samples `rq_clock` once
per operation); the period does not change; `tg_set_cfs_bandwidth` is modelled
from how F uses its effects. Groups in groups (`throttle_count`) and the throttled
clocks are left out.

### 2.3 LoadAttach

A task has a state in its life (forked, queued, sleeping, being woken, migrating,
exiting), a CPU, a group, a class, whether `last_update_time` is non-zero, and
whether it has accrued core/memory utilisation. A `cfs_rq` has its average and
its `removed_*`, in units: every task weighs one unit, and nothing decays.
`util` stands for load, utilisation and their fast variants, `core` for the four
PEMT averages; the code treats the members of each family alike.
`remove_entity_load_avg` is two steps, since it does not hold the old CPU's lock.
Core.c (`try_to_wake_up`, `sched_setscheduler`, `sched_move_task`) is external
and is modelled from the callbacks it makes. Group entities, propagation to the
parent and throttling are left out.

### 2.4 LoadBalance

Every CPU has one thread of control, `env[c]`: its `pc` and the fields of its
`lb_env`. A CPU runs tasks (`"run"`), or it is in the softirq, in `idle_balance`
or in its stopper; none of these gives way to another. `rq[c]` has the lock's
holder, `cfs_tasks` in list order, `curr`, `active_balance`, `push_cpu` and
whether the stopper's work is queued; `task[t]` has `on_rq`, `cpu`,
`cpus_allowed` and whether a `migration_cpu_stop` is on its way.

* **Callers**: `run_rebalance_domains` (also for an idle CPU, as
  `nohz_idle_balance` does), `rebalance_domains` per domain, `idle_balance` per
  domain and its end.
* **Pull**: `redo` (may we, from whom, how much), `detach_tasks` one turn of its
  loop per step, `detach_task` up to the locks, `set_task_cpu`, `attach_tasks`,
  then `Decide`: break, new destination, redo, active balancing or return.
* **Locks**: `double_lock_trylock` and `double_rq_lock` are
  `_double_lock_balance` without and with CONFIG_PREEMPT; the constant
  `Preempt` chooses. A waiting CPU is a disabled step.
* **Push**: `load_balance_active`, `stop_one_cpu_nowait`, and
  `active_load_balance_cpu_stop` in four steps.
* **Outside**: wakeup, switch, sleep, affinity change and its stopper are
  external, each under the runqueue locks it takes. Runqueues are ordered by
  CPU number, as the addresses the code compares are.

Heuristics are choices: which queue is busiest and the imbalance
(`Imbalances`), cache hotness, throttling, whether a domain is due, whether
active balancing is needed. Left out with them: `nr_balance_failed`, the
intervals, the parent's imbalance flag; also SD_SERIALIZE, CPU hotplug and other
scheduling classes.

### 2.5 CfsRq, CfsSlice and Placement

`rq[c]` has `min_vruntime`, `curr`, the tree as a sequence in the order of the
walk, the three buddies, the time since `exec_start` (`delta`), the reschedule
flag and where the CPU stands between two handlers; `se[t]` has `vruntime`,
weight, `on_rq`, CPU and the state of the task's life. A handler is a chain of
updates of the pair `[rq, se]`, one operator per C function and in the order of
the code: `update_curr`, `place_entity`, `enqueue_entity`, `dequeue_entity`,
`pick_next_entity`, `check_preempt_wakeup` and so on. Steps end where `rq->lock` is
released: `idle_balance` and the window between `yield_task_fair` and `schedule`
are of their own. `vruntime` is a word modulo `VMod` and is compared by the sign of
the difference. Time passes by `Elapse`, between any two handlers. Group entities are
left out; the features are those of `features.h` that matter on one level.
`yield_to_task_fair` has targets on the CPU that yields (a target elsewhere is told by
its own queue's `next` in the same way), `RETRY_TASK` is left out with the classes that cause
it, and `sched_setscheduler` dequeues with DEQUEUE_SAVE alone, as `set_user_nice` does.
A task of another class that forks a fair one leaves the child the `vruntime` of 0 and the
nice level that `sched_fork` gave it (F 11127 finds no `curr`).

The comparison by the sign is right only as long as the words compared are less than half
the circle apart. The code relies on it: 2^64 ns of virtual time. The module says what
that means: `MaxDebit` bounds a placement, `Horizon(time)` how far ahead of `min_vruntime`
somebody can be after that much time, `Reach` how far a `min_vruntime` can get when
tasks that far ahead arrive, and `WrapAssumption` asks `VMod` to be more than four times
as much, with the credit. `VirtualTimeAssumption` says what is needed of `CfsSlice`: virtual
time is at most `NICE_0_LOAD` times as fast as time, and a slice is no longer than the
period. `StartAssumption` is about the `vruntime` of 0: `min_vruntime` starts 2^20 before
it (`init_cfs_rq`) and must not have come a quarter of the circle, so that `place_entity` lifts such
a child to its place. Every run of `CfsRq` evaluates all three; modulo 1024 is what the instance needs. A
task that sleeps while `min_vruntime` gets half the circle ahead is ruled out by
them, as by the code, which has no test for it.

`CfsSlice` is the arithmetic below: `__calc_delta` with the inverse shifted into a
word, periods and slices.

`Placement` is the contract between run queues and load balancer: a task is
queued on at most one CPU, a CPU runs what is queued on it, and a running task is
taken away by its own CPU only. `CfsRq` and `LoadBalance` each implement it
under a refinement mapping (`Abstract`); the two agree on it, so that what one
leaves open (which task moves when) is what the other does. In `LoadBalance` a
migrating task is nowhere, and a task the balancer has detached can come back on
any CPU; in `CfsRq` it is nowhere between leaving its old queue and
`sched_ttwu_pending`.

### 2.6 Pemt

A ratio is abstracted to the set of tasks whose cycles it was computed from.
`counted[c]` says whose cycles the counters of CPU c have counted since the
previous values were stored, `prev[c]` whether there are previous values;
`pkshin_pmu_get` and `pkshin_pmu_update` are what the C functions do to them.
The entities are tasks, group entities and cfs_rqs on two levels; a scheduler
operation walks the path of a task from the bottom up, as `for_each_sched_entity`
does, with `curr` of each level cleared or set on the way. Loading the module sends an
IPI to each CPU, one step each. `exec_time` is read and stored in two steps
(`StoreExec`), and a governor on another CPU reads its clock and clears in two
steps, since no lock covers both. Time counts in units of 1024 ns: a difference of clocks
wraps at 2^64 ns and is then shifted right, so that it wraps modulo 2^54 (`SpanMod`) and
is added to words of 2^64 (`TimeMod`). `MCPemt` explores the two trackers (counters,
execution time) one at a time: they share the clock only.

### 2.7 Pelt, CpuLoad, LbStats, EnergyModel, WakePlacement

Pure operators, one per C function. The tables of `Pelt` are parameters and the
instance has short ones, made as the real ones are; `CpuLoad` has the real tables.
`LbStats` works on a sequence of groups, each a set of CPUs, and the statistics of
each CPU; `EnergyModel` adds the energy tables and two levels of domains,
`WakePlacement` the task and the wakeup. `wake_affine`, `find_idlest_group`, `find_idlest_cpu`,
`select_idle_sibling`, `capacity_aware_wake_cpu`, `find_best_target` and
`select_energy_cpu_brute` are folds over the CPUs in the order the code visits them, so
that ties go where they go in the code. Left out: WALT, SMT siblings, hotplug
during an energy computation, the biased loads of LB_BIAS, and SchedTune's own
verdict on a boosted task, which is an input. `sync_entity_load_avg` before the choice
is not repeated: an input is the utilisation as of the wakeup.

## 3. Runs

One run expects a violation: it states what a comment says and shows that the
code does something else. The others pass.

| run | question | bounds |
|---|---|---|
| `arith` | Are the pure functions right: the request of the governor is the least that fits and monotone (`RequestIsLeast`), load averages (`LoadAveragesExact`), `cpu_load[]` (`CpuLoadExact`), slices and virtual time (`SharesExact`), imbalance (`PullsImprove`), group shares (`EffectiveLoadIsShareShift`), wakeup placement (`WakesWhereAllowed`, `IdleCpuNotOverlooked`, `EnergyChoiceSound`) | a state is an input: every mix on a scale of 12 for the governor, with and without the performance-aware margin; histories of up to three updates, from within a period to past `maxn`; up to four CPUs and three tasks per CPU for balancing; every machine of two small and two big CPUs of four kinds each, six setups of the kernel, 20 tasks and 8 wakeups |
| `sugov_shared` | Two CPUs, restarts, limits changes: one transition, complete stop, limits, monotone time; under fairness every transition ends and every limits change is noticed | 2 frequencies, 2 limits, clock 2..3: rate limits pass and block |
| `sugov_single` | One CPU without `update_lock`, all tunables, pemt and frequency module: no sentinel to the kthread, right minimum rate | clock 1..2; one value to store per knob: the rate limits are 1 and 0 at first and 1 is stored, the boost goes to 0, the margin stays 1; deadline and I/O-wait updates |
| `bw_slack` | Both timers, hotplug: timer alive, nothing lost, over-use bounded, quota enforced | clock to 4: two periods; long enough for leftover runtime to come back to a later pool and for both distributions to overlap, so that neither `handed.back` nor `handed.slack` can be left out of `OveruseBounded`; a CPU goes offline before or during the first refill (by 2) and comes back whenever |
| `bw_set` | Quota changes, tasks moved in: exact throttled list, overruns acted on, group queued exactly when it may run | 2 CPUs, quota 2, one change, to less or to no quota; the history variable is left out of the fingerprint (`WithoutHistory`): no action reads it, and of the properties only its part of `TypeOK`, which this run therefore does not check in full (it is proved, section 4) |
| `bw_live` | The distribution of each refill ends, also when it outlasts the period | period 1 and clock to 2: the callback goes round again for the refill that came due while it distributed the first; slack timer never, fairness |
| `attach` | Averages are the direct sum of the entities | 2 tasks, 2 CPUs, 2 groups, 2 changes, one load of the module |
| `lb` | No task lost, misplaced or on a forbidden CPU; lock order; one active balance; implements `Placement` | clusters {0,1} and {2}, 2 tasks, 0 balances for itself and for 1 when a task is pinned, 2 is newly idle, one mask change, at most two tasks looked at per pass; no CONFIG_PREEMPT |
| `lb_live` | Every call of the balancing code ends | the same CPUs, 0 also balances for an idle 1, masks {0,2} and {1,2} so that `dst` changes, an imbalance that may be zero, a break after two tasks (with the stopper there are three); CONFIG_PREEMPT, fairness |
| `pemt` | Whose cycles a sample holds, whose ratio a group follows, whether execution time fits into elapsed time | one group, a task in it and one in the root group on the work core; clocks to 3 and 2 |
| `cfsrq` | `min_vruntime` monotone, no extra credit, tree sorted, buddies queued, no unfair pick; implements `Placement` | 3 tasks, 2 CPUs, `vruntime` modulo 1024 starting one before the wrap-around on the CPU where the tasks were forked, two weights, two units of time, one move, change of weight or fork by another class |
| `cfsrq_putback` (violation) | "in this case we'll be put back on, and ... penalized" (F 4452) | as `cfsrq` |

Properties that share an instance and belong together are conjunctions of named
parts (`RuntimeAccounted == QuotaEnforced /\ NoRuntimeLost`): TLC names the whole, the
part is in the module.

Two CPUs give every race between a hook and another CPU's hook, between a walker
and a CPU, and between old and new CPU of a migration; no code path counts
further than "this CPU" and "another". One task per CPU is enough in the
bandwidth runs because throttling looks at `nr_running > 0` only. Balancing
needs a third CPU: a group of two, so that a pinned task has another destination,
and a queue outside it that pulls in the opposite direction; two tasks are a
queue with one to leave and one to take, and more than one turn of every loop.
Three tasks on one queue are one that runs, one buddy and one that the buddy
overtakes. The scales of `arith` keep every rounding case: at 12, 16 and 64 units
divisions leave every remainder.
Deadlock is checked in the balancing runs, where it would be CPUs that wait for
each other's locks with nobody else able to move (`LockOrder` says that no such cycle
begins). It is not checked where time or the number of tasks ends, nor
in `sugov_shared`, where an oops stops the CPU.

`OveruseBounded` makes the "limited amounts" of F 5087 precise: what is given out between
two refills and what the pool still holds stay within twice the quota, plus what came
back of earlier periods, plus twice what slack distributions could give. Twice the quota
alone is not enough (section 5, F 5028). Both it and `NoRuntimeLost` hold as long as the
quota is not changed during a distribution (F 5100 subtracts what was distributed without asking whether
the pool is still that of the same period). `NoForeignCycles` and `ExecTimeFits`
have the exceptions that the code has: a task updated by another CPU while it
runs, and an update of `exec_time` that overlaps a clear; once a group of the work core
has been throttled, execution time fits up to a multiple of 2^54 only (section 5).
`RatioFollowsRunner` asks
for a task that has run since its own average was updated: with two tasks in a group
the one just set leaves the group with the ratio of the task before it until it is
sampled. `NoOverestimate` grants
one period to an update over `LOAD_AVG_MAX_N` periods or more. `PullDoesNotOvershoot`
is about periodic pulls between equal groups, `WakesWhereAllowed` about tasks that
may run where they were; each exception is described in section 5.

### Fairness

`Sugov`: the tick calls the hook of a running CPU, so calls of the hook and its
steps are weakly fair; interrupts and the SCHED_FIFO kthread run; a cpufreq call
that began is carried through. `work_lock` is a mutex with a queue, hence strong
fairness for taking it. Nothing is assumed of restarts, limits changes, sysfs or
modules. `CfsBandwidth`: a CPU that holds `rq->lock` goes on, a timer callback
goes on; a walker that waits for a ticket spinlock gets it, hence strong fairness
for its visit. Ticks, wakeups and sleeps are not fair. `LoadBalance`: the steps of
a CPU inside the balancing code and the start of a queued stopper are strongly
fair, because runqueue locks are ticket or queued spinlocks; nothing is assumed
of wakeups, switches, sleeps or of the softirq.

## 4. Proofs

The theorems hold for every value of the constants that satisfies the assumptions
named `...Assumption` in the modules, which every run evaluates: any number of CPUs,
tasks and groups, any quota, table or tunable, any bound. Each component has an
inductive invariant `IInv` (in `LoadAttachProofs`, `AttachedInv` with the sum it is
about). It was first checked by TLC on the instance of the run (that of `CfsRqProofs`
speaks of integers that TLC cannot enumerate; TLC checked what follows from it), then
proved to hold at first and to be kept by each action. What the runs check follows from it.

**`SugovProofs`.** `TypeCorrect`: the frequency fields are the interesting part, as
`next_freq` is a table frequency, `UINT_MAX` or the initial 0. Invariants: `OneTransition`,
`WorkerTargetsTableFreq`, `StopQuiesces`, `HookSeesPolicy`, `LimitsHold` and
`MinRateIsMinimum`; action properties: `RejectsWhileInProgress` and `UpdateTimeMonotone`.
None of the invariants is inductive alone. `IInv` adds `UpdateExclusion` (only one hook
is past the checks, by `update_lock` or because there is one CPU), `PhaseInv`
(what may still run in each phase of start and stop), `CommitInv` (what a hook is
about to commit is not the sentinel unless `next_freq` is), `HookInv` (installed
hooks have their `sg_policy`), `WorkLockInv` and `LimitsInv` (who is between
reading the limits and switching). The argument: a hook passes
`sugov_should_update_freq` only without a transition, and keeps every other hook
out until it has committed; only a commit starts a transition; so a transition
finds nobody deciding, and nobody decides until the kthread clears
`work_in_progress`. Stop removes the hooks first, waits for running ones, and only
then waits for irq_work and kthread, so each phase inherits that the earlier
stages are empty.

**`LoadBalanceProofs`, `LoadBalanceSafety`.** `LockOrder`,
`AffinityKept`, `ActiveBalanceOnce`, `TasksConsistent`, and that every behaviour is one of
`Placement` (`BalancerImplementsPlacement`: initial states map to initial states, a
step to a `Move`, a `Switch` or a stutter). `IInv` says at each `pc` what the `lb_env`
still guarantees after a lock was dropped (`Shape`), which runqueue locks are held (`Locks`;
`LocksHeld` makes it exact), where each task is (`QueuesExact`: on exactly the queue
of its CPU; `HandsExact`: in exactly one hand while it migrates; `HandsForDst`: the
destination of the moment is one it may run on), what runs (`CurrQueued`) and who owns
`active_balance` (`ActiveOwned`). The argument: a task leaves a queue under that
queue's lock, and between detach and attach its `on_rq` keeps everyone else from it;
`set_cpus_allowed` waits for it, so its mask still fits when it arrives, and
a destination can change (`LBF_DST_PINNED`) only while the hand is empty.
`Locks` shows that a CPU that waits holds nothing, or the lower of its two locks. The
domains need not nest or cover the CPUs: `DomainsAssumption` asks only for a CPU to be in the
local group of its own domains.

**`CfsBandwidthProofs`.** `ThrottlingConsistent`, `ThrottledHasTimer`, `OverrunIsNoticed`,
`RuntimeAccounted` and `OveruseBounded`. `IInv` has `QueueInv` and `RuntimeInv`, which say for each point
of an operation what is known of its `cfs_rq` (between operations: queued exactly when
there is something to run and it is not throttled; negative runtime only where it has
been noticed), `ListInv` (`throttled_list` is the set of throttled `cfs_rq`s, each once),
`OfflineInv` and `TimerInv` (`period_active` if and only if the timer is armed or its
callback runs). A walker that has dropped `cfs_b->lock` follows stale pointers, but
unthrottles only what it finds throttled under `rq->lock`, so the list never depends on
where it is. `RuntimeAccounted` needs more: `AccountInv` says that `handed` and the pool make up the
quota even without what the running walks have given, which is in both as long as the
pool they read has not been written back; a slack walk that a refill has overtaken
is left out, since its `expires` is then that of an earlier pool (a refill moves
`runtime_expires` past that of every walk). `OveruseInv` bounds the same sum from above.
While a walk of the period timer is on its way, the sum exceeds the quota by no more than
what the walk has given, and the walk began with no more than the quota and what came back,
since whatever the pool got beyond what it gave is on record in `handed.back`. If it ends
with a pool that covers what it gave, the write-back restores the sum, and the next walk
starts from the same bound; if not, the pool is empty, and no walk of the period timer
follows before the refill: the total of one walk is the whole loss. A slack walk can add its
total to both, to the sum and to what a walk starts with, hence the factor two (in
`bw_slack` one would do). Both
are proved for a quota that is not changed (`MaxSets = 0`): a change during a distribution
breaks them (section 3), and the run has the same restriction.

**`LoadAttachProofs`.** `TypeOK`, `DirectSum`, and `CoreDirectSum` for one load of the pemt
module (`MaxToggles <= 2`: a second load finds what an unload left behind, section 5),
both if tasks do not change class or group while they are unattached (`~Unattached`;
otherwise they fail, see section 5). `AttachedInv` says in which states
`last_update_time` is set; each step then moves at most one task in or out of at most
two sets of entities, and the cardinality lemmas do the counting. For `CoreDirectSum`,
`CoreInv` says that nothing has core utilisation before the load (`Blank`), so that the
gates cannot have left anything behind when they open.

**`PemtProofs`.** `SamplesConsistent`, `ExecTimeFits` and the action property
`RatioFollowsRunner`. `IInv` has
`HierarchyInv` (the `curr` pointers of a CPU lead from the root to a queued task, or are
all empty), `ModuleInv` (where the module is out, or has not arrived, the counters are silent),
`ClockInv` (no average is ahead of its clock) and `CountersInv` (what a CPU has counted
belongs to the task that runs there and came since its average was updated). The
argument: whoever switches tasks first updates the averages along the path of the one that
leaves, which empties the counters into its own sample; so no cycle outlives the turn of
its task, except where another CPU moves `curr`'s average (`remote`). A handler is
a composition of walks along two levels; `Moves` is the preorder they are all part of
(a time stamp is left or set to the clock, a sample changes only where it was behind, only the
executing CPU's counters and the CPU's own `curr` pointers change), so that each walk
needs only what an update and a change of `curr` do to one entity.
For `ExecTimeFits`, `ExecInv` speaks of the numbers that the words stand for (`Signed`) and of
the time `At` to which the execution time has been brought up to date: what was counted
since the clear, and what a CPU is about to store, fits into the time from the clear to `At`,
and into the time up to a clock that a governor on another CPU has read; the sums fit into the
time before the clear (`InTime`). `Timed` is the preorder for this: only a sample makes a
new value to store, it brings `At` to the present, and who becomes `curr` is up to date. As
long as no group has lagged, the words are those numbers (`WordsExact`), since no
difference is negative. After that a sample on a lagging clock may take up to `MaxLag`, so
that the numbers have a lower bound too, `-MaxLag * At`; `HorizonAssumption` says that the
sums are not watched for so long that this goes around the circle (two and a half hours
with a second of lag, if every unit of time had such a sample).

**`CfsRqProofs`.** `TimelineConsistent`, `NoExtraCredit`, the action properties
`MinVruntimeMonotone` and `PickNotUnfair`, and that every behaviour is one of `Placement`
(`RunQueuesImplementPlacement`). The words say nothing by themselves: that a timeline is sorted
by the sign of differences modulo `VMod` is no invariant, because the sign is no
order. So `IInv` says that there are integers, `M[c]` for each `min_vruntime` and `X[t]` for
each `vruntime`, that the words stand for (`vruntime = X[t] % VMod`) and that are near
each other; the timeline is sorted in the order of these (`Sorted`). `DiffExact` takes it
back to the words: within half the circle `Diff` is the difference of the integers.
What keeps them near (`TaskOk`, `MinOk`): a task that is queued or sleeps is at most `Horizon`
of the elapsed time ahead of `min_vruntime`, counting what it ran and was not charged
for (`Pend`), and if queued at most `thresh` behind it. A task that is waking on another
CPU, migrates or is new has a `vruntime` relative to a `min_vruntime` that moves on;
`TaskFits` bounds what it is then. A `min_vruntime` only advances to where somebody is, so it
advances by one `Horizon` more with each arrival at most: `Bound` counts arrivals (tasks
born, tasks timed, and what `MaxMoves` bounds: moves, changes of weight and forks by another
class). That
is needed because a task that arrives far ahead of a `min_vruntime` may drag it along,
leave, and arrive far ahead of the next one.
Each C function has a lemma (`...Good`) that it keeps this order and touches its own CPU and
task only (`Local`), and each handler a lemma (`...Effect`) that composes them in the
order of the code: from a sound state to a sound state, no `min_vruntime` back, one CPU at most
that turns to another task (`Turn`), and one task at most that changes its place
(`Others`). `Turn` and `Others` are all that `PickNotUnfair` and the refinement need.

`update_curr` before `put_prev_entity` and before every comparison is what the proof
of `Sorted` rests on: the key of an entity may change only while it is not in the
tree (`UpdateCurrGood`). `MinVruntimeMonotone` rests on `Remin`: `min_vruntime` may
advance only as far as nobody who is queued falls behind by more than the credit.
The comment contradicted by `cfsrq_putback` is about the position of one
task, not about any of these, and they hold all the same.

Proving changed the models in places: `RatioFollowsRunner` was first stated without the
condition that the task has run, which the attempt to prove it showed to be false
with two tasks in a group; `HierarchyInv` had to speak of all the levels at once;
`DomainsAssumption` got the clause about the local group; `CfsRq` got `WrapAssumption`,
without which a small `VMod` (8) has counterexamples, and its instance a larger `VMod`; `ExecTimeFits`, once
stated for a difference that wraps with the word it is added to, is now exact as long as no clock
has lagged, and the shift of the difference is modelled; `OveruseBounded`, once stated as
twice the quota, is false for clocks beyond those of its first run, and now counts what came
back; and a `cfs_tasks` list loses the
first entry of a task, which is the only one.

Only model-checked:

* all liveness (`TransitionEnds`, `LimitsChangeNoticed`, `RefillDistributed`,
  `LoadBalanceEnds`): TLAPS does not handle ENABLED, hence not fairness;
* the arithmetic and the wakeup placement (`MCArith`, `MCWake`): folds and recursion
  over data need induction with an operator as parameter;
* `PutBackKeepsPlace` is false (section 5).

## 5. Disagreements between code and comments

With a run:

* `cfsrq_putback`: `dequeue_entity` (F 4458) advances `min_vruntime` exactly in the
  case that the comment above it excludes, so a waiting task whose priority changes
  is put back further than it was, and again with each change.

Seen in the models, without a run of their own:

* With `Unattached = TRUE` in `attach.cfg`, `DirectSum` is violated: a task that
  changes class before it is attached (F 11226) is detached from a `cfs_rq` it is
  not part of, or attached twice.
* S 283: `get_next_freq` caches a raw frequency before the rate limit drops the
  result; the next equal request returns the old frequency, although S 244 says
  "The lowest driver-supported frequency ... is returned".
* S 160 says a limits change forces an update; the UINT_MAX it sets makes any
  frequency look like a decrease, which the down rate limit may drop.
* S 278: after `iowait_boost_max` is lowered util may exceed max, and the raw
  frequency is cut to unsigned int.
* S 879: if the kthread cannot be created, `sugov_init` unlocks a mutex it has not
  taken.
* F 3076: an update over `LOAD_AVG_MAX_N` periods or more adds `LOAD_AVG_MAX` to what is
  left and counts one period too much; the sums can exceed what an entity that
  always ran would have (`include/linux/sched.h` promises Max(load_avg) <=
  Max(load.weight)).
* F 3258: `last_update_time = now` drops the nanoseconds below a unit of time.
* F 3180: the test that a task updated by another CPU is not sampled there is
  commented out: a change of priority from another CPU charges that CPU's cycles to
  it (`remote` in `Pemt`).
* F 3246: `exec_time` is added to and cleared without a common lock; an addition can
  bring back what was cleared (`raced` in `Pemt`).
* F 3249: `now` is the clock of the task's `cfs_rq`, which lags in a group that has been
  throttled, and may be behind `exec_clear_time`, which the governor takes from the clock of
  the run queue. The difference wraps, and `>> 10` leaves nearly 2^54 us: `exec_time`, and with
  the next clear the busy sum, is off by that (`ExecTimeFits` without `~Lagged`
  fails within one period).
* F 4140: attach, detach and removal skip core and memory utilisation while the
  pemt module is not loaded, so a migration between unloading and loading it
  leaves a share behind, although F 3802 calls the average the direct sum of
  the entities. (`CoreDirectSum` is checked and proved with one load of the module.)
* F 4111: `sync_entity_load_avg` reads another CPU's `last_update_time` without its
  lock; if the averages decay before the removal is folded, more is taken out than
  is left of the task.
* F 4817: the comment of `expire_cfs_rq_runtime` and its condition disagree on
  which deadline is extended.
* F 5028: a distribution renews the deadline of every throttled `cfs_rq` it passes. One that
  was throttled while `idle_balance` had dropped the lock is accounted once more when its
  task is put, and takes a slice; it is unthrottled in the next period with that slice, which
  now counts as the new period's, and returns it to the new pool when its task sleeps
  (F 5172). The pool then holds more than the quota, and if a distribution and the CPUs give
  it out at the same time, more than twice the quota is handed out, which the comment at F 5087
  ("only by limited amounts") does not foresee (`handed.out <= 2 * quota` fails in
  `bw_slack`, and in `bw_live` with a period of 2 and the clock to 5).
* F 5309: `sched_cfs_period_timer` goes round again as long as a period has ended
  while it distributed, with no limit. If distributions keep taking longer than the
  period, it does not return. So nothing is claimed of the callback as a whole:
  `RefillDistributed` says that the inner loop (F 5090) gets to the end of each refill.
* F 5368: `update_runtime_enabled` walks the leaf list only. A CPU that is offline while
  the quota is set (`tg_set_cfs_bandwidth` visits the online CPUs) and has never run the
  group comes back with the group unlimited. The runs with hotplug keep the quota
  (`MaxSets = 0`).
* F 7023: `find_idlest_cpu` ignores an idle CPU without an idle state whose
  `idle_stamp` is 0; if no other CPU is allowed it returns `this_cpu`, allowed or not.
* F 7234: `select_idle_sibling` returns an idle target or previous CPU without a test of
  the mask.
* F 7855: with CAPACITY_AWARE and an overutilized root domain the waking CPU is a
  candidate even if the task may not run there; `select_task_rq` repairs it.
* F 9841: groups of different capacity, and a newly idle CPU, can be left with more
  load than they were pulled towards; an odd number of equal tasks moves to and fro.
* F 10298: LBF_ALL_PINNED also stays set when the imbalance was zero or the queue
  has shrunk before the lock was taken; the source is then dropped as if "all
  tasks on this runqueue were pinned by CPU affinity".
* F 10660: the kick falls "back to any idle CPU (if there is one)", but
  `find_new_ilb` looks at the first CPU of the mask only.

## 6. Not modelled, and the plan

1. `SugovLifecycle`: init, exit, shared tunables, failure paths; composed with the
   start and stop of `Sugov` as its abstraction.
2. `CfsHierarchy`: nested throttling (`throttle_count`) and propagation, with
   `CfsBandwidth` as one level and group entities in `CfsRq`.
3. `NohzBalance`: idle mask and count, kick handshake, `next_balance`, over the
   tick that stops and starts; it calls `LoadBalance`'s softirq.
4. Proofs: how `NoRuntimeLost` and `OveruseBounded` recover after a change of the quota
   during a distribution; a bound on `handed.back` in terms of slice and tick.

Left out for good: NUMA balancing needs `mm` state outside the repository and is off
on one node; track and overhead modules copy debug counters; headers are
declarations; `workload/` is benchmark data and scripts. The counters of the PMU
are 32 bits wide; their wrap-around is not modelled, nor is the division of cycles
that makes a ratio.
