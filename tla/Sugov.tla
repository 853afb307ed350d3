-------------------------------- MODULE Sugov --------------------------------
(***************************************************************************)
(* One running instance of the schedutil governor with the memory-aware    *)
(* extension: kernel/sched/cpufreq_schedutil.c.                            *)
(*                                                                         *)
(* Actors, all concurrent:                                                 *)
(*   - the scheduler of each CPU, which calls the update_util hook;        *)
(*   - the irq_work that hands a committed frequency to the kthread;       *)
(*   - the kthread worker, which runs sugov_work;                          *)
(*   - the cpufreq core, which starts, stops and re-limits the governor    *)
(*     (serialised by policy->rwsem);                                      *)
(*   - a sysfs writer (serialised by attr_set->update_lock);               *)
(*   - the pkshin modules, which flip the feature switches.                *)
(*                                                                         *)
(* The variables carry the names of the C fields.  The build has no fast   *)
(* switch, so every commit takes the irq_work path.                        *)
(***************************************************************************)
EXTENDS SugovMath

CONSTANTS
  Cpus,           \* policy->cpus
  WorkCore,       \* the hard-wired work_core
  FreqTable,      \* the frequencies of the driver's table
  MaxFreq,        \* policy->cpuinfo.max_freq
  MaxCap,         \* arch_scale_cpu_capacity
  TickNs,         \* TICK_NSEC
  FreqInvariant,  \* arch_scale_freq_invariant()
  UpRate, DownRate, Margin,   \* the tunables sugov_init leaves behind
  Averages,       \* the records the rqs may hold when the governor reads them
  CallFlags,      \* the flag sets the scheduler passes to the hook
  Rates, Boosts, Margins,     \* the values the sysfs writer may store
  Limits,         \* the <<min, max>> pairs the cpufreq core may set
  Modules,        \* the pkshin modules that may be loaded
  Restarts,       \* bound: may the cpufreq core stop the governor?
  BootTime,       \* the clock when the governor is first started
  MaxTime         \* bound: the scheduler clock stops there

AveragesType == [util_avg : Nat, core_util_avg : Nat, memory_util_avg : Nat, rt : Nat]
FlagBits     == {"RT", "DL", "IOWAIT"}
ModuleNames  == {"pemt", "freq", "perf"}

ASSUME CpusAssumption     == Cpus \subseteq Nat /\ WorkCore \in Cpus
ASSUME FreqAssumption     == /\ FreqTable \subseteq 1 .. UINT_MAX - 1
                             /\ MaxFreq \in FreqTable
                             /\ \A f \in FreqTable : f <= MaxFreq
ASSUME ScalarAssumption   == /\ {MaxCap, TickNs, UpRate, DownRate, Margin} \subseteq Nat
                             /\ {FreqInvariant, Restarts} \subseteq BOOLEAN
                             /\ BootTime \in Nat /\ MaxTime \in Nat
ASSUME InputAssumption    == /\ Averages \subseteq AveragesType
                             /\ CallFlags \subseteq SUBSET FlagBits
                             /\ Rates \subseteq Nat /\ Boosts \subseteq Nat
                             /\ Margins \subseteq Nat /\ Modules \subseteq ModuleNames
ASSUME LimitsAssumption   == /\ Limits \subseteq FreqTable \X FreqTable
                             /\ \A l \in Limits : l[1] <= l[2]

VARIABLES
  \* struct sugov_policy
  last_freq_update_time, up_rate_delay_ns, down_rate_delay_ns, min_rate_limit_ns,
  next_freq, cached_raw_freq, work_in_progress, need_freq_update,
  update_lock,    \* the CPU that holds it, or NoCpu
  work_lock,      \* "none", "worker" or "core"
  \* struct sugov_tunables
  tunables,
  \* per_cpu(sugov_cpu): sg_policy is TRUE when the pointer is set; idled stands for
  \* saved_idle_calls differing from the CPU's count of idle calls
  sg_cpu,
  hooks,          \* the CPUs whose update_util hook is installed
  frame,          \* per CPU, the activation record of the running hook
  \* struct cpufreq_policy
  policy,
  irq_pending,    \* sg_policy->irq_work is queued
  work_queued,    \* sg_policy->work is on the worker's list
  worker,         \* sugov_work: pc and the frequency handed to the driver
  core,           \* the cpufreq core: pc, and the CPUs left in its loop
  store,          \* the sysfs writer of the two rate limits
  mods,           \* pkshin_{pemt,freq,perf}_enabled
  now             \* rq_clock, the same on every CPU

rateVars == <<up_rate_delay_ns, down_rate_delay_ns, min_rate_limit_ns>>
sgVars   == <<last_freq_update_time, next_freq, cached_raw_freq, work_in_progress,
              need_freq_update>>
workVars == <<irq_pending, work_queued, worker, work_lock>>
envVars  == <<mods, now>>
vars     == <<rateVars, sgVars, workVars, envVars, update_lock, tunables, sg_cpu,
              hooks, frame, policy, core, store>>

NoCpu == -1

Shared == \E a, b \in Cpus : a # b      \* policy_is_shared()

Idle   == [pc |-> "idle", time |-> 0, flags |-> {}, next_f |-> 0, tfreq |-> 0]
Zeroed == [sg_policy |-> FALSE, iowait_boost |-> 0, last_update |-> 0, flags |-> {},
           idled |-> TRUE]

Init ==
  /\ last_freq_update_time = 0 /\ next_freq = 0 /\ cached_raw_freq = 0
  /\ up_rate_delay_ns = 0 /\ down_rate_delay_ns = 0 /\ min_rate_limit_ns = 0
  /\ work_in_progress = FALSE /\ need_freq_update = FALSE
  /\ update_lock = NoCpu /\ work_lock = "none"
  /\ tunables = [up_rate_limit_us |-> UpRate, down_rate_limit_us |-> DownRate,
                 capacity_margin |-> Margin, iowait_boost_max |-> 0]
  /\ sg_cpu = [c \in Cpus |-> Zeroed]
  /\ hooks = {}
  /\ frame = [c \in Cpus |-> Idle]
  /\ policy \in {[min |-> l[1], max |-> l[2], cur |-> l[2]] : l \in Limits}
  /\ irq_pending = FALSE /\ work_queued = FALSE
  /\ worker = [pc |-> "idle", target |-> 0]
  /\ core = [pc |-> "stopped", todo |-> {}]
  /\ store = "idle"
  /\ mods = {}
  /\ now = BootTime

-----------------------------------------------------------------------------
(***************************************************************************)
(* External: the cpufreq core's frequency table.                           *)
(***************************************************************************)
Clamp(f, p) == IF f > p.max THEN p.max ELSE IF f < p.min THEN p.min ELSE f

\* CPUFREQ_RELATION_L, as cpufreq_driver_resolve_freq and __cpufreq_driver_target
\* use it: t is the lowest table frequency at or above f within the limits.
IsResolved(t, f, p) ==
  /\ t \in FreqTable
  /\ t >= Clamp(f, p)
  /\ \A u \in FreqTable : u >= Clamp(f, p) => t <= u

-----------------------------------------------------------------------------
(***************************************************************************)
(* The hook: sugov_update_shared and sugov_update_single.  It runs with    *)
(* preemption off, in four steps; what the other actors may change under   *)
(* it is exactly what update_lock does not protect.                        *)
(***************************************************************************)

\* The scheduler samples its clock and calls the hook installed on c.
cpufreq_update_util(c, flags) ==
  /\ c \in hooks
  /\ frame[c].pc = "idle"
  /\ frame' = [frame EXCEPT ![c] = [Idle EXCEPT !.pc = "called", !.time = now,
                                                !.flags = flags]]
  /\ UNCHANGED <<rateVars, sgVars, workVars, envVars, update_lock, tunables, sg_cpu,
                 hooks, policy, core, store>>

\* The boost a hook call with these flags leaves on its own CPU.
sugov_set_iowait_boost(c, time, flags) ==
  IF "IOWAIT" \in flags THEN tunables.iowait_boost_max
  ELSE IF time - sg_cpu[c].last_update > TickNs THEN 0
  ELSE sg_cpu[c].iowait_boost

\* Mutant: the work_in_progress check is missing.
should_update_ignores_wip(time) ==
  IF need_freq_update THEN "force"
  ELSE IF time - last_freq_update_time >= min_rate_limit_ns THEN "eval"
  ELSE "idle"

\* Where the hook goes next: "idle" when it returns without an update.
sugov_should_update_freq(time) ==
  IF work_in_progress THEN "idle"
  ELSE IF need_freq_update THEN "force"
  ELSE IF time - last_freq_update_time >= min_rate_limit_ns THEN "eval"
  ELSE "idle"

\* What the call f leaves in the sugov_cpu of its CPU.
NoteCall(c, f) ==
  [sg_cpu[c] EXCEPT !.flags = IF Shared THEN f.flags ELSE sg_cpu[c].flags,
                    !.iowait_boost = sugov_set_iowait_boost(c, f.time, f.flags),
                    !.last_update = f.time]

\* Take update_lock (shared policies only), note the caller's flags, boost and
\* time, and decide whether to go on.
sugov_update_enter(c) ==
  /\ frame[c].pc = "called"
  /\ Shared => update_lock = NoCpu
  /\ LET f  == frame[c]
         pc == sugov_should_update_freq(f.time)
     IN /\ sg_cpu' = [sg_cpu EXCEPT ![c] = NoteCall(c, f)]
        /\ frame' = [frame EXCEPT ![c] = IF pc = "idle" THEN Idle ELSE [f EXCEPT !.pc = pc]]
        /\ update_lock' = IF Shared /\ pc # "idle" THEN c ELSE update_lock
  /\ UNCHANGED <<rateVars, sgVars, workVars, envVars, tunables, hooks, policy, core, store>>

\* The limits changed: forget next_freq.  The flag was read one step earlier.
sugov_force_update(c) ==
  /\ frame[c].pc = "force"
  /\ need_freq_update' = FALSE
  /\ next_freq' = UINT_MAX
  /\ frame' = [frame EXCEPT ![c].pc = "eval"]
  /\ UNCHANGED <<last_freq_update_time, cached_raw_freq, work_in_progress, rateVars,
                 workVars, envVars, update_lock, tunables, sg_cpu, hooks, policy, core,
                 store>>

\* The CPU whose averages and boost decide: the caller of a single policy, the
\* hard-wired work core of a shared one.
EvalCpu(c) == IF Shared THEN WorkCore ELSE c

\* A deadline task asks for the maximum; on a shared policy the work core's last
\* flags count as well.
WantsMax(c) ==
  \/ "DL" \in frame[c].flags
  \/ Shared /\ "DL" \in sg_cpu[WorkCore].flags

\* <<util, max>> of EvalCpu(c) before the boost.  sugov_next_freq_shared starts
\* from 0 / 1 and keeps it when the work core's utilisation is zero.
EvalUtil(c, avg, scale_freq) ==
  LET util == sugov_get_util(avg, tunables.capacity_margin, scale_freq, MaxCap, mods)
  IN  IF Shared /\ util = 0 THEN <<0, 1>> ELSE <<util, MaxCap>>

\* arch_scale_freq_capacity: the running frequency in units of Scale.
ScaleFreq == (policy.cur * Scale) \div MaxFreq

\* The 64-bit tfreq of get_next_freq.  avg0 is CPU 0's record: new_shared_core
\* stays 0 when the work core's utilisation is zero.
EvalFreq(c, avg, avg0) ==
  LET um     == EvalUtil(c, avg, ScaleFreq)
      b      == boosted(um[1], um[2], sg_cpu[EvalCpu(c)].iowait_boost,
                        tunables.iowait_boost_max)
      margin == perf_margin(IF Shared /\ um[1] = 0 THEN avg0 ELSE avg,
                            tunables.capacity_margin, ScaleFreq, mods)
  IN  tfreq(IF FreqInvariant THEN MaxFreq ELSE policy.cur, margin, b[1], b[2])

\* get_next_freq: f is what it returns for the 64-bit t.
get_next_freq(t, f) ==
  LET raw == t % UIntMod
  IN  IF raw = cached_raw_freq /\ next_freq # UINT_MAX
        THEN f = next_freq /\ cached_raw_freq' = cached_raw_freq
        ELSE IsResolved(f, raw, policy) /\ cached_raw_freq' = raw

\* A busy CPU of a single policy never lowers the frequency.
HoldIfBusy(c, f) ==
  IF ~Shared /\ ~sg_cpu[c].idled /\ f < next_freq THEN next_freq ELSE f

\* sugov_cpu_is_busy: the count of idle calls is noted.
NoteIdleCalls(s) == IF Shared THEN s ELSE [s EXCEPT !.idled = FALSE]

\* The last statement of sugov_iowait_boost.
HalveBoost(s) == [s EXCEPT !.iowait_boost = s.iowait_boost \div 2]

sugov_eval_max(c) ==
  /\ frame[c].pc = "eval"
  /\ WantsMax(c)
  /\ frame' = [frame EXCEPT ![c] = [@ EXCEPT !.pc = "commit", !.next_f = MaxFreq]]
  /\ sg_cpu' = [sg_cpu EXCEPT ![c] = NoteIdleCalls(@)]
  /\ UNCHANGED <<rateVars, sgVars, workVars, envVars, update_lock, tunables, hooks,
                 policy, core, store>>

sugov_eval_util(c) ==
  /\ frame[c].pc = "eval"
  /\ ~WantsMax(c)
  /\ sg_cpu[EvalCpu(c)].sg_policy
  /\ \E avg \in Averages, avg0 \in Averages, f \in FreqTable \cup {next_freq} :
       LET t == EvalFreq(c, avg, IF WorkCore = 0 THEN avg ELSE avg0)
       IN /\ get_next_freq(t, f)
          /\ frame' = [frame EXCEPT ![c] = [@ EXCEPT !.pc = "commit", !.tfreq = t,
                                                    !.next_f = HoldIfBusy(c, f)]]
  /\ sg_cpu' = [sg_cpu EXCEPT ![EvalCpu(c)] = HalveBoost(NoteIdleCalls(@))]
  /\ UNCHANGED <<last_freq_update_time, next_freq, work_in_progress, need_freq_update,
                 rateVars, workVars, envVars, update_lock, tunables, hooks, policy, core,
                 store>>

\* The work core's sg_policy is still NULL: the dereference in
\* sugov_iowait_boost (or sugov_get_util) oopses with update_lock held.
sugov_eval_oops(c) ==
  /\ frame[c].pc = "eval"
  /\ ~WantsMax(c)
  /\ ~sg_cpu[EvalCpu(c)].sg_policy
  /\ frame' = [frame EXCEPT ![c].pc = "oops"]
  /\ UNCHANGED <<rateVars, sgVars, workVars, envVars, update_lock, tunables, sg_cpu,
                 hooks, policy, core, store>>

sugov_up_down_rate_limit(time, f) ==
  \/ f > next_freq /\ time - last_freq_update_time < up_rate_delay_ns
  \/ f < next_freq /\ time - last_freq_update_time < down_rate_delay_ns

\* Mutants: no rate limit at the commit; no test for an unchanged frequency.
commits_unlimited(time, f)  == f # next_freq
commits_unchanged(time, f) == ~sugov_up_down_rate_limit(time, f)

\* sugov_update_commit lets f through.
Commits(time, f) == ~sugov_up_down_rate_limit(time, f) /\ f # next_freq

sugov_update_commit(c) ==
  /\ frame[c].pc = "commit"
  /\ IF Commits(frame[c].time, frame[c].next_f)
       THEN /\ next_freq' = frame[c].next_f
            /\ last_freq_update_time' = frame[c].time
            /\ work_in_progress' = TRUE
            /\ irq_pending' = TRUE
       ELSE UNCHANGED <<next_freq, last_freq_update_time, work_in_progress, irq_pending>>
  /\ frame' = [frame EXCEPT ![c] = Idle]
  /\ update_lock' = IF Shared THEN NoCpu ELSE update_lock
  /\ UNCHANGED <<cached_raw_freq, need_freq_update, rateVars, work_queued, worker,
                 work_lock, envVars, tunables, sg_cpu, hooks, policy, core, store>>

\* tick_nohz_idle_enter counts an idle call of c.
tick_nohz_idle_call(c) ==
  /\ ~Shared /\ ~sg_cpu[c].idled
  /\ frame[c].pc = "idle"
  /\ sg_cpu' = [sg_cpu EXCEPT ![c].idled = TRUE]
  /\ UNCHANGED <<rateVars, sgVars, workVars, envVars, update_lock, tunables, hooks,
                 frame, policy, core, store>>

-----------------------------------------------------------------------------
(***************************************************************************)
(* The slow path: irq_work, then the kthread.                              *)
(***************************************************************************)
\* Mutant: the kthread is not told.
irq_work_lost ==
  /\ irq_pending
  /\ irq_pending' = FALSE
  /\ UNCHANGED <<rateVars, sgVars, work_queued, worker, work_lock, envVars, update_lock,
                 tunables, sg_cpu, hooks, frame, policy, core, store>>

sugov_irq_work ==
  /\ irq_pending
  /\ irq_pending' = FALSE
  /\ work_queued' = TRUE
  /\ UNCHANGED <<rateVars, sgVars, worker, work_lock, envVars, update_lock, tunables,
                 sg_cpu, hooks, frame, policy, core, store>>

\* The worker takes the work off its list (cancel_work_sync is the only other
\* thing that may) and runs sugov_work.
sugov_work ==
  /\ worker.pc = "idle"
  /\ work_queued
  /\ work_queued' = FALSE
  /\ worker' = [worker EXCEPT !.pc = "lock"]
  /\ UNCHANGED <<rateVars, sgVars, irq_pending, work_lock, envVars, update_lock, tunables,
                 sg_cpu, hooks, frame, policy, core, store>>

sugov_work_lock ==
  /\ worker.pc = "lock"
  /\ work_lock = "none"
  /\ work_lock' = "worker"
  /\ worker' = [worker EXCEPT !.pc = "target"]
  /\ UNCHANGED <<rateVars, sgVars, irq_pending, work_queued, envVars, update_lock, tunables,
                 sg_cpu, hooks, frame, policy, core, store>>

\* __cpufreq_driver_target reads next_freq and the limits ...
sugov_work_target ==
  /\ worker.pc = "target"
  /\ \E t \in FreqTable : /\ IsResolved(t, next_freq, policy)
                          /\ worker' = [pc |-> "set", target |-> t]
  /\ UNCHANGED <<rateVars, sgVars, irq_pending, work_queued, work_lock, envVars,
                 update_lock, tunables, sg_cpu, hooks, frame, policy, core, store>>

\* ... and the driver switches the frequency.
sugov_work_set ==
  /\ worker.pc = "set"
  /\ policy' = [policy EXCEPT !.cur = worker.target]
  /\ worker' = [pc |-> "clear", target |-> 0]
  /\ work_lock' = "none"
  /\ UNCHANGED <<rateVars, sgVars, irq_pending, work_queued, envVars, update_lock,
                 tunables, sg_cpu, hooks, frame, core, store>>

\* Mutant: the flag is left set.
work_never_clears ==
  /\ worker.pc = "clear"
  /\ worker' = [worker EXCEPT !.pc = "idle"]
  /\ UNCHANGED <<sgVars, rateVars, irq_pending, work_queued, work_lock, envVars,
                 update_lock, tunables, sg_cpu, hooks, frame, policy, core, store>>

sugov_work_clear ==
  /\ worker.pc = "clear"
  /\ work_in_progress' = FALSE
  /\ worker' = [worker EXCEPT !.pc = "idle"]
  /\ UNCHANGED <<last_freq_update_time, next_freq, cached_raw_freq, need_freq_update,
                 rateVars, irq_pending, work_queued, work_lock, envVars, update_lock,
                 tunables, sg_cpu, hooks, frame, policy, core, store>>

-----------------------------------------------------------------------------
(***************************************************************************)
(* The cpufreq core: start, limits and stop, under policy->rwsem.          *)
(***************************************************************************)

\* The assignments of sugov_start before its loop; update_min_rate_limit_us
\* runs between the delays and the rest.
sugov_start ==
  /\ core.pc = "stopped"
  /\ up_rate_delay_ns' = tunables.up_rate_limit_us
  /\ down_rate_delay_ns' = tunables.down_rate_limit_us
  /\ core' = [pc |-> "start_min", todo |-> {}]
  /\ UNCHANGED <<min_rate_limit_ns, sgVars, workVars, envVars, update_lock, tunables,
                 sg_cpu, hooks, frame, policy, store>>

\* Mutant: only the delay for raising the frequency counts.
min_rate_is_up_rate == min_rate_limit_ns' = up_rate_delay_ns

update_min_rate_limit_us == min_rate_limit_ns' = Lo(up_rate_delay_ns, down_rate_delay_ns)

sugov_start_reset ==
  /\ core.pc = "start_min"
  /\ update_min_rate_limit_us
  /\ last_freq_update_time' = 0
  /\ next_freq' = UINT_MAX
  /\ work_in_progress' = FALSE
  /\ need_freq_update' = FALSE
  /\ cached_raw_freq' = 0
  /\ tunables' = [tunables EXCEPT !.iowait_boost_max = MaxFreq]
  /\ core' = [pc |-> "start_clear", todo |-> Cpus]
  /\ UNCHANGED <<up_rate_delay_ns, down_rate_delay_ns, workVars, envVars, update_lock,
                 sg_cpu, hooks, frame, policy, store>>

\* for_each_cpu visits the CPUs in increasing order.
IsNext(c) == c \in core.todo /\ \A d \in core.todo : c <= d

\* memset(sg_cpu, 0, sizeof(*sg_cpu))
sugov_start_memset ==
  /\ core.pc = "start_clear"
  /\ \E c \in Cpus : /\ IsNext(c)
                     /\ sg_cpu' = [sg_cpu EXCEPT ![c] = Zeroed]
  /\ core' = [core EXCEPT !.pc = "start_hook"]
  /\ UNCHANGED <<rateVars, sgVars, workVars, envVars, update_lock, tunables, hooks,
                 frame, policy, store>>

\* sg_policy, flags, cpufreq_add_update_util_hook; after the last CPU sugov_start
\* returns and the core calls the limits method (cpufreq_start_governor).
sugov_start_hook ==
  /\ core.pc = "start_hook"
  /\ \E c \in Cpus :
       /\ IsNext(c)
       /\ sg_cpu' = [sg_cpu EXCEPT ![c].sg_policy = TRUE, ![c].flags = {"DL"}]
       /\ hooks' = hooks \cup {c}
       /\ core' = IF core.todo = {c} THEN [pc |-> "limits_lock", todo |-> {}]
                  ELSE [pc |-> "start_clear", todo |-> core.todo \ {c}]
  /\ UNCHANGED <<rateVars, sgVars, workVars, envVars, update_lock, tunables, frame,
                 policy, store>>

\* External: cpufreq_set_policy stores new limits and calls sugov_limits.
cpufreq_set_policy ==
  /\ core.pc = "running"
  /\ \E l \in Limits : /\ l # <<policy.min, policy.max>>
                       /\ policy' = [policy EXCEPT !.min = l[1], !.max = l[2]]
  /\ core' = [core EXCEPT !.pc = "limits_lock"]
  /\ UNCHANGED <<rateVars, sgVars, workVars, envVars, update_lock, tunables, sg_cpu,
                 hooks, frame, store>>

\* Mutant: the limits are applied without work_lock.
limits_without_lock ==
  /\ core.pc = "limits_lock"
  /\ core' = [core EXCEPT !.pc = "limits_apply"]
  /\ UNCHANGED <<rateVars, sgVars, workVars, envVars, update_lock, tunables, sg_cpu,
                 hooks, frame, policy, store>>

sugov_limits_lock ==
  /\ core.pc = "limits_lock"
  /\ work_lock = "none"
  /\ work_lock' = "core"
  /\ core' = [core EXCEPT !.pc = "limits_apply"]
  /\ UNCHANGED <<rateVars, sgVars, irq_pending, work_queued, worker, envVars,
                 update_lock, tunables, sg_cpu, hooks, frame, policy, store>>

\* cpufreq_policy_apply_limits, then mutex_unlock.
sugov_limits_apply ==
  /\ core.pc = "limits_apply"
  /\ policy' = [policy EXCEPT !.cur = Clamp(@, policy)]
  /\ work_lock' = "none"
  /\ core' = [core EXCEPT !.pc = "limits_flag"]
  /\ UNCHANGED <<rateVars, sgVars, irq_pending, work_queued, worker, envVars,
                 update_lock, tunables, sg_cpu, hooks, frame, store>>

\* The flag is written with no lock held.
sugov_limits_flag ==
  /\ core.pc = "limits_flag"
  /\ need_freq_update' = TRUE
  /\ core' = [core EXCEPT !.pc = "running"]
  /\ UNCHANGED <<last_freq_update_time, next_freq, cached_raw_freq, work_in_progress,
                 rateVars, workVars, envVars, update_lock, tunables, sg_cpu, hooks,
                 frame, policy, store>>

\* sugov_stop: first the hooks are removed, one CPU at a time.
sugov_stop ==
  /\ Restarts
  /\ core.pc = "running"
  /\ core' = [pc |-> "stop_hooks", todo |-> Cpus]
  /\ UNCHANGED <<rateVars, sgVars, workVars, envVars, update_lock, tunables, sg_cpu,
                 hooks, frame, policy, store>>

sugov_stop_hook ==
  /\ core.pc = "stop_hooks"
  /\ \E c \in Cpus :
       /\ IsNext(c)
       /\ hooks' = hooks \ {c}
       /\ core' = IF core.todo = {c} THEN [pc |-> "stop_sync", todo |-> {}]
                  ELSE [core EXCEPT !.todo = @ \ {c}]
  /\ UNCHANGED <<rateVars, sgVars, workVars, envVars, update_lock, tunables, sg_cpu,
                 frame, policy, store>>

\* Mutant: sugov_stop does not wait.
no_wait == TRUE

\* synchronize_sched() returns once every running hook has returned, and
\* irq_work_sync() once the irq_work is not pending.
synchronize_sched == \A c \in Cpus : frame[c].pc = "idle"
irq_work_sync     == ~irq_pending

sugov_stop_sync ==
  /\ core.pc = "stop_sync"
  /\ synchronize_sched
  /\ core' = [core EXCEPT !.pc = "stop_irq"]
  /\ UNCHANGED <<rateVars, sgVars, workVars, envVars, update_lock, tunables, sg_cpu,
                 hooks, frame, policy, store>>

\* kthread_cancel_work_sync: a queued work is dropped, a running one awaited.
sugov_stop_cancel ==
  /\ core.pc = "stop_irq"
  /\ irq_work_sync
  /\ work_queued' = FALSE
  /\ core' = [core EXCEPT !.pc = "stop_flush"]
  /\ UNCHANGED <<rateVars, sgVars, irq_pending, worker, work_lock, envVars, update_lock,
                 tunables, sg_cpu, hooks, frame, policy, store>>

sugov_stop_flush ==
  /\ core.pc = "stop_flush"
  /\ worker.pc = "idle"
  /\ core' = [core EXCEPT !.pc = "stopped"]
  /\ UNCHANGED <<rateVars, sgVars, workVars, envVars, update_lock, tunables, sg_cpu,
                 hooks, frame, policy, store>>

-----------------------------------------------------------------------------
(***************************************************************************)
(* sysfs.  attr_set->update_lock admits one writer; the governor and the   *)
(* cpufreq core do not take it.                                            *)
(***************************************************************************)
up_rate_limit_us_store ==
  /\ store = "idle"
  /\ \E v \in Rates : tunables' = [tunables EXCEPT !.up_rate_limit_us = v]
  /\ store' = "up"
  /\ UNCHANGED <<rateVars, sgVars, workVars, envVars, update_lock, sg_cpu, hooks, frame,
                 policy, core>>

down_rate_limit_us_store ==
  /\ store = "idle"
  /\ \E v \in Rates : tunables' = [tunables EXCEPT !.down_rate_limit_us = v]
  /\ store' = "down"
  /\ UNCHANGED <<rateVars, sgVars, workVars, envVars, update_lock, sg_cpu, hooks, frame,
                 policy, core>>

\* The loop over policy_list: the delay of this policy ...
rate_limit_us_delay ==
  /\ \/ /\ store = "up"
        /\ up_rate_delay_ns' = tunables.up_rate_limit_us
        /\ UNCHANGED down_rate_delay_ns
     \/ /\ store = "down"
        /\ down_rate_delay_ns' = tunables.down_rate_limit_us
        /\ UNCHANGED up_rate_delay_ns
  /\ store' = "min"
  /\ UNCHANGED <<min_rate_limit_ns, sgVars, workVars, envVars, update_lock, tunables,
                 sg_cpu, hooks, frame, policy, core>>

\* ... and its minimum, under min_rate_lock.
rate_limit_us_min ==
  /\ store = "min"
  /\ update_min_rate_limit_us
  /\ store' = "idle"
  /\ UNCHANGED <<up_rate_delay_ns, down_rate_delay_ns, sgVars, workVars, envVars,
                 update_lock, tunables, sg_cpu, hooks, frame, policy, core>>

iowait_boost_max_store ==
  /\ store = "idle"
  /\ \E v \in Boosts : tunables' = [tunables EXCEPT !.iowait_boost_max = v]
  /\ UNCHANGED <<rateVars, sgVars, workVars, envVars, update_lock, sg_cpu, hooks, frame,
                 policy, core, store>>

\* CAPACITY_MARGIN_MAX_VALUE is Scale; anything above is -EINVAL.
capacity_margin_store ==
  /\ store = "idle"
  /\ \E v \in Margins : /\ v <= Scale
                        /\ tunables' = [tunables EXCEPT !.capacity_margin = v]
  /\ UNCHANGED <<rateVars, sgVars, workVars, envVars, update_lock, sg_cpu, hooks, frame,
                 policy, core, store>>

-----------------------------------------------------------------------------
\* pemt_module, ms_module and perf_module: insmod and rmmod flip one switch.
pkshin_module_init(m) ==
  /\ m \notin mods
  /\ mods' = mods \cup {m}
  /\ UNCHANGED <<rateVars, sgVars, workVars, now, update_lock, tunables, sg_cpu, hooks,
                 frame, policy, core, store>>

pkshin_module_exit(m) ==
  /\ m \in mods
  /\ mods' = mods \ {m}
  /\ UNCHANGED <<rateVars, sgVars, workVars, now, update_lock, tunables, sg_cpu, hooks,
                 frame, policy, core, store>>

Tick ==
  /\ now < MaxTime
  /\ now' = now + 1
  /\ UNCHANGED <<rateVars, sgVars, workVars, mods, update_lock, tunables, sg_cpu, hooks,
                 frame, policy, core, store>>

-----------------------------------------------------------------------------
HookStep(c) ==
  \/ sugov_update_enter(c) \/ sugov_force_update(c)
  \/ sugov_eval_max(c) \/ sugov_eval_util(c) \/ sugov_eval_oops(c)
  \/ sugov_update_commit(c)

Worker ==
  sugov_work \/ sugov_work_lock \/ sugov_work_target \/ sugov_work_set \/ sugov_work_clear

CoreStep ==
  \/ sugov_start_reset \/ sugov_start_memset \/ sugov_start_hook
  \/ sugov_limits_lock \/ sugov_limits_apply \/ sugov_limits_flag
  \/ sugov_stop_hook \/ sugov_stop_sync \/ sugov_stop_cancel \/ sugov_stop_flush

Core == CoreStep \/ sugov_start \/ sugov_stop \/ cpufreq_set_policy

Sysfs ==
  \/ up_rate_limit_us_store \/ down_rate_limit_us_store
  \/ rate_limit_us_delay \/ rate_limit_us_min
  \/ iowait_boost_max_store \/ capacity_margin_store

Next ==
  \/ \E c \in Cpus : \/ \E flags \in CallFlags : cpufreq_update_util(c, flags)
                     \/ HookStep(c)
                     \/ tick_nohz_idle_call(c)
  \/ sugov_irq_work \/ Worker \/ Core \/ Sysfs
  \/ \E m \in Modules : pkshin_module_init(m) \/ pkshin_module_exit(m)
  \/ Tick

Spec == Init /\ [][Next]_vars

\* The scheduler's tick calls the hook of a CPU that runs, the hook runs to its
\* end, interrupts and the SCHED_FIFO kthread get the CPU, and a cpufreq core
\* call that has begun is carried through.  work_lock is a mutex with a queue of
\* waiters: whoever waits for it gets it (hence SF).
Fairness ==
  /\ \A c \in Cpus : /\ WF_vars(\E flags \in CallFlags : cpufreq_update_util(c, flags))
                     /\ WF_vars(HookStep(c))
  /\ WF_vars(sugov_irq_work)
  /\ WF_vars(Worker)
  /\ SF_vars(sugov_work_lock)
  /\ SF_vars(CoreStep)

FairSpec == Spec /\ Fairness

-----------------------------------------------------------------------------
(***************************************************************************)
(* Properties.                                                             *)
(***************************************************************************)
Frequencies == FreqTable \cup {0, UINT_MAX}

FramePcs == {"idle", "called", "force", "eval", "commit", "oops"}
WorkPcs  == {"idle", "lock", "target", "set", "clear"}
CorePcs  == {"stopped", "start_min", "start_clear", "start_hook", "running",
             "limits_lock", "limits_apply", "limits_flag",
             "stop_hooks", "stop_sync", "stop_irq", "stop_flush"}

TunablesType == [up_rate_limit_us : Nat, down_rate_limit_us : Nat,
                 capacity_margin : Nat, iowait_boost_max : Nat]
SgCpuType    == [sg_policy : BOOLEAN, iowait_boost : Nat, last_update : Nat,
                 flags : SUBSET FlagBits, idled : BOOLEAN]
FrameType    == [pc : FramePcs, time : Nat, flags : SUBSET FlagBits,
                 next_f : Frequencies, tfreq : Nat]
PolicyType   == [min : FreqTable, max : FreqTable, cur : FreqTable]
WorkerType   == [pc : WorkPcs, target : Frequencies]
CoreType     == [pc : CorePcs, todo : SUBSET Cpus]

\* Every field stays in the range of its C type; next_freq is a table frequency,
\* UINT_MAX, or the 0 of kzalloc.
TypeOK ==
  /\ last_freq_update_time \in Nat
  /\ up_rate_delay_ns \in Nat /\ down_rate_delay_ns \in Nat /\ min_rate_limit_ns \in Nat
  /\ next_freq \in Frequencies
  /\ cached_raw_freq \in 0 .. UINT_MAX
  /\ work_in_progress \in BOOLEAN /\ need_freq_update \in BOOLEAN
  /\ update_lock \in Cpus \cup {NoCpu}
  /\ work_lock \in {"none", "worker", "core"}
  /\ tunables \in TunablesType
  /\ sg_cpu \in [Cpus -> SgCpuType]
  /\ hooks \subseteq Cpus
  /\ frame \in [Cpus -> FrameType]
  /\ policy \in PolicyType
  /\ irq_pending \in BOOLEAN /\ work_queued \in BOOLEAN
  /\ worker \in WorkerType
  /\ worker.pc = "set" => worker.target \in FreqTable
  /\ core \in CoreType
  /\ store \in {"idle", "up", "down", "min"}
  /\ mods \subseteq ModuleNames
  /\ now \in Nat

\* A frequency transition is on its way: committed, and sugov_work not finished.
InFlight == irq_pending \/ work_queued \/ worker.pc # "idle"

\* A hook that got past sugov_should_update_freq.
Updating(c) == frame[c].pc \in {"force", "eval", "commit", "oops"}

Oops == \E c \in Cpus : frame[c].pc = "oops"

\* A transition on its way is announced by work_in_progress, there is never more
\* than one, and no hook is deciding on another: the slow path of
\* sugov_update_commit, sugov_irq_work and sugov_work is a pipeline of depth one.
OneTransition ==
  /\ InFlight => work_in_progress
  /\ work_in_progress => \A c \in Cpus : ~Updating(c)
  /\ irq_pending => ~work_queued /\ worker.pc = "idle"
  /\ work_queued => worker.pc = "idle"

\* The kthread reads next_freq without update_lock: what it reads is a frequency
\* a hook committed, never the UINT_MAX that a limits change leaves there.
WorkerTargetsTableFreq == InFlight => next_freq \in FreqTable

\* Once sugov_stop has returned nothing of the governor runs or is queued, so
\* sugov_exit may free sg_policy.
StopQuiesces ==
  core.pc = "stopped" => /\ ~InFlight
                         /\ hooks = {}
                         /\ \A c \in Cpus : frame[c].pc = "idle"

\* A running hook finds its own sugov_cpu set up: sugov_start never clears the
\* sugov_cpu of a CPU whose hook is still running.
HookSeesPolicy == \A c \in Cpus : frame[c].pc # "idle" => sg_cpu[c].sg_policy

\* Outside a call of sugov_limits the CPU runs within the policy's limits, though
\* the kthread and the limits method switch frequencies concurrently.
LimitsHold ==
  core.pc \notin {"limits_lock", "limits_apply"} =>
    policy.min <= policy.cur /\ policy.cur <= policy.max

(***************************************************************************)
(* What makes these inductive.                                             *)
(***************************************************************************)

\* At most one hook decides at a time: update_lock, or there is only one CPU.
UpdateExclusion ==
  /\ \A c \in Cpus : Shared /\ Updating(c) => update_lock = c
  /\ \A c, d \in Cpus : Updating(c) /\ Updating(d) => c = d

\* What is still running in each phase of the cpufreq core.
HooksGone == hooks = {} /\ \A c \in Cpus : frame[c].pc = "idle"
PhaseInv ==
  /\ core.pc = "stop_hooks" => hooks \subseteq core.todo
  /\ core.pc = "stop_sync" => hooks = {}
  /\ core.pc \in {"stop_irq", "stop_flush", "stopped", "start_min"} => HooksGone
  /\ core.pc \in {"stop_flush", "stopped", "start_min"} => ~irq_pending /\ ~work_queued
  /\ core.pc \in {"stopped", "start_min"} => worker.pc = "idle"
  /\ core.pc \in {"start_clear", "start_hook"} =>
       \A c \in core.todo : c \notin hooks /\ frame[c].pc = "idle"

\* A hook about to commit holds a table frequency or next_freq itself.
CommitInv ==
  \A c \in Cpus : frame[c].pc = "commit" => frame[c].next_f \in FreqTable \cup {next_freq}

\* An installed hook's sugov_cpu is set up.
HookInv == \A c \in hooks : sg_cpu[c].sg_policy

\* Who holds work_lock, and that what the worker hands to the driver is within
\* the limits it cannot see change.
WorkLockInv ==
  /\ worker.pc \in {"target", "set"} <=> work_lock = "worker"
  /\ core.pc = "limits_apply" <=> work_lock = "core"
LimitsInv ==
  /\ policy.min <= policy.max
  /\ worker.pc = "set" /\ core.pc \notin {"limits_lock", "limits_apply"} =>
       policy.min <= worker.target /\ worker.target <= policy.max

\* The inductive invariant behind OneTransition, WorkerTargetsTableFreq,
\* StopQuiesces, HookSeesPolicy and LimitsHold.
IInv ==
  /\ UpdateExclusion /\ PhaseInv /\ OneTransition
  /\ CommitInv /\ WorkerTargetsTableFreq
  /\ HookInv /\ HookSeesPolicy
  /\ WorkLockInv /\ LimitsInv /\ LimitsHold

\* When neither sugov_start nor a sysfs store is between the delays and their
\* minimum, min_rate_limit_ns is the minimum of the two delays.
MinRateIsMinimum ==
  core.pc # "start_min" /\ store # "min" =>
    min_rate_limit_ns = Lo(up_rate_delay_ns, down_rate_delay_ns)

\* While work_in_progress is set, nothing but a restart changes next_freq ("the
\* schedutil governor rejects all other frequency scaling requests").
RejectsWhileInProgress ==
  [][work_in_progress /\ core.pc # "start_min" => next_freq' = next_freq]_vars

\* last_freq_update_time never moves back while the governor runs, although a
\* hook samples its clock before it waits for update_lock and may commit with a
\* time older than that of the previous commit.
UpdateTimeMonotone ==
  [][core.pc # "start_min" => last_freq_update_time' >= last_freq_update_time]_vars

\* Every transition ends: the governor is not left rejecting requests for ever,
\* unless sugov_stop cancelled the work.
TransitionEnds ==
  work_in_progress ~> (~work_in_progress \/ core.pc = "stopped" \/ Oops)

\* A limits change is noticed: some hook takes the need_freq_update request,
\* unless the governor is stopped first.
LimitsChangeNoticed ==
  need_freq_update ~> (~need_freq_update \/ core.pc = "stopped" \/ Oops)
=============================================================================
