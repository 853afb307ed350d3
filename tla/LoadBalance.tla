----------------------------- MODULE LoadBalance -----------------------------
(***************************************************************************)
(* Load balancing between the CPUs: load_balance with detach_tasks and     *)
(* attach_tasks, active balancing by the stopper, and their callers        *)
(* rebalance_domains and idle_balance (kernel/sched/fair.c), with the      *)
(* runqueue locks they take (kernel/sched/sched.h).                        *)
(*                                                                         *)
(* Every CPU has one thread of control here, env[c].pc: it runs tasks      *)
(* ("run"), or it is in the softirq, in idle_balance or in the stopper,    *)
(* none of which it leaves for another.  A step ends where the code        *)
(* releases a lock or waits for one; decisions that read other runqueues   *)
(* without their lock are steps of their own.                              *)
(*                                                                         *)
(* Heuristics are choices: which group and queue are busiest and by how    *)
(* much, whether a task is cache hot or throttled, whether capacities ask  *)
(* for active balancing, whether a domain is due.  With them goes what     *)
(* only they read: nr_balance_failed, balance_interval, next_balance and   *)
(* the imbalance flag of the parent group (so LBF_SOME_PINNED).  Left out  *)
(* are CPU hotplug (cpu_active_mask is Cpus), the `balancing' lock of      *)
(* SD_SERIALIZE domains (NUMA only), classes other than fair and stopper,  *)
(* and the feature LB_MIN.                                                 *)
(***************************************************************************)
EXTENDS Integers, FiniteSets, Sequences, SequencesExt, FiniteSetsExt

CONSTANTS
  Cpus, Tasks,
  Idle, Stopper,     \* rq->curr when it is not a fair task
  Domains,           \* per CPU the sched_domains upwards: local group, span, flags
  Load,              \* task_h_load of a task
  Masks,             \* values of cpus_allowed
  Preempt,           \* CONFIG_PREEMPT
  NrMigrateBreak,    \* sched_nr_migrate_break
  NrMigrate,         \* sysctl_sched_nr_migrate
  Balancers,         \* bound: pairs of a CPU and one that its softirq balances for
  NewIdlers,         \* bound: CPUs that look for work before they go idle
  Imbalances,        \* bound: values of env->imbalance
  MaxAffine          \* bound: calls of set_cpus_allowed

ASSUME CpusAssumption == Cpus \subseteq Nat /\ IsFiniteSet(Cpus) /\ Balancers \subseteq Cpus \X Cpus /\ NewIdlers \subseteq Cpus
ASSUME TasksAssumption == Idle \notin Tasks /\ Stopper \notin Tasks /\ Idle # Stopper
ASSUME DomainsAssumption ==
  \A c \in Cpus :
    /\ Domains[c] \in Seq([group : SUBSET Cpus, span : SUBSET Cpus, newidle : BOOLEAN])
    /\ \A l \in DOMAIN Domains[c] :
         c \in Domains[c][l].group /\ Domains[c][l].group \subseteq Domains[c][l].span
    \* A CPU without a domain never comes to balance.
    /\ c \in NewIdlers \/ (\E e \in Cpus : <<e, c>> \in Balancers) => Domains[c] # <<>>
ASSUME NumbersAssumption ==
  /\ Load \in [Tasks -> Nat] /\ Masks \subseteq (SUBSET Cpus) \ {{}}
  /\ Preempt \in BOOLEAN
  /\ NrMigrateBreak \in Nat \ {0} /\ {NrMigrate, MaxAffine} \cup Imbalances \subseteq Nat

VARIABLES
  task,        \* per task: on_rq, cpu, cpus_allowed, and is a migration asked for?
  rq,          \* per CPU: lock, cfs_tasks, curr, active_balance, push_cpu, work
  env,         \* per CPU: where it is, and its lb_env
  affine       \* calls of set_cpus_allowed so far

vars == <<task, rq, env, affine>>

NoCpu == -1

\* The lb_env of a CPU that does not balance.
NoEnv ==
  [pc |-> "run", cpu |-> NoCpu, level |-> 0, idle |-> "NOT_IDLE", continue_balancing |-> TRUE,
   cpus |-> {}, src |-> NoCpu, dst |-> NoCpu, new_dst |-> NoCpu, imbalance |-> 0, flags |-> {},
   loop |-> 0, loop_break |-> 0, loop_max |-> 0, p |-> Idle, tasks |-> <<>>, ld_moved |-> FALSE]

Init ==
  /\ \E allowed \in [Tasks -> Masks] :
       task = [t \in Tasks |-> [on_rq |-> "no", cpu |-> Min(allowed[t]),
                                cpus_allowed |-> allowed[t], moving |-> FALSE]]
  /\ rq = [c \in Cpus |-> [lock |-> NoCpu, cfs_tasks |-> <<>>, curr |-> Idle,
                           active_balance |-> FALSE, push_cpu |-> NoCpu, work |-> FALSE]]
  /\ env = [c \in Cpus |-> NoEnv]
  /\ affine = 0

-----------------------------------------------------------------------------
(***************************************************************************)
(* Reading the state.                                                      *)
(***************************************************************************)
InStopper(e) == env[e].pc # "run" /\ env[e].level = 0

h_nr_running(c) == Len(rq[c].cfs_tasks)
nr_running(c) == h_nr_running(c) + (IF rq[c].work \/ InStopper(c) THEN 1 ELSE 0)
idle_cpu(c) == rq[c].curr = Idle /\ nr_running(c) = 0

IdleType(c) == IF idle_cpu(c) THEN "IDLE" ELSE "NOT_IDLE"

\* tsk_cpus_allowed; idle task and stopper are bound to their CPU c.
tsk_cpus_allowed(t, c) == IF t \in Tasks THEN task[t].cpus_allowed ELSE {c}

sd(v) == Domains[v.cpu][v.level]
Unlocked(c) == rq[c].lock = NoCpu

(***************************************************************************)
(* Writing it.                                                             *)
(***************************************************************************)
Becomes(e, v) == env' = [env EXCEPT ![e] = v]

\* r with task t off cfs_tasks, or at its head (account_entity_enqueue).
Dequeued(r, t) == [r EXCEPT !.cfs_tasks = RemoveFirst(@, t)]
Enqueued(r, ts) == [r EXCEPT !.cfs_tasks = ts \o @]

\* Every balancer starts from what load_balance puts into its lb_env.
Fresh(v) ==
  [v EXCEPT !.pc = "redo", !.cpus = Cpus, !.dst = v.cpu, !.src = NoCpu, !.new_dst = NoCpu,
            !.imbalance = 0, !.flags = {}, !.loop = 0, !.loop_break = NrMigrateBreak,
            !.loop_max = 0, !.tasks = <<>>, !.ld_moved = FALSE]

-----------------------------------------------------------------------------
(***************************************************************************)
(* The callers.                                                            *)
(***************************************************************************)

\* run_rebalance_domains, for this CPU or, out of nohz_idle_balance, for an
\* idle CPU c whose tick is stopped.  The step begins with the tick that raises the
\* softirq and samples rq->idle_balance.
run_rebalance_domains(e, c) ==
  /\ env[e].pc = "run" /\ <<e, c>> \in Balancers
  /\ c = e \/ (idle_cpu(e) /\ idle_cpu(c))
  /\ Becomes(e, [NoEnv EXCEPT !.pc = "domain", !.cpu = c, !.level = 1,
                              !.idle = IdleType(c)])
  /\ UNCHANGED <<task, rq, affine>>

IdleEnd(v) == [NoEnv EXCEPT !.pc = "idle_end", !.cpu = v.cpu, !.level = v.level, !.idle = v.idle]

\* for_each_domain goes on to the parent of the domain, if there is one.
NextDomain(v) ==
  IF v.level = Len(Domains[v.cpu]) \/ (v.idle # "NEWLY_IDLE" /\ ~v.continue_balancing)
  THEN IF v.idle = "NEWLY_IDLE" THEN IdleEnd(v) ELSE NoEnv
  ELSE [NoEnv EXCEPT !.pc = "domain", !.cpu = v.cpu, !.level = v.level + 1, !.idle = v.idle,
                     !.ld_moved = v.ld_moved]

\* load_balance returns to its caller; idle_balance stops if there is a task now.
Return(v, moved) ==
  IF v.idle = "NEWLY_IDLE" /\ (moved \/ nr_running(v.cpu) > 0) THEN IdleEnd(v)
  ELSE NextDomain([v EXCEPT !.ld_moved = moved])

\* A domain of rebalance_domains, balanced if it is due.  A move at the domain
\* below may have changed whether the CPU is idle.
rebalance_domains(e) ==
  LET v == env[e]
      w == IF v.ld_moved THEN [v EXCEPT !.idle = IdleType(v.cpu)] ELSE v
  IN  /\ v.pc = "domain" /\ v.idle # "NEWLY_IDLE"
      /\ Becomes(e, NextDomain(w)) \/ Becomes(e, Fresh(w))
      /\ UNCHANGED <<task, rq, affine>>

\* A domain of idle_balance, which stops when the search would take too long.
idle_balance(e) ==
  LET v == env[e]
  IN  /\ v.pc = "domain" /\ v.idle = "NEWLY_IDLE"
      /\ \/ Becomes(e, IdleEnd(v))
         \/ ~sd(v).newidle /\ Becomes(e, Return(v, FALSE))
         \/ sd(v).newidle /\ Becomes(e, Fresh(v))
      /\ UNCHANGED <<task, rq, affine>>

\* idle_balance takes rq->lock again; the CPU runs what it finds, or goes idle.
idle_balance_end(e) ==
  /\ env[e].pc = "idle_end" /\ Unlocked(e)
  /\ \E t \in (IF h_nr_running(e) = 0 THEN {Idle} ELSE ToSet(rq[e].cfs_tasks)) :
       rq' = [rq EXCEPT ![e].curr = t]
  /\ Becomes(e, NoEnv)
  /\ UNCHANGED <<task, affine>>

-----------------------------------------------------------------------------
(***************************************************************************)
(* load_balance: whom to pull from.                                        *)
(***************************************************************************)
should_we_balance(v) ==
  LET group == sd(v).group
      idle == {c \in group \cap v.cpus : idle_cpu(c)}
  IN  v.idle = "NEWLY_IDLE" \/ v.dst = Min(IF idle # {} THEN idle ELSE group)

\* What find_busiest_group and find_busiest_queue may answer: a CPU with load, not
\* of the group that dst is in.
find_busiest_queue(v) == {c \in (sd(v).span \ sd(v).group) \cap v.cpus : h_nr_running(c) > 0}

\* Nothing was moved: load_balance returns, or, if need_active_balance says so (after
\* many failures, or for the capacities), asks for active balancing.
need_active_balance(v) ==
  {Return(v, FALSE),
   [NoEnv EXCEPT !.pc = "active", !.cpu = v.cpu, !.level = v.level, !.idle = v.idle, !.src = v.src]}

redo(e) ==
  LET v == env[e]
  IN  /\ v.pc = "redo"
      /\ \/ /\ ~should_we_balance(v)
            /\ Becomes(e, Return([v EXCEPT !.continue_balancing = FALSE], FALSE))
         \/ should_we_balance(v) /\ Becomes(e, Return(v, FALSE))
         \/ /\ should_we_balance(v)
            /\ \E c \in find_busiest_queue(v), i \in Imbalances :
                 LET w == [v EXCEPT !.src = c, !.imbalance = i, !.ld_moved = FALSE]
                 IN  \/ /\ nr_running(c) > 1
                        /\ Becomes(e, [w EXCEPT !.pc = "more_balance", !.flags = @ \cup {"ALL_PINNED"},
                                                !.loop_max = Min({NrMigrate, nr_running(c)})])
                     \/ /\ nr_running(c) <= 1
                        /\ \E x \in need_active_balance(w) : Becomes(e, x)
      /\ UNCHANGED <<task, rq, affine>>

-----------------------------------------------------------------------------
(***************************************************************************)
(* Detaching, under the lock of src.                                       *)
(***************************************************************************)
\* Mutant: the task that src runs may be taken.
migrate_running(v, t, why) ==
  [ok |-> why = "cold" /\ v.dst \in task[t].cpus_allowed,
   flags |-> v.flags \ {"ALL_PINNED"}, new_dst |-> v.new_dst]

\* Mutant: cpus_allowed is not looked at.
migrate_anywhere(v, t, why) ==
  [ok |-> why = "cold" /\ rq[v.src].curr # t,
   flags |-> v.flags \ {"ALL_PINNED"}, new_dst |-> v.new_dst]

\* can_migrate_task: the answer, and flags and new_dst of env.
can_migrate_task(v, t, why) ==
  LET allowed == task[t].cpus_allowed
      others == sd(v).group \cap v.cpus \cap allowed
      look == v.idle # "NEWLY_IDLE" /\ "DST_PINNED" \notin v.flags /\ others # {}
  IN  IF why = "throttled" THEN [ok |-> FALSE, flags |-> v.flags, new_dst |-> v.new_dst]
      ELSE IF v.dst \notin allowed
        THEN [ok |-> FALSE, flags |-> v.flags \cup (IF look THEN {"DST_PINNED"} ELSE {}),
              new_dst |-> IF look THEN Min(others) ELSE v.new_dst]
      ELSE [ok |-> why = "cold" /\ rq[v.src].curr # t,
            flags |-> v.flags \ {"ALL_PINNED"}, new_dst |-> v.new_dst]

\* detach_task up to double_lock_balance; with CONFIG_PREEMPT that begins with
\* the release of the lock of src.
detach_task(e, v, t) ==
  /\ task' = [task EXCEPT ![t].on_rq = "migrating"]
  /\ rq' = [rq EXCEPT ![v.src] = [Dequeued(@, t) EXCEPT !.lock = IF Preempt THEN NoCpu ELSE e]]
  /\ Becomes(e, [v EXCEPT !.p = t, !.pc = IF Preempt THEN "lock_first" ELSE "trylock"])

\* Mutant: the old dst may be selected again.
new_dst_keeps_cpus(v) ==
  [v EXCEPT !.pc = "more_balance", !.dst = v.new_dst, !.new_dst = NoCpu,
            !.flags = @ \ {"DST_PINNED"}, !.loop = 0, !.loop_break = NrMigrateBreak]

\* Another pass over the same queue for the tasks that may run on new_dst only.
NewDst(v) ==
  [v EXCEPT !.pc = "more_balance", !.cpus = @ \ {v.dst}, !.dst = v.new_dst, !.new_dst = NoCpu,
            !.flags = @ \ {"DST_PINNED"}, !.loop = 0, !.loop_break = NrMigrateBreak]

\* What load_balance may do after detach_tasks and attach_tasks.
Decide(v) ==
  IF "NEED_BREAK" \in v.flags
    THEN {[v EXCEPT !.pc = "more_balance", !.flags = @ \ {"NEED_BREAK"}]}
  ELSE IF "DST_PINNED" \in v.flags /\ v.imbalance > 0 THEN {NewDst(v)}
  ELSE IF "ALL_PINNED" \in v.flags
    THEN {IF v.cpus \subseteq {v.src} THEN Return(v, FALSE)
          ELSE [v EXCEPT !.pc = "redo", !.cpus = @ \ {v.src}, !.loop = 0, !.loop_break = NrMigrateBreak]}
  ELSE IF v.ld_moved THEN {Return(v, TRUE)}
  ELSE need_active_balance(v)

\* Mutant: what was detached is attached after the last pass only.
attach_at_the_end(e, v) ==
  /\ rq' = [rq EXCEPT ![v.src].lock = NoCpu]
  /\ \E w \in (IF v.tasks = <<>> \/ "DST_PINNED" \in v.flags THEN Decide(v)
               ELSE {[v EXCEPT !.pc = "attach_tasks"]}) : Becomes(e, w)

\* detach_tasks ends: the lock of src is released.
DetachEnd(e, v) ==
  /\ rq' = [rq EXCEPT ![v.src].lock = NoCpu]
  /\ \E w \in (IF v.tasks = <<>> THEN Decide(v) ELSE {[v EXCEPT !.pc = "attach_tasks"]}) : Becomes(e, w)

\* One turn of the loop of detach_tasks; the first one takes the lock.
detach_tasks(e) ==
  LET v == env[e]
      q == rq[v.src].cfs_tasks
      stop == v.imbalance <= 0 \/ q = <<>> \/ (v.idle # "NOT_IDLE" /\ nr_running(v.src) <= 1)
      w == [v EXCEPT !.pc = "detach", !.loop = @ + 1]
  IN  /\ v.pc = "detach" \/ (v.pc = "more_balance" /\ Unlocked(v.src))
      /\ \/ stop /\ DetachEnd(e, v) /\ UNCHANGED task
         \/ ~stop /\ w.loop > v.loop_max /\ DetachEnd(e, w) /\ UNCHANGED task
         \/ /\ ~stop /\ w.loop <= v.loop_max /\ w.loop > v.loop_break
            /\ DetachEnd(e, [w EXCEPT !.loop_break = @ + NrMigrateBreak, !.flags = @ \cup {"NEED_BREAK"}])
            /\ UNCHANGED task
         \/ /\ ~stop /\ w.loop <= v.loop_max /\ w.loop <= v.loop_break
            /\ \E why \in {"cold", "hot", "throttled"} :
                 LET t == Head(q)
                     can == can_migrate_task(v, t, why)
                     x == [w EXCEPT !.flags = can.flags, !.new_dst = can.new_dst]
                 IN  IF can.ok /\ Load[t] \div 2 <= v.imbalance THEN detach_task(e, x, t)
                     ELSE /\ rq' = [rq EXCEPT ![v.src].lock = e, ![v.src].cfs_tasks = Append(Tail(q), t)]
                          /\ Becomes(e, x)
                          /\ UNCHANGED task
      /\ UNCHANGED affine

-----------------------------------------------------------------------------
(***************************************************************************)
(* double_lock_balance(src_rq, dst_rq).                                    *)
(***************************************************************************)
Lower(v)  == Min({v.src, v.dst})
Higher(v) == Max({v.src, v.dst})

TakeLock(e, c, pc) ==
  /\ Unlocked(c)
  /\ rq' = [rq EXCEPT ![c].lock = e]
  /\ Becomes(e, [env[e] EXCEPT !.pc = pc])

\* Mutant: it waits for dst with src locked, in whatever order they are.
trylock_then_wait(e) ==
  /\ env[e].pc = "trylock"
  /\ \/ TakeLock(e, env[e].dst, "set_task_cpu")
     \/ /\ ~Unlocked(env[e].dst)
        /\ UNCHANGED rq
        /\ Becomes(e, [env[e] EXCEPT !.pc = "lock_dst"])
  /\ UNCHANGED <<task, affine>>

\* Without CONFIG_PREEMPT: raw_spin_trylock(dst), and only then lock order.
double_lock_trylock(e) ==
  LET v == env[e]
  IN  /\ v.pc = "trylock"
      /\ \/ TakeLock(e, v.dst, "set_task_cpu")
         \/ /\ ~Unlocked(v.dst) /\ v.dst < v.src
            /\ rq' = [rq EXCEPT ![v.src].lock = NoCpu]
            /\ Becomes(e, [v EXCEPT !.pc = "lock_first"])
         \/ /\ ~Unlocked(v.dst) /\ v.dst > v.src
            /\ UNCHANGED rq
            /\ Becomes(e, [v EXCEPT !.pc = "lock_dst"])
      /\ UNCHANGED <<task, affine>>

\* double_rq_lock, or its second half.
double_rq_lock(e) ==
  LET v == env[e]
  IN  /\ \/ v.pc = "lock_first"  /\ TakeLock(e, Lower(v), "lock_second")
         \/ v.pc = "lock_second" /\ TakeLock(e, Higher(v), "set_task_cpu")
         \/ v.pc = "lock_dst"    /\ TakeLock(e, v.dst, "set_task_cpu")
      /\ UNCHANGED <<task, affine>>

\* detach_task from set_task_cpu on, for load_balance: the task is put on env->tasks.
set_task_cpu(e) ==
  LET v == env[e]
      w == [v EXCEPT !.pc = "detach", !.tasks = <<v.p>> \o @, !.p = Idle, !.imbalance = @ - Load[v.p]]
      enough == (Preempt /\ v.idle = "NEWLY_IDLE") \/ w.imbalance <= 0
      unlocked == [rq EXCEPT ![v.dst].lock = NoCpu]
  IN  /\ v.pc = "set_task_cpu" /\ ~InStopper(e)
      /\ task' = [task EXCEPT ![v.p].cpu = v.dst]
      /\ IF enough
         THEN /\ rq' = [unlocked EXCEPT ![v.src].lock = NoCpu]
              /\ Becomes(e, [w EXCEPT !.pc = "attach_tasks"])
         ELSE rq' = unlocked /\ Becomes(e, w)
      /\ UNCHANGED affine

attach_tasks(e) ==
  LET v == env[e]
  IN  /\ v.pc = "attach_tasks" /\ Unlocked(v.dst)
      /\ rq' = [rq EXCEPT ![v.dst] = Enqueued(@, Reverse(v.tasks))]
      /\ task' = [t \in Tasks |-> IF t \in ToSet(v.tasks) THEN [task[t] EXCEPT !.on_rq = "queued"]
                                  ELSE task[t]]
      /\ \E w \in Decide([v EXCEPT !.tasks = <<>>, !.ld_moved = TRUE]) : Becomes(e, w)
      /\ UNCHANGED affine

-----------------------------------------------------------------------------
(***************************************************************************)
(* The end of load_balance, and active balancing.                          *)
(***************************************************************************)

\* Mutant: whoever wants active balancing queues the work.
active_without_flag(e) ==
  LET v == env[e]
      mine == v.cpu \in tsk_cpus_allowed(rq[v.src].curr, v.src)
  IN  /\ v.pc = "active" /\ Unlocked(v.src)
      /\ \/ ~mine /\ Becomes(e, Return(v, FALSE)) /\ UNCHANGED rq
         \/ /\ mine
            /\ rq' = [rq EXCEPT ![v.src].active_balance = TRUE, ![v.src].push_cpu = v.cpu]
            /\ Becomes(e, [v EXCEPT !.pc = "stop_one_cpu"])
      /\ UNCHANGED <<task, affine>>

\* Under the lock of busiest: active_balance becomes ours, unless its current task
\* may not run here (out_one_pinned) or another CPU has it.
load_balance_active(e) ==
  LET v == env[e]
      r == rq[v.src]
      mine == v.cpu \in tsk_cpus_allowed(r.curr, v.src) /\ ~r.active_balance
  IN  /\ v.pc = "active" /\ Unlocked(v.src)
      /\ \/ ~mine /\ Becomes(e, Return(v, FALSE)) /\ UNCHANGED rq
         \/ /\ mine
            /\ rq' = [rq EXCEPT ![v.src].active_balance = TRUE, ![v.src].push_cpu = v.cpu]
            /\ Becomes(e, [v EXCEPT !.pc = "stop_one_cpu"])
      /\ UNCHANGED <<task, affine>>

stop_one_cpu_nowait(e) ==
  LET v == env[e]
  IN  /\ v.pc = "stop_one_cpu"
      /\ rq' = [rq EXCEPT ![v.src].work = TRUE]
      /\ Becomes(e, Return(v, FALSE))
      /\ UNCHANGED <<task, affine>>

\* The stopper of CPU e preempts its task and reads push_cpu.
active_load_balance_cpu_stop(e) ==
  /\ env[e].pc = "run" /\ rq[e].work /\ Unlocked(e)
  /\ rq' = [rq EXCEPT ![e].work = FALSE, ![e].curr = Stopper]
  /\ Becomes(e, [NoEnv EXCEPT !.pc = "stop", !.cpu = rq[e].push_cpu, !.src = e, !.dst = rq[e].push_cpu,
                              !.idle = "IDLE"])
  /\ UNCHANGED <<task, affine>>

\* What schedule makes of runqueue r when its current task is off it.
PickNext(r) ==
  {[r EXCEPT !.curr = t] : t \in IF r.cfs_tasks = <<>> THEN {Idle} ELSE ToSet(r.cfs_tasks)}

\* Is there a domain that spans busiest and the target?
Spanned(v) == \E l \in DOMAIN Domains[v.dst] : v.src \in Domains[v.dst][l].span

\* Under busiest_rq->lock: detach_one_task takes one that may move, if there is one.
\* (push_cpu is not read again until it is set again, and is NoCpu here until then.)
active_load_balance_push(e) ==
  LET v == env[e]
      may == {t \in ToSet(rq[e].cfs_tasks) : v.dst \in task[t].cpus_allowed}
  IN  /\ v.pc = "stop" /\ Unlocked(e)
      /\ \/ /\ rq[e].active_balance /\ nr_running(e) > 1 /\ Spanned(v)
            /\ \E t \in may : detach_task(e, v, t)
         \/ /\ rq' = [rq EXCEPT ![e].active_balance = FALSE, ![e].push_cpu = NoCpu]
            /\ Becomes(e, [v EXCEPT !.pc = "stop_done"])
            /\ UNCHANGED task
      /\ UNCHANGED affine

\* The rest of it after double_lock_balance: the flag is cleared, locks released.
active_load_balance_unlock(e) ==
  LET v == env[e]
  IN  /\ v.pc = "set_task_cpu" /\ InStopper(e)
      /\ task' = [task EXCEPT ![v.p].cpu = v.dst]
      /\ rq' = [rq EXCEPT ![e].lock = NoCpu, ![v.dst].lock = NoCpu, ![e].active_balance = FALSE,
                          ![e].push_cpu = NoCpu]
      /\ Becomes(e, [v EXCEPT !.pc = "attach_one"])
      /\ UNCHANGED affine

attach_one_task(e) ==
  LET v == env[e]
  IN  /\ v.pc = "attach_one" /\ Unlocked(v.dst)
      /\ task' = [task EXCEPT ![v.p].on_rq = "queued"]
      /\ rq' = [rq EXCEPT ![v.dst] = Enqueued(@, <<v.p>>)]
      /\ Becomes(e, [v EXCEPT !.pc = "stop_done", !.p = Idle])
      /\ UNCHANGED affine

\* The stopper has no more work and sleeps.
stopper_sleeps(e) ==
  /\ env[e].pc = "stop_done" /\ Unlocked(e)
  /\ \E r \in PickNext(rq[e]) : rq' = [rq EXCEPT ![e] = r]
  /\ Becomes(e, NoEnv)
  /\ UNCHANGED <<task, affine>>

-----------------------------------------------------------------------------
(***************************************************************************)
(* The rest of the scheduler, each under the runqueue locks it takes.      *)
(***************************************************************************)
\* A sleeping task that has left its CPU is woken on a CPU it may run on.
try_to_wake_up(t, c) ==
  /\ task[t].on_rq = "no" /\ c \in task[t].cpus_allowed /\ Unlocked(c)
  /\ \A d \in Cpus : rq[d].curr # t
  /\ task' = [task EXCEPT ![t].on_rq = "queued", ![t].cpu = c]
  /\ rq' = [rq EXCEPT ![c] = Enqueued(@, <<t>>)]
  /\ UNCHANGED <<env, affine>>

\* The CPU switches to a task.
schedule(e, t) ==
  /\ env[e].pc = "run" /\ Unlocked(e)
  /\ t \in ToSet(rq[e].cfs_tasks) \ {rq[e].curr}
  /\ rq' = [rq EXCEPT ![e].curr = t]
  /\ UNCHANGED <<task, env, affine>>

\* The running task sleeps.  If it was the last one the CPU goes idle, or looks
\* for work first (pick_next_task_fair calls idle_balance), still with this curr.
deactivate_task(e) ==
  LET t == rq[e].curr
      r == Dequeued(rq[e], t)
  IN  /\ env[e].pc = "run" /\ Unlocked(e) /\ t \in Tasks
      /\ task' = [task EXCEPT ![t].on_rq = "no"]
      /\ \/ /\ \E x \in PickNext(r) : rq' = [rq EXCEPT ![e] = x]
            /\ UNCHANGED env
         \/ /\ r.cfs_tasks = <<>> /\ e \in NewIdlers
            /\ rq' = [rq EXCEPT ![e] = r]
            /\ Becomes(e, [NoEnv EXCEPT !.pc = "domain", !.cpu = e, !.level = 1, !.idle = "NEWLY_IDLE"])
      /\ UNCHANGED affine

\* task_rq_lock waits while the task is migrating; a task on a CPU that is now
\* forbidden is moved by migration_cpu_stop.
set_cpus_allowed(t, mask) ==
  /\ affine < MaxAffine /\ task[t].on_rq # "migrating" /\ Unlocked(task[t].cpu)
  /\ mask # task[t].cpus_allowed
  /\ task' = [task EXCEPT ![t].cpus_allowed = mask,
                          ![t].moving = task[t].on_rq = "queued" /\ task[t].cpu \notin mask]
  /\ affine' = affine + 1
  /\ UNCHANGED <<rq, env>>

migration_cpu_stop(t, c) ==
  LET src == task[t].cpu
      stay == task[t].on_rq # "queued" \/ src \in task[t].cpus_allowed
  IN  /\ task[t].moving /\ task[t].on_rq # "migrating" /\ c \in task[t].cpus_allowed
      /\ rq[src].curr = t => env[src].pc = "run"
      /\ Unlocked(src) /\ Unlocked(c)
      /\ task' = [task EXCEPT ![t].moving = FALSE, ![t].cpu = IF stay THEN @ ELSE c]
      /\ IF stay THEN UNCHANGED rq
         ELSE \E r \in (IF rq[src].curr = t THEN PickNext(Dequeued(rq[src], t))
                        ELSE {Dequeued(rq[src], t)}) :
                rq' = [rq EXCEPT ![src] = r, ![c] = Enqueued(@, <<t>>)]
      /\ UNCHANGED <<env, affine>>

-----------------------------------------------------------------------------
\* A step of CPU e inside the balancing code.
Step(e) ==
  \/ rebalance_domains(e) \/ idle_balance(e) \/ idle_balance_end(e)
  \/ redo(e) \/ detach_tasks(e)
  \/ double_lock_trylock(e) \/ double_rq_lock(e) \/ set_task_cpu(e) \/ attach_tasks(e)
  \/ load_balance_active(e) \/ stop_one_cpu_nowait(e)
  \/ active_load_balance_push(e) \/ active_load_balance_unlock(e) \/ attach_one_task(e)
  \/ stopper_sleeps(e)

Next ==
  \/ \E e \in Cpus :
       \/ Step(e)
       \/ active_load_balance_cpu_stop(e)
       \/ deactivate_task(e)
       \/ \E c \in Cpus : run_rebalance_domains(e, c)
       \/ \E t \in Tasks : schedule(e, t)
  \/ \E t \in Tasks, c \in Cpus : try_to_wake_up(t, c) \/ migration_cpu_stop(t, c)
  \/ \E t \in Tasks, m \in Masks : set_cpus_allowed(t, m)

Spec == Init /\ [][Next]_vars

\* Locks are fair (ticket or queued spinlocks): a CPU that waits for one that is
\* free again and again gets it.
FairSpec == Spec /\ \A e \in Cpus : SF_vars(Step(e)) /\ SF_vars(active_load_balance_cpu_stop(e))
-----------------------------------------------------------------------------
\* Locks, queues and current tasks stay in their ranges, and detach_tasks never looks
\* at more than loop_max tasks in one pass over a queue.
TypeOK ==
  /\ task \in [Tasks -> [on_rq : {"no", "queued", "migrating"}, cpu : Cpus, cpus_allowed : Masks,
                         moving : BOOLEAN]]
  /\ \A c \in Cpus : /\ rq[c].lock \in Cpus \cup {NoCpu}
                     /\ ToSet(rq[c].cfs_tasks) \subseteq Tasks
                     /\ rq[c].curr \in Tasks \cup {Idle, Stopper}
                     /\ rq[c].push_cpu \in Cpus \cup {NoCpu}
  /\ \A e \in Cpus : env[e].loop <= env[e].loop_max + (IF env[e].pc = "more_balance" THEN 0 ELSE 1)
  /\ affine \in 0..MaxAffine

\* The tasks that CPU e has detached and not attached yet.
Held(e) == ToSet(env[e].tasks) \cup (IF env[e].p \in Tasks THEN {env[e].p} ELSE {})

\* No task is lost or queued twice on its way: it is on the cfs_tasks of its own CPU
\* once, or detached by one balancer (detach_task, attach_task), or asleep.
NoTaskLost ==
  /\ \A t \in Tasks :
       LET queues == {c \in Cpus : t \in ToSet(rq[c].cfs_tasks)}
           holders == {e \in Cpus : t \in Held(e)}
       IN  /\ queues = IF task[t].on_rq = "queued" THEN {task[t].cpu} ELSE {}
           /\ Cardinality(holders) = IF task[t].on_rq = "migrating" THEN 1 ELSE 0
  /\ \A c \in Cpus : Cardinality(ToSet(rq[c].cfs_tasks)) = h_nr_running(c)

\* BUG_ON(task_rq(p) != rq) of attach_task: what is on env->tasks belongs to the dst
\* of that moment, although dst changes for pinned tasks.
AttachedToOwnRq ==
  \A e \in Cpus : /\ \A t \in ToSet(env[e].tasks) : task[t].cpu = env[e].dst
                  /\ env[e].pc = "attach_one" => task[env[e].p].cpu = env[e].dst

\* BUG_ON(busiest == env.dst_rq) and BUG_ON(busiest_rq == target_rq): no CPU pulls
\* from the queue it pulls to, also after dst was replaced, and none pushes to itself.
PullsFromElsewhere ==
  /\ \A e \in Cpus : env[e].src # NoCpu => env[e].src # env[e].dst
  /\ \A c \in Cpus : rq[c].active_balance => rq[c].push_cpu \notin {c, NoCpu}

\* Balancing never puts a task on a CPU outside its cpus_allowed, even if the mask
\* changes while the lock of src is dropped: such a task waits for its migration_cpu_stop.
AffinityKept ==
  \A t \in Tasks : task[t].on_rq = "queued" /\ task[t].cpu \notin task[t].cpus_allowed => task[t].moving

\* The lock that e waits for while it holds another one.
Wanted(e) ==
  CASE env[e].pc = "lock_second" -> {Higher(env[e])}
    [] env[e].pc = "lock_dst"    -> {env[e].dst}
    [] OTHER                     -> {}

\* Runqueue locks are taken in the order of the CPUs (double_rq_lock, _double_lock_balance),
\* so that CPUs that balance in opposite directions never wait for each other.
LockOrder ==
  \A e \in Cpus : \A want \in Wanted(e), c \in Cpus : rq[c].lock = e => c < want

\* active_balance is set exactly while one CPU is about to queue the work of this CPU, or
\* it is queued, or the stopper is at it: the work is never queued twice and the flag
\* never stays behind.
ActiveBalanceOnce ==
  \A c \in Cpus :
    LET kicking == {e \in Cpus : env[e].pc = "stop_one_cpu" /\ env[e].src = c}
        stopping == InStopper(c) /\ env[c].pc \notin {"attach_one", "stop_done"}
    IN  Cardinality(kicking) + (IF rq[c].work THEN 1 ELSE 0) + (IF stopping THEN 1 ELSE 0)
          = IF rq[c].active_balance THEN 1 ELSE 0

\* A CPU remembered for pinned tasks is still one to balance to, and another than dst.
NewDstIsNew ==
  \A e \in Cpus : "DST_PINNED" \in env[e].flags =>
    env[e].new_dst \in (sd(env[e]).group \cap env[e].cpus) \ {env[e].dst}

\* What load_balance asserts in its BUG_ONs and relies on: no task is lost, and what
\* is in hand belongs to the dst of the moment, through every change of dst.
TasksConsistent == TypeOK /\ NoTaskLost /\ AttachedToOwnRq /\ PullsFromElsewhere /\ NewDstIsNew

\* Every call of the balancing code and of the stopper ends, whatever the other CPUs do:
\* the passes over a queue, the changes of dst and the new searches are all bounded.
LoadBalanceEnds == \A e \in Cpus : env[e].pc # "run" ~> env[e].pc = "run"

Abstract == INSTANCE Placement WITH
  Nobody  <- Idle,
  Nowhere <- NoCpu,
  at      <- [t \in Tasks |-> IF task[t].on_rq = "queued" THEN task[t].cpu ELSE NoCpu],
  running <- [c \in Cpus |-> IF rq[c].curr \in Tasks /\ task[rq[c].curr].on_rq = "queued"
                             THEN rq[c].curr ELSE Idle]

\* The balancer implements Placement: through its passes, retries and active
\* balancing, with tasks that wake, sleep and change their masks in between, a task
\* is queued on one CPU or is on its way, and a CPU that pulls never takes the task
\* that another CPU runs (can_migrate_task, task_running).
ImplementsPlacement == Abstract!Spec
=============================================================================
