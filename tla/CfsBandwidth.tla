----------------------------- MODULE CfsBandwidth -----------------------------
(***************************************************************************)
(* CFS bandwidth control of one task group below the root group:           *)
(* kernel/sched/fair.c, "CFS bandwidth control machinery".                 *)
(*                                                                         *)
(* The group has one cfs_rq on every CPU and one pool, cfs_b.  Actors:     *)
(*   - the scheduler of each CPU (tick, enqueue, dequeue, schedule,        *)
(*     set_curr_task), under that CPU's rq->lock;                          *)
(*   - the period timer, which refills the pool and distributes it;        *)
(*   - the slack timer, which distributes what CPUs gave back;             *)
(*   - tg_set_cfs_bandwidth (core.c, external) and CPU hotplug.            *)
(*                                                                         *)
(* A section under cfs_b->lock is one step.  An operation under rq->lock   *)
(* that has several such sections is several steps, and rq[c] says which   *)
(* operation holds the lock of c.  The clock stands still while one does:  *)
(* rq_clock is sampled once per operation.                                 *)
(***************************************************************************)
EXTENDS Integers, Sequences, FiniteSets

CONSTANTS
  Cpus,
  InitQuota,      \* the quota the group is first given, while it has no task
  Quotas,         \* the quotas tg_set_cfs_bandwidth may set later
  Period,         \* cfs_b->period
  Slice,          \* sched_cfs_bandwidth_slice()
  TickNsec,       \* TICK_NSEC
  MinRuntime,     \* min_cfs_rq_runtime
  MinExpiration,  \* min_bandwidth_expiration
  SlackPeriod,    \* cfs_bandwidth_slack_period
  Moves,          \* bound: is a running task ever moved into the group?
  MaxTasks,       \* bound: tasks of the group on one CPU
  MaxWakeups,     \* bound: tasks ever enqueued on one CPU
  MaxSets,        \* bound: calls of tg_set_cfs_bandwidth
  MaxHotplug,     \* bound: CPUs taken offline
  HotplugUntil,   \* bound: none is taken offline later
  MaxTime         \* bound: the clock stops there

RUNTIME_INF == -1       \* (u64)~0
ListHead    == -1       \* the head of the throttled list, as a cursor

ASSUME CpusAssumption  == IsFiniteSet(Cpus) /\ ListHead \notin Cpus
ASSUME QuotaAssumption == Quotas \cup {InitQuota} \subseteq (Nat \ {0}) \cup {RUNTIME_INF}
ASSUME TimeAssumption  == /\ Period \in Nat \ {0} /\ Slice \in Nat \ {0}
                          /\ TickNsec \in Nat \ {0} /\ MinRuntime \in Nat
                          /\ MinExpiration \in Nat /\ SlackPeriod \in Nat
ASSUME BoundAssumption == /\ Moves \in BOOLEAN
                          /\ {MaxTasks, MaxWakeups, MaxSets, MaxHotplug, HotplugUntil, MaxTime} \subseteq Nat

VARIABLES
  cfs_b,          \* quota, runtime, runtime_expires, idle, period_active
  throttled_list, \* cfs_b->throttled_cfs_rq, head first
  stale,          \* where the next pointer of an unlinked cfs_rq still leads
  cfs_rq,         \* per CPU, the group's cfs_rq; on_rq is that of its group
                  \* entity, woken counts the tasks enqueued
  rq,             \* per CPU, the operation that holds rq->lock
  period_timer, slack_timer,
  walk,           \* per timer, the distribute_cfs_runtime its callback is in
  setter,         \* tg_set_cfs_bandwidth: the CPUs left in its loop, calls left
  online, hotplugs,
  now,
  handed          \* history, since the last refill: out, the runtime given out of the
                  \* pool less what came back; back, the most by which more came back
                  \* than was given out; slack, what slack distributions could give

timerVars == <<period_timer, slack_timer, walk>>
envVars   == <<setter, online, hotplugs, now>>
vars      == <<cfs_b, throttled_list, stale, cfs_rq, rq, timerVars, envVars, handed>>

Timers   == {"period", "slack"}
Unlocked == [op |-> "none", assign |-> FALSE]
NoWalk   == [pc |-> "idle", cur |-> ListHead, start |-> 0, left |-> 0, expires |-> 0]

\* The group as init_cfs_bandwidth, init_cfs_rq_runtime and, for a finite quota,
\* a first tg_set_cfs_bandwidth leave it.
Init ==
  LET finite == InitQuota # RUNTIME_INF
  IN /\ cfs_b = [quota |-> InitQuota, runtime |-> IF finite THEN InitQuota ELSE 0,
                 runtime_expires |-> IF finite THEN Period ELSE 0,
                 idle |-> FALSE, period_active |-> finite]
     /\ period_timer = [armed |-> finite, expires |-> IF finite THEN Period ELSE 0]
     /\ cfs_rq = [c \in Cpus |->
          [runtime_enabled |-> finite, runtime_remaining |-> 0, runtime_expires |-> 0,
           throttled |-> FALSE, nr_running |-> 0, curr |-> "none", exec_start |-> 0,
           on_rq |-> FALSE, on_list |-> FALSE, resched |-> FALSE, balancing |-> FALSE,
           woken |-> 0]]
  /\ throttled_list = <<>>
  /\ stale = [c \in Cpus |-> ListHead]
  /\ rq = [c \in Cpus |-> Unlocked]
  /\ slack_timer = [armed |-> FALSE, expires |-> 0]
  /\ walk = [t \in Timers |-> NoWalk]
  /\ setter = [todo |-> {}, left |-> MaxSets]
  /\ online = Cpus
  /\ hotplugs = 0
  /\ now = 0
  /\ handed = [out |-> 0, back |-> 0, slack |-> 0]

Least(a, b) == IF a <= b THEN a ELSE b

\* The history: amount leaves the pool, or comes back to it, or the pool is refilled
\* while a slack distribution may still give what it has left.
handing(amount) == [handed EXCEPT !.out = @ + amount]
returning(amount) ==
  [handing(-amount) EXCEPT !.back = IF amount - handed.out > @ THEN amount - handed.out ELSE @]
refilling == [out |-> 0, back |-> 0, slack |-> walk["slack"].left]

-----------------------------------------------------------------------------
(***************************************************************************)
(* The pool and the period timer.                                          *)
(***************************************************************************)

\* External: the expiry hrtimer_forward_now leaves behind.
hrtimer_forward_now(expires) ==
  IF now < expires THEN expires
  ELSE expires + ((now - expires) \div Period + 1) * Period

refilled(b) ==
  IF b.quota = RUNTIME_INF THEN b
  ELSE [b EXCEPT !.runtime = b.quota, !.runtime_expires = now + Period]

\* start_cfs_bandwidth, with b the pool its caller has got so far.
start_cfs_bandwidth(b) ==
  /\ cfs_b' = [b EXCEPT !.period_active = TRUE]
  /\ period_timer' = IF b.period_active THEN period_timer
                     ELSE [armed |-> TRUE,
                           expires |-> hrtimer_forward_now(period_timer.expires)]

\* runtime_refresh_within: remaining is a u64, so a timer that is overdue and
\* whose callback has not begun is not "within".
runtime_refresh_within(min_expire) ==
  \/ walk["period"].pc # "idle"
  \/ now <= period_timer.expires /\ period_timer.expires - now < min_expire

-----------------------------------------------------------------------------
(***************************************************************************)
(* Accounting: update_curr, account_cfs_rq_runtime and                     *)
(* assign_cfs_rq_runtime.                                                  *)
(***************************************************************************)

\* expire_cfs_rq_runtime.  The read of cfs_b->runtime_expires takes no lock.
expire_cfs_rq_runtime(q) ==
  IF now < q.runtime_expires \/ q.runtime_remaining < 0 THEN q
  ELSE IF q.runtime_expires # cfs_b.runtime_expires
    THEN [q EXCEPT !.runtime_expires = q.runtime_expires + TickNsec]
    ELSE [q EXCEPT !.runtime_remaining = 0]

\* The part of __account_cfs_rq_runtime before assign_cfs_rq_runtime.
account_cfs_rq_runtime(q, delta) ==
  IF q.runtime_enabled
    THEN expire_cfs_rq_runtime([q EXCEPT !.runtime_remaining = q.runtime_remaining - delta])
    ELSE q

NeedsRuntime(q) == q.runtime_enabled /\ q.runtime_remaining <= 0

\* op holds rq->lock of its CPU; assign: it waits for assign_cfs_rq_runtime first.
Frame(op, assign) == [op |-> op, assign |-> assign]

\* Mutant: a CPU that got no runtime is not rescheduled.
never_resched(q) == FALSE

\* __account_cfs_rq_runtime calls resched_curr: there is a task to throttle.
MustResched(q) == q.runtime_remaining <= 0 /\ q.curr # "none"

\* What assign_cfs_rq_runtime takes from a finite pool.
assigned(min_amount) == Least(cfs_b.runtime, min_amount)

\* Take up to a slice from the pool; the caller reschedules when that is not enough.
assign_cfs_rq_runtime(c) ==
  /\ rq[c].assign
  /\ LET min_amount == Slice - cfs_rq[c].runtime_remaining
         amount  == IF cfs_b.quota = RUNTIME_INF THEN min_amount ELSE assigned(min_amount)
         expires == cfs_b.runtime_expires
         q == [cfs_rq[c] EXCEPT !.runtime_remaining = @ + amount,
                                !.runtime_expires = IF expires > @ THEN expires ELSE @]
     IN /\ IF cfs_b.quota = RUNTIME_INF
             THEN UNCHANGED <<cfs_b, period_timer, handed>>
             ELSE /\ start_cfs_bandwidth([cfs_b EXCEPT !.runtime = cfs_b.runtime - amount,
                                          !.idle = cfs_b.idle /\ cfs_b.runtime = 0])
                  /\ handed' = handing(amount)
        /\ cfs_rq' = [cfs_rq EXCEPT ![c] =
                        [q EXCEPT !.resched = q.resched \/ MustResched(q)]]
  /\ rq' = [rq EXCEPT ![c] = Frame(rq[c].op, FALSE)]
  /\ UNCHANGED <<throttled_list, stale, slack_timer, walk, envVars>>

-----------------------------------------------------------------------------
(***************************************************************************)
(* Throttling.                                                             *)
(***************************************************************************)
throttled(q) == [q EXCEPT !.throttled = TRUE, !.on_rq = FALSE]

\* Mutant: the group entity is not put back.
unthrottled_only(q) == [q EXCEPT !.throttled = FALSE]

\* What unthrottle_cfs_rq does to the cfs_rq and its group entity.
unthrottled(q) == [q EXCEPT !.throttled = FALSE, !.on_rq = q.nr_running > 0]

\* throttle_cfs_rq on everything but the cfs_rq itself: link c at the head and
\* make sure that the period timer runs.
throttle_cfs_rq(c) ==
  /\ throttled_list' = <<c>> \o throttled_list
  /\ IF throttled_list = <<>> THEN start_cfs_bandwidth(cfs_b)
     ELSE UNCHANGED <<cfs_b, period_timer>>

Linked(c)   == \E i \in DOMAIN throttled_list : throttled_list[i] = c
Position(c) == CHOOSE i \in DOMAIN throttled_list : throttled_list[i] = c

\* The successor of a cfs_rq, linked or unlinked, in the list.
Successor(c) ==
  IF ~Linked(c) THEN stale[c]
  ELSE IF Position(c) = Len(throttled_list) THEN ListHead
  ELSE throttled_list[Position(c) + 1]

\* list_del_rcu: the next pointer of c stays for those who are walking.
unlink(c) ==
  /\ throttled_list' = SubSeq(throttled_list, 1, Position(c) - 1)
                          \o SubSeq(throttled_list, Position(c) + 1, Len(throttled_list))
  /\ stale' = [stale EXCEPT ![c] = Successor(c)]

\* check_cfs_rq_runtime and check_enqueue_throttle throttle.
Overrun(q) == q.runtime_enabled /\ q.runtime_remaining <= 0 /\ ~q.throttled

\* A step of an operation of c that leaves q in its cfs_rq, and frame: it keeps
\* rq->lock or drops it.
Leave(c, q, frame) ==
  /\ cfs_rq' = [cfs_rq EXCEPT ![c] = q]
  /\ rq' = [rq EXCEPT ![c] = frame]

\* The same, with the throttle of check_cfs_rq_runtime and check_enqueue_throttle.
LeaveOrThrottle(c, q) ==
  /\ IF Overrun(q)
       THEN Leave(c, throttled(q), Unlocked) /\ throttle_cfs_rq(c)
       ELSE Leave(c, q, Unlocked) /\ UNCHANGED <<cfs_b, period_timer, throttled_list>>
  /\ UNCHANGED <<stale, slack_timer, walk, envVars, handed>>

-----------------------------------------------------------------------------
(***************************************************************************)
(* What the operations of the scheduler do after update_curr, which left   *)
(* the group's cfs_rq of c as q.                                           *)
(***************************************************************************)
Free(c) == rq[c].op = "none"

unchangedPool == <<cfs_b, throttled_list, stale, timerVars, envVars, handed>>

\* enqueue_entity.  The first task brings the cfs_rq to the leaf list and, unless
\* the cfs_rq has a current task or is throttled, to check_enqueue_throttle, which
\* accounts a delta of 0.  enqueue_task_fair goes on to the group entity unless
\* the cfs_rq is throttled.
enqueue_entity(c, q) ==
  LET first  == q.nr_running = 0
      checks == first /\ q.runtime_enabled /\ q.curr = "none" /\ ~q.throttled
      added  == [q EXCEPT !.nr_running = @ + 1, !.on_list = TRUE, !.woken = @ + 1]
      qc     == IF checks THEN account_cfs_rq_runtime(added, 0) ELSE added
  IN  /\ IF checks /\ NeedsRuntime(qc)
           THEN Leave(c, qc, Frame("check", TRUE))
           ELSE Leave(c, [qc EXCEPT !.on_rq = qc.on_rq \/ ~qc.throttled], Unlocked)
      /\ UNCHANGED unchangedPool

\* check_enqueue_throttle after assign_cfs_rq_runtime.
check_enqueue_throttle(c, q) == LeaveOrThrottle(c, [q EXCEPT !.on_rq = TRUE])

\* start_cfs_slack_bandwidth, with b the pool.
start_cfs_slack_bandwidth(b) ==
  IF /\ b.runtime > Slice /\ throttled_list # <<>>
     /\ ~runtime_refresh_within(SlackPeriod + MinExpiration)
    THEN [armed |-> TRUE, expires |-> now + SlackPeriod]
    ELSE slack_timer

\* The cfs_rq gives up all but min_cfs_rq_runtime.
GivesBack(q) == q.runtime_enabled /\ q.runtime_remaining > MinRuntime

\* return_cfs_rq_runtime on the pool: only runtime of the current period returns.
return_cfs_rq_runtime(q) ==
  LET slack == q.runtime_remaining - MinRuntime
      b     == [cfs_b EXCEPT !.runtime = @ + slack]
  IN  IF /\ GivesBack(q) /\ cfs_b.quota # RUNTIME_INF
         /\ q.runtime_expires = cfs_b.runtime_expires
        THEN /\ cfs_b' = b
             /\ slack_timer' = start_cfs_slack_bandwidth(b)
             /\ handed' = returning(slack)
        ELSE UNCHANGED <<cfs_b, slack_timer, handed>>

\* dequeue_entity, with return_cfs_rq_runtime on the last task.  When it was the
\* current task that left, schedule() goes on with the lock.
dequeue_entity(c, q, sleeps) ==
  LET last == q.nr_running = 1
  IN  /\ Leave(c, [q EXCEPT !.nr_running = @ - 1,
                            !.curr = IF sleeps THEN "sleeping" ELSE @,
                            !.runtime_remaining = IF last /\ GivesBack(q) THEN MinRuntime ELSE @,
                            !.on_rq = @ /\ ~last],
               IF sleeps THEN Frame("schedule", FALSE) ELSE Unlocked)
      /\ IF last THEN return_cfs_rq_runtime(q) ELSE UNCHANGED <<cfs_b, slack_timer, handed>>
      /\ UNCHANGED <<throttled_list, stale, period_timer, walk, envVars>>

\* put_prev_entity: the cfs_rq has no current entity any more.
put_prev_entity(c, q) ==
  LeaveOrThrottle(c, [q EXCEPT !.curr = "none", !.exec_start = 0, !.resched = FALSE])

\* The pick loop of pick_next_task_fair at the group's cfs_rq.  With runtime left
\* a task of the group is chosen, or another entity and the group is put; without,
\* the cfs_rq is throttled and at "simple" either another entity of the CPU is
\* chosen or idle_balance drops rq->lock before the previous task has been put.
pick_next_task_fair(c, q) ==
  \/ /\ ~NeedsRuntime(q)
     /\ Leave(c, [q EXCEPT !.curr = "queued", !.exec_start = now, !.resched = FALSE], Unlocked)
     /\ UNCHANGED unchangedPool
  \/ NeedsRuntime(q) /\ LeaveOrThrottle(c, [q EXCEPT !.balancing = TRUE])
  \/ put_prev_entity(c, q)

\* Operation op of c after its update_curr.
Rest(c, op, q) ==
  CASE op = "account" -> Leave(c, q, Unlocked) /\ UNCHANGED unchangedPool
    [] op = "enqueue" -> enqueue_entity(c, q)
    [] op = "check"   -> check_enqueue_throttle(c, q)
    [] op = "dequeue" -> dequeue_entity(c, q, FALSE)
    [] op = "sleep"   -> dequeue_entity(c, q, TRUE)
    [] op = "pick"    -> pick_next_task_fair(c, q)
    [] op = "put"     -> put_prev_entity(c, q)

Resume(c) == ~Free(c) /\ ~rq[c].assign /\ rq[c].op # "schedule" /\ Rest(c, rq[c].op, cfs_rq[c])

\* __account_cfs_rq_runtime with the delta the caller computed: op goes on at once
\* unless the cfs_rq has to be assigned runtime first.
AccountThen(c, op, q0, delta) ==
  LET q == account_cfs_rq_runtime(q0, delta)
  IN  IF NeedsRuntime(q) THEN Leave(c, q, Frame(op, TRUE)) /\ UNCHANGED unchangedPool
      ELSE Rest(c, op, q)

\* op starts with update_curr, which does nothing unless time has passed.
update_curr(c, op) ==
  LET q == cfs_rq[c]
  IN  IF q.curr # "none" /\ now > q.exec_start
        THEN AccountThen(c, op, [q EXCEPT !.exec_start = now], now - q.exec_start)
        ELSE Rest(c, op, q)

-----------------------------------------------------------------------------
(***************************************************************************)
(* The operations of the scheduler on the group's cfs_rq of c.             *)
(***************************************************************************)
RunsOn(c) == cfs_rq[c].curr = "queued" /\ ~cfs_rq[c].balancing

task_tick_fair(c) ==
  /\ Free(c) /\ RunsOn(c)
  /\ now > cfs_rq[c].exec_start
  /\ update_curr(c, "account")

enqueue_task_fair(c) ==
  /\ Free(c)
  /\ c \in online
  /\ cfs_rq[c].nr_running < MaxTasks /\ cfs_rq[c].woken < MaxWakeups
  /\ update_curr(c, "enqueue")

\* A task that is not running leaves the CPU.
dequeue_task_fair(c) ==
  /\ Free(c)
  /\ cfs_rq[c].nr_running > (IF cfs_rq[c].curr = "queued" THEN 1 ELSE 0)
  /\ update_curr(c, "dequeue")

\* The running task goes to sleep.
deactivate_task(c) == Free(c) /\ RunsOn(c) /\ update_curr(c, "sleep")

\* schedule() has the previous task still to put.
InSchedule(c) == rq[c].op = "schedule" \/ (Free(c) /\ RunsOn(c))

\* The root's pick loop chooses the group, or something else and the group is put;
\* update_curr only if the previous task is still queued.
schedule(c, op) ==
  /\ InSchedule(c)
  /\ op = "pick" => cfs_rq[c].on_rq
  /\ IF cfs_rq[c].curr = "queued" THEN update_curr(c, op) ELSE Rest(c, op, cfs_rq[c])

\* Nothing is queued on the CPU: idle_balance drops rq->lock with the previous
\* task not put ...
idle_balance(c) ==
  /\ InSchedule(c)
  /\ ~cfs_rq[c].on_rq
  /\ Leave(c, [cfs_rq[c] EXCEPT !.balancing = TRUE], Unlocked)
  /\ UNCHANGED unchangedPool

\* ... and takes it again.
idle_balance_return(c) ==
  /\ Free(c)
  /\ cfs_rq[c].balancing
  /\ Leave(c, [cfs_rq[c] EXCEPT !.balancing = FALSE], Frame("schedule", FALSE))
  /\ UNCHANGED unchangedPool

\* A pick that comes from another group.
set_next_entity(c) ==
  /\ Free(c)
  /\ cfs_rq[c].curr = "none" /\ cfs_rq[c].on_rq
  /\ Leave(c, [cfs_rq[c] EXCEPT !.curr = "queued", !.exec_start = now], Unlocked)
  /\ UNCHANGED unchangedPool

\* The running task was moved into the group, throttled or not.
set_curr_task_fair(c) ==
  /\ Moves /\ Free(c)
  /\ cfs_rq[c].curr = "none" /\ cfs_rq[c].nr_running > 0
  /\ AccountThen(c, "account", [cfs_rq[c] EXCEPT !.curr = "queued", !.exec_start = now], 0)

-----------------------------------------------------------------------------
(***************************************************************************)
(* distribute_cfs_runtime, called by the callbacks of both timers.  The    *)
(* list is walked under RCU, one rq->lock at a time, without cfs_b->lock.  *)
(***************************************************************************)
StartWalk(runtime, expires) ==
  [NoWalk EXCEPT !.pc = "advance", !.start = runtime, !.left = runtime, !.expires = expires]

\* list_for_each_entry_rcu reads the next pointer.
distribute_advance(t) ==
  /\ walk[t].pc = "advance"
  /\ LET n == IF walk[t].cur # ListHead THEN Successor(walk[t].cur)
              ELSE IF throttled_list = <<>> THEN ListHead ELSE throttled_list[1]
     IN walk' = [walk EXCEPT ![t].cur = n, ![t].pc = IF n = ListHead THEN "done" ELSE "visit"]
  /\ UNCHANGED <<cfs_b, throttled_list, stale, cfs_rq, rq, period_timer, slack_timer,
                 envVars, handed>>

\* Mutant: the deficit is covered but nothing is left to run on.
deficit_only(remaining, left) == Least(-remaining, left)

\* What a throttled cfs_rq gets: one more than its deficit, as a u64.
distributed(remaining, left) ==
  IF remaining > 1 THEN left ELSE Least(1 - remaining, left)

distribute_cfs_runtime(t) ==
  /\ walk[t].pc = "visit"
  /\ Free(walk[t].cur)
  /\ LET c       == walk[t].cur
         q0      == cfs_rq[c]
         runtime == IF q0.throttled THEN distributed(q0.runtime_remaining, walk[t].left) ELSE 0
         left    == walk[t].left - runtime
         q       == [q0 EXCEPT !.runtime_remaining = @ + runtime,
                               !.runtime_expires = walk[t].expires]
     IN /\ IF q0.throttled /\ q.runtime_remaining > 0
             THEN cfs_rq' = [cfs_rq EXCEPT ![c] = unthrottled(q)] /\ unlink(c)
             ELSE /\ cfs_rq' = IF q0.throttled THEN [cfs_rq EXCEPT ![c] = q] ELSE cfs_rq
                  /\ UNCHANGED <<throttled_list, stale>>
        /\ walk' = [walk EXCEPT ![t].left = left,
                                ![t].pc = IF left = 0 THEN "done" ELSE "advance"]
        /\ handed' = handing(runtime)
  /\ UNCHANGED <<cfs_b, rq, period_timer, slack_timer, envVars>>

Given(t) == walk[t].start - walk[t].left

\* Mutant: what was distributed is not taken out of the pool.
not_deducted(b, given) == b

\* The pool after a distribution.
deducted(b, given) == [b EXCEPT !.runtime = @ - Least(given, @)]

-----------------------------------------------------------------------------
(***************************************************************************)
(* The timers.                                                             *)
(***************************************************************************)

\* Mutant: the timer stops, but is believed to run.
deactivated_silently(b) == b

\* sched_cfs_period_timer returns HRTIMER_NORESTART.
deactivated(b) == [b EXCEPT !.period_active = FALSE]

\* do_sched_cfs_period_timer goes to out_deactivate.
Deactivates(b) == b.quota = RUNTIME_INF \/ (b.idle /\ throttled_list = <<>>)

\* The loop of sched_cfs_period_timer from hrtimer_forward_now on, with b the
\* pool: return to the hrtimer core, or run do_sched_cfs_period_timer up to the
\* unlock for distribute_cfs_runtime.
PeriodLoop(b) ==
  LET expires == hrtimer_forward_now(period_timer.expires)
      refresh == refilled(b)
  IN  IF now < period_timer.expires
        THEN /\ cfs_b' = b
             /\ period_timer' = [period_timer EXCEPT !.armed = TRUE]
             /\ walk' = [walk EXCEPT !["period"] = NoWalk]
             /\ handed' = handed
      ELSE IF Deactivates(b)
        THEN /\ cfs_b' = deactivated(b)
             /\ period_timer' = [armed |-> FALSE, expires |-> expires]
             /\ walk' = [walk EXCEPT !["period"] = NoWalk]
             /\ handed' = handed
      ELSE IF throttled_list = <<>>
        THEN /\ cfs_b' = [refresh EXCEPT !.idle = TRUE]
             /\ period_timer' = [armed |-> TRUE, expires |-> expires]
             /\ walk' = [walk EXCEPT !["period"] = NoWalk]
             /\ handed' = refilling
        ELSE /\ cfs_b' = refresh
             /\ period_timer' = [armed |-> FALSE, expires |-> expires]
             /\ walk' = [walk EXCEPT !["period"] =
                           StartWalk(refresh.runtime, refresh.runtime_expires)]
             /\ handed' = refilling

sched_cfs_period_timer ==
  /\ period_timer.armed /\ now >= period_timer.expires
  /\ PeriodLoop(cfs_b)
  /\ UNCHANGED <<throttled_list, stale, cfs_rq, rq, slack_timer, envVars>>

\* After a distribution: another one while there are both runtime and throttled
\* cfs_rqs, else once more around the loop.
do_sched_cfs_period_timer ==
  /\ walk["period"].pc = "done"
  /\ LET b == deducted(cfs_b, Given("period"))
     IN IF throttled_list # <<>> /\ b.runtime > 0
          THEN /\ cfs_b' = b
               /\ walk' = [walk EXCEPT !["period"] =
                             StartWalk(b.runtime, walk["period"].expires)]
               /\ UNCHANGED <<period_timer, handed>>
          ELSE PeriodLoop([b EXCEPT !.idle = FALSE])
  /\ UNCHANGED <<throttled_list, stale, cfs_rq, rq, slack_timer, envVars>>

\* do_sched_cfs_slack_timer up to the unlock before the distribution.
sched_cfs_slack_timer ==
  /\ slack_timer.armed /\ now >= slack_timer.expires
  /\ walk["slack"].pc = "idle"
  /\ slack_timer' = [slack_timer EXCEPT !.armed = FALSE]
  /\ IF \/ runtime_refresh_within(MinExpiration)
        \/ cfs_b.quota = RUNTIME_INF \/ cfs_b.runtime <= Slice
       THEN UNCHANGED <<walk, handed>>
       ELSE /\ walk' = [walk EXCEPT !["slack"] = StartWalk(cfs_b.runtime, cfs_b.runtime_expires)]
            /\ handed' = [handed EXCEPT !.slack = @ + cfs_b.runtime]
  /\ UNCHANGED <<cfs_b, throttled_list, stale, cfs_rq, rq, period_timer, envVars>>

\* Mutant: the refill that came between is not noticed.
always_same_period(expires) == TRUE

SamePeriod(expires) == expires = cfs_b.runtime_expires

do_sched_cfs_slack_timer ==
  /\ walk["slack"].pc = "done"
  /\ cfs_b' = IF SamePeriod(walk["slack"].expires) THEN deducted(cfs_b, Given("slack"))
              ELSE cfs_b
  /\ walk' = [walk EXCEPT !["slack"] = NoWalk]
  /\ UNCHANGED <<throttled_list, stale, cfs_rq, rq, period_timer, slack_timer, envVars,
                 handed>>

-----------------------------------------------------------------------------
(***************************************************************************)
(* The quota is changed, CPUs come and go, time passes.                    *)
(***************************************************************************)

\* External: tg_set_cfs_bandwidth of core.c, under cfs_b->lock ...
tg_set_cfs_bandwidth(quota) ==
  /\ setter.todo = {} /\ setter.left > 0
  /\ LET b == refilled([cfs_b EXCEPT !.quota = quota])
     IN IF quota = RUNTIME_INF THEN cfs_b' = b /\ UNCHANGED <<period_timer, handed>>
        ELSE start_cfs_bandwidth(b) /\ handed' = refilling
  /\ setter' = [todo |-> online, left |-> setter.left - 1]
  /\ UNCHANGED <<throttled_list, stale, cfs_rq, rq, slack_timer, walk, online, hotplugs, now>>

\* ... and its loop over the online CPUs, under each rq->lock.
tg_set_cfs_bandwidth_rq(c) ==
  /\ c \in setter.todo
  /\ Free(c)
  /\ LET q == [cfs_rq[c] EXCEPT !.runtime_enabled = cfs_b.quota # RUNTIME_INF,
                                !.runtime_remaining = 0]
     IN IF q.throttled
          THEN cfs_rq' = [cfs_rq EXCEPT ![c] = unthrottled(q)] /\ unlink(c)
          ELSE cfs_rq' = [cfs_rq EXCEPT ![c] = q] /\ UNCHANGED <<throttled_list, stale>>
  /\ setter' = [setter EXCEPT !.todo = @ \ {c}]
  /\ UNCHANGED <<cfs_b, rq, timerVars, online, hotplugs, now, handed>>

\* rq_offline_fair: unthrottle_offline_cfs_rqs.
rq_offline_fair(c) ==
  /\ c \in online /\ hotplugs < MaxHotplug /\ now <= HotplugUntil /\ setter.todo = {}
  /\ Free(c)
  /\ LET q == [cfs_rq[c] EXCEPT !.runtime_remaining = 1, !.runtime_enabled = FALSE]
     IN IF ~(cfs_rq[c].on_list /\ cfs_rq[c].runtime_enabled)
          THEN UNCHANGED <<cfs_rq, throttled_list, stale>>
        ELSE IF q.throttled
          THEN cfs_rq' = [cfs_rq EXCEPT ![c] = unthrottled(q)] /\ unlink(c)
          ELSE cfs_rq' = [cfs_rq EXCEPT ![c] = q] /\ UNCHANGED <<throttled_list, stale>>
  /\ online' = online \ {c}
  /\ hotplugs' = hotplugs + 1
  /\ UNCHANGED <<cfs_b, rq, timerVars, setter, now, handed>>

\* update_runtime_enabled reaches the cfs_rqs of the leaf list only.
update_runtime_enabled(q) ==
  IF q.on_list THEN [q EXCEPT !.runtime_enabled = cfs_b.quota # RUNTIME_INF] ELSE q

rq_online_fair(c) ==
  /\ c \in Cpus \ online /\ setter.todo = {}
  /\ Free(c)
  /\ cfs_rq' = [cfs_rq EXCEPT ![c] = update_runtime_enabled(@)]
  /\ online' = online \cup {c}
  /\ UNCHANGED <<cfs_b, throttled_list, stale, rq, timerVars, setter, hotplugs, now, handed>>

Tick ==
  /\ now < MaxTime
  /\ \A c \in Cpus : Free(c)
  /\ now' = now + 1
  /\ UNCHANGED <<cfs_b, throttled_list, stale, cfs_rq, rq, timerVars, setter, online,
                 hotplugs, handed>>

-----------------------------------------------------------------------------
Continue(c) ==
  \/ assign_cfs_rq_runtime(c) \/ Resume(c)
  \/ rq[c].op = "schedule" /\ (idle_balance(c) \/ \E op \in {"pick", "put"} : schedule(c, op))

Cpu(c) ==
  \/ task_tick_fair(c) \/ enqueue_task_fair(c) \/ dequeue_task_fair(c) \/ deactivate_task(c)
  \/ assign_cfs_rq_runtime(c) \/ Resume(c)
  \/ \E op \in {"pick", "put"} : schedule(c, op)
  \/ idle_balance(c) \/ idle_balance_return(c)
  \/ set_next_entity(c) \/ set_curr_task_fair(c)

PeriodCallback == \/ distribute_advance("period") \/ distribute_cfs_runtime("period")
                  \/ do_sched_cfs_period_timer
SlackCallback  == \/ distribute_advance("slack") \/ distribute_cfs_runtime("slack")
                  \/ do_sched_cfs_slack_timer

Next ==
  \/ \E c \in Cpus : Cpu(c)
  \/ sched_cfs_period_timer \/ PeriodCallback
  \/ sched_cfs_slack_timer \/ SlackCallback
  \/ \E quota \in Quotas : tg_set_cfs_bandwidth(quota)
  \/ \E c \in Cpus : \/ tg_set_cfs_bandwidth_rq(c)
                     \/ rq_offline_fair(c) \/ rq_online_fair(c)
  \/ Tick

Spec == Init /\ [][Next]_vars

\* A CPU that holds rq->lock (Continue) goes on, and a timer callback runs to its end; a
\* spinlock is handed out in the order of the requests (hence SF for the visit).
Fairness ==
  /\ \A c \in Cpus : WF_vars(Continue(c))
  /\ \A t \in Timers : /\ WF_vars(distribute_advance(t))
                       /\ SF_vars(distribute_cfs_runtime(t))
  /\ WF_vars(do_sched_cfs_period_timer)
  /\ WF_vars(do_sched_cfs_slack_timer)

FairSpec == Spec /\ Fairness

-----------------------------------------------------------------------------
(***************************************************************************)
(* Properties.                                                             *)
(***************************************************************************)
Ops == {"none", "account", "enqueue", "check", "dequeue", "sleep", "schedule", "pick", "put"}

CfsBType == [quota : Nat \cup {RUNTIME_INF}, runtime : Nat, runtime_expires : Nat,
             idle : BOOLEAN, period_active : BOOLEAN]
CfsRqType == [runtime_enabled : BOOLEAN, runtime_remaining : Int, runtime_expires : Nat,
              throttled : BOOLEAN, nr_running : Nat,
              curr : {"none", "queued", "sleeping"}, exec_start : Nat, on_rq : BOOLEAN,
              on_list : BOOLEAN, resched : BOOLEAN, balancing : BOOLEAN, woken : Nat]
WalkType == [pc : {"idle", "advance", "visit", "done"}, cur : Cpus \cup {ListHead},
             start : Nat, left : Nat, expires : Nat]
TimerType == [armed : BOOLEAN, expires : Nat]
HandedType == [out : Int, back : Nat, slack : Nat]

\* Every field stays in the range of its C type: the pool and what a distribution
\* has left are unsigned and never wrap.
TypeOK ==
  /\ cfs_b \in CfsBType
  /\ throttled_list \in Seq(Cpus)
  /\ stale \in [Cpus -> Cpus \cup {ListHead}]
  /\ cfs_rq \in [Cpus -> CfsRqType]
  /\ rq \in [Cpus -> [op : Ops, assign : BOOLEAN]]
  /\ period_timer \in TimerType /\ slack_timer \in TimerType
  /\ walk \in [Timers -> WalkType]
  /\ setter \in [todo : SUBSET Cpus, left : Nat]
  /\ online \subseteq Cpus /\ hotplugs \in Nat
  /\ now \in Nat
  /\ handed \in HandedType

\* The throttled list holds each throttled cfs_rq once and no other, although
\* three paths throttle and four unthrottle: no double list_add, no list_del of
\* an unlinked entry.
ListIsThrottledSet ==
  /\ \A c \in Cpus : cfs_rq[c].throttled <=> \E i \in DOMAIN throttled_list : throttled_list[i] = c
  /\ \A i, j \in DOMAIN throttled_list : throttled_list[i] = throttled_list[j] => i = j

\* Between operations a group's entity is queued on its CPU exactly when the
\* group has runnable tasks there and is not throttled: pick_next_task_fair finds
\* every task that may run and never descends into an empty cfs_rq.
GroupReachable ==
  \A c \in Cpus : Free(c) =>
    (cfs_rq[c].on_rq <=> cfs_rq[c].nr_running > 0 /\ ~cfs_rq[c].throttled)

\* What throttle_cfs_rq and unthrottle_cfs_rq leave behind agrees: the list, the
\* flags and the queues, with every value in its range.
ThrottlingConsistent == TypeOK /\ ListIsThrottledSet /\ GroupReachable

\* As long as a cfs_rq is throttled the period timer will come: period_active
\* says so, and it is set exactly when the timer is armed or its callback runs.
ThrottledHasTimer ==
  /\ throttled_list # <<>> /\ cfs_b.quota # RUNTIME_INF => cfs_b.period_active
  /\ cfs_b.period_active <=> period_timer.armed \/ walk["period"].pc # "idle"
  /\ period_timer.armed => period_timer.expires <= now + Period

\* A task that has overrun the runtime of its cfs_rq is about to be rescheduled,
\* or its cfs_rq is throttled already.
OverrunIsNoticed ==
  \A c \in Cpus : /\ Free(c) /\ cfs_rq[c].curr = "queued"
                  /\ cfs_rq[c].runtime_enabled /\ cfs_rq[c].runtime_remaining < 0
                  => cfs_rq[c].resched \/ cfs_rq[c].throttled

\* With a quota set while all CPUs were online, every online CPU enforces it again
\* after it has been offline.
QuotaEnforced ==
  \A c \in online : cfs_rq[c].runtime_enabled <=> cfs_b.quota # RUNTIME_INF

\* "This can result in us over-using our runtime ... but only by limited amounts"
\* (do_sched_cfs_period_timer): whatever CPUs take while distributions are on their way,
\* what is given out between two refills and what can still be given out stay within
\* twice the quota, what came back of earlier periods, whose deadlines distributions
\* renew, and twice what slack distributions could give.
OveruseBounded ==
  cfs_b.quota # RUNTIME_INF =>
    handed.out + cfs_b.runtime <= 2 * cfs_b.quota + handed.back + 2 * handed.slack

\* No runtime of a period is lost: what has been given out and what is in the
\* pool make up the quota.  A slack distribution that a refill overtakes does
\* not take its total out of the new pool.
NoRuntimeLost == cfs_b.quota # RUNTIME_INF => handed.out + cfs_b.runtime >= cfs_b.quota

\* The bandwidth is enforced everywhere and given out in full.
RuntimeAccounted == QuotaEnforced /\ NoRuntimeLost

\* The period timer's callback is distributing the refill of time t.
Distributing(t) == walk["period"].pc # "idle" /\ walk["period"].expires = t + Period

\* The distribution of each refill ends (the inner loop of the period timer's callback):
\* each pass over the throttled list brings it closer to an empty list or an empty pool.
\* When the next period has come by then, the callback goes on with another refill.
RefillDistributed == \A t \in Period .. MaxTime : Distributing(t) ~> ~Distributing(t)

=============================================================================
