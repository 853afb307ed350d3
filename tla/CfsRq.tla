-------------------------------- MODULE CfsRq --------------------------------
(***************************************************************************)
(* The CFS run queues of the CPUs: virtual time, the timeline, placement,  *)
(* the buddies, picking and preemption (kernel/sched/fair.c).  Entities    *)
(* are tasks; groups are left out.  vruntime and min_vruntime are words    *)
(* that wrap around, as the u64 of the code do.  A sequence of entities in *)
(* the order of the walk stands for the red-black tree, its head for       *)
(* rb_leftmost.  The callers in the scheduler core (wakeup, fork, change   *)
(* of priority, migration) are modelled by the calls they make here.       *)
(***************************************************************************)
EXTENDS CfsSlice, FiniteSets, FiniteSetsExt

CONSTANTS Cpus, Tasks, None,
          VMod,                            \* 2^64: the modulus of vruntime
          sysctl_sched_wakeup_granularity, \* virtual time
          Features,                        \* the SCHED_FEATs that are on
          child_runs_first,                \* sysctl_sched_child_runs_first
          InitMin,                         \* min_vruntime of each CPU so far
          InitCpus,                        \* where the tasks may have been forked
          Weights,                         \* the weights of the nice levels in use
          MaxTime, MaxMoves                \* bounds: time run; moves, changes of weight
                                           \*   and forks by a task of another class

ASSUME CfsRqAssumption == /\ None \notin Tasks \cup Cpus /\ IsFiniteSet(Tasks) /\ VMod \in Nat \ {0}
                          /\ InitMin \in [Cpus -> 0 .. VMod - 1] /\ InitCpus \subseteq Cpus
                          /\ child_runs_first \in BOOLEAN
                          /\ Weights \subseteq Nat \ {0} /\ NICE_0_LOAD \in Weights
                          /\ MaxTime \in Nat /\ MaxMoves \in Nat

VARIABLES
  rq,      \* of each CPU: [min_vruntime, curr, timeline, last, next, skip,
           \*   delta: time since curr's exec_start, resched: TIF_NEED_RESCHED,
           \*   pc: "run", "yield": between yield_task_fair and schedule,
           \*       "newidle": in idle_balance, with the lock dropped]
  se,      \* of each task: [vruntime, on_rq, cpu, weight, ran: sum_exec_runtime since
           \*   it was picked, state]
  elapsed, moves   \* counters for the bounds
vars == <<rq, se, elapsed, moves>>

States == {"unborn", "new", "runnable", "sleeping", "waking", "migrating"}

TypeOK ==
  /\ \A c \in Cpus :
       /\ rq[c].min_vruntime \in 0 .. VMod - 1 /\ rq[c].delta \in Nat
       /\ {rq[c].curr, rq[c].last, rq[c].next, rq[c].skip} \subseteq Tasks \cup {None}
       /\ rq[c].timeline \in Seq(Tasks) /\ rq[c].resched \in BOOLEAN
       /\ rq[c].pc \in {"run", "yield", "newidle"}
  /\ se \in [Tasks -> [vruntime : 0 .. VMod - 1, on_rq : BOOLEAN, cpu : Cpus, weight : Weights,
                       ran : Nat, state : States]]
  /\ elapsed \in 0 .. MaxTime /\ moves \in 0 .. MaxMoves

----------------------------------------------------------------------------
(* The handlers are sequences of updates of v = [rq, se]. *)

Now        == [rq |-> rq, se |-> se]
Becomes(v) == rq' = v.rq /\ se' = v.se

\* (s64)(a - b)
Diff(a, b) == LET d == (a - b) % VMod IN IF 2 * d >= VMod THEN d - VMod ELSE d

max_vruntime(m, vruntime) == IF Diff(vruntime, m) > 0 THEN vruntime ELSE m
min_vruntime(m, vruntime) == IF Diff(vruntime, m) < 0 THEN vruntime ELSE m
entity_before(v, a, b) == Diff(v.se[a].vruntime, v.se[b].vruntime) < 0

__pick_first_entity(v, c) == IF v.rq[c].timeline = <<>> THEN None ELSE Head(v.rq[c].timeline)
__pick_next_entity(v, c, s) ==
  LET tl == v.rq[c].timeline
      i  == CHOOSE k \in DOMAIN tl : tl[k] = s
  IN  IF i = Len(tl) THEN None ELSE tl[i + 1]

\* The entities that count for nr_running and the load of a cfs_rq.
OnRq(v, c)       == {s \in Tasks : v.se[s].on_rq /\ v.se[s].cpu = c}
nr_running(v, c) == Cardinality(OnRq(v, c))
Level(v, c, s)   == <<[weight |-> v.se[s].weight, on_rq |-> v.se[s].on_rq,
                       load |-> SumFunctionOnSet([t \in Tasks |-> v.se[t].weight], OnRq(v, c))]>>

\* What min_vruntime should follow: the least of curr and the leftmost entity.
Least(v, c) ==
  LET r     == v.rq[c]
      first == __pick_first_entity(v, c)
      curr  == r.curr # None /\ v.se[r.curr].on_rq
  IN  IF first = None THEN IF curr THEN v.se[r.curr].vruntime ELSE r.min_vruntime
      ELSE IF curr THEN min_vruntime(v.se[r.curr].vruntime, v.se[first].vruntime)
      ELSE v.se[first].vruntime

\* Mutant: min_vruntime follows a sleeper that is placed behind it.
update_min_backwards(v, c) == [v EXCEPT !.rq[c].min_vruntime = Least(v, c)]

update_min_vruntime(v, c) ==
  [v EXCEPT !.rq[c].min_vruntime = max_vruntime(@, Least(v, c))]

update_curr(v, c) ==
  LET r    == v.rq[c]
      curr == v.se[r.curr]
      v1   == [v EXCEPT !.rq[c].delta = 0]
      v2   == [v1 EXCEPT !.se[r.curr] = [curr EXCEPT
                 !.ran = curr.ran + r.delta,
                 !.vruntime = (curr.vruntime + calc_delta_fair(r.delta, curr.weight)) % VMod]]
  IN  IF r.curr = None \/ r.delta = 0 THEN v ELSE update_min_vruntime(v2, c)

----------------------------------------------------------------------------
(* The timeline *)

\* After the entities it is not before.
__enqueue_entity(v, c, s) ==
  LET tl == v.rq[c].timeline
      i  == Cardinality({k \in DOMAIN tl : ~entity_before(v, s, tl[k])})
  IN  [v EXCEPT !.rq[c].timeline = InsertAt(tl, i + 1, s)]

__dequeue_entity(v, c, s) == [v EXCEPT !.rq[c].timeline = RemoveFirst(@, s)]

resched_curr(v, c) == [v EXCEPT !.rq[c].resched = TRUE]

----------------------------------------------------------------------------
(* Placement *)

thresh == IF "GENTLE_FAIR_SLEEPERS" \in Features THEN sysctl_sched_latency \div 2
          ELSE sysctl_sched_latency

place_entity(v, c, s, initial) ==
  LET min   == v.rq[c].min_vruntime
      debit == IF "START_DEBIT" \in Features
               THEN sched_vslice(nr_running(v, c), Level(v, c, s)) ELSE 0
      place == IF initial THEN (min + debit) % VMod ELSE (min - thresh) % VMod
  IN  [v EXCEPT !.se[s].vruntime = max_vruntime(@, place)]

\* vruntime is relative to min_vruntime while a task is between run queues.
Normalise(v, c, s)   == [v EXCEPT !.se[s].vruntime = (@ - v.rq[c].min_vruntime) % VMod]
Renormalise(v, c, s) == [v EXCEPT !.se[s].vruntime = (@ + v.rq[c].min_vruntime) % VMod]

\* Mutant: a task that wakes on another CPU keeps its relative vruntime.
enqueue_relative(v, c, s, wakeup, migrated) ==
  LET renorm == ~wakeup
      curr   == v.rq[c].curr = s
      v1 == IF renorm /\ curr THEN Renormalise(v, c, s) ELSE v
      v2 == update_curr(v1, c)
      v3 == IF renorm /\ ~curr THEN Renormalise(v2, c, s) ELSE v2
      v4 == IF wakeup /\ ~migrated THEN place_entity(v3, c, s, FALSE) ELSE v3
      v5 == IF curr THEN v4 ELSE __enqueue_entity(v4, c, s)
  IN  [v5 EXCEPT !.se[s].on_rq = TRUE]

enqueue_entity(v, c, s, wakeup, migrated) ==
  LET renorm == ~wakeup \/ migrated
      curr   == v.rq[c].curr = s
      v1 == IF renorm /\ curr THEN Renormalise(v, c, s) ELSE v
      v2 == update_curr(v1, c)
      v3 == IF renorm /\ ~curr THEN Renormalise(v2, c, s) ELSE v2
      v4 == IF wakeup THEN place_entity(v3, c, s, FALSE) ELSE v3
      v5 == IF curr THEN v4 ELSE __enqueue_entity(v4, c, s)
  IN  [v5 EXCEPT !.se[s].on_rq = TRUE]

clear_buddies(v, c, s) ==
  LET r        == v.rq[c]
      clear(b) == IF b = s THEN None ELSE b
  IN  [v EXCEPT !.rq[c] = [r EXCEPT !.last = clear(r.last), !.next = clear(r.next), !.skip = clear(r.skip)]]

\* Mutant: a dequeued entity stays a buddy.
dequeue_keeps_buddies(v, c, s, flags) ==
  LET v1 == update_curr(v, c)
      v2 == IF v.rq[c].curr # s THEN __dequeue_entity(v1, c, s) ELSE v1
      v3 == [v2 EXCEPT !.se[s].on_rq = FALSE]
      v4 == IF "sleep" \notin flags THEN Normalise(v3, c, s) ELSE v3
  IN  IF flags = {"save"} THEN update_min_vruntime(v4, c) ELSE v4

\* flags: DEQUEUE_SLEEP, DEQUEUE_SAVE, DEQUEUE_MOVE.  The condition of the last
\* step holds for DEQUEUE_SAVE without DEQUEUE_MOVE.
dequeue_entity(v, c, s, flags) ==
  LET v1 == clear_buddies(update_curr(v, c), c, s)
      v2 == IF v.rq[c].curr # s THEN __dequeue_entity(v1, c, s) ELSE v1
      v3 == [v2 EXCEPT !.se[s].on_rq = FALSE]
      v4 == IF "sleep" \notin flags THEN Normalise(v3, c, s) ELSE v3
  IN  IF flags \cap {"save", "move"} = {"save"} THEN update_min_vruntime(v4, c) ELSE v4

----------------------------------------------------------------------------
(* How far virtual time gets *)

\* Virtual time is at most NICE_0_LOAD times as fast as time: __calc_delta rounds
\* down, and no weight is below 1.  The slice of an entity is a part of the period.
MaxDebit == NICE_0_LOAD * __sched_period(Cardinality(Tasks) + 1)

ASSUME VirtualTimeAssumption ==
  /\ \A w \in Weights, d \in 0 .. MaxTime : calc_delta_fair(d, w) \in 0 .. NICE_0_LOAD * d
  /\ \A S \in SUBSET Tasks, W \in [Tasks -> Weights], w \in Weights :
       sched_vslice(Cardinality(S), <<[weight |-> w, on_rq |-> FALSE, load |-> SumFunctionOnSet(W, S)]>>)
         \in 0 .. MaxDebit

\* How far a task gets ahead of min_vruntime in some time, and how far a min_vruntime
\* gets when tasks arrive that far ahead.
Horizon(time) == MaxDebit + NICE_0_LOAD * time
Reach         == Horizon(MaxTime) * (1 + MaxMoves + 2 * Cardinality(Tasks))

\* The sign of a difference of words tells which is the later one as long as the time
\* modelled is far below half the number circle; the code relies on it for 2^64.
ASSUME WrapAssumption == VMod > 4 * (thresh + Reach)

\* The vruntime of 0 that sched_fork sets is not taken for a late one: a min_vruntime
\* starts shortly before 0 (init_cfs_rq) and has not come a quarter of the circle.
ASSUME StartAssumption ==
  \A c \in Cpus : /\ Diff(0, InitMin[c]) <= MaxDebit
                  /\ 4 * Diff(0, InitMin[c]) >= -VMod

----------------------------------------------------------------------------
(* Picking *)

wakeup_gran(v, s) == calc_delta_fair(sysctl_sched_wakeup_granularity, v.se[s].weight)

\* Should s preempt curr: 1, and 0 or -1 if not.
wakeup_preempt_entity(v, curr, s) ==
  LET vdiff == Diff(v.se[curr].vruntime, v.se[s].vruntime)
  IN  IF vdiff <= 0 THEN -1 ELSE IF vdiff > wakeup_gran(v, s) THEN 1 ELSE 0

\* Mutant: the next buddy runs however far it is ahead.
next_whatever(v, buddy, left) == buddy # None

\* A buddy may run instead of the leftmost entity if that is not too unfair.
NotUnfair(v, buddy, left) == buddy # None /\ wakeup_preempt_entity(v, buddy, left) < 1

pick_next_entity(v, c, curr) ==
  LET first == __pick_first_entity(v, c)
      left  == IF first = None \/ (curr # None /\ entity_before(v, curr, first)) THEN curr ELSE first
      after == __pick_next_entity(v, c, left)
      second == IF left = curr THEN first
                ELSE IF after = None \/ (curr # None /\ entity_before(v, curr, after)) THEN curr
                ELSE after
  IN  IF NotUnfair(v, v.rq[c].next, left) THEN v.rq[c].next
      ELSE IF NotUnfair(v, v.rq[c].last, left) THEN v.rq[c].last
      ELSE IF v.rq[c].skip = left /\ NotUnfair(v, second, left) THEN second
      ELSE left

\* Mutant: the time that curr ran is added when it is in the timeline already.
put_then_update(v, c, s) ==
  LET v1 == IF v.se[s].on_rq THEN update_curr(__enqueue_entity(v, c, s), c) ELSE v
  IN  [v1 EXCEPT !.rq[c].curr = None, !.rq[c].delta = 0]

put_prev_entity(v, c, s) ==
  LET v1 == IF v.se[s].on_rq THEN __enqueue_entity(update_curr(v, c), c, s) ELSE v
  IN  [v1 EXCEPT !.rq[c] = [@ EXCEPT !.curr = None, !.delta = 0]]

set_next_entity(v, c, s) ==
  LET v1 == IF v.se[s].on_rq THEN __dequeue_entity(v, c, s) ELSE v
      v2 == [v1 EXCEPT !.rq[c] = [@ EXCEPT !.curr = s, !.delta = 0]]
  IN  [v2 EXCEPT !.se[s].ran = 0]

\* pick_next_task_fair when something is queued: a task that was picked again is
\* neither put nor set.
Pick(v, c) ==
  LET prev  == v.rq[c].curr
      curr  == IF prev # None /\ v.se[prev].on_rq THEN prev ELSE None
      v1    == IF curr # None THEN update_curr(v, c) ELSE v
      p     == pick_next_entity(v1, c, curr)
      v2    == clear_buddies(v1, c, p)
      v3    == IF prev = None THEN v2 ELSE put_prev_entity(v2, c, prev)
      v4    == IF p = prev THEN v2 ELSE set_next_entity(v3, c, p)
  IN  [v4 EXCEPT !.rq[c] = [@ EXCEPT !.resched = FALSE, !.pc = "run"]]

----------------------------------------------------------------------------
(* Preemption *)

check_preempt_tick(v, c, curr) ==
  LET ideal_runtime == sched_slice(nr_running(v, c), Level(v, c, curr))
      delta_exec    == v.se[curr].ran
      first         == __pick_first_entity(v, c)
  IN  IF delta_exec > ideal_runtime THEN clear_buddies(resched_curr(v, c), c, curr)
      ELSE IF delta_exec < sysctl_sched_min_granularity THEN v
      ELSE IF Diff(v.se[curr].vruntime, v.se[first].vruntime) > ideal_runtime
        THEN resched_curr(v, c)
        ELSE v

check_preempt_wakeup(v, c, p, fork) ==
  LET curr   == v.rq[c].curr
      scale  == nr_running(v, c) >= sched_nr_latency
      marked == "NEXT_BUDDY" \in Features /\ scale /\ ~fork
      v1 == IF marked THEN [v EXCEPT !.rq[c].next = p] ELSE v
      v2 == update_curr(v1, c)
      v3 == resched_curr([v2 EXCEPT !.rq[c].next = p], c)
  IN  IF curr = p THEN v
      ELSE IF v.rq[c].resched \/ "WAKEUP_PREEMPTION" \notin Features THEN v1
      ELSE IF wakeup_preempt_entity(v2, curr, p) < 1 THEN v2
      ELSE IF v.se[curr].on_rq /\ "LAST_BUDDY" \in Features /\ scale
        THEN [v3 EXCEPT !.rq[c].last = curr]
        ELSE v3

\* A task of no class or of a lower class is always preempted.
check_preempt_curr(v, c, p, fork) ==
  IF v.rq[c].curr = None THEN resched_curr(v, c) ELSE check_preempt_wakeup(v, c, p, fork)

----------------------------------------------------------------------------
(* Actions *)

Moved == moves < MaxMoves /\ moves' = moves + 1
Still == UNCHANGED <<elapsed, moves>>
State(v, s, state) == [v EXCEPT !.se[s].state = state]

Elapse(c) ==
  /\ elapsed < MaxTime /\ rq[c].curr # None
  /\ rq' = [rq EXCEPT ![c].delta = @ + 1]
  /\ elapsed' = elapsed + 1
  /\ UNCHANGED <<se, moves>>

\* entity_tick
Tick(c) ==
  /\ rq[c].curr # None /\ rq[c].pc # "newidle"
  /\ LET v == update_curr(Now, c)
     IN  Becomes(IF nr_running(v, c) > 1 THEN check_preempt_tick(v, c, rq[c].curr) ELSE v)
  /\ Still

\* schedule: preemption, the second half of a yield, or the current task sleeps.
\* With nothing left to run, idle_balance drops the lock.
schedule(c, sleeps) ==
  /\ rq[c].pc # "newidle"
  /\ IF sleeps THEN rq[c].curr # None /\ rq[c].pc = "run"
     ELSE rq[c].resched \/ rq[c].pc = "yield"
  /\ LET v == IF sleeps THEN State(dequeue_entity(Now, c, rq[c].curr, {"sleep"}),
                                   rq[c].curr, "sleeping")
              ELSE Now
     IN  Becomes(IF nr_running(v, c) = 0 THEN [v EXCEPT !.rq[c].pc = "newidle"] ELSE Pick(v, c))
  /\ Still

\* idle_balance is over: what has been queued meanwhile is picked, or the idle task.
idle_balance_ends(c) ==
  /\ rq[c].pc = "newidle"
  /\ Becomes(IF nr_running(Now, c) > 0 THEN Pick(Now, c)
             ELSE [IF rq[c].curr = None THEN Now ELSE put_prev_entity(Now, c, rq[c].curr)
                    EXCEPT !.rq[c] = [@ EXCEPT !.resched = FALSE, !.pc = "run"]])
  /\ Still

\* A task of a class above fair runs instead; when it is gone schedule is due.
put_prev_task_fair(c) ==
  /\ rq[c].pc # "newidle" /\ rq[c].curr # None
  /\ LET v == put_prev_entity(Now, c, rq[c].curr)
     IN  Becomes([v EXCEPT !.rq[c] = [@ EXCEPT !.resched = TRUE, !.pc = "run"]])
  /\ Still

yield_task_fair(v, c) ==
  LET curr == v.rq[c].curr
      v1   == IF nr_running(v, c) = 1 THEN v
              ELSE [update_curr(clear_buddies(v, c, curr), c) EXCEPT !.rq[c].skip = curr]
  IN  [v1 EXCEPT !.rq[c].pc = "yield"]

sched_yield(c) ==
  /\ rq[c].pc = "run" /\ rq[c].curr # None
  /\ Becomes(yield_task_fair(Now, c)) /\ Still

yield_to_task_fair(c, p) ==
  /\ rq[c].pc = "run" /\ rq[c].curr \notin {None, p}
  /\ se[p].on_rq /\ se[p].cpu = c
  /\ Becomes(yield_task_fair([Now EXCEPT !.rq[c].next = p], c)) /\ Still

\* try_to_wake_up on the CPU the task slept on.
try_to_wake_up(s) ==
  /\ se[s].state = "sleeping" /\ rq[se[s].cpu].curr # s
  /\ LET c == se[s].cpu
         v == enqueue_entity(Now, c, s, TRUE, FALSE)
     IN  Becomes(check_preempt_curr(State(v, s, "runnable"), c, s, FALSE))
  /\ Still

\* A task that wakes on another CPU leaves its old min_vruntime behind in
\* migrate_task_rq_fair, without the lock of that run queue ...
migrate_task_rq_fair(s, c) ==
  /\ se[s].state = "sleeping" /\ rq[se[s].cpu].curr # s /\ c # se[s].cpu
  /\ Becomes([State(Normalise(Now, se[s].cpu, s), s, "waking") EXCEPT !.se[s].cpu = c])
  /\ Moved /\ UNCHANGED elapsed
\* ... and is enqueued later, from the wake_list.
sched_ttwu_pending(s) ==
  /\ se[s].state = "waking"
  /\ LET c == se[s].cpu
         v == enqueue_entity(Now, c, s, TRUE, TRUE)
     IN  Becomes(check_preempt_curr(State(v, s, "runnable"), c, s, FALSE))
  /\ Still

\* task_fork_fair: the child starts from its parent's vruntime.  A parent of another
\* class leaves it what sched_fork (external) has set: 0, and nice level 0; such forks
\* are bounded with the moves.
task_fork_fair(c, s) ==
  /\ se[s].state = "unborn" /\ rq[c].pc = "run"
  /\ LET curr == rq[c].curr
         v1   == update_curr(Now, c)
         from == IF curr = None THEN [vruntime |-> 0, weight |-> NICE_0_LOAD] ELSE v1.se[curr]
         v2   == [v1 EXCEPT !.se[s] = [@ EXCEPT !.state = "new", !.cpu = c,
                                          !.vruntime = from.vruntime, !.weight = from.weight]]
         v3   == place_entity(v2, c, s, TRUE)
         v4   == [v3 EXCEPT !.se[s].vruntime = v3.se[curr].vruntime]
         v5   == [v4 EXCEPT !.se[curr].vruntime = v3.se[s].vruntime]
     IN  Becomes(Normalise(IF child_runs_first /\ curr # None /\ entity_before(v3, curr, s)
                           THEN resched_curr(v5, c) ELSE v3, c, s))
  /\ IF rq[c].curr = None THEN Moved /\ UNCHANGED elapsed ELSE Still
\* wake_up_new_task, on any CPU.
wake_up_new_task(s, c) ==
  /\ se[s].state = "new"
  /\ IF c = se[s].cpu THEN UNCHANGED moves ELSE Moved
  /\ LET v == enqueue_entity([Now EXCEPT !.se[s].cpu = c], c, s, FALSE, FALSE)
     IN  Becomes(check_preempt_curr(State(v, s, "runnable"), c, s, TRUE))
  /\ UNCHANGED elapsed

\* The load balancer detaches a queued task ...
detach_task(s, c) ==
  /\ se[s].state = "runnable" /\ se[s].cpu # c /\ rq[se[s].cpu].curr # s
  /\ LET v == dequeue_entity(Now, se[s].cpu, s, {})
     IN  Becomes([State(v, s, "migrating") EXCEPT !.se[s].cpu = c])
  /\ Moved /\ UNCHANGED elapsed
\* ... and attaches it.
attach_task(s) ==
  /\ se[s].state = "migrating"
  /\ LET v == enqueue_entity(Now, se[s].cpu, s, FALSE, FALSE)
     IN  Becomes(check_preempt_curr(State(v, s, "runnable"), se[s].cpu, s, FALSE))
  /\ Still

\* A change of a queued task's priority takes it off its run queue and puts it
\* back, as the scheduler core does with DEQUEUE_SAVE and ENQUEUE_RESTORE.
PutBack(s, weight) ==
  LET c  == se[s].cpu
      v1 == dequeue_entity(Now, c, s, {"save"})
      v2 == IF rq[c].curr = s THEN put_prev_entity(v1, c, s) ELSE v1
      v3 == enqueue_entity([v2 EXCEPT !.se[s].weight = weight], c, s, FALSE, FALSE)
  IN  IF rq[c].curr = s THEN set_next_entity(v3, c, s) ELSE v3

prio_changed_fair(v, c, s, lower) ==
  IF v.rq[c].curr = s THEN IF lower THEN resched_curr(v, c) ELSE v
  ELSE check_preempt_curr(v, c, s, FALSE)

sched_setscheduler(s, weight) ==
  /\ se[s].state = "runnable" /\ weight # se[s].weight
  /\ Becomes(prio_changed_fair(PutBack(s, weight), se[s].cpu, s, weight < se[s].weight))
  /\ Moved /\ UNCHANGED elapsed

\* Tasks that have been forked and not woken; the run queues have run before.
Init ==
  /\ rq = [c \in Cpus |->
             [min_vruntime |-> InitMin[c], curr |-> None, timeline |-> <<>>, last |-> None,
              next |-> None, skip |-> None, delta |-> 0, resched |-> FALSE, pc |-> "run"]]
  /\ \E unborn \in {None} \cup Tasks, c \in InitCpus :
       se = [s \in Tasks |->
               [vruntime |-> 0, on_rq |-> FALSE, cpu |-> c, weight |-> NICE_0_LOAD, ran |-> 0,
                state |-> IF s = unborn THEN "unborn" ELSE "new"]]
  /\ elapsed = 0 /\ moves = 0

Next ==
  \/ \E c \in Cpus :
       \/ Elapse(c) \/ Tick(c) \/ idle_balance_ends(c) \/ put_prev_task_fair(c) \/ sched_yield(c)
       \/ \E sleeps \in BOOLEAN : schedule(c, sleeps)
       \/ \E s \in Tasks :
            \/ yield_to_task_fair(c, s) \/ migrate_task_rq_fair(s, c) \/ task_fork_fair(c, s)
            \/ wake_up_new_task(s, c) \/ detach_task(s, c)
  \/ \E s \in Tasks :
       \/ try_to_wake_up(s) \/ sched_ttwu_pending(s) \/ attach_task(s)
       \/ \E w \in Weights : sched_setscheduler(s, w)

Spec == Init /\ [][Next]_vars

----------------------------------------------------------------------------
(* Properties *)

\* min_vruntime of a cfs_rq never moves backwards, across the wrap-around and
\* whatever is placed behind it: "ensure we never gain time by being placed
\* backwards" (update_min_vruntime).
MinVruntimeMonotone ==
  [][\A c \in Cpus : Diff(rq'[c].min_vruntime, rq[c].min_vruntime) >= 0]_vars

\* No queued task is further behind min_vruntime than a sleeper is placed by
\* place_entity: not by waking on another CPU, whose min_vruntime is unrelated
\* and where it arrives later, nor by migration, fork or a change of weight.
NoExtraCredit ==
  \A s \in Tasks : se[s].on_rq => Diff(se[s].vruntime, rq[se[s].cpu].min_vruntime) >= -thresh

\* The timeline of a run queue holds what is queued there except curr, sorted by
\* vruntime: no entity's vruntime moves while it is in the tree, and no pair is
\* half the number circle apart.
TimelineSorted ==
  \A c \in Cpus :
    LET tl == rq[c].timeline
    IN  /\ ToSet(tl) = OnRq(Now, c) \ {rq[c].curr} /\ Len(tl) = Cardinality(ToSet(tl))
        /\ \A i, j \in DOMAIN tl : i < j => ~entity_before(Now, tl[j], tl[i])

\* A buddy is always an entity of this run queue that is queued there:
\* pick_next_entity follows the pointers without a check, long after the task may
\* have slept, migrated or changed its priority.
BuddiesQueued ==
  \A c \in Cpus : {rq[c].last, rq[c].next, rq[c].skip} \subseteq OnRq(Now, c) \cup {None}

\* What a run queue points to is what is queued there, and in order.
TimelineConsistent == TypeOK /\ TimelineSorted /\ BuddiesQueued

\* Whoever is picked, buddy or not, is at most a wakeup granularity ahead of the
\* leftmost entity that is left waiting.
PickNotUnfair ==
  [][\A c \in Cpus :
       rq'[c].curr \notin {rq[c].curr, None} /\ rq'[c].timeline # <<>>
         => wakeup_preempt_entity([rq |-> rq', se |-> se'], rq'[c].curr,
                                  Head(rq'[c].timeline)) < 1]_vars

\* "... in this case we'll be put back on, and if we advance min_vruntime, we'll be
\* placed back further than we started -- ie. we'll be penalized"
\* (dequeue_entity): a waiting task whose priority changes keeps its place.
PutBackKeepsPlace ==
  \A s \in Tasks, w \in Weights :
    se[s].state = "runnable" /\ rq[se[s].cpu].curr # s /\ w # se[s].weight =>
      LET c == se[s].cpu
          before == update_curr(Now, c).se[s].vruntime
      IN  Diff(PutBack(s, w).se[s].vruntime, before) <= 0

Abstract == INSTANCE Placement WITH
  Nobody  <- None,
  Nowhere <- None,
  at      <- [s \in Tasks |-> IF se[s].on_rq THEN se[s].cpu ELSE None],
  running <- [c \in Cpus |-> IF rq[c].curr # None /\ se[rq[c].curr].on_rq THEN rq[c].curr ELSE None]

\* The run queues implement Placement, the same promise the load balancer relies on:
\* pick_next_task_fair, which picks buddies and puts and sets only what changes,
\* lets a CPU run only a task that is queued on it, and no task on two CPUs.
ImplementsPlacement == Abstract!Spec
=============================================================================
