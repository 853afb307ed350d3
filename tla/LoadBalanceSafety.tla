-------------------------- MODULE LoadBalanceSafety --------------------------
(***************************************************************************)
(* The steps of load balancing that attach tasks, balance actively, and    *)
(* wake, switch and move tasks around it; and what follows for every       *)
(* behaviour, for every set of CPUs and tasks and every hierarchy of       *)
(* domains; last, that the balancer implements Placement.                  *)
(***************************************************************************)
EXTENDS LoadBalanceProofs

-----------------------------------------------------------------------------
(***************************************************************************)
(* What is in the hands of the others.                                     *)
(***************************************************************************)
\* A task in one hand is in no other and in no queue, and no CPU runs it.
LEMMA HandFacts ==
  ASSUME IInv, NEW e \in Cpus, NEW t \in Held(e)
  PROVE  /\ t \in Tasks /\ task[t].on_rq = "migrating" /\ env[e].dst \in task[t].cpus_allowed
         /\ \A f \in Cpus \ {e} : t \notin Held(f)
         /\ \A c \in Cpus : t \notin ToSet(rq[c].cfs_tasks) /\ rq[c].curr # t
  <1>1. t \in Tasks
    BY HeldTasks DEF IInv
  <1>2. task[t].on_rq = "migrating"
    BY <1>1 DEF IInv, HandsExact
  <1>3. \A f \in Cpus \ {e} : t \notin Held(f)
    BY <1>1 DEF IInv, HandsExact
  <1>4. \A c \in Cpus : t \notin ToSet(rq[c].cfs_tasks) /\ rq[c].curr # t
    BY <1>1, <1>2 DEF IInv, QueuesExact, CurrQueued
  <1> QED BY <1>1, <1>2, <1>3, <1>4 DEF IInv, HandsForDst

\* A CPU whose lb_env and whose tasks in hand do not change.
LEMMA OtherHand ==
  ASSUME IInv, NEW f \in Cpus, env'[f] = env[f],
         \A t \in Held(f) : task'[t].cpu = task[t].cpu /\ task'[t].cpus_allowed = task[t].cpus_allowed
  PROVE  /\ Held(f)' = Held(f)
         /\ \A t \in Held(f)' : env'[f].dst \in task'[t].cpus_allowed
         /\ \A t \in ToSet(env'[f].tasks) : task'[t].cpu = env'[f].dst
         /\ env'[f].pc = "attach_one" => task'[env'[f].p].cpu = env'[f].dst
  <1>1. Held(f)' = Held(f) /\ ToSet(env[f].tasks) \subseteq Held(f)
    BY DEF Held
  <1>2. env[f].pc = "attach_one" => env[f].p \in Held(f)
    BY DEF IInv, Shape, Held
  <1> QED BY <1>1, <1>2 DEF IInv, HandsForDst

\* All that is in the hand of e is attached to dst, the CPU it belongs to.
LEMMA AttachIInv ==
  ASSUME IInv, NEW e \in Cpus, NEW ts \in Seq(Tasks), Injective(ts), ToSet(ts) = Held(e),
         env[e].dst \in Cpus, \A t \in ToSet(ts) : task[t].cpu = env[e].dst,
         NEW w \in EnvType, Shape(e, w), Becomes(e, w), w.tasks = <<>>, w.p = Idle, w.pc # "attach_one",
         SameCurr(env[e], w), SameKick(env[e], w), Locks(env[e]) = {}, Locks(w) = {},
         rq' = [rq EXCEPT ![env[e].dst] = Enqueued(@, ts)],
         \A t \in ToSet(ts) : task'[t] = [task[t] EXCEPT !.on_rq = "queued"],
         \A t \in Tasks \ ToSet(ts) : task'[t] = task[t],
         task' \in [Tasks -> TaskType], UNCHANGED affine
  PROVE  IInv'
  <1> DEFINE d == env[e].dst
  <1>0. /\ Typed /\ LocksHeld /\ QueuesExact /\ HandsExact /\ HandsForDst /\ AffinityKept /\ CurrQueued
        /\ ActiveOwned /\ PushElsewhere /\ \A f \in Cpus : Shape(f, env[f])
    BY DEF IInv
  <1>1. env'[e] = w /\ (\A f \in Cpus \ {e} : env'[f] = env[f]) /\ env' \in [Cpus -> EnvType]
    BY <1>0, BecomesFacts
  <1>2. \A t \in ToSet(ts) : /\ t \in Tasks /\ task[t].on_rq = "migrating" /\ d \in task[t].cpus_allowed
                             /\ \A f \in Cpus \ {e} : t \notin Held(f)
                             /\ \A c \in Cpus : t \notin ToSet(rq[c].cfs_tasks) /\ rq[c].curr # t
    BY HandFacts
  <1>3. \A t \in ToSet(ts) : /\ task'[t].on_rq = "queued" /\ task'[t].cpu = d
                             /\ task'[t].cpus_allowed = task[t].cpus_allowed
    <2> SUFFICES ASSUME NEW t \in ToSet(ts)
                 PROVE  /\ task'[t].on_rq = "queued" /\ task'[t].cpu = d
                        /\ task'[t].cpus_allowed = task[t].cpus_allowed
      OBVIOUS
    <2>1. task[t] \in TaskType /\ task[t].cpu = d
      BY <1>0, <1>2 DEF Typed
    <2>2. task'[t] = [task[t] EXCEPT !.on_rq = "queued"]
      OBVIOUS
    <2> QED BY <2>1, <2>2 DEF TaskType
  <1>4. rq[d] \in RqType /\ rq[d].cfs_tasks \in Seq(Tasks) /\ Injective(rq[d].cfs_tasks)
    BY <1>0 DEF Typed, RqType, QueuesExact
  <1>5. /\ ts \o rq[d].cfs_tasks \in Seq(Tasks)
        /\ ToSet(ts \o rq[d].cfs_tasks) = ToSet(ts) \cup ToSet(rq[d].cfs_tasks)
        /\ Injective(ts \o rq[d].cfs_tasks)
    <2>1. ToSet(ts) \cap ToSet(rq[d].cfs_tasks) = {}
      BY <1>2
    <2> QED BY <1>4, <2>1, ConcatFacts
  <1>6. /\ rq' \in [Cpus -> RqType]
        /\ \A c \in Cpus \ {d} : rq'[c] = rq[c]
        /\ rq'[d].cfs_tasks = ts \o rq[d].cfs_tasks
        /\ \A c \in Cpus : /\ rq'[c].lock = rq[c].lock /\ rq'[c].curr = rq[c].curr
                           /\ rq'[c].active_balance = rq[c].active_balance
                           /\ rq'[c].work = rq[c].work /\ rq'[c].push_cpu = rq[c].push_cpu
    <2> DEFINE r == Enqueued(rq[d], ts)
    <2>1. /\ r \in RqType /\ r.cfs_tasks = ts \o rq[d].cfs_tasks
          /\ r.lock = rq[d].lock /\ r.curr = rq[d].curr /\ r.active_balance = rq[d].active_balance
          /\ r.work = rq[d].work /\ r.push_cpu = rq[d].push_cpu
      BY <1>4, <1>5 DEF RqType, Enqueued
    <2> HIDE DEF r
    <2>2. rq' = [rq EXCEPT ![d] = r]
      BY DEF r
    <2> QED BY <1>0, <2>1, <2>2 DEF Typed
  <1>7. Typed' /\ \A f \in Cpus : Shape(f, env'[f])
    BY <1>0, <1>1, <1>6 DEF Typed
  <1>8. LocksHeld'
    <2>1. LockStep(e, env[e], w)
      BY <1>6 DEF LockStep
    <2> QED BY <1>0, <2>1, LocksKept
  <1>9. QueuesExact'
    <2>1. d \in Cpus /\ \A t \in ToSet(ts) : t \in Tasks
      BY <1>2
    <2>2. rq'[d].cfs_tasks = ts \o rq[d].cfs_tasks /\ \A c \in Cpus \ {d} : rq'[c].cfs_tasks = rq[c].cfs_tasks
      BY <1>6
    <2>3. /\ ToSet(rq'[d].cfs_tasks) = ToSet(ts) \cup ToSet(rq[d].cfs_tasks)
          /\ \A c \in Cpus \ {d} : ToSet(rq'[c].cfs_tasks) = ToSet(rq[c].cfs_tasks)
      BY <1>5, <2>2, Zenon
    <2>4. \A c \in Cpus : Injective(rq'[c].cfs_tasks)
      BY <1>0, <1>5, <2>1, <2>2, Zenon DEF QueuesExact
    <2>5. ASSUME NEW t \in Tasks, NEW c \in Cpus
          PROVE  t \in ToSet(rq'[c].cfs_tasks) <=> task'[t].on_rq = "queued" /\ task'[t].cpu = c
      <3>1. t \in ToSet(rq[c].cfs_tasks) <=> task[t].on_rq = "queued" /\ task[t].cpu = c
        BY <1>0 DEF QueuesExact
      <3>2. CASE t \in ToSet(ts)
        <4>1. t \notin ToSet(rq[c].cfs_tasks) /\ task'[t].on_rq = "queued" /\ task'[t].cpu = d
          BY <1>2, <1>3, <3>2
        <4>2. t \in ToSet(rq'[c].cfs_tasks) <=> c = d
          BY <2>1, <2>3, <3>2, <4>1
        <4> QED BY <4>1, <4>2
      <3>3. CASE t \notin ToSet(ts)
        <4>1. t \in ToSet(rq'[c].cfs_tasks) <=> t \in ToSet(rq[c].cfs_tasks)
          BY <2>1, <2>3, <3>3
        <4> QED BY <3>1, <3>3, <4>1
      <3> QED BY <3>2, <3>3
    <2> QED BY <2>4, <2>5 DEF QueuesExact
  <1>10. Held(e)' = {} /\ \A f \in Cpus \ {e} : Held(f)' = Held(f)
    BY <1>1, EmptyFacts, TasksAssumption DEF Held
  <1>11. HandsExact'
    <2>1. \A t \in Tasks : task'[t].on_rq = "migrating" <=> \E f \in Cpus : t \in Held(f)'
      BY <1>0, <1>2, <1>3, <1>10 DEF HandsExact
    <2>2. \A t \in Tasks, c, f \in Cpus : t \in Held(c)' /\ t \in Held(f)' => c = f
      BY <1>0, <1>10 DEF HandsExact
    <2>3. \A f \in Cpus : env'[f].p \notin ToSet(env'[f].tasks) /\ Injective(env'[f].tasks)
      BY <1>0, <1>1, EmptyFacts DEF HandsExact
    <2> QED BY <2>1, <2>2, <2>3 DEF HandsExact
  <1>12. HandsForDst'
    <2>1. ASSUME NEW f \in Cpus
          PROVE  /\ \A t \in Held(f)' : env'[f].dst \in task'[t].cpus_allowed
                 /\ \A t \in ToSet(env'[f].tasks) : task'[t].cpu = env'[f].dst
                 /\ env'[f].pc = "attach_one" => task'[env'[f].p].cpu = env'[f].dst
      <3>1. CASE f = e
        BY <1>1, <1>10, <3>1, EmptyFacts
      <3>2. CASE f # e
        <4>1. \A t \in Held(f) : task'[t] = task[t]
          BY <1>0, <1>2, <3>2, HeldTasks
        <4> QED BY <1>1, <3>2, <4>1, OtherHand
      <3> QED BY <3>1, <3>2
    <2> QED BY <2>1 DEF HandsForDst
  <1>13. AffinityKept'
    BY <1>0, <1>2, <1>3 DEF AffinityKept
  <1>14. CurrQueued'
    <2>1. \A c \in Cpus : SameCurr(env[c], env'[c])
      BY <1>1 DEF SameCurr
    <2>2. \A t \in Tasks : (\E c \in Cpus : rq[c].curr = t) => task'[t] = task[t]
      BY <1>2
    <2> QED BY <1>0, <1>6, <2>1, <2>2, CurrKept
  <1>15. ActiveOwned' /\ PushElsewhere'
    <2>1. \A c \in Cpus : SameKick(env[c], env'[c])
      BY <1>1 DEF SameKick
    <2> QED BY <1>0, <1>6, <2>1, ActiveKept
  <1> QED BY <1>7, <1>8, <1>9, <1>11, <1>12, <1>13, <1>14, <1>15 DEF IInv

\* attach_tasks empties env->tasks into dst_rq.
LEMMA AttachTasksIInv ==
  ASSUME IInv, NEW e \in Cpus, attach_tasks(e)
  PROVE  IInv'
  <1> DEFINE v == env[e]
             u == [v EXCEPT !.tasks = <<>>, !.ld_moved = TRUE]
             ts == Reverse(v.tasks)
  <1>1. v.pc = "attach_tasks" /\ UNCHANGED affine
    BY DEF attach_tasks
  <1>2. v.level # 0 /\ v.p = Idle
    BY <1>1, HereFacts DEF StopShape, StopPcs, LockPcs
  <1>3. /\ v \in EnvType /\ Shape(e, v) /\ AtDomain(e, v) /\ Pulling(v)
        /\ v.dst \in Cpus
    <2>1. v \in EnvType /\ Shape(e, v) /\ AtDomain(e, v) /\ Pulling(v)
      BY <1>1, <1>2, HereFacts DEF BalanceShape, PullPcs
    <2> QED BY <2>1, DomainFacts DEF Pulling
  <1>4. /\ u \in EnvType /\ AtDomain(e, u) /\ Pulling(u) /\ u.tasks = <<>> /\ u.p = Idle /\ u.idle = v.idle
    <2>1. u \in EnvType
      BY <1>3, EmptyFacts DEF EnvType
    <2>2. /\ u.flags = v.flags /\ u.new_dst = v.new_dst /\ u.loop = v.loop /\ u.loop_max = v.loop_max
          /\ u.cpu = v.cpu /\ u.level = v.level /\ u.idle = v.idle /\ u.p = Idle /\ u.tasks = <<>>
          /\ u.src = v.src /\ u.dst = v.dst /\ u.cpus = v.cpus
      BY <1>2, <1>3 DEF EnvType
    <2> HIDE DEF u
    <2>3. AtDomain(e, u) /\ sd(u) = sd(v)
      BY <1>3, <2>2 DEF AtDomain, sd
    <2>4. Pulling(u)
      BY <1>3, <2>2, <2>3 DEF Pulling
    <2> QED BY <2>1, <2>2, <2>3, <2>4
  <1>5. PICK w \in Decide(u) : Becomes(e, w)
    BY DEF attach_tasks
  <1> HIDE DEF u
  <1>6. /\ w \in EnvType /\ Shape(e, w) /\ EmptyHanded(u, w)
        /\ w.pc \in {"run", "redo", "more_balance", "active"} \cup CallerPcs
    BY <1>4, <1>5, DecideShape
  <1>7. /\ w.tasks = <<>> /\ w.p = Idle /\ w.pc \notin {"attach_one", "stop_one_cpu"} /\ Locks(w) = {}
        /\ Locks(v) = {}
    BY <1>1, <1>6 DEF EmptyHanded, Locks, CallerPcs
  <1>8. SameCurr(v, w) /\ SameKick(v, w)
    BY <1>1, <1>2, <1>4, <1>6, <1>7 DEF SameCurr, SameKick, AtStop, Stopping, EmptyHanded
  <1>9. /\ ts \in Seq(Tasks) /\ Injective(ts) /\ ToSet(ts) = Held(e) /\ ToSet(ts) = ToSet(v.tasks)
        /\ ToSet(ts) \subseteq Tasks
    <2>1. v.tasks \in Seq(Tasks) /\ Injective(v.tasks)
      BY <1>3 DEF EnvType, IInv, HandsExact
    <2>2. ToSet(v.tasks) = Held(e) /\ ToSet(v.tasks) \subseteq Tasks
      BY <1>2, <2>1, TasksAssumption, HeldTasks DEF Held, IInv
    <2> QED BY <2>1, <2>2, ReverseFacts
  <1>10. \A t \in ToSet(ts) : task[t].cpu = v.dst
    BY <1>9 DEF IInv, HandsForDst
  <1> HIDE DEF ts
  <1>11. /\ \A t \in ToSet(ts) : task'[t] = [task[t] EXCEPT !.on_rq = "queued"]
         /\ \A t \in Tasks \ ToSet(ts) : task'[t] = task[t]
         /\ task' \in [Tasks -> TaskType]
    <2>1. task' = [t \in Tasks |-> IF t \in ToSet(ts) THEN [task[t] EXCEPT !.on_rq = "queued"] ELSE task[t]]
      BY <1>9 DEF attach_tasks
    <2>2. \A t \in Tasks : task[t] \in TaskType /\ [task[t] EXCEPT !.on_rq = "queued"] \in TaskType
      BY DEF IInv, Typed, TaskType
    <2> QED BY <1>9, <2>1, <2>2
  <1>12. rq' = [rq EXCEPT ![v.dst] = Enqueued(@, ts)]
    BY DEF attach_tasks, ts
  <1> QED BY <1>1, <1>3, <1>5, <1>6, <1>7, <1>8, <1>9, <1>10, <1>11, <1>12, AttachIInv

\* A stopper that has a task to attach, or its work done.
LEMMA StopFacts ==
  ASSUME IInv, NEW e \in Cpus, env[e].pc \in {"stop", "attach_one", "stop_done"}
  PROVE  /\ env[e] \in EnvType /\ Shape(e, env[e]) /\ StopShape(e, env[e]) /\ env[e].level = 0
         /\ Locks(env[e]) = {} /\ env[e].dst \in Cpus \ {e} /\ AtStop(env[e]) /\ rq[e].curr = Stopper
  <1>1. env[e].level = 0 /\ env[e].pc # "run"
    BY HereFacts DEF BalanceShape, LockPcs, CallerPcs, ActivePcs, PullPcs
  <1>2. rq[e].curr = Stopper
    BY <1>1 DEF IInv, CurrQueued, InStopper
  <1> QED BY <1>1, <1>2, HereFacts DEF StopShape, Locks, AtStop

\* attach_one_task, at the end of active balancing.
LEMMA AttachOneIInv ==
  ASSUME IInv, NEW e \in Cpus, attach_one_task(e)
  PROVE  IInv'
  <1> DEFINE v == env[e]
             a == [v EXCEPT !.p = Idle]
             w == [a EXCEPT !.pc = "stop_done"]
  <1>1. v.pc = "attach_one" /\ UNCHANGED affine
    BY DEF attach_one_task
  <1>2. /\ v \in EnvType /\ Shape(e, v) /\ StopShape(e, v) /\ v.level = 0 /\ Locks(v) = {}
        /\ v.dst \in Cpus /\ v.p \in Tasks
    BY <1>1, StopFacts DEF Shape
  <1>3. w = [v EXCEPT !.pc = "stop_done", !.p = Idle]
    BY <1>2 DEF EnvType
  <1>4. w \in EnvType
    BY <1>2, HandTyped, EmptyFacts, PcTyped DEF StopPcs
  <1>5. /\ w.pc = "stop_done" /\ w.p = Idle /\ w.tasks = <<>> /\ w.level = 0 /\ w.src = v.src /\ w.dst = v.dst
        /\ w.flags = v.flags /\ w.idle = v.idle /\ w.loop = v.loop
    BY <1>2 DEF EnvType, StopShape
  <1> HIDE DEF w, a
  <1>6. Shape(e, w)
    BY <1>2, <1>5, TasksAssumption DEF Shape, StopShape, StopPcs, LockPcs
  <1>7. SameCurr(v, w) /\ SameKick(v, w) /\ Locks(w) = {}
    BY <1>1, <1>2, <1>5 DEF SameCurr, SameKick, AtStop, Stopping, Locks
  <1>8. Held(e) = {v.p} /\ task[v.p].cpu = v.dst
    BY <1>1, <1>2, EmptyFacts DEF Held, StopShape, IInv, HandsForDst
  <1>9. <<v.p>> \in Seq(Tasks) /\ ToSet(<<v.p>>) = {v.p} /\ Injective(<<v.p>>)
    BY <1>2, SingletonFacts
  <1>10. /\ task'[v.p] = [task[v.p] EXCEPT !.on_rq = "queued"]
         /\ \A t \in Tasks \ {v.p} : task'[t] = task[t]
         /\ task' \in [Tasks -> TaskType]
    <2>1. task' = [task EXCEPT ![v.p].on_rq = "queued"] /\ task \in [Tasks -> TaskType]
      BY DEF attach_one_task, IInv, Typed
    <2> QED BY <1>2, <2>1 DEF TaskType
  <1>11. rq' = [rq EXCEPT ![v.dst] = Enqueued(@, <<v.p>>)] /\ Becomes(e, w)
    BY <1>3 DEF attach_one_task
  <1> QED BY <1>1, <1>2, <1>4, <1>5, <1>6, <1>7, <1>8, <1>9, <1>10, <1>11, AttachIInv, ZenonT(40)

-----------------------------------------------------------------------------
(***************************************************************************)
(* The end of detach_task.                                                 *)
(***************************************************************************)
\* The task in hand becomes one of dst: on env->tasks, or in the hand of the stopper.
LEMMA SetCpuIInv ==
  ASSUME IInv, NEW e \in Cpus, env[e].pc = "set_task_cpu", NEW w \in EnvType, Shape(e, w), Becomes(e, w),
         w.dst = env[e].dst,
         \/ w.p = env[e].p /\ w.tasks = env[e].tasks /\ env[e].tasks = <<>>
         \/ w.p = Idle /\ w.tasks = <<env[e].p>> \o env[e].tasks /\ w.pc # "attach_one",
         SameCurr(env[e], w), task' = [task EXCEPT ![env[e].p].cpu = env[e].dst], UNCHANGED affine,
         rq' \in [Cpus -> RqType],
         \A c \in Cpus : rq'[c].cfs_tasks = rq[c].cfs_tasks /\ rq'[c].curr = rq[c].curr,
         LockStep(e, env[e], w), ActiveOwned', PushElsewhere'
  PROVE  IInv'
  <1> DEFINE v == env[e]
             t == v.p
  <1>0. /\ Typed /\ LocksHeld /\ QueuesExact /\ HandsExact /\ HandsForDst /\ AffinityKept /\ CurrQueued
        /\ \A f \in Cpus : Shape(f, env[f])
    BY DEF IInv
  <1>1. env'[e] = w /\ (\A f \in Cpus \ {e} : env'[f] = env[f]) /\ env' \in [Cpus -> EnvType]
    BY <1>0, BecomesFacts
  <1>2. v \in EnvType /\ t \in Tasks /\ v.dst \in Cpus /\ t \in Held(e) /\ v.tasks \in Seq(Tasks)
    BY LockFacts DEF LockPcs, Held, EnvType
  <1>3. /\ task[t].on_rq = "migrating" /\ v.dst \in task[t].cpus_allowed
        /\ \A f \in Cpus \ {e} : t \notin Held(f)
        /\ \A c \in Cpus : t \notin ToSet(rq[c].cfs_tasks) /\ rq[c].curr # t
    BY <1>2, HandFacts
  <1>4. /\ task' \in [Tasks -> TaskType]
        /\ \A u \in Tasks \ {t} : task'[u] = task[u]
        /\ task'[t].on_rq = "migrating" /\ task'[t].cpu = v.dst /\ task'[t].cpus_allowed = task[t].cpus_allowed
    BY <1>0, <1>2, <1>3 DEF Typed, TaskType
  <1>5. Typed' /\ \A f \in Cpus : Shape(f, env'[f])
    BY <1>0, <1>1, <1>4 DEF Typed
  <1>6. LocksHeld'
    BY <1>0, LocksKept
  <1>7. \A u \in Tasks : task'[u].on_rq = task[u].on_rq /\ task'[u].cpus_allowed = task[u].cpus_allowed
    BY <1>3, <1>4
  <1>8. QueuesExact'
    <2>1. ASSUME NEW c \in Cpus, NEW u \in Tasks
          PROVE  u \in ToSet(rq'[c].cfs_tasks) <=> task'[u].on_rq = "queued" /\ task'[u].cpu = c
      <3>1. u \in ToSet(rq[c].cfs_tasks) <=> task[u].on_rq = "queued" /\ task[u].cpu = c
        BY <1>0 DEF QueuesExact
      <3>2. rq'[c].cfs_tasks = rq[c].cfs_tasks
        OBVIOUS
      <3> QED BY <1>3, <1>4, <3>1, <3>2
    <2> QED BY <1>0, <2>1 DEF QueuesExact
  <1>9. /\ Held(e)' = Held(e) /\ ToSet(w.tasks) \subseteq Held(e)
        /\ w.p \notin ToSet(w.tasks) /\ Injective(w.tasks)
    <2>1. t \notin ToSet(v.tasks) /\ Injective(v.tasks) /\ Held(e) = ToSet(v.tasks) \cup {t}
      BY <1>0, <1>2 DEF HandsExact, Held
    <2>2. CASE w.p = t /\ w.tasks = v.tasks
      BY <1>1, <1>2, <2>1, <2>2 DEF Held
    <2>3. CASE w.p = Idle /\ w.tasks = <<t>> \o v.tasks
      <3>3. ToSet(w.tasks) = {t} \cup ToSet(v.tasks) /\ Injective(w.tasks)
        BY <1>2, <2>1, <2>3, PrependFacts
      <3>4. Held(e)' = ToSet(w.tasks)
        BY <1>1, <2>3, TasksAssumption DEF Held
      <3>5. Idle \notin Held(e)
        BY <1>0, HeldTasks, TasksAssumption
      <3> QED BY <2>1, <2>3, <3>3, <3>4, <3>5
    <2> QED BY <2>2, <2>3
  <1>10. \A f \in Cpus : Held(f)' = Held(f)
    BY <1>1, <1>9 DEF Held
  <1>11. HandsExact'
    <2>1. \A f \in Cpus : env'[f].p \notin ToSet(env'[f].tasks) /\ Injective(env'[f].tasks)
      BY <1>0, <1>1, <1>9 DEF HandsExact
    <2>2. \A u \in Tasks : task'[u].on_rq = "migrating" <=> \E f \in Cpus : u \in Held(f)'
      BY <1>0, <1>7, <1>10 DEF HandsExact
    <2>3. \A u \in Tasks, d, f \in Cpus : u \in Held(d)' /\ u \in Held(f)' => d = f
      BY <1>0, <1>10 DEF HandsExact
    <2> QED BY <2>1, <2>2, <2>3 DEF HandsExact
  <1>12. HandsForDst'
    <2>1. ASSUME NEW f \in Cpus
          PROVE  /\ \A u \in Held(f)' : env'[f].dst \in task'[u].cpus_allowed
                 /\ \A u \in ToSet(env'[f].tasks) : task'[u].cpu = env'[f].dst
                 /\ env'[f].pc = "attach_one" => task'[env'[f].p].cpu = env'[f].dst
      <3>1. CASE f = e
        <4>1. \A u \in Held(e) : u \in Tasks /\ v.dst \in task'[u].cpus_allowed
          BY <1>0, <1>7, HeldTasks DEF HandsForDst
        <4>2. \A u \in Held(e) : task'[u].cpu = v.dst
          <5>1. \A u \in Held(e) \ {t} : u \in ToSet(v.tasks)
            BY <1>2 DEF Held
          <5> QED BY <1>0, <1>4, <4>1, <5>1 DEF HandsForDst
        <4>3. env'[e].pc = "attach_one" => env'[e].p \in Held(e)
          BY <1>1, <1>2
        <4> QED BY <1>1, <1>9, <3>1, <4>1, <4>2, <4>3
      <3>2. CASE f # e
        <4>1. \A u \in Held(f) : task'[u] = task[u]
          BY <1>0, <1>3, <1>4, <3>2, HeldTasks
        <4> QED BY <1>1, <3>2, <4>1, OtherHand
      <3> QED BY <3>1, <3>2
    <2> QED BY <2>1 DEF HandsForDst
  <1>13. AffinityKept'
    BY <1>0, <1>4 DEF AffinityKept
  <1>14. CurrQueued'
    <2>1. \A c \in Cpus : SameCurr(env[c], env'[c])
      BY <1>1 DEF SameCurr
    <2>2. \A u \in Tasks : (\E c \in Cpus : rq[c].curr = u) => task'[u] = task[u]
      BY <1>3, <1>4
    <2> QED BY <1>0, <2>1, <2>2, CurrKept
  <1> QED BY <1>5, <1>6, <1>8, <1>11, <1>12, <1>13, <1>14 DEF IInv

\* Two locks are released together.
LEMMA TwoLocks ==
  ASSUME Typed, NEW a \in Cpus, NEW b \in Cpus, a # b, NEW x \in Cpus \cup {NoCpu},
         rq' = [rq EXCEPT ![a].lock = x, ![b].lock = x]
  PROVE  /\ rq' \in [Cpus -> RqType]
         /\ rq'[a].lock = x /\ rq'[b].lock = x /\ \A d \in Cpus \ {a, b} : rq'[d] = rq[d]
         /\ \A d \in Cpus : /\ rq'[d].curr = rq[d].curr /\ rq'[d].active_balance = rq[d].active_balance
                            /\ rq'[d].work = rq[d].work /\ rq'[d].push_cpu = rq[d].push_cpu
                            /\ rq'[d].cfs_tasks = rq[d].cfs_tasks
  <1> DEFINE r(d) == [rq[d] EXCEPT !.lock = x]
  <1>1. ASSUME NEW d \in Cpus
        PROVE  /\ r(d) \in RqType /\ r(d).lock = x
               /\ r(d).curr = rq[d].curr /\ r(d).active_balance = rq[d].active_balance
               /\ r(d).work = rq[d].work /\ r(d).push_cpu = rq[d].push_cpu
               /\ r(d).cfs_tasks = rq[d].cfs_tasks
    BY DEF Typed, RqType
  <1>2. /\ rq' = [rq EXCEPT ![a] = r(a), ![b] = r(b)] /\ rq \in [Cpus -> RqType]
    BY DEF Typed
  <1> HIDE DEF r
  <1>3. rq'[a] = r(a) /\ rq'[b] = r(b) /\ (\A d \in Cpus \ {a, b} : rq'[d] = rq[d]) /\ rq' \in [Cpus -> RqType]
    BY <1>1, <1>2
  <1> QED BY <1>1, <1>3

\* set_task_cpu of a task in hand.
LEMMA SetTaskCpuIInv ==
  ASSUME IInv, NEW e \in Cpus, set_task_cpu(e)
  PROVE  IInv'
  <1> DEFINE v == env[e]
             pc == IF (Preempt /\ v.idle = "NEWLY_IDLE") \/ v.imbalance - Load[v.p] <= 0
                   THEN "attach_tasks" ELSE "detach"
             a == [v EXCEPT !.tasks = <<v.p>> \o v.tasks]
             b == [a EXCEPT !.p = Idle]
             i == [b EXCEPT !.imbalance = v.imbalance - Load[v.p]]
             w == [i EXCEPT !.pc = pc]
  <1>1. v.pc = "set_task_cpu" /\ ~InStopper(e) /\ task' = [task EXCEPT ![v.p].cpu = v.dst] /\ UNCHANGED affine
    BY DEF set_task_cpu
  <1>2. /\ v \in EnvType /\ Shape(e, v) /\ v.p \in Tasks /\ v.level # 0
        /\ v.src \in Cpus /\ v.dst \in Cpus /\ v.src # v.dst
        /\ BalanceShape(e, v) /\ AtDomain(e, v) /\ Pulling(v) /\ v.loop <= v.loop_max
    BY <1>1, LockFacts DEF LockPcs, InStopper
  <1>3. pc \in {"attach_tasks", "detach"}
    OBVIOUS
  <1>4. w \in EnvType
    <2>1. <<v.p>> \o v.tasks \in Seq(Tasks) /\ v.imbalance - Load[v.p] \in Int
      BY <1>2, NumbersAssumption DEF EnvType
    <2>2. a \in EnvType
      BY <1>2, <2>1, HandTyped
    <2> HIDE DEF a
    <2>3. b \in EnvType
      BY <2>2, HandTyped, EmptyFacts
    <2> HIDE DEF b
    <2>4. i \in EnvType
      BY <2>1, <2>3, ImbalanceTyped
    <2> HIDE DEF i, pc
    <2> QED BY <1>3, <2>4, PcTyped DEF PullPcs
  <1>5. /\ Becomes(e, w)
        /\ rq' = IF pc = "attach_tasks"
                 THEN [rq EXCEPT ![v.dst].lock = NoCpu, ![v.src].lock = NoCpu]
                 ELSE [rq EXCEPT ![v.dst].lock = NoCpu]
    <2> DEFINE y == [v EXCEPT !.pc = "detach", !.tasks = <<v.p>> \o @, !.p = Idle, !.imbalance = @ - Load[v.p]]
    <2>1. y.imbalance = v.imbalance - Load[v.p] /\ [y EXCEPT !.pc = "attach_tasks"] = [i EXCEPT !.pc = "attach_tasks"]
          /\ y = [i EXCEPT !.pc = "detach"]
      BY <1>2 DEF EnvType
    <2> HIDE DEF y
    <2>2. IF (Preempt /\ v.idle = "NEWLY_IDLE") \/ y.imbalance <= 0
          THEN /\ rq' = [[rq EXCEPT ![v.dst].lock = NoCpu] EXCEPT ![v.src].lock = NoCpu]
               /\ Becomes(e, [y EXCEPT !.pc = "attach_tasks"])
          ELSE rq' = [rq EXCEPT ![v.dst].lock = NoCpu] /\ Becomes(e, y)
      BY Zenon DEF set_task_cpu, y
    <2> HIDE DEF i
    <2>3. CASE (Preempt /\ v.idle = "NEWLY_IDLE") \/ v.imbalance - Load[v.p] <= 0
      BY <2>1, <2>2, <2>3
    <2>4. CASE ~((Preempt /\ v.idle = "NEWLY_IDLE") \/ v.imbalance - Load[v.p] <= 0)
      BY <2>1, <2>2, <2>4
    <2> QED BY <2>3, <2>4
  <1>6. /\ w.pc = pc /\ w.p = Idle /\ w.tasks = <<v.p>> \o v.tasks
        /\ w.flags = v.flags /\ w.cpu = v.cpu /\ w.level = v.level /\ w.idle = v.idle
        /\ w.src = v.src /\ w.dst = v.dst /\ w.new_dst = v.new_dst
        /\ w.cpus = v.cpus /\ w.loop = v.loop /\ w.loop_max = v.loop_max
    BY <1>2 DEF EnvType
  <1> HIDE DEF w, a, b, i, pc
  <1>7. Shape(e, w)
    <2>1. AtDomain(e, w) /\ sd(w) = sd(v)
      BY <1>2, <1>6 DEF AtDomain, sd
    <2>2. Pulling(w) /\ w.loop <= w.loop_max
      BY <1>2, <1>6, <2>1 DEF Pulling
    <2>3. "NEED_BREAK" \notin v.flags
      BY <1>1, <1>2 DEF BalanceShape
    <2>4. BalanceShape(e, w)
      BY <1>3, <1>6, <2>1, <2>2, <2>3 DEF BalanceShape, LockPcs, PullPcs, CallerPcs, ActivePcs
    <2> QED BY <1>2, <1>3, <1>6, <2>4, TasksAssumption DEF Shape, LockPcs
  <1>8. SameCurr(v, w) /\ SameKick(v, w)
    BY <1>1, <1>2, <1>3, <1>6 DEF SameCurr, SameKick, AtStop, Stopping
  <1>9. /\ rq' \in [Cpus -> RqType]
        /\ rq'[v.dst].lock = NoCpu
        /\ rq'[v.src].lock = IF pc = "attach_tasks" THEN NoCpu ELSE rq[v.src].lock
        /\ \A c \in Cpus \ {v.src, v.dst} : rq'[c] = rq[c]
        /\ \A c \in Cpus : /\ rq'[c].curr = rq[c].curr /\ rq'[c].active_balance = rq[c].active_balance
                           /\ rq'[c].work = rq[c].work /\ rq'[c].push_cpu = rq[c].push_cpu
                           /\ rq'[c].cfs_tasks = rq[c].cfs_tasks
    <2>1. NoCpu \in Cpus \cup {NoCpu} /\ Typed
      BY DEF IInv
    <2>2. CASE pc = "detach"
      <3>1. rq' = [rq EXCEPT ![v.dst].lock = NoCpu]
        BY <1>5, <2>2
      <3> QED BY <1>2, <2>1, <2>2, <3>1, LockOnly, ZenonT(40)
    <2>3. CASE pc = "attach_tasks"
      <3>1. rq' = [rq EXCEPT ![v.dst].lock = NoCpu, ![v.src].lock = NoCpu]
        BY <1>5, <2>3
      <3>2. /\ rq' \in [Cpus -> RqType]
            /\ rq'[v.dst].lock = NoCpu /\ rq'[v.src].lock = NoCpu
            /\ \A c \in Cpus \ {v.dst, v.src} : rq'[c] = rq[c]
            /\ \A c \in Cpus : /\ rq'[c].curr = rq[c].curr /\ rq'[c].active_balance = rq[c].active_balance
                               /\ rq'[c].work = rq[c].work /\ rq'[c].push_cpu = rq[c].push_cpu
                               /\ rq'[c].cfs_tasks = rq[c].cfs_tasks
        <4>1. PICK to \in Cpus, from \in Cpus : to = v.dst /\ from = v.src
          BY <1>2
        <4>2. rq' = [rq EXCEPT ![to].lock = NoCpu, ![from].lock = NoCpu] /\ to # from
          BY <1>2, <3>1, <4>1
        <4>3. /\ rq' \in [Cpus -> RqType]
              /\ rq'[to].lock = NoCpu /\ rq'[from].lock = NoCpu /\ \A c \in Cpus \ {to, from} : rq'[c] = rq[c]
              /\ \A c \in Cpus : /\ rq'[c].curr = rq[c].curr /\ rq'[c].active_balance = rq[c].active_balance
                                 /\ rq'[c].work = rq[c].work /\ rq'[c].push_cpu = rq[c].push_cpu
                                 /\ rq'[c].cfs_tasks = rq[c].cfs_tasks
          BY <2>1, <4>2, TwoLocks
        <4> QED BY <4>1, <4>3
      <3> QED BY <2>3, <3>2
    <2> QED BY <1>3, <2>2, <2>3
  <1>10. LockStep(e, v, w)
    <2>1. Locks(v) = {v.src, v.dst} /\ Locks(w) = IF pc = "attach_tasks" THEN {} ELSE {v.src}
      BY <1>1, <1>3, <1>6 DEF Locks
    <2>2. rq[v.src].lock = e /\ rq[v.dst].lock = e
      BY <1>2, <2>1 DEF IInv, LocksHeld
    <2> QED BY <1>2, <1>3, <1>9, <2>1, <2>2 DEF LockStep
  <1>11. ActiveOwned' /\ PushElsewhere'
    <2>1. \A c \in Cpus : SameKick(env[c], env'[c])
      <3>1. env'[e] = w /\ \A c \in Cpus \ {e} : env'[c] = env[c]
        BY <1>5, BecomesFacts DEF IInv
      <3> QED BY <1>8, <3>1 DEF SameKick
    <2> QED BY <1>9, <2>1, ActiveKept DEF IInv
  <1>12. w.pc # "attach_one"
    BY <1>3, <1>6
  <1> QED BY <1>1, <1>4, <1>5, <1>6, <1>7, <1>8, <1>9, <1>10, <1>11, <1>12, SetCpuIInv

-----------------------------------------------------------------------------
(***************************************************************************)
(* Active balancing.                                                       *)
(***************************************************************************)
\* A CPU that runs tasks.
LEMMA RunFacts ==
  ASSUME IInv, NEW e \in Cpus, env[e].pc = "run"
  PROVE  /\ env[e] = NoEnv /\ env[e].level = 0 /\ env[e].p = Idle /\ env[e].tasks = <<>>
         /\ env[e].idle = "NOT_IDLE" /\ Locks(env[e]) = {} /\ Held(e) = {}
  <1>1. env[e] = NoEnv
    BY HereFacts DEF Shape
  <1>2. NoEnv.level = 0 /\ NoEnv.p = Idle /\ NoEnv.tasks = <<>> /\ NoEnv.idle = "NOT_IDLE"
    BY DEF NoEnv
  <1>3. Locks(env[e]) = {}
    BY DEF Locks
  <1>4. Held(e) = {}
    BY <1>1, <1>2, EmptyFacts, TasksAssumption DEF Held
  <1> QED BY <1>1, <1>2, <1>3, <1>4

\* No task moves: what remains to be shown is who runs, and who owns active_balance.
LEMMA StillIInv ==
  ASSUME IInv, NEW e \in Cpus, NEW w \in EnvType, Shape(e, w), Becomes(e, w),
         UNCHANGED <<task, affine>>, rq' \in [Cpus -> RqType],
         \A c \in Cpus : rq'[c].cfs_tasks = rq[c].cfs_tasks,
         LockStep(e, env[e], w), SameHand(env[e], w), CurrQueued', ActiveOwned', PushElsewhere'
  PROVE  IInv'
  <1>1. env'[e] = w /\ (\A f \in Cpus \ {e} : env'[f] = env[f]) /\ env' \in [Cpus -> EnvType]
    BY BecomesFacts DEF IInv
  <1>2. Typed' /\ \A f \in Cpus : Shape(f, env'[f])
    BY <1>1 DEF IInv, Typed
  <1>3. LocksHeld'
    BY LocksKept DEF IInv
  <1>4. \A f \in Cpus : SameHand(env[f], env'[f])
    BY <1>1 DEF SameHand
  <1>5. QueuesExact'
    BY QueuesKept DEF IInv, QueuesExact
  <1>6. HandsExact' /\ HandsForDst'
    BY <1>4, HandsKept DEF IInv
  <1>7. AffinityKept'
    BY DEF IInv, AffinityKept
  <1> QED BY <1>2, <1>3, <1>5, <1>6, <1>7 DEF IInv

\* Under the lock of src, active_balance becomes one's own only if nobody has it.
LEMMA LoadBalanceActiveIInv ==
  ASSUME IInv, NEW e \in Cpus, load_balance_active(e)
  PROVE  IInv'
  <1> DEFINE v == env[e]
             s == v.src
             w == [v EXCEPT !.pc = "stop_one_cpu"]
  <1>1. v.pc = "active" /\ UNCHANGED <<task, affine>>
    BY DEF load_balance_active
  <1>2. /\ v \in EnvType /\ Shape(e, v) /\ BalanceShape(e, v) /\ AtDomain(e, v) /\ v.level # 0
        /\ v.tasks = <<>> /\ v.p = Idle /\ Locks(v) = {}
    BY <1>1, CallerFacts DEF CallerPcs
  <1>3. s \in Cpus \ sd(v).group /\ v.cpu \in sd(v).group /\ v.cpu \in Cpus
    BY <1>1, <1>2, DomainFacts DEF BalanceShape, ActivePcs, AtDomain
  <1>4. CASE Becomes(e, Return(v, FALSE)) /\ UNCHANGED rq
    <2>1. /\ Return(v, FALSE) \in EnvType /\ Shape(e, Return(v, FALSE)) /\ EmptyHanded(v, Return(v, FALSE))
          /\ Return(v, FALSE).pc \in {"run"} \cup CallerPcs
      BY <1>2, ReturnShape
    <2>2. Locks(Return(v, FALSE)) = {} /\ Return(v, FALSE).pc # "stop_one_cpu"
      BY <2>1 DEF Locks, CallerPcs
    <2> QED BY <1>1, <1>2, <1>4, <2>1, <2>2, ReadStep
  <1>5. CASE /\ ~rq[s].active_balance
             /\ rq' = [rq EXCEPT ![s].active_balance = TRUE, ![s].push_cpu = v.cpu]
             /\ Becomes(e, w)
    <2>1. w \in EnvType
      BY <1>2, PcTyped DEF ActivePcs
    <2>2. /\ w.pc = "stop_one_cpu" /\ w.cpu = v.cpu /\ w.level = v.level /\ w.idle = v.idle
          /\ w.src = s /\ w.dst = v.dst /\ w.flags = v.flags /\ w.loop = v.loop /\ w.p = Idle /\ w.tasks = <<>>
      BY <1>2 DEF EnvType
    <2> HIDE DEF w
    <2>3. AtDomain(e, w) /\ sd(w) = sd(v)
      BY <1>2, <2>2 DEF AtDomain, sd
    <2>4. Shape(e, w)
      BY <1>1, <1>2, <2>2, <2>3, TasksAssumption
         DEF Shape, BalanceShape, LockPcs, ActivePcs, PullPcs, CallerPcs
    <2>5. /\ rq' \in [Cpus -> RqType]
          /\ rq'[s].active_balance = TRUE /\ rq'[s].push_cpu = v.cpu
          /\ \A c \in Cpus \ {s} : rq'[c] = rq[c]
          /\ \A c \in Cpus : /\ rq'[c].lock = rq[c].lock /\ rq'[c].cfs_tasks = rq[c].cfs_tasks
                             /\ rq'[c].curr = rq[c].curr /\ rq'[c].work = rq[c].work
      <3> DEFINE r == [rq[s] EXCEPT !.active_balance = TRUE, !.push_cpu = v.cpu]
      <3>1. rq \in [Cpus -> RqType] /\ rq[s] \in RqType
        BY <1>3 DEF IInv, Typed
      <3>2. /\ r \in RqType /\ r.active_balance = TRUE /\ r.push_cpu = v.cpu
            /\ r.lock = rq[s].lock /\ r.cfs_tasks = rq[s].cfs_tasks
            /\ r.curr = rq[s].curr /\ r.work = rq[s].work
        BY <1>3, <3>1 DEF RqType
      <3>3. rq' = [rq EXCEPT ![s] = r]
        BY <1>3, <1>5, <3>1
      <3> HIDE DEF r
      <3> QED BY <1>3, <3>1, <3>2, <3>3
    <2>6. env'[e] = w /\ (\A f \in Cpus \ {e} : env'[f] = env[f])
      BY <1>5, BecomesFacts DEF IInv
    <2>7. Locks(w) = {} /\ LockStep(e, v, w) /\ SameHand(v, w)
      BY <1>1, <1>2, <2>2, <2>5 DEF Locks, LockStep, SameHand
    <2>8. CurrQueued'
      <3>1. \A c \in Cpus : SameCurr(env[c], env'[c])
        BY <1>1, <1>2, <2>2, <2>6 DEF SameCurr, AtStop
      <3> QED BY <1>1, <2>5, <3>1, CurrKept DEF IInv
    <2>9. /\ \A c, f \in Cpus : Kicks(f, c)' <=> Kicks(f, c) \/ (f = e /\ c = s)
          /\ \A c \in Cpus : Stops(c)' <=> Stops(c)
      BY <1>1, <1>2, <2>2, <2>6 DEF Kicks, Stops, InStopper
    <2>10. ActiveOwned'
      <3>1. ~rq[s].work /\ ~Stops(s) /\ \A f \in Cpus : ~Kicks(f, s)
        BY <1>3, <1>5 DEF IInv, ActiveOwned
      <3> QED BY <2>5, <2>9, <3>1 DEF IInv, ActiveOwned
    <2>11. PushElsewhere'
      BY <1>3, <2>5 DEF IInv, PushElsewhere
    <2> QED BY <1>1, <1>5, <2>1, <2>4, <2>5, <2>7, <2>8, <2>10, <2>11, StillIInv
  <1> QED BY <1>4, <1>5 DEF load_balance_active

\* What a CPU has kicked off is the queued work now.
LEMMA StopOneCpuIInv ==
  ASSUME IInv, NEW e \in Cpus, stop_one_cpu_nowait(e)
  PROVE  IInv'
  <1> DEFINE v == env[e]
             s == v.src
             w == Return(v, FALSE)
  <1>1. v.pc = "stop_one_cpu" /\ UNCHANGED <<task, affine>> /\ Becomes(e, w) /\ rq' = [rq EXCEPT ![s].work = TRUE]
    BY DEF stop_one_cpu_nowait
  <1>2. /\ v \in EnvType /\ Shape(e, v) /\ BalanceShape(e, v) /\ AtDomain(e, v) /\ v.level # 0
        /\ v.tasks = <<>> /\ v.p = Idle /\ Locks(v) = {} /\ s \in Cpus
    BY <1>1, CallerFacts DEF CallerPcs, BalanceShape, ActivePcs
  <1>3. /\ w \in EnvType /\ Shape(e, w) /\ EmptyHanded(v, w) /\ w.pc \in {"run"} \cup CallerPcs
    BY <1>2, ReturnShape
  <1>4. Locks(w) = {} /\ w.pc \notin {"stop_one_cpu", "attach_one"}
    BY <1>3 DEF Locks, CallerPcs
  <1> HIDE DEF w
  <1>5. /\ rq' \in [Cpus -> RqType]
        /\ rq'[s].work = TRUE /\ \A c \in Cpus \ {s} : rq'[c] = rq[c]
        /\ \A c \in Cpus : /\ rq'[c].lock = rq[c].lock /\ rq'[c].cfs_tasks = rq[c].cfs_tasks
                           /\ rq'[c].curr = rq[c].curr /\ rq'[c].active_balance = rq[c].active_balance
                           /\ rq'[c].push_cpu = rq[c].push_cpu
    <2> DEFINE r == [rq[s] EXCEPT !.work = TRUE]
    <2>1. rq \in [Cpus -> RqType] /\ rq[s] \in RqType
      BY <1>2 DEF IInv, Typed
    <2>2. /\ r \in RqType /\ r.work = TRUE /\ r.push_cpu = rq[s].push_cpu
          /\ r.lock = rq[s].lock /\ r.cfs_tasks = rq[s].cfs_tasks
          /\ r.curr = rq[s].curr /\ r.active_balance = rq[s].active_balance
      BY <2>1 DEF RqType
    <2>3. rq' = [rq EXCEPT ![s] = r]
      BY <1>1, <1>2, <2>1
    <2> HIDE DEF r
    <2> QED BY <1>2, <2>1, <2>2, <2>3
  <1>6. env'[e] = w /\ (\A f \in Cpus \ {e} : env'[f] = env[f])
    BY <1>1, BecomesFacts DEF IInv
  <1>7. LockStep(e, v, w) /\ SameHand(v, w)
    BY <1>1, <1>2, <1>3, <1>4, <1>5 DEF LockStep, SameHand, EmptyHanded
  <1>8. CurrQueued'
    <2>1. \A c \in Cpus : SameCurr(env[c], env'[c])
      BY <1>1, <1>2, <1>3, <1>6 DEF SameCurr, AtStop, EmptyHanded
    <2> QED BY <1>1, <1>5, <2>1, CurrKept DEF IInv
  <1>9. /\ \A c, f \in Cpus : Kicks(f, c)' <=> Kicks(f, c) /\ f # e
        /\ \A c \in Cpus : Stops(c)' <=> Stops(c)
    BY <1>1, <1>2, <1>3, <1>4, <1>6 DEF Kicks, Stops, InStopper, EmptyHanded
  <1>10. ActiveOwned'
    <2>1. Kicks(e, s) /\ \A c \in Cpus \ {s} : ~Kicks(e, c)
      BY <1>1 DEF Kicks
    <2>2. ~rq[s].work /\ ~Stops(s) /\ rq[s].active_balance /\ \A f \in Cpus \ {e} : ~Kicks(f, s)
      BY <1>2, <2>1 DEF IInv, ActiveOwned
    <2> QED BY <1>5, <1>9, <2>1, <2>2 DEF IInv, ActiveOwned
  <1>11. PushElsewhere'
    BY <1>5 DEF IInv, PushElsewhere
  <1> QED BY <1>1, <1>3, <1>5, <1>7, <1>8, <1>10, <1>11, StillIInv

\* The queued work is the stopper's now, and push_cpu is another CPU.
LEMMA CpuStopIInv ==
  ASSUME IInv, NEW e \in Cpus, active_load_balance_cpu_stop(e)
  PROVE  IInv'
  <1> DEFINE v == env[e]
             push == rq[e].push_cpu
             w == [NoEnv EXCEPT !.pc = "stop", !.cpu = push, !.src = e, !.dst = push, !.idle = "IDLE"]
  <1>1. /\ v.pc = "run" /\ rq[e].work /\ UNCHANGED <<task, affine>> /\ Becomes(e, w)
        /\ rq' = [rq EXCEPT ![e].work = FALSE, ![e].curr = Stopper]
    BY DEF active_load_balance_cpu_stop
  <1>2. v = NoEnv /\ v.level = 0 /\ v.p = Idle /\ v.tasks = <<>> /\ v.idle = "NOT_IDLE" /\ Locks(v) = {}
    BY <1>1, RunFacts
  <1>3. push \in Cpus \ {e} /\ rq[e].active_balance /\ ~Stops(e) /\ \A f \in Cpus : ~Kicks(f, e)
    BY <1>1 DEF IInv, ActiveOwned, PushElsewhere
  <1>4. w \in EnvType
    BY <1>3, NoEnvShape DEF EnvType, StopPcs
  <1>5. /\ w.pc = "stop" /\ w.level = 0 /\ w.src = e /\ w.dst = push /\ w.p = Idle /\ w.tasks = <<>>
        /\ w.flags = {} /\ w.idle = "IDLE" /\ w.loop = 0
    BY DEF NoEnv
  <1> HIDE DEF w
  <1>6. Shape(e, w)
    BY <1>3, <1>5, TasksAssumption DEF Shape, StopShape, StopPcs, LockPcs
  <1>7. /\ rq' \in [Cpus -> RqType]
        /\ rq'[e].work = FALSE /\ rq'[e].curr = Stopper /\ \A c \in Cpus \ {e} : rq'[c] = rq[c]
        /\ \A c \in Cpus : /\ rq'[c].lock = rq[c].lock /\ rq'[c].cfs_tasks = rq[c].cfs_tasks
                           /\ rq'[c].active_balance = rq[c].active_balance
                           /\ rq'[c].push_cpu = rq[c].push_cpu
    BY <1>1 DEF IInv, Typed, RqType
  <1>8. env'[e] = w /\ (\A f \in Cpus \ {e} : env'[f] = env[f])
    BY <1>1, BecomesFacts DEF IInv
  <1>9. LockStep(e, v, w) /\ SameHand(v, w)
    BY <1>1, <1>2, <1>5, <1>7 DEF LockStep, SameHand, Locks
  <1>10. CurrQueued'
    <2>1. ASSUME NEW c \in Cpus
          PROVE  /\ rq'[c].curr = Stopper <=> InStopper(c)'
                 /\ rq'[c].curr \in Tasks =>
                      \/ task'[rq'[c].curr].on_rq = "queued" /\ task'[rq'[c].curr].cpu = c
                      \/ task'[rq'[c].curr].on_rq = "no" /\ env'[c].idle = "NEWLY_IDLE"
      <3>1. CASE c = e
        BY <1>5, <1>7, <1>8, <3>1, TasksAssumption DEF InStopper
      <3>2. CASE c # e
        BY <1>1, <1>7, <1>8, <3>2 DEF InStopper, IInv, CurrQueued
      <3> QED BY <3>1, <3>2
    <2> QED BY <2>1 DEF CurrQueued
  <1>11. /\ \A c, f \in Cpus : Kicks(f, c)' <=> Kicks(f, c)
         /\ \A c \in Cpus : Stops(c)' <=> Stops(c) \/ c = e
    BY <1>1, <1>5, <1>8 DEF Kicks, Stops, InStopper
  <1>12. ActiveOwned'
    BY <1>3, <1>7, <1>11 DEF IInv, ActiveOwned
  <1>13. PushElsewhere'
    BY <1>7 DEF IInv, PushElsewhere
  <1> QED BY <1>1, <1>4, <1>6, <1>7, <1>9, <1>10, <1>12, <1>13, StillIInv

\* The stopper takes a task, or finds that there is nothing to do and clears the flag.
LEMMA PushIInv ==
  ASSUME IInv, NEW e \in Cpus, active_load_balance_push(e)
  PROVE  IInv'
  <1> DEFINE v == env[e]
  <1>1. v.pc = "stop" /\ rq[e].lock = NoCpu /\ UNCHANGED affine
    BY DEF active_load_balance_push, Unlocked
  <1>2. /\ v \in EnvType /\ Shape(e, v) /\ StopShape(e, v) /\ v.level = 0 /\ Locks(v) = {}
        /\ v.dst \in Cpus \ {e} /\ rq[e].curr = Stopper
    BY <1>1, StopFacts
  <1>3. v.p = Idle /\ v.src = e /\ v.tasks = <<>>
    BY <1>1, <1>2, HereFacts DEF LockPcs, StopShape
  <1>4. ASSUME NEW t \in {u \in ToSet(rq[e].cfs_tasks) : v.dst \in task[u].cpus_allowed}, detach_task(e, v, t)
        PROVE  IInv'
    <2> DEFINE pc == IF Preempt THEN "lock_first" ELSE "trylock"
               a == [v EXCEPT !.p = t]
               y == [a EXCEPT !.pc = pc]
    <2>1. /\ pc \in LockPcs \ {"lock_dst"} /\ pc \in StopPcs
          /\ pc \notin {"stop_one_cpu", "attach_one", "stop_done", "run"}
      BY DEF LockPcs, StopPcs
    <2>2. t \in Tasks /\ t \in ToSet(rq[e].cfs_tasks) /\ v.dst \in task[t].cpus_allowed
      <3>1. rq[e].cfs_tasks \in Seq(Tasks)
        BY DEF IInv, Typed, RqType
      <3>2. ToSet(rq[e].cfs_tasks) \subseteq Tasks
        BY <3>1 DEF ToSet
      <3> QED BY <1>4, <3>2
    <2>3. y = [v EXCEPT !.p = t, !.pc = IF Preempt THEN "lock_first" ELSE "trylock"]
      BY <1>2 DEF EnvType
    <2>4. y \in EnvType
      <3>1. a \in EnvType
        BY <1>2, <2>2, HandTyped, EmptyFacts
      <3> HIDE DEF a, pc
      <3> QED BY <2>1, <3>1, PcTyped
    <2>5. /\ y.pc = pc /\ y.p = t /\ y.tasks = <<>> /\ y.level = 0 /\ y.src = e /\ y.dst = v.dst
          /\ y.flags = v.flags /\ y.idle = v.idle /\ y.loop = v.loop
      BY <1>2, <1>3 DEF EnvType
    <2> HIDE DEF a, y, pc
    <2>6. Shape(e, y)
      BY <1>2, <2>1, <2>2, <2>5 DEF Shape, StopShape
    <2>7. SameCurr(v, y) /\ SameKick(v, y)
      BY <1>1, <1>2, <2>1, <2>5 DEF SameCurr, SameKick, AtStop, Stopping
    <2>8. /\ rq[v.src].lock \in {NoCpu, e} /\ Locks(env[e]) \subseteq {v.src} /\ v.src \in Cpus
          /\ t \in ToSet(rq[v.src].cfs_tasks) /\ rq[v.src].curr # t /\ y.dst \in task[t].cpus_allowed
          /\ y.tasks = env[e].tasks /\ y.dst = env[e].dst /\ env[e].p = Idle /\ env[e].pc # "attach_one"
      BY <1>1, <1>2, <1>3, <2>2, <2>5, TasksAssumption
    <2> QED BY <1>1, <1>2, <1>4, <2>2, <2>3, <2>4, <2>6, <2>7, <2>8, DetachTaskIInv
  <1>5. CASE /\ rq' = [rq EXCEPT ![e].active_balance = FALSE, ![e].push_cpu = NoCpu]
             /\ Becomes(e, [v EXCEPT !.pc = "stop_done"]) /\ UNCHANGED task
    <2> DEFINE w == [v EXCEPT !.pc = "stop_done"]
    <2>1. w \in EnvType
      BY <1>2, PcTyped DEF StopPcs
    <2>2. /\ w.pc = "stop_done" /\ w.p = Idle /\ w.tasks = <<>> /\ w.level = 0 /\ w.src = e /\ w.dst = v.dst
          /\ w.flags = v.flags /\ w.idle = v.idle /\ w.loop = v.loop
      BY <1>2, <1>3 DEF EnvType
    <2>3. Becomes(e, w)
      BY <1>5
    <2> HIDE DEF w
    <2>4. Shape(e, w)
      BY <1>2, <2>2, TasksAssumption DEF Shape, StopShape, StopPcs, LockPcs
    <2>5. /\ rq' \in [Cpus -> RqType]
          /\ rq'[e].active_balance = FALSE /\ \A c \in Cpus \ {e} : rq'[c] = rq[c]
          /\ \A c \in Cpus : /\ rq'[c].lock = rq[c].lock /\ rq'[c].cfs_tasks = rq[c].cfs_tasks
                             /\ rq'[c].curr = rq[c].curr /\ rq'[c].work = rq[c].work
      <3> DEFINE r == [rq[e] EXCEPT !.active_balance = FALSE, !.push_cpu = NoCpu]
      <3>1. rq \in [Cpus -> RqType] /\ rq[e] \in RqType
        BY DEF IInv, Typed
      <3>2. /\ r \in RqType /\ r.active_balance = FALSE
            /\ r.lock = rq[e].lock /\ r.cfs_tasks = rq[e].cfs_tasks
            /\ r.curr = rq[e].curr /\ r.work = rq[e].work
        BY <3>1 DEF RqType
      <3>3. rq' = [rq EXCEPT ![e] = r]
        BY <1>5, <3>1
      <3> HIDE DEF r
      <3> QED BY <3>1, <3>2, <3>3
    <2>6. env'[e] = w /\ (\A f \in Cpus \ {e} : env'[f] = env[f])
      BY <2>3, BecomesFacts DEF IInv
    <2>7. LockStep(e, v, w) /\ SameHand(v, w)
      BY <1>1, <1>2, <1>3, <2>2, <2>5 DEF Locks, LockStep, SameHand
    <2>8. CurrQueued'
      <3>1. \A c \in Cpus : SameCurr(env[c], env'[c])
        BY <1>1, <1>2, <2>2, <2>6 DEF SameCurr, AtStop
      <3> QED BY <1>5, <2>5, <3>1, CurrKept DEF IInv
    <2>9. /\ \A c, f \in Cpus : Kicks(f, c)' <=> Kicks(f, c)
          /\ \A c \in Cpus : Stops(c)' <=> Stops(c) /\ c # e
      BY <1>1, <2>2, <2>6 DEF Kicks, Stops, InStopper
    <2>10. ActiveOwned'
      <3>1. Stops(e)
        BY <1>1, <1>2 DEF Stops, InStopper
      <3>2. ~rq[e].work /\ \A f \in Cpus : ~Kicks(f, e)
        BY <3>1 DEF IInv, ActiveOwned
      <3> QED BY <2>5, <2>9, <3>2 DEF IInv, ActiveOwned
    <2>11. PushElsewhere'
      BY <2>5 DEF IInv, PushElsewhere
    <2> QED BY <1>1, <1>5, <2>1, <2>3, <2>4, <2>5, <2>7, <2>8, <2>10, <2>11, StillIInv
  <1> QED BY <1>4, <1>5 DEF active_load_balance_push

\* The stopper clears the flag in the step that gives it the task.
LEMMA UnlockIInv ==
  ASSUME IInv, NEW e \in Cpus, active_load_balance_unlock(e)
  PROVE  IInv'
  <1> DEFINE v == env[e]
             d == v.dst
             w == [v EXCEPT !.pc = "attach_one"]
  <1>1. /\ v.pc = "set_task_cpu" /\ InStopper(e) /\ task' = [task EXCEPT ![v.p].cpu = d] /\ UNCHANGED affine
        /\ Becomes(e, w)
    BY DEF active_load_balance_unlock
  <1>2. /\ v \in EnvType /\ Shape(e, v) /\ StopShape(e, v) /\ v.level = 0 /\ v.p \in Tasks
        /\ v.tasks = <<>> /\ v.src = e /\ d \in Cpus /\ d # e
    BY <1>1, LockFacts DEF LockPcs, InStopper, StopShape
  <1>3. w \in EnvType
    BY <1>2, PcTyped DEF StopPcs
  <1>4. /\ w.pc = "attach_one" /\ w.p = v.p /\ w.tasks = <<>> /\ w.level = 0 /\ w.src = e /\ w.dst = d
        /\ w.flags = v.flags /\ w.idle = v.idle /\ w.loop = v.loop
    BY <1>2 DEF EnvType
  <1> HIDE DEF w
  <1>5. Shape(e, w)
    BY <1>2, <1>4 DEF Shape, StopShape, StopPcs
  <1>6. /\ rq' \in [Cpus -> RqType]
        /\ rq'[e].active_balance = FALSE /\ rq'[e].lock = NoCpu /\ rq'[e].work = rq[e].work
        /\ rq'[d].lock = NoCpu /\ rq'[d].active_balance = rq[d].active_balance
        /\ rq'[d].work = rq[d].work /\ rq'[d].push_cpu = rq[d].push_cpu
        /\ \A c \in Cpus \ {e, d} : rq'[c] = rq[c]
        /\ \A c \in Cpus : rq'[c].cfs_tasks = rq[c].cfs_tasks /\ rq'[c].curr = rq[c].curr
    <2> DEFINE r == [rq[e] EXCEPT !.lock = NoCpu, !.active_balance = FALSE, !.push_cpu = NoCpu]
               s == [rq[d] EXCEPT !.lock = NoCpu]
    <2>1. rq \in [Cpus -> RqType] /\ rq[e] \in RqType /\ rq[d] \in RqType
      BY <1>2 DEF IInv, Typed
    <2>2. /\ r \in RqType /\ r.active_balance = FALSE /\ r.lock = NoCpu /\ r.work = rq[e].work
          /\ r.cfs_tasks = rq[e].cfs_tasks /\ r.curr = rq[e].curr
      BY <2>1 DEF RqType
    <2>3. /\ s \in RqType /\ s.lock = NoCpu /\ s.active_balance = rq[d].active_balance
          /\ s.work = rq[d].work /\ s.push_cpu = rq[d].push_cpu
          /\ s.cfs_tasks = rq[d].cfs_tasks /\ s.curr = rq[d].curr
      BY <2>1 DEF RqType
    <2>4. rq' = [rq EXCEPT ![e] = r, ![d] = s]
      BY <1>2, <2>1 DEF active_load_balance_unlock
    <2> HIDE DEF r, s
    <2> QED BY <1>2, <2>1, <2>2, <2>3, <2>4
  <1>7. env'[e] = w /\ (\A f \in Cpus \ {e} : env'[f] = env[f])
    BY <1>1, BecomesFacts DEF IInv
  <1>8. LockStep(e, v, w)
    <2>1. Locks(v) = {e, d} /\ Locks(w) = {}
      BY <1>1, <1>2, <1>4 DEF Locks
    <2>2. rq[e].lock = e /\ rq[d].lock = e
      BY <1>2, <2>1 DEF IInv, LocksHeld
    <2> QED BY <1>6, <2>1, <2>2 DEF LockStep
  <1>9. SameCurr(v, w)
    BY <1>1, <1>2, <1>4 DEF SameCurr, AtStop
  <1>10. /\ \A c, f \in Cpus : Kicks(f, c)' <=> Kicks(f, c)
         /\ \A c \in Cpus : Stops(c)' <=> Stops(c) /\ c # e
    BY <1>1, <1>4, <1>7 DEF Kicks, Stops, InStopper
  <1>11. ActiveOwned'
    <2>1. Stops(e)
      BY <1>1 DEF Stops
    <2>2. ~rq[e].work /\ \A f \in Cpus : ~Kicks(f, e)
      BY <2>1 DEF IInv, ActiveOwned
    <2>3. \A c \in Cpus \ {e} : rq'[c].active_balance = rq[c].active_balance /\ rq'[c].work = rq[c].work
      BY <1>6
    <2> QED BY <1>6, <1>10, <2>2, <2>3 DEF IInv, ActiveOwned
  <1>12. PushElsewhere'
    <2>1. \A c \in Cpus \ {e} : rq'[c].active_balance = rq[c].active_balance /\ rq'[c].push_cpu = rq[c].push_cpu
      BY <1>6
    <2> QED BY <1>6, <2>1 DEF IInv, PushElsewhere
  <1> QED BY <1>1, <1>2, <1>3, <1>4, <1>5, <1>6, <1>8, <1>9, <1>11, <1>12, SetCpuIInv

\* A CPU that has nothing in hand goes back to running tasks of its queue.
LEMMA BackToRunIInv ==
  ASSUME IInv, NEW e \in Cpus, env[e].pc \in {"idle_end", "stop_done"},
         NEW t \in ToSet(rq[e].cfs_tasks) \cup {Idle}, rq' = [rq EXCEPT ![e].curr = t],
         Becomes(e, NoEnv), UNCHANGED <<task, affine>>
  PROVE  IInv'
  <1>1. /\ env[e].p = Idle /\ env[e].tasks = <<>> /\ Locks(env[e]) = {}
        /\ env[e].pc \notin {"stop_one_cpu", "attach_one"}
    BY CallerFacts, StopFacts, HereFacts DEF CallerPcs, StopShape, LockPcs
  <1>2. /\ NoEnv \in EnvType /\ Shape(e, NoEnv) /\ NoEnv.pc = "run" /\ NoEnv.p = Idle /\ NoEnv.tasks = <<>>
        /\ Locks(NoEnv) = {}
    BY NoEnvShape DEF NoEnv, Locks
  <1>3. t # Idle => t \in Tasks /\ task[t].on_rq = "queued" /\ task[t].cpu = e
    <2>1. rq[e].cfs_tasks \in Seq(Tasks)
      BY DEF IInv, Typed, RqType
    <2>2. ToSet(rq[e].cfs_tasks) \subseteq Tasks
      BY <2>1 DEF ToSet
    <2> QED BY <2>2 DEF IInv, QueuesExact
  <1>4. /\ rq' \in [Cpus -> RqType]
        /\ rq'[e].curr = t /\ \A c \in Cpus \ {e} : rq'[c] = rq[c]
        /\ \A c \in Cpus : /\ rq'[c].lock = rq[c].lock /\ rq'[c].cfs_tasks = rq[c].cfs_tasks
                           /\ rq'[c].active_balance = rq[c].active_balance
                           /\ rq'[c].work = rq[c].work /\ rq'[c].push_cpu = rq[c].push_cpu
    <2>1. t \in Tasks \cup {Idle, Stopper}
      BY <1>3
    <2> QED BY <2>1 DEF IInv, Typed, RqType
  <1>5. env'[e] = NoEnv /\ (\A f \in Cpus \ {e} : env'[f] = env[f])
    BY BecomesFacts DEF IInv
  <1>6. LockStep(e, env[e], NoEnv) /\ SameHand(env[e], NoEnv)
    BY <1>1, <1>2, <1>4 DEF LockStep, SameHand
  <1>7. CurrQueued'
    <2>1. ASSUME NEW c \in Cpus
          PROVE  /\ rq'[c].curr = Stopper <=> InStopper(c)'
                 /\ rq'[c].curr \in Tasks =>
                      \/ task'[rq'[c].curr].on_rq = "queued" /\ task'[rq'[c].curr].cpu = c
                      \/ task'[rq'[c].curr].on_rq = "no" /\ env'[c].idle = "NEWLY_IDLE"
      <3>1. CASE c = e
        BY <1>2, <1>3, <1>4, <1>5, <3>1, TasksAssumption DEF InStopper
      <3>2. CASE c # e
        BY <1>4, <1>5, <3>2 DEF InStopper, IInv, CurrQueued
      <3> QED BY <3>1, <3>2
    <2> QED BY <2>1 DEF CurrQueued
  <1>8. ActiveOwned' /\ PushElsewhere'
    <2>1. \A c \in Cpus : SameKick(env[c], env'[c])
      BY <1>1, <1>2, <1>5, CallerFacts DEF SameKick, Stopping, AtStop, CallerPcs
    <2> QED BY <1>4, <2>1, ActiveKept DEF IInv
  <1> QED BY <1>2, <1>4, <1>6, <1>7, <1>8, StillIInv

\* idle_balance retakes rq->lock and picks a task, or none.
LEMMA IdleBalanceEndIInv ==
  ASSUME IInv, NEW e \in Cpus, idle_balance_end(e)
  PROVE  IInv'
  <1>1. PICK t \in (IF h_nr_running(e) = 0 THEN {Idle} ELSE ToSet(rq[e].cfs_tasks)) :
          rq' = [rq EXCEPT ![e].curr = t]
    BY DEF idle_balance_end
  <1>2. env[e].pc = "idle_end" /\ Becomes(e, NoEnv) /\ UNCHANGED <<task, affine>>
    BY DEF idle_balance_end
  <1> QED BY <1>1, <1>2, BackToRunIInv

\* The stopper gives the CPU back.
LEMMA StopperSleepsIInv ==
  ASSUME IInv, NEW e \in Cpus, stopper_sleeps(e)
  PROVE  IInv'
  <1>1. PICK r \in PickNext(rq[e]) : rq' = [rq EXCEPT ![e] = r]
    BY DEF stopper_sleeps
  <1>2. PICK t \in (IF rq[e].cfs_tasks = <<>> THEN {Idle} ELSE ToSet(rq[e].cfs_tasks)) :
          r = [rq[e] EXCEPT !.curr = t]
    BY DEF PickNext
  <1>3. env[e].pc = "stop_done" /\ Becomes(e, NoEnv) /\ UNCHANGED <<task, affine>>
    BY DEF stopper_sleeps
  <1>4. rq' = [rq EXCEPT ![e].curr = t]
    BY <1>1, <1>2
  <1> QED BY <1>2, <1>3, <1>4, BackToRunIInv

-----------------------------------------------------------------------------
(***************************************************************************)
(* The rest of the scheduler.                                              *)
(***************************************************************************)
\* rq[c] becomes r.
LEMMA RqBecomes ==
  ASSUME IInv, NEW c \in Cpus, NEW r \in RqType, rq' = [rq EXCEPT ![c] = r]
  PROVE  rq' \in [Cpus -> RqType] /\ rq'[c] = r /\ \A d \in Cpus \ {c} : rq'[d] = rq[d]
  BY DEF IInv, Typed

\* No lb_env changes, and no lock.
LEMMA EnvKept ==
  ASSUME IInv, UNCHANGED env, rq' \in [Cpus -> RqType], task' \in [Tasks -> TaskType],
         affine' \in 0 .. MaxAffine, \A c \in Cpus : rq'[c].lock = rq[c].lock,
         \A t \in Tasks : /\ task'[t].on_rq = "migrating" <=> task[t].on_rq = "migrating"
                          /\ task[t].on_rq = "migrating" => task'[t] = task[t],
         \A c \in Cpus : /\ rq'[c].active_balance = rq[c].active_balance
                         /\ rq'[c].work = rq[c].work /\ rq'[c].push_cpu = rq[c].push_cpu
  PROVE  /\ Typed' /\ \A e \in Cpus : Shape(e, env'[e])
         /\ LocksHeld' /\ HandsExact' /\ HandsForDst' /\ ActiveOwned' /\ PushElsewhere'
  <1>1. Typed' /\ \A e \in Cpus : Shape(e, env'[e])
    BY DEF IInv, Typed
  <1>2. LocksHeld'
    BY DEF IInv, LocksHeld
  <1>3. HandsExact' /\ HandsForDst'
    <2>1. \A e \in Cpus : SameHand(env[e], env'[e])
      BY DEF SameHand
    <2>2. \A t \in Tasks : task[t].on_rq = "migrating" => /\ task'[t].cpu = task[t].cpu
                                                           /\ task'[t].cpus_allowed = task[t].cpus_allowed
      OBVIOUS
    <2> QED BY <2>1, <2>2, HandsKept DEF IInv
  <1>4. ActiveOwned' /\ PushElsewhere'
    BY ActiveKept DEF IInv, SameKick
  <1> QED BY <1>1, <1>2, <1>3, <1>4

\* What rq->curr may be.
LEMMA CurrFacts ==
  ASSUME IInv, NEW c \in Cpus, rq[c].curr \in Tasks
  PROVE  /\ ~InStopper(c)
         /\ \/ task[rq[c].curr].on_rq = "queued" /\ task[rq[c].curr].cpu = c
            \/ task[rq[c].curr].on_rq = "no" /\ env[c].idle = "NEWLY_IDLE"
  BY TasksAssumption DEF IInv, CurrQueued

\* try_to_wake_up enqueues a task on a CPU its mask allows.
LEMMA WakeIInv ==
  ASSUME IInv, NEW t \in Tasks, NEW c \in Cpus, try_to_wake_up(t, c)
  PROVE  IInv'
  <1>1. /\ task[t].on_rq = "no" /\ c \in task[t].cpus_allowed /\ (\A d \in Cpus : rq[d].curr # t)
        /\ UNCHANGED <<env, affine>>
    BY DEF try_to_wake_up
  <1>2. /\ task' \in [Tasks -> TaskType]
        /\ task'[t].on_rq = "queued" /\ task'[t].cpu = c /\ task'[t].cpus_allowed = task[t].cpus_allowed
        /\ \A u \in Tasks \ {t} : task'[u] = task[u]
    <2>1. task' = [task EXCEPT ![t].on_rq = "queued", ![t].cpu = c] /\ task \in [Tasks -> TaskType]
      BY DEF try_to_wake_up, IInv, Typed
    <2> QED BY <2>1 DEF TaskType
  <1>3. rq[c] \in RqType /\ rq[c].cfs_tasks \in Seq(Tasks) /\ Injective(rq[c].cfs_tasks)
    BY DEF IInv, Typed, RqType, QueuesExact
  <1>4. \A d \in Cpus : t \notin ToSet(rq[d].cfs_tasks)
    BY <1>1 DEF IInv, QueuesExact
  <1>5. /\ <<t>> \o rq[c].cfs_tasks \in Seq(Tasks)
        /\ ToSet(<<t>> \o rq[c].cfs_tasks) = {t} \cup ToSet(rq[c].cfs_tasks)
        /\ Injective(<<t>> \o rq[c].cfs_tasks)
    BY <1>3, <1>4, PrependFacts
  <1> DEFINE r == Enqueued(rq[c], <<t>>)
  <1>6. /\ r \in RqType /\ r.cfs_tasks = <<t>> \o rq[c].cfs_tasks
        /\ r.lock = rq[c].lock /\ r.curr = rq[c].curr /\ r.active_balance = rq[c].active_balance
        /\ r.work = rq[c].work /\ r.push_cpu = rq[c].push_cpu
    BY <1>3, <1>5 DEF RqType, Enqueued
  <1>7. rq' = [rq EXCEPT ![c] = r]
    BY DEF try_to_wake_up
  <1> HIDE DEF r
  <1>8. rq' \in [Cpus -> RqType] /\ rq'[c] = r /\ \A d \in Cpus \ {c} : rq'[d] = rq[d]
    BY <1>6, <1>7, RqBecomes
  <1>9. /\ Typed' /\ \A e \in Cpus : Shape(e, env'[e])
        /\ LocksHeld' /\ HandsExact' /\ HandsForDst' /\ ActiveOwned' /\ PushElsewhere'
    <2>1. \A d \in Cpus : /\ rq'[d].lock = rq[d].lock /\ rq'[d].active_balance = rq[d].active_balance
                          /\ rq'[d].work = rq[d].work /\ rq'[d].push_cpu = rq[d].push_cpu
      BY <1>6, <1>8
    <2>2. \A u \in Tasks : /\ task'[u].on_rq = "migrating" <=> task[u].on_rq = "migrating"
                           /\ task[u].on_rq = "migrating" => task'[u] = task[u]
      BY <1>1, <1>2
    <2>3. affine' \in 0 .. MaxAffine
      BY <1>1 DEF IInv, Typed
    <2> QED BY <1>1, <1>2, <1>8, <2>1, <2>2, <2>3, EnvKept
  <1>10. QueuesExact'
    <2>1. ASSUME NEW d \in Cpus, NEW u \in Tasks
          PROVE  u \in ToSet(rq'[d].cfs_tasks) <=> task'[u].on_rq = "queued" /\ task'[u].cpu = d
      <3>1. u \in ToSet(rq[d].cfs_tasks) <=> task[u].on_rq = "queued" /\ task[u].cpu = d
        BY DEF IInv, QueuesExact
      <3>2. u \in ToSet(rq'[d].cfs_tasks) <=> u \in ToSet(rq[d].cfs_tasks) \/ (u = t /\ d = c)
        BY <1>5, <1>6, <1>8
      <3> QED BY <1>1, <1>2, <1>4, <3>1, <3>2
    <2>2. \A d \in Cpus : Injective(rq'[d].cfs_tasks)
      BY <1>5, <1>6, <1>8 DEF IInv, QueuesExact
    <2> QED BY <2>1, <2>2 DEF QueuesExact
  <1>11. AffinityKept'
    BY <1>1, <1>2 DEF IInv, AffinityKept
  <1>12. CurrQueued'
    <2>1. \A d \in Cpus : rq'[d].curr = rq[d].curr
      BY <1>6, <1>8
    <2>2. \A d \in Cpus : SameCurr(env[d], env'[d])
      BY <1>1 DEF SameCurr
    <2>3. \A u \in Tasks : (\E d \in Cpus : rq[d].curr = u) => task'[u] = task[u]
      BY <1>1, <1>2
    <2> QED BY <2>1, <2>2, <2>3, CurrKept DEF IInv
  <1> QED BY <1>9, <1>10, <1>11, <1>12 DEF IInv

\* The scheduler picks another task.
LEMMA ScheduleIInv ==
  ASSUME IInv, NEW e \in Cpus, NEW t \in Tasks, schedule(e, t)
  PROVE  IInv'
  <1>1. /\ env[e].pc = "run" /\ t \in ToSet(rq[e].cfs_tasks) /\ UNCHANGED <<task, env, affine>>
        /\ rq' = [rq EXCEPT ![e].curr = t]
    BY DEF schedule
  <1>2. /\ rq' \in [Cpus -> RqType]
        /\ rq'[e].curr = t /\ \A c \in Cpus \ {e} : rq'[c] = rq[c]
        /\ \A c \in Cpus : /\ rq'[c].lock = rq[c].lock /\ rq'[c].cfs_tasks = rq[c].cfs_tasks
                           /\ rq'[c].active_balance = rq[c].active_balance
                           /\ rq'[c].work = rq[c].work /\ rq'[c].push_cpu = rq[c].push_cpu
    BY <1>1 DEF IInv, Typed, RqType
  <1>3. /\ Typed' /\ \A f \in Cpus : Shape(f, env'[f])
        /\ LocksHeld' /\ HandsExact' /\ HandsForDst' /\ ActiveOwned' /\ PushElsewhere'
    <2>1. task' \in [Tasks -> TaskType] /\ affine' \in 0 .. MaxAffine
      BY <1>1 DEF IInv, Typed
    <2> QED BY <1>1, <1>2, <2>1, EnvKept
  <1>4. QueuesExact'
    BY <1>1, <1>2 DEF IInv, QueuesExact
  <1>5. AffinityKept'
    BY <1>1 DEF IInv, AffinityKept
  <1>6. CurrQueued'
    <2>1. task[t].on_rq = "queued" /\ task[t].cpu = e
      BY <1>1 DEF IInv, QueuesExact
    <2>2. ASSUME NEW c \in Cpus
          PROVE  /\ rq'[c].curr = Stopper <=> InStopper(c)'
                 /\ rq'[c].curr \in Tasks =>
                      \/ task'[rq'[c].curr].on_rq = "queued" /\ task'[rq'[c].curr].cpu = c
                      \/ task'[rq'[c].curr].on_rq = "no" /\ env'[c].idle = "NEWLY_IDLE"
      <3>1. CASE c = e
        BY <1>1, <1>2, <2>1, <3>1, TasksAssumption DEF InStopper
      <3>2. CASE c # e
        BY <1>1, <1>2, <3>2 DEF InStopper, IInv, CurrQueued
      <3> QED BY <3>1, <3>2
    <2> QED BY <2>2 DEF CurrQueued
  <1> QED BY <1>3, <1>4, <1>5, <1>6 DEF IInv

\* set_cpus_allowed waits while the task is in a hand.
LEMMA SetCpusAllowedIInv ==
  ASSUME IInv, NEW t \in Tasks, NEW mask \in Masks, set_cpus_allowed(t, mask)
  PROVE  IInv'
  <1>1. /\ affine < MaxAffine /\ affine' = affine + 1 /\ task[t].on_rq # "migrating" /\ UNCHANGED <<rq, env>>
    BY DEF set_cpus_allowed
  <1>2. /\ task' \in [Tasks -> TaskType]
        /\ task'[t].on_rq = task[t].on_rq /\ task'[t].cpu = task[t].cpu /\ task'[t].cpus_allowed = mask
        /\ task'[t].moving = (task[t].on_rq = "queued" /\ task[t].cpu \notin mask)
        /\ \A u \in Tasks \ {t} : task'[u] = task[u]
    <2> DEFINE b == task[t].on_rq = "queued" /\ task[t].cpu \notin mask
               r == [task[t] EXCEPT !.cpus_allowed = mask, !.moving = b]
    <2>1. b \in BOOLEAN
      OBVIOUS
    <2>2. task \in [Tasks -> TaskType] /\ task[t] \in TaskType
      BY DEF IInv, Typed
    <2>3. task' = [task EXCEPT ![t] = r]
      BY <2>2 DEF set_cpus_allowed
    <2>4. r.moving = b
      BY <2>2 DEF TaskType
    <2> HIDE DEF b
    <2>5. r \in TaskType /\ r.on_rq = task[t].on_rq /\ r.cpu = task[t].cpu /\ r.cpus_allowed = mask
      BY <2>1, <2>2 DEF TaskType
    <2> HIDE DEF r
    <2> QED BY <2>2, <2>3, <2>4, <2>5 DEF b
  <1>3. /\ Typed' /\ \A f \in Cpus : Shape(f, env'[f])
        /\ LocksHeld' /\ HandsExact' /\ HandsForDst' /\ ActiveOwned' /\ PushElsewhere'
    <2>1. affine' \in 0 .. MaxAffine
      <3>1. MaxAffine \in Nat /\ affine \in 0 .. MaxAffine
        BY NumbersAssumption DEF IInv, Typed
      <3> QED BY <1>1, <3>1
    <2>2. rq' \in [Cpus -> RqType]
      BY <1>1 DEF IInv, Typed
    <2>3. \A u \in Tasks : /\ task'[u].on_rq = "migrating" <=> task[u].on_rq = "migrating"
                           /\ task[u].on_rq = "migrating" => task'[u] = task[u]
      BY <1>1, <1>2
    <2> QED BY <1>1, <1>2, <2>1, <2>2, <2>3, EnvKept
  <1>4. QueuesExact'
    BY <1>1, <1>2, QueuesKept DEF IInv, QueuesExact
  <1>5. AffinityKept'
    BY <1>2 DEF IInv, AffinityKept
  <1>6. CurrQueued'
    <2>1. \A c \in Cpus : SameCurr(env[c], env'[c])
      BY <1>1 DEF SameCurr
    <2>2. \A u \in Tasks : task'[u].on_rq = task[u].on_rq /\ task'[u].cpu = task[u].cpu
      BY <1>2
    <2> QED BY <1>1, <2>1, <2>2, CurrKept DEF IInv
  <1> QED BY <1>3, <1>4, <1>5, <1>6 DEF IInv

\* A queued task is in the queue of its CPU, and can be taken off it.
LEMMA DequeueFacts ==
  ASSUME IInv, NEW c \in Cpus, NEW t \in Tasks, task[t].on_rq = "queued", task[t].cpu = c
  PROVE  LET r == Dequeued(rq[c], t)
         IN  /\ r \in RqType /\ Injective(r.cfs_tasks) /\ ToSet(r.cfs_tasks) \subseteq Tasks
             /\ ToSet(r.cfs_tasks) = ToSet(rq[c].cfs_tasks) \ {t}
             /\ \A u \in ToSet(r.cfs_tasks) : u # t /\ task[u].on_rq = "queued" /\ task[u].cpu = c
             /\ r.lock = rq[c].lock /\ r.curr = rq[c].curr /\ r.active_balance = rq[c].active_balance
             /\ r.work = rq[c].work /\ r.push_cpu = rq[c].push_cpu
  <1> DEFINE r == Dequeued(rq[c], t)
             s == RemoveFirst(rq[c].cfs_tasks, t)
  <1>1. rq[c] \in RqType /\ rq[c].cfs_tasks \in Seq(Tasks) /\ Injective(rq[c].cfs_tasks)
    BY DEF IInv, Typed, RqType, QueuesExact
  <1>2. t \in ToSet(rq[c].cfs_tasks)
    BY DEF IInv, QueuesExact
  <1>3. s \in Seq(Tasks) /\ ToSet(s) = ToSet(rq[c].cfs_tasks) \ {t} /\ Injective(s)
    BY <1>1, <1>2, RemoveFirstFacts
  <1> HIDE DEF s
  <1>4. ToSet(s) \subseteq Tasks
    BY <1>3 DEF ToSet
  <1>5. /\ r \in RqType /\ r.cfs_tasks = s
        /\ r.lock = rq[c].lock /\ r.curr = rq[c].curr /\ r.active_balance = rq[c].active_balance
        /\ r.work = rq[c].work /\ r.push_cpu = rq[c].push_cpu
    BY <1>1, <1>3 DEF RqType, Dequeued, s
  <1> HIDE DEF r
  <1>6. \A u \in ToSet(s) : u # t /\ task[u].on_rq = "queued" /\ task[u].cpu = c
    BY <1>3, <1>4 DEF IInv, QueuesExact
  <1> QED BY <1>3, <1>4, <1>5, <1>6 DEF r

\* The CPU that runs out of tasks keeps the one that sleeps as curr while idle_balance looks.
LEMMA DeactivateIInv ==
  ASSUME IInv, NEW e \in Cpus, deactivate_task(e)
  PROVE  IInv'
  <1> DEFINE v == env[e]
             t == rq[e].curr
             r == Dequeued(rq[e], t)
             n == [NoEnv EXCEPT !.pc = "domain", !.cpu = e, !.level = 1, !.idle = "NEWLY_IDLE"]
  <1>1. v.pc = "run" /\ t \in Tasks /\ task' = [task EXCEPT ![t].on_rq = "no"] /\ UNCHANGED affine
    BY DEF deactivate_task
  <1>2. /\ v = NoEnv /\ v.level = 0 /\ v.p = Idle /\ v.tasks = <<>> /\ v.idle = "NOT_IDLE" /\ Locks(v) = {}
        /\ v \in EnvType /\ Shape(e, v)
    BY <1>1, RunFacts, HereFacts
  <1>3. task[t].on_rq = "queued" /\ task[t].cpu = e
    BY <1>1, <1>2, CurrFacts
  <1>4. /\ r \in RqType /\ Injective(r.cfs_tasks) /\ ToSet(r.cfs_tasks) \subseteq Tasks
        /\ ToSet(r.cfs_tasks) = ToSet(rq[e].cfs_tasks) \ {t}
        /\ \A u \in ToSet(r.cfs_tasks) : u # t /\ task[u].on_rq = "queued" /\ task[u].cpu = e
        /\ r.lock = rq[e].lock /\ r.curr = t /\ r.active_balance = rq[e].active_balance
        /\ r.work = rq[e].work /\ r.push_cpu = rq[e].push_cpu
    BY <1>1, <1>3, DequeueFacts
  <1>5. /\ task' \in [Tasks -> TaskType]
        /\ task'[t].on_rq = "no" /\ task'[t].cpus_allowed = task[t].cpus_allowed
        /\ \A u \in Tasks \ {t} : task'[u] = task[u]
    <2>1. task \in [Tasks -> TaskType]
      BY DEF IInv, Typed
    <2> QED BY <1>1, <2>1 DEF TaskType
  <1>6. /\ e \in NewIdlers => n \in EnvType /\ Shape(e, n)
        /\ n.pc = "domain" /\ n.level = 1 /\ n.p = Idle /\ n.tasks = <<>> /\ n.idle = "NEWLY_IDLE"
        /\ Locks(n) = {}
    <2>1. n \in EnvType
      BY NoEnvShape DEF EnvType, CallerPcs
    <2>2. /\ n.pc = "domain" /\ n.cpu = e /\ n.level = 1 /\ n.idle = "NEWLY_IDLE"
          /\ n.src = NoCpu /\ n.flags = {} /\ n.loop = 0 /\ n.p = Idle /\ n.tasks = <<>>
      BY DEF NoEnv
    <2> HIDE DEF n
    <2>3. e \in NewIdlers => 1 \in DOMAIN Domains[e]
      <3> SUFFICES ASSUME e \in NewIdlers PROVE 1 \in DOMAIN Domains[e]
        OBVIOUS
      <3> DEFINE Domain == [group : SUBSET Cpus, span : SUBSET Cpus, newidle : BOOLEAN]
      <3>1. Domains[e] \in Seq(Domain) /\ Domains[e] # <<>>
        BY DomainsAssumption
      <3> HIDE DEF Domain
      <3> QED BY <3>1
    <2>4. e \in NewIdlers => AtDomain(e, n)
      BY <2>2, <2>3 DEF AtDomain
    <2>5. e \in NewIdlers => Shape(e, n)
      BY <2>2, <2>4, TasksAssumption DEF Shape, BalanceShape, LockPcs, ActivePcs, PullPcs, CallerPcs
    <2>6. Locks(n) = {}
      BY <2>2 DEF Locks
    <2> QED BY <2>1, <2>2, <2>5, <2>6
  <1>7. PICK x \in RqType, w \in EnvType :
          /\ rq' = [rq EXCEPT ![e] = x] /\ Becomes(e, w)
          /\ x.lock = rq[e].lock /\ x.active_balance = rq[e].active_balance
          /\ x.work = rq[e].work /\ x.push_cpu = rq[e].push_cpu /\ x.cfs_tasks = r.cfs_tasks
          /\ \/ x.curr \in ToSet(r.cfs_tasks) \cup {Idle} /\ w = v
             \/ x.curr = t /\ w = n /\ e \in NewIdlers
    <2>1. CASE UNCHANGED env /\ \E x \in PickNext(r) : rq' = [rq EXCEPT ![e] = x]
      <3>1. PICK x \in PickNext(r) : rq' = [rq EXCEPT ![e] = x]
        BY <2>1
      <3>2. PICK u \in (IF r.cfs_tasks = <<>> THEN {Idle} ELSE ToSet(r.cfs_tasks)) : x = [r EXCEPT !.curr = u]
        BY DEF PickNext
      <3>3. u \in ToSet(r.cfs_tasks) \cup {Idle}
        BY <3>2
      <3> HIDE DEF r
      <3>4. /\ x \in RqType /\ x.curr = u /\ x.lock = r.lock /\ x.active_balance = r.active_balance
            /\ x.work = r.work /\ x.push_cpu = r.push_cpu /\ x.cfs_tasks = r.cfs_tasks
        BY <1>4, <3>2, <3>3 DEF RqType
      <3>5. Becomes(e, v)
        BY <2>1 DEF Becomes, IInv, Typed
      <3> QED BY <1>2, <1>4, <3>1, <3>3, <3>4, <3>5
    <2>2. CASE e \in NewIdlers /\ rq' = [rq EXCEPT ![e] = r] /\ Becomes(e, n)
      BY <1>4, <1>6, <2>2
    <2> QED BY <2>1, <2>2 DEF deactivate_task
  <1> HIDE DEF r, n
  <1>8. /\ Shape(e, w) /\ w.p = Idle /\ w.tasks = <<>> /\ w.pc \in {"run", "domain"} /\ Locks(w) = {}
        /\ ~AtStop(w)
    BY <1>1, <1>2, <1>6, <1>7 DEF AtStop
  <1>9. rq' \in [Cpus -> RqType] /\ rq'[e] = x /\ \A c \in Cpus \ {e} : rq'[c] = rq[c]
    BY <1>7, RqBecomes
  <1>10. env'[e] = w /\ (\A f \in Cpus \ {e} : env'[f] = env[f]) /\ env' \in [Cpus -> EnvType]
    BY <1>7, BecomesFacts DEF IInv
  <1>11. Typed' /\ \A f \in Cpus : Shape(f, env'[f])
    BY <1>1, <1>5, <1>8, <1>9, <1>10 DEF IInv, Typed
  <1>12. LocksHeld'
    <2>1. LockStep(e, v, w)
      BY <1>2, <1>7, <1>8, <1>9 DEF LockStep
    <2> QED BY <1>7, <2>1, LocksKept DEF IInv
  <1>13. QueuesExact'
    <2>1. ASSUME NEW d \in Cpus, NEW u \in Tasks
          PROVE  u \in ToSet(rq'[d].cfs_tasks) <=> task'[u].on_rq = "queued" /\ task'[u].cpu = d
      <3>1. u \in ToSet(rq[d].cfs_tasks) <=> task[u].on_rq = "queued" /\ task[u].cpu = d
        BY DEF IInv, QueuesExact
      <3>2. u \in ToSet(rq'[d].cfs_tasks) <=> u \in ToSet(rq[d].cfs_tasks) /\ ~(u = t /\ d = e)
        BY <1>4, <1>7, <1>9
      <3> QED BY <1>3, <1>5, <3>1, <3>2
    <2>2. \A d \in Cpus : Injective(rq'[d].cfs_tasks)
      BY <1>4, <1>7, <1>9 DEF IInv, QueuesExact
    <2> QED BY <2>1, <2>2 DEF QueuesExact
  <1>14. HandsExact' /\ HandsForDst'
    <2>1. \A f \in Cpus : SameHand(env[f], env'[f])
      BY <1>1, <1>2, <1>8, <1>10 DEF SameHand
    <2>2. \A u \in Tasks : /\ task'[u].on_rq = "migrating" <=> task[u].on_rq = "migrating"
                           /\ task[u].on_rq = "migrating" => /\ task'[u].cpu = task[u].cpu
                                                             /\ task'[u].cpus_allowed = task[u].cpus_allowed
      BY <1>3, <1>5
    <2> QED BY <2>1, <2>2, HandsKept DEF IInv
  <1>15. AffinityKept'
    BY <1>5 DEF IInv, AffinityKept
  <1>16. CurrQueued'
    <2>1. ASSUME NEW c \in Cpus
          PROVE  /\ rq'[c].curr = Stopper <=> InStopper(c)'
                 /\ rq'[c].curr \in Tasks =>
                      \/ task'[rq'[c].curr].on_rq = "queued" /\ task'[rq'[c].curr].cpu = c
                      \/ task'[rq'[c].curr].on_rq = "no" /\ env'[c].idle = "NEWLY_IDLE"
      <3>1. CASE c = e
        <4>1. ~InStopper(c)' /\ rq'[c].curr # Stopper
          BY <1>1, <1>4, <1>7, <1>8, <1>9, <1>10, <3>1, TasksAssumption DEF InStopper, AtStop
        <4>2. CASE x.curr \in ToSet(r.cfs_tasks)
          BY <1>4, <1>5, <1>9, <3>1, <4>1, <4>2
        <4>3. CASE x.curr = t /\ w = n
          BY <1>5, <1>6, <1>9, <1>10, <3>1, <4>1, <4>3
        <4>4. CASE x.curr = Idle
          BY <1>9, <3>1, <4>1, <4>4, TasksAssumption
        <4> QED BY <1>7, <4>2, <4>3, <4>4
      <3>2. CASE c # e
        <4>1. rq'[c] = rq[c] /\ env'[c] = env[c]
          BY <1>9, <1>10, <3>2
        <4>2. rq[c].curr \in Tasks => rq[c].curr # t
          BY <1>3, <3>2, CurrFacts
        <4> QED BY <1>5, <4>1, <4>2 DEF InStopper, IInv, CurrQueued
      <3> QED BY <3>1, <3>2
    <2> QED BY <2>1 DEF CurrQueued
  <1>17. ActiveOwned' /\ PushElsewhere'
    <2>1. \A c \in Cpus : SameKick(env[c], env'[c])
      BY <1>1, <1>8, <1>10 DEF SameKick, Stopping, AtStop
    <2>2. \A c \in Cpus : /\ rq'[c].active_balance = rq[c].active_balance
                          /\ rq'[c].work = rq[c].work /\ rq'[c].push_cpu = rq[c].push_cpu
      BY <1>7, <1>9
    <2> QED BY <2>1, <2>2, ActiveKept DEF IInv
  <1> QED BY <1>11, <1>12, <1>13, <1>14, <1>15, <1>16, <1>17 DEF IInv

\* The stopper of src moves a task that may not stay, if it is still there.
LEMMA MigrationIInv ==
  ASSUME IInv, NEW t \in Tasks, NEW c \in Cpus, migration_cpu_stop(t, c)
  PROVE  IInv'
  <1> DEFINE src == task[t].cpu
             stay == task[t].on_rq # "queued" \/ src \in task[t].cpus_allowed
             r == Dequeued(rq[src], t)
             q == Enqueued(rq[c], <<t>>)
  <1>1. /\ task[t].on_rq # "migrating" /\ c \in task[t].cpus_allowed
        /\ rq[src].curr = t => env[src].pc = "run"
        /\ UNCHANGED <<env, affine>>
    BY DEF migration_cpu_stop
  <1>2. task[t] \in TaskType /\ src \in Cpus
    BY DEF IInv, Typed, TaskType
  <1>3. /\ task' \in [Tasks -> TaskType]
        /\ task'[t].on_rq = task[t].on_rq /\ task'[t].cpus_allowed = task[t].cpus_allowed
        /\ task'[t].cpu = IF stay THEN src ELSE c
        /\ \A u \in Tasks \ {t} : task'[u] = task[u]
    <2> DEFINE to == IF stay THEN src ELSE c
               x == [task[t] EXCEPT !.moving = FALSE, !.cpu = to]
    <2>1. to \in Cpus
      BY <1>2
    <2>2. task' = [task EXCEPT ![t] = x] /\ task \in [Tasks -> TaskType]
      BY DEF migration_cpu_stop, IInv, Typed
    <2> HIDE DEF to
    <2>3. x \in TaskType /\ x.on_rq = task[t].on_rq /\ x.cpus_allowed = task[t].cpus_allowed /\ x.cpu = to
      BY <1>2, <2>1 DEF TaskType
    <2> HIDE DEF x
    <2> QED BY <2>2, <2>3 DEF to
  <1>4. /\ affine' \in 0 .. MaxAffine
        /\ \A u \in Tasks : /\ task'[u].on_rq = "migrating" <=> task[u].on_rq = "migrating"
                            /\ task[u].on_rq = "migrating" => task'[u] = task[u]
    BY <1>1, <1>3 DEF IInv, Typed
  <1>5. \A d \in Cpus : SameCurr(env[d], env'[d])
    BY <1>1 DEF SameCurr
  <1>6. CASE stay
    <2>1. UNCHANGED rq
      BY <1>6 DEF migration_cpu_stop
    <2>2. rq' \in [Cpus -> RqType]
      BY <2>1 DEF IInv, Typed
    <2>3. /\ Typed' /\ \A f \in Cpus : Shape(f, env'[f])
          /\ LocksHeld' /\ HandsExact' /\ HandsForDst' /\ ActiveOwned' /\ PushElsewhere'
      BY <1>1, <1>3, <1>4, <2>1, <2>2, EnvKept
    <2>4. \A u \in Tasks : task'[u].on_rq = task[u].on_rq /\ task'[u].cpu = task[u].cpu
      BY <1>3, <1>6
    <2>5. QueuesExact'
      BY <2>1, <2>4, QueuesKept DEF IInv, QueuesExact
    <2>6. AffinityKept'
      BY <1>3, <1>6 DEF IInv, AffinityKept
    <2>7. CurrQueued'
      BY <1>5, <2>1, <2>4, CurrKept DEF IInv
    <2> QED BY <2>3, <2>5, <2>6, <2>7 DEF IInv
  <1>7. CASE ~stay
    <2>1. task[t].on_rq = "queued" /\ c # src
      BY <1>1, <1>7
    <2>2. /\ r \in RqType /\ Injective(r.cfs_tasks) /\ ToSet(r.cfs_tasks) \subseteq Tasks
          /\ ToSet(r.cfs_tasks) = ToSet(rq[src].cfs_tasks) \ {t}
          /\ \A u \in ToSet(r.cfs_tasks) : u # t /\ task[u].on_rq = "queued" /\ task[u].cpu = src
          /\ r.lock = rq[src].lock /\ r.curr = rq[src].curr /\ r.active_balance = rq[src].active_balance
          /\ r.work = rq[src].work /\ r.push_cpu = rq[src].push_cpu
      BY <1>2, <2>1, DequeueFacts
    <2>3. /\ q \in RqType /\ Injective(q.cfs_tasks) /\ ToSet(q.cfs_tasks) = {t} \cup ToSet(rq[c].cfs_tasks)
          /\ q.lock = rq[c].lock /\ q.curr = rq[c].curr /\ q.active_balance = rq[c].active_balance
          /\ q.work = rq[c].work /\ q.push_cpu = rq[c].push_cpu
      <3> DEFINE s == <<t>> \o rq[c].cfs_tasks
      <3>1. rq[c] \in RqType /\ rq[c].cfs_tasks \in Seq(Tasks) /\ Injective(rq[c].cfs_tasks)
        BY DEF IInv, Typed, RqType, QueuesExact
      <3>2. t \notin ToSet(rq[c].cfs_tasks)
        BY <2>1 DEF IInv, QueuesExact
      <3>3. s \in Seq(Tasks) /\ ToSet(s) = {t} \cup ToSet(rq[c].cfs_tasks) /\ Injective(s)
        BY <3>1, <3>2, PrependFacts
      <3> HIDE DEF s
      <3>4. q = [rq[c] EXCEPT !.cfs_tasks = s]
        BY DEF Enqueued, s
      <3>5. /\ q \in RqType /\ q.cfs_tasks = s
            /\ q.lock = rq[c].lock /\ q.curr = rq[c].curr /\ q.active_balance = rq[c].active_balance
            /\ q.work = rq[c].work /\ q.push_cpu = rq[c].push_cpu
        BY <3>1, <3>3, <3>4 DEF RqType
      <3> QED BY <3>3, <3>5
    <2> HIDE DEF r, q
    <2>4. PICK x \in RqType :
            /\ rq' = [rq EXCEPT ![src] = x, ![c] = q]
            /\ x.lock = rq[src].lock /\ x.active_balance = rq[src].active_balance
            /\ x.work = rq[src].work /\ x.push_cpu = rq[src].push_cpu /\ x.cfs_tasks = r.cfs_tasks
            /\ IF rq[src].curr = t THEN x.curr \in ToSet(r.cfs_tasks) \cup {Idle} ELSE x.curr = rq[src].curr
      <3>1. PICK x \in (IF rq[src].curr = t THEN PickNext(r) ELSE {r}) :
              rq' = [rq EXCEPT ![src] = x, ![c] = Enqueued(@, <<t>>)]
        BY <1>7 DEF migration_cpu_stop, r
      <3>2. rq' = [rq EXCEPT ![src] = x, ![c] = q]
        BY <1>2, <2>1, <3>1 DEF q, IInv, Typed
      <3>3. CASE rq[src].curr = t
        <4>1. PICK u \in (IF r.cfs_tasks = <<>> THEN {Idle} ELSE ToSet(r.cfs_tasks)) : x = [r EXCEPT !.curr = u]
          BY <3>1, <3>3 DEF PickNext
        <4>2. u \in ToSet(r.cfs_tasks) \cup {Idle}
          BY <4>1
        <4>3. /\ x \in RqType /\ x.curr = u /\ x.lock = r.lock /\ x.active_balance = r.active_balance
              /\ x.work = r.work /\ x.push_cpu = r.push_cpu /\ x.cfs_tasks = r.cfs_tasks
          BY <2>2, <4>1, <4>2 DEF RqType
        <4> QED BY <2>2, <3>2, <3>3, <4>2, <4>3
      <3>4. CASE rq[src].curr # t
        BY <2>2, <3>1, <3>2, <3>4
      <3> QED BY <3>3, <3>4
    <2>5. /\ rq' \in [Cpus -> RqType] /\ rq'[src] = x /\ rq'[c] = q
          /\ \A d \in Cpus \ {src, c} : rq'[d] = rq[d]
      BY <1>2, <2>1, <2>3, <2>4 DEF IInv, Typed
    <2>6. /\ Typed' /\ \A f \in Cpus : Shape(f, env'[f])
          /\ LocksHeld' /\ HandsExact' /\ HandsForDst' /\ ActiveOwned' /\ PushElsewhere'
      <3>1. \A d \in Cpus : /\ rq'[d].lock = rq[d].lock /\ rq'[d].active_balance = rq[d].active_balance
                            /\ rq'[d].work = rq[d].work /\ rq'[d].push_cpu = rq[d].push_cpu
        BY <2>3, <2>4, <2>5
      <3> QED BY <1>1, <1>3, <1>4, <2>5, <3>1, EnvKept
    <2>7. task'[t].on_rq = "queued" /\ task'[t].cpu = c /\ task'[t].cpus_allowed = task[t].cpus_allowed
      BY <1>3, <1>7, <2>1
    <2> HIDE DEF stay
    <2>8. QueuesExact'
      <3>1. ASSUME NEW d \in Cpus, NEW u \in Tasks
            PROVE  u \in ToSet(rq'[d].cfs_tasks) <=> task'[u].on_rq = "queued" /\ task'[u].cpu = d
        <4>1. u \in ToSet(rq[d].cfs_tasks) <=> task[u].on_rq = "queued" /\ task[u].cpu = d
          BY DEF IInv, QueuesExact
        <4>2. u \in ToSet(rq'[d].cfs_tasks) <=>
                (u \in ToSet(rq[d].cfs_tasks) /\ ~(u = t /\ d = src)) \/ (u = t /\ d = c)
          BY <2>1, <2>2, <2>3, <2>4, <2>5
        <4> QED BY <1>3, <2>1, <2>7, <4>1, <4>2
      <3>2. \A d \in Cpus : Injective(rq'[d].cfs_tasks)
        BY <2>2, <2>3, <2>4, <2>5 DEF IInv, QueuesExact
      <3> QED BY <3>1, <3>2 DEF QueuesExact
    <2>9. AffinityKept'
      BY <1>1, <1>3, <2>7 DEF IInv, AffinityKept
    <2>10. CurrQueued'
      <3>1. ASSUME NEW d \in Cpus
            PROVE  /\ rq'[d].curr = Stopper <=> InStopper(d)'
                   /\ rq'[d].curr \in Tasks =>
                        \/ task'[rq'[d].curr].on_rq = "queued" /\ task'[rq'[d].curr].cpu = d
                        \/ task'[rq'[d].curr].on_rq = "no" /\ env'[d].idle = "NEWLY_IDLE"
        <4>0. InStopper(d)' <=> InStopper(d)
          BY <1>1 DEF InStopper
        <4>1. CASE rq[d].curr # t
          <5>1. rq'[d].curr = rq[d].curr
            BY <2>1, <2>3, <2>4, <2>5, <4>1
          <5> QED BY <1>1, <1>3, <4>0, <4>1, <5>1 DEF IInv, CurrQueued
        <4>2. CASE rq[d].curr = t
          <5>1. d = src
            BY <2>1, <4>2, CurrFacts
          <5>2. ~InStopper(d)
            BY <4>2, CurrFacts
          <5>3. rq'[d].curr \in ToSet(r.cfs_tasks) \cup {Idle}
            BY <2>4, <2>5, <4>2, <5>1, <2>1
          <5>4. rq'[d].curr # Stopper
            BY <2>2, <5>3, TasksAssumption
          <5>5. rq'[d].curr \in Tasks => task'[rq'[d].curr].on_rq = "queued" /\ task'[rq'[d].curr].cpu = d
            BY <1>3, <2>2, <5>1, <5>3, TasksAssumption
          <5> QED BY <4>0, <5>2, <5>4, <5>5
        <4> QED BY <4>1, <4>2
      <3> QED BY <3>1 DEF CurrQueued
    <2> QED BY <2>6, <2>8, <2>9, <2>10 DEF IInv
  <1> QED BY <1>6, <1>7

-----------------------------------------------------------------------------
(***************************************************************************)
(* The invariant of every behaviour.                                       *)
(***************************************************************************)
LEMMA InitIInv == Init => IInv
  <1> SUFFICES ASSUME Init PROVE IInv
    OBVIOUS
  <1>1. PICK allowed \in [Tasks -> Masks] :
          task = [t \in Tasks |-> [on_rq |-> "no", cpu |-> Min(allowed[t]),
                                   cpus_allowed |-> allowed[t], moving |-> FALSE]]
    BY DEF Init
  <1>2. ASSUME NEW t \in Tasks PROVE Min(allowed[t]) \in Cpus
    <2>1. allowed[t] \in SUBSET Cpus /\ allowed[t] # {}
      BY NumbersAssumption
    <2>2. allowed[t] \in SUBSET Nat
      BY <2>1, CpusAssumption
    <2> QED BY <2>1, <2>2, MinInSet
  <1>3. task \in [Tasks -> TaskType] /\ \A t \in Tasks : task[t].on_rq = "no"
    BY <1>1, <1>2 DEF TaskType
  <1>4. /\ rq \in [Cpus -> RqType]
        /\ \A c \in Cpus : /\ rq[c].lock = NoCpu /\ rq[c].cfs_tasks = <<>> /\ rq[c].curr = Idle
                           /\ rq[c].active_balance = FALSE /\ rq[c].work = FALSE
    BY EmptyFacts DEF Init, RqType
  <1>5. env \in [Cpus -> EnvType] /\ \A e \in Cpus : env[e] = NoEnv /\ Shape(e, env[e])
    BY NoEnvShape DEF Init
  <1>6. NoEnv.pc = "run" /\ NoEnv.tasks = <<>> /\ NoEnv.p = Idle
    BY DEF NoEnv
  <1>7. Typed
    <2>1. affine = 0 /\ MaxAffine \in Nat
      BY NumbersAssumption DEF Init
    <2>2. affine \in 0 .. MaxAffine
      BY <2>1
    <2> QED BY <1>3, <1>4, <1>5, <2>2 DEF Typed
  <1>8. LocksHeld
    BY <1>4, <1>5, <1>6, CpusAssumption DEF LocksHeld, Locks, NoCpu
  <1>9. QueuesExact
    BY <1>3, <1>4, EmptyFacts DEF QueuesExact
  <1>10. \A e \in Cpus : Held(e) = {}
    BY <1>5, <1>6, EmptyFacts, TasksAssumption DEF Held
  <1>11. HandsExact /\ HandsForDst
    BY <1>3, <1>5, <1>6, <1>10, EmptyFacts DEF HandsExact, HandsForDst
  <1>12. AffinityKept
    BY <1>3 DEF AffinityKept
  <1>13. CurrQueued
    BY <1>4, <1>5, <1>6, TasksAssumption DEF CurrQueued, InStopper
  <1>14. ActiveOwned /\ PushElsewhere
    BY <1>4, <1>5, <1>6 DEF ActiveOwned, PushElsewhere, Kicks, Stops, InStopper
  <1> QED BY <1>5, <1>7, <1>8, <1>9, <1>11, <1>12, <1>13, <1>14 DEF IInv

\* Every step of a pass.
LEMMA StepIInv ==
  ASSUME IInv, NEW e \in Cpus, Step(e)
  PROVE  IInv'
  BY RebalanceIInv, IdleBalanceIInv, IdleBalanceEndIInv, RedoIInv, DetachTasksIInv, TrylockIInv,
     DoubleRqLockIInv, SetTaskCpuIInv, AttachTasksIInv, LoadBalanceActiveIInv, StopOneCpuIInv,
     PushIInv, UnlockIInv, AttachOneIInv, StopperSleepsIInv DEF Step

\* Every step of the specification.
LEMMA NextIInv == IInv /\ [Next]_vars => IInv'
  <1> SUFFICES ASSUME IInv, [Next]_vars PROVE IInv'
    OBVIOUS
  <1>1. ASSUME NEW e \in Cpus, Step(e) PROVE IInv'
    BY <1>1, StepIInv
  <1>2. ASSUME NEW e \in Cpus, active_load_balance_cpu_stop(e) PROVE IInv'
    BY <1>2, CpuStopIInv
  <1>3. ASSUME NEW e \in Cpus, deactivate_task(e) PROVE IInv'
    BY <1>3, DeactivateIInv
  <1>4. ASSUME NEW e \in Cpus, NEW c \in Cpus, run_rebalance_domains(e, c) PROVE IInv'
    BY <1>4, RunRebalanceIInv
  <1>5. ASSUME NEW e \in Cpus, NEW t \in Tasks, schedule(e, t) PROVE IInv'
    BY <1>5, ScheduleIInv
  <1>6. ASSUME NEW t \in Tasks, NEW c \in Cpus, try_to_wake_up(t, c) PROVE IInv'
    BY <1>6, WakeIInv
  <1>7. ASSUME NEW t \in Tasks, NEW c \in Cpus, migration_cpu_stop(t, c) PROVE IInv'
    BY <1>7, MigrationIInv
  <1>8. ASSUME NEW t \in Tasks, NEW m \in Masks, set_cpus_allowed(t, m) PROVE IInv'
    BY <1>8, SetCpusAllowedIInv
  <1>9. CASE UNCHANGED vars
    <2>1. task' = task /\ rq' = rq /\ env' = env /\ affine' = affine
      BY <1>9 DEF vars
    <2>2. Typed' /\ (\A e \in Cpus : Shape(e, env'[e])) /\ LocksHeld' /\ QueuesExact' /\ AffinityKept'
      BY <2>1 DEF IInv, Typed, LocksHeld, QueuesExact, AffinityKept
    <2>3. HandsExact' /\ HandsForDst'
      BY <2>1 DEF IInv, HandsExact, HandsForDst, Held
    <2>4. CurrQueued' /\ PushElsewhere'
      BY <2>1 DEF IInv, CurrQueued, InStopper, PushElsewhere
    <2>5. ActiveOwned'
      BY <2>1 DEF IInv, ActiveOwned, Kicks, Stops, InStopper
    <2> QED BY <2>2, <2>3, <2>4, <2>5 DEF IInv
  <1> QED BY <1>1, <1>2, <1>3, <1>4, <1>5, <1>6, <1>7, <1>8, <1>9 DEF Next

\* Every step of load balancing, of the stopper and of the scheduler around them keeps
\* the inductive invariant.
THEOREM LoadBalanceInvariant == Spec => []IInv
  <1> QED BY InitIInv, NextIInv, PTL DEF Spec

-----------------------------------------------------------------------------
(***************************************************************************)
(* What follows from it.                                                   *)
(***************************************************************************)
\* A CPU that waits for a lock while it holds another waits for a higher one.
THEOREM LocksInOrder == Spec => []LockOrder
  <1>1. IInv => LockOrder
    <2> SUFFICES ASSUME IInv, NEW e \in Cpus, NEW want \in Wanted(e), NEW c \in Cpus, rq[c].lock = e
                 PROVE  c < want
      BY DEF LockOrder
    <2>1. c \in Locks(env[e])
      BY DEF IInv, LocksHeld
    <2>2. CASE env[e].pc = "lock_second"
      <3>1. want = Higher(env[e]) /\ c = Lower(env[e])
        BY <2>1, <2>2 DEF Wanted, Locks
      <3> QED BY <2>2, <3>1, LockFacts DEF LockPcs
    <2>3. CASE env[e].pc = "lock_dst"
      <3>1. want = env[e].dst /\ c = env[e].src
        BY <2>1, <2>3 DEF Wanted, Locks
      <3> QED BY <2>3, <3>1, LockFacts DEF LockPcs, Shape
    <2> QED BY <2>2, <2>3 DEF Wanted
  <1> QED BY <1>1, LoadBalanceInvariant, PTL

\* A queued task is where it may run, or its migration is asked for: also for one whose
\* mask changes on the way, since set_cpus_allowed waits for it to arrive.
THEOREM AffinityAlwaysKept == Spec => []AffinityKept
  <1>1. IInv => AffinityKept
    BY DEF IInv
  <1> QED BY <1>1, LoadBalanceInvariant, PTL

\* active_balance has one owner at a time, and is set exactly while it has one.
THEOREM ActiveBalanceOwned == Spec => []ActiveBalanceOnce
  <1>1. ASSUME IInv, NEW c \in Cpus
        PROVE  LET kicking == {e \in Cpus : env[e].pc = "stop_one_cpu" /\ env[e].src = c}
                   stopping == InStopper(c) /\ env[c].pc \notin {"attach_one", "stop_done"}
               IN  Cardinality(kicking) + (IF rq[c].work THEN 1 ELSE 0) + (IF stopping THEN 1 ELSE 0)
                     = IF rq[c].active_balance THEN 1 ELSE 0
    <2> DEFINE kicking == {e \in Cpus : env[e].pc = "stop_one_cpu" /\ env[e].src = c}
               stopping == InStopper(c) /\ env[c].pc \notin {"attach_one", "stop_done"}
    <2>1. stopping <=> Stops(c)
      BY DEF Stops
    <2>2. /\ rq[c].active_balance <=> rq[c].work \/ Stops(c) \/ \E e \in Cpus : Kicks(e, c)
          /\ ~(rq[c].work /\ Stops(c))
      BY <1>1 DEF IInv, ActiveOwned
    <2>3. CASE \E e \in Cpus : Kicks(e, c)
      <3>1. PICK e \in Cpus : Kicks(e, c)
        BY <2>3
      <3>2. kicking = {e} /\ ~rq[c].work /\ ~Stops(c)
        BY <1>1, <3>1 DEF IInv, ActiveOwned, Kicks
      <3>3. Cardinality(kicking) = 1
        BY <3>2, FS_Singleton
      <3> HIDE DEF kicking, stopping
      <3> QED BY <2>1, <2>2, <2>3, <3>2, <3>3 DEF kicking, stopping
    <2>4. CASE ~\E e \in Cpus : Kicks(e, c)
      <3>1. kicking = {}
        BY <2>4 DEF Kicks
      <3>2. Cardinality(kicking) = 0
        BY <3>1, FS_EmptySet
      <3> HIDE DEF kicking, stopping
      <3> QED BY <2>1, <2>2, <2>4, <3>2 DEF kicking, stopping
    <2> QED BY <2>3, <2>4
  <1>2. IInv => ActiveBalanceOnce
    BY <1>1 DEF ActiveBalanceOnce
  <1> QED BY <1>2, LoadBalanceInvariant, PTL

\* No CPU passes more than one task beyond loop_max, and the lb_env of a CPU that does
\* not balance has seen none.
LEMMA LoopBounded ==
  ASSUME IInv, NEW e \in Cpus
  PROVE  env[e].loop <= env[e].loop_max + (IF env[e].pc = "more_balance" THEN 0 ELSE 1)
  <1> DEFINE v == env[e]
             k == IF v.pc = "more_balance" THEN 0 ELSE 1
  <1>1. v.loop \in Nat /\ v.loop_max \in Nat /\ k \in {0, 1} /\ v \in EnvType
    BY HereFacts DEF EnvType
  <1>2. CASE v.loop = 0
    BY <1>1, <1>2
  <1>3. CASE v.loop # 0
    <2>1. v.pc # "run"
      BY <1>3, HereFacts DEF Shape, NoEnv
    <2>2. v.level # 0
      BY <1>3, <2>1, HereFacts DEF StopShape
    <2>3. v.pc \in PullPcs /\ Pulling(v) /\ (v.loop <= v.loop_max \/ v.pc = "attach_tasks")
      BY <1>3, <2>2, HereFacts DEF BalanceShape
    <2>4. v.loop <= v.loop_max + 1 /\ (v.pc = "more_balance" => v.loop <= v.loop_max)
      BY <2>3 DEF Pulling
    <2> QED BY <1>1, <2>4
  <1> QED BY <1>2, <1>3 DEF k

\* Through every pass, change of dst, retry and active balancing each task is in one queue
\* once, or in one hand, or asleep; what is to be attached belongs to the dst of the moment;
\* no CPU pulls from its own queue; and new_dst is a CPU that was not tried yet.
THEOREM TasksStayConsistent == Spec => []TasksConsistent
  <1>1. ASSUME IInv PROVE TypeOK
    <2>1. \A c \in Cpus : /\ rq[c].lock \in Cpus \cup {NoCpu}
                          /\ ToSet(rq[c].cfs_tasks) \subseteq Tasks
                          /\ rq[c].curr \in Tasks \cup {Idle, Stopper}
                          /\ rq[c].push_cpu \in Cpus \cup {NoCpu}
      <3>1. ASSUME NEW s \in Seq(Tasks) PROVE ToSet(s) \subseteq Tasks
        BY DEF ToSet
      <3>2. \A c \in Cpus : rq[c].cfs_tasks \in Seq(Tasks)
        BY <1>1 DEF IInv, Typed, RqType
      <3>3. \A c \in Cpus : ToSet(rq[c].cfs_tasks) \subseteq Tasks
        BY <3>1, <3>2
      <3> QED BY <1>1, <3>3 DEF IInv, Typed, RqType
    <2>2. task \in [Tasks -> [on_rq : {"no", "queued", "migrating"}, cpu : Cpus, cpus_allowed : Masks,
                              moving : BOOLEAN]]
      BY <1>1 DEF IInv, Typed, TaskType
    <2>3. affine \in 0 .. MaxAffine
      BY <1>1 DEF IInv, Typed
    <2> QED BY <1>1, <2>1, <2>2, <2>3, LoopBounded DEF TypeOK
  <1>2. ASSUME IInv PROVE NoTaskLost
    <2>1. ASSUME NEW t \in Tasks
          PROVE  /\ {c \in Cpus : t \in ToSet(rq[c].cfs_tasks)}
                      = IF task[t].on_rq = "queued" THEN {task[t].cpu} ELSE {}
                 /\ Cardinality({e \in Cpus : t \in Held(e)})
                      = IF task[t].on_rq = "migrating" THEN 1 ELSE 0
      <3>1. task[t].cpu \in Cpus
        BY <1>2 DEF IInv, Typed, TaskType
      <3>2. {c \in Cpus : t \in ToSet(rq[c].cfs_tasks)}
              = IF task[t].on_rq = "queued" THEN {task[t].cpu} ELSE {}
        BY <1>2, <3>1 DEF IInv, QueuesExact
      <3>3. CASE task[t].on_rq = "migrating"
        <4>1. PICK e \in Cpus : t \in Held(e)
          BY <1>2, <3>3 DEF IInv, HandsExact
        <4>2. {d \in Cpus : t \in Held(d)} = {e}
          BY <1>2, <4>1 DEF IInv, HandsExact
        <4> QED BY <3>2, <3>3, <4>2, FS_Singleton
      <3>4. CASE task[t].on_rq # "migrating"
        <4>1. {d \in Cpus : t \in Held(d)} = {}
          BY <1>2, <3>4 DEF IInv, HandsExact
        <4> QED BY <3>2, <3>4, <4>1, FS_EmptySet
      <3> QED BY <3>3, <3>4
    <2>2. ASSUME NEW c \in Cpus PROVE Cardinality(ToSet(rq[c].cfs_tasks)) = h_nr_running(c)
      <3>1. rq[c].cfs_tasks \in Seq(Tasks) /\ Injective(rq[c].cfs_tasks)
        BY <1>2 DEF IInv, Typed, RqType, QueuesExact
      <3> QED BY <3>1, InjectiveCounts DEF h_nr_running
    <2> QED BY <2>1, <2>2 DEF NoTaskLost
  <1>3. ASSUME IInv PROVE AttachedToOwnRq
    BY <1>3 DEF IInv, HandsForDst, AttachedToOwnRq
  <1>4. ASSUME IInv PROVE PullsFromElsewhere
    <2>1. ASSUME NEW e \in Cpus, env[e].src # NoCpu PROVE env[e].src # env[e].dst
      <3> DEFINE v == env[e]
      <3>1. v.pc # "run"
        BY <1>4, <2>1, HereFacts DEF Shape, NoEnv
      <3>2. CASE v.level = 0
        BY <1>4, <3>1, <3>2, HereFacts DEF StopShape
      <3>3. CASE v.level # 0
        <4>1. BalanceShape(e, v)
          BY <1>4, <3>3, HereFacts
        <4>2. NoCpu \notin Cpus
          BY CpusAssumption DEF NoCpu
        <4> QED BY <2>1, <4>1, <4>2 DEF BalanceShape, Pulling
      <3> QED BY <3>2, <3>3
    <2>2. \A c \in Cpus : rq[c].active_balance => rq[c].push_cpu \notin {c, NoCpu}
      BY <1>4, CpusAssumption DEF IInv, PushElsewhere, NoCpu
    <2> QED BY <2>1, <2>2 DEF PullsFromElsewhere
  <1>5. ASSUME IInv PROVE NewDstIsNew
    <2> SUFFICES ASSUME NEW e \in Cpus, "DST_PINNED" \in env[e].flags
                 PROVE  env[e].new_dst \in (sd(env[e]).group \cap env[e].cpus) \ {env[e].dst}
      BY DEF NewDstIsNew
    <2> DEFINE v == env[e]
    <2>1. v.pc # "run"
      BY <1>5, HereFacts DEF Shape, NoEnv
    <2>2. v.level # 0
      BY <1>5, <2>1, HereFacts DEF StopShape
    <2>3. BalanceShape(e, v)
      BY <1>5, <2>2, HereFacts
    <2> QED BY <2>3 DEF BalanceShape, Pulling
  <1>6. IInv => TasksConsistent
    BY <1>1, <1>2, <1>3, <1>4, <1>5 DEF TasksConsistent
  <1> QED BY <1>6, LoadBalanceInvariant, PTL

-----------------------------------------------------------------------------
(***************************************************************************)
(* The balancer implements Placement, for any machine: every step of       *)
(* LoadBalance, seen through AtNow and RunningNow, is a Move or a Switch   *)
(* of Placement or changes neither.                                        *)
(***************************************************************************)
\* The refinement mapping of LoadBalance, by names of its own.
Queued(t)  == task[t].on_rq = "queued"
AtNow      == [t \in Tasks |-> IF Queued(t) THEN task[t].cpu ELSE NoCpu]
RunningNow == [c \in Cpus |-> IF rq[c].curr \in Tasks /\ Queued(rq[c].curr) THEN rq[c].curr ELSE Idle]

PlacementStep == [Abstract!Next]_<<AtNow, RunningNow>>

-----------------------------------------------------------------------------
\* What a task's on_rq and cpu, and a CPU's curr, show of the two.
LEMMA MappedFacts ==
  /\ \A t \in Tasks : AtNow[t] = IF task[t].on_rq = "queued" THEN task[t].cpu ELSE NoCpu
  /\ \A t \in Tasks : AtNow'[t] = IF task'[t].on_rq = "queued" THEN task'[t].cpu ELSE NoCpu
  /\ \A c \in Cpus : RunningNow[c] = IF rq[c].curr \in Tasks /\ task[rq[c].curr].on_rq = "queued"
                                     THEN rq[c].curr ELSE Idle
  /\ \A c \in Cpus : RunningNow'[c] = IF rq'[c].curr \in Tasks /\ task'[rq'[c].curr].on_rq = "queued"
                                      THEN rq'[c].curr ELSE Idle
  BY DEF AtNow, RunningNow, Queued

\* Tasks that do not run go to one place together: Move of Placement.
LEMMA MoveStep ==
  ASSUME NEW moved \in SUBSET Tasks, NEW place \in Cpus \cup {NoCpu},
         \A t \in moved, c \in Cpus : RunningNow[c] # t,
         \A t \in Tasks : AtNow'[t] = IF t \in moved THEN place ELSE AtNow[t],
         \A c \in Cpus : RunningNow'[c] = RunningNow[c]
  PROVE  PlacementStep
  <1>1. AtNow' = [t \in Tasks |-> IF t \in moved THEN place ELSE AtNow[t]]
    BY DEF AtNow
  <1>2. RunningNow' = RunningNow
    BY DEF RunningNow
  <1>3. Abstract!Move(moved, place)
    BY <1>1, <1>2 DEF Abstract!Move, Abstract!Runs, AtNow, RunningNow, Queued
  <1> QED BY <1>3 DEF PlacementStep, Abstract!Next

\* No task changes its place: a stuttering step of Placement.
LEMMA QuietStep ==
  ASSUME \A t \in Tasks : /\ task'[t].on_rq = task[t].on_rq
                          /\ task[t].on_rq = "queued" => task'[t].cpu = task[t].cpu,
         \A c \in Cpus : rq'[c].curr = rq[c].curr
  PROVE  PlacementStep
  <1>1. AtNow' = AtNow
    BY DEF AtNow, Queued
  <1>2. RunningNow' = RunningNow
    BY DEF RunningNow, Queued
  <1> QED BY <1>1, <1>2 DEF PlacementStep

\* One CPU runs another task, and the one it ran may leave: Switch of Placement.
LEMMA SwitchStep ==
  ASSUME NEW c \in Cpus,
         \A d \in Cpus \ {c} : RunningNow'[d] = RunningNow[d],
         RunningNow'[c] = Idle \/ (RunningNow'[c] \in Tasks /\ AtNow'[RunningNow'[c]] = c),
         \/ \A t \in Tasks : AtNow'[t] = AtNow[t]
         \/ /\ RunningNow[c] \in Tasks
            /\ \E place \in (Cpus \cup {NoCpu}) \ {c} :
                 \A t \in Tasks : AtNow'[t] = IF t = RunningNow[c] THEN place ELSE AtNow[t]
  PROVE  PlacementStep
  <1>1. RunningNow' = [RunningNow EXCEPT ![c] = RunningNow'[c]]
    BY DEF RunningNow
  <1>2. RunningNow'[c] \in {Idle} \cup {u \in Tasks : AtNow'[u] = c}
    OBVIOUS
  <1>3. \/ AtNow' = AtNow
        \/ RunningNow[c] # Idle /\ \E place \in (Cpus \cup {NoCpu}) \ {c} :
             AtNow' = [AtNow EXCEPT ![RunningNow[c]] = place]
    <2>1. CASE \A t \in Tasks : AtNow'[t] = AtNow[t]
      BY <2>1 DEF AtNow
    <2>2. CASE ~\A t \in Tasks : AtNow'[t] = AtNow[t]
      <3>1. PICK place \in (Cpus \cup {NoCpu}) \ {c} :
              \A t \in Tasks : AtNow'[t] = IF t = RunningNow[c] THEN place ELSE AtNow[t]
        BY <2>2
      <3>2. AtNow' = [AtNow EXCEPT ![RunningNow[c]] = place]
        BY <3>1 DEF AtNow
      <3> QED BY <2>2, <3>2, TasksAssumption
    <2> QED BY <2>1, <2>2
  <1>4. Abstract!Switch(c)
    BY <1>1, <1>2, <1>3 DEF Abstract!Switch, AtNow, RunningNow, Queued
  <1> QED BY <1>4 DEF PlacementStep, Abstract!Next

\* A queued task that a CPU runs is queued on that CPU.
LEMMA RunsItsOwn ==
  ASSUME IInv, NEW c \in Cpus, NEW t \in Tasks, RunningNow[c] = t
  PROVE  rq[c].curr = t /\ task[t].on_rq = "queued" /\ task[t].cpu = c
  <1>1. rq[c].curr = t /\ task[t].on_rq = "queued"
    BY MappedFacts, TasksAssumption
  <1> QED BY <1>1, CurrFacts DEF IInv, CurrQueued

\* As long as the CPUs keep their current tasks and these are not detached, each CPU runs
\* what it ran.
LEMMA RunningKept ==
  ASSUME \A d \in Cpus : rq'[d].curr = rq[d].curr,
         \A t \in Tasks : \/ task'[t].on_rq = "queued" <=> task[t].on_rq = "queued"
                          \/ \A d \in Cpus : rq[d].curr # t
  PROVE  \A d \in Cpus : RunningNow'[d] = RunningNow[d]
  BY MappedFacts

-----------------------------------------------------------------------------
(***************************************************************************)
(* Steps that Placement does not see.                                      *)
(***************************************************************************)
LEMMA UnseenLocks ==
  ASSUME IInv, NEW e \in Cpus,
         \/ rebalance_domains(e) \/ idle_balance(e) \/ redo(e) \/ double_lock_trylock(e)
         \/ double_rq_lock(e) \/ load_balance_active(e) \/ stop_one_cpu_nowait(e)
  PROVE  PlacementStep
  <1>1. UNCHANGED task
    BY DEF rebalance_domains, idle_balance, redo, double_lock_trylock, double_rq_lock,
           load_balance_active, stop_one_cpu_nowait
  <1>2. rq \in [Cpus -> RqType]
    BY DEF IInv, Typed
  <1>3. \A c \in Cpus : rq'[c].curr = rq[c].curr
    <2>1. CASE rebalance_domains(e) \/ idle_balance(e) \/ redo(e)
      BY <2>1 DEF rebalance_domains, idle_balance, redo
    <2>2. CASE double_lock_trylock(e)
      BY <1>2, <2>2 DEF double_lock_trylock, TakeLock, RqType
    <2>3. CASE double_rq_lock(e)
      <3>1. PICK x : rq' = [rq EXCEPT ![x].lock = e]
        BY <2>3 DEF double_rq_lock, TakeLock
      <3> QED BY <1>2, <3>1 DEF RqType
    <2>4. CASE load_balance_active(e)
      <3>1. \/ UNCHANGED rq
            \/ rq' = [rq EXCEPT ![env[e].src].active_balance = TRUE, ![env[e].src].push_cpu = env[e].cpu]
        BY <2>4 DEF load_balance_active
      <3> DEFINE src == env[e].src
      <3>2. ASSUME rq' = [rq EXCEPT ![src].active_balance = TRUE, ![src].push_cpu = env[e].cpu], NEW c \in Cpus
            PROVE  rq'[c].curr = rq[c].curr
        <4> HIDE DEF src
        <4>1. CASE c = src
          BY <1>2, <3>2, <4>1 DEF RqType
        <4>2. CASE c # src
          BY <1>2, <3>2, <4>2
        <4> QED BY <4>1, <4>2
      <3> QED BY <3>1, <3>2 DEF src
    <2>5. CASE stop_one_cpu_nowait(e)
      BY <1>2, <2>5 DEF stop_one_cpu_nowait, RqType
    <2> QED BY <2>1, <2>2, <2>3, <2>4, <2>5
  <1> QED BY <1>1, <1>3, QuietStep

\* The task that a balancer is about to give a new CPU is in its hand, so not queued.
LEMMA InHand ==
  ASSUME IInv, NEW e \in Cpus, env[e].p \in Tasks
  PROVE  task[env[e].p].on_rq = "migrating"
  BY DEF IInv, HandsExact, Held

\* set_task_cpu of a task in hand, and the unlock after it, are not seen.
LEMMA UnseenSetCpu ==
  ASSUME IInv, NEW e \in Cpus, set_task_cpu(e) \/ active_load_balance_unlock(e)
  PROVE  PlacementStep
  <1> DEFINE p == env[e].p
  <1>1. task' = [task EXCEPT ![p].cpu = env[e].dst]
    BY DEF set_task_cpu, active_load_balance_unlock
  <1>2. task \in [Tasks -> TaskType] /\ rq \in [Cpus -> RqType]
    BY DEF IInv, Typed
  <1>3. \A t \in Tasks : t # p => task'[t] = task[t]
    BY <1>1, <1>2
  <1>4. p \in Tasks => task[p].on_rq = "migrating" /\ task'[p].on_rq = "migrating"
    BY <1>1, <1>2, InHand DEF TaskType
  <1>5. \A c \in Cpus : rq'[c].curr = rq[c].curr
    <2>1. CASE set_task_cpu(e)
      BY <1>2, <2>1 DEF set_task_cpu, RqType
    <2>2. CASE active_load_balance_unlock(e)
      <3>1. rq' = [rq EXCEPT ![e].lock = NoCpu, ![env[e].dst].lock = NoCpu, ![e].active_balance = FALSE,
                             ![e].push_cpu = NoCpu]
        BY <2>2 DEF active_load_balance_unlock
      <3> DEFINE dst == env[e].dst
                 r1 == [rq EXCEPT ![e].lock = NoCpu]
                 r2 == [r1 EXCEPT ![dst].lock = NoCpu]
                 r3 == [r2 EXCEPT ![e].active_balance = FALSE]
                 Same(s) == DOMAIN s = Cpus /\ \A c \in Cpus : s[c].curr = rq[c].curr /\ DOMAIN s[c] = DOMAIN rq[e]
      <3>2. rq' = [r3 EXCEPT ![e].push_cpu = NoCpu]
        BY <3>1
      <3>3. Same(rq) /\ "curr" \in DOMAIN rq[e]
        BY <1>2 DEF RqType
      <3> HIDE DEF dst
      <3>4. Same(r1)
        BY <3>3
      <3> HIDE DEF r1
      <3>5. Same(r2)
        BY <3>3, <3>4
      <3> HIDE DEF r2
      <3>6. Same(r3)
        BY <3>3, <3>5
      <3> HIDE DEF r3
      <3> QED BY <3>2, <3>3, <3>6
    <2> QED BY <2>1, <2>2
  <1> HIDE DEF p
  <1>6. \A t \in Tasks : /\ task'[t].on_rq = task[t].on_rq
                         /\ task[t].on_rq = "queued" => task'[t].cpu = task[t].cpu
    BY <1>3, <1>4
  <1> QED BY <1>5, <1>6, QuietStep

\* Nor is the start of a softirq ...
LEMMA UnseenCallers ==
  ASSUME NEW e \in Cpus, NEW c \in Cpus, run_rebalance_domains(e, c)
  PROVE  PlacementStep
  BY QuietStep DEF run_rebalance_domains

\* ... nor a change of a mask.
LEMMA UnseenMasks ==
  ASSUME IInv, NEW t \in Tasks, NEW m \in Masks, set_cpus_allowed(t, m)
  PROVE  PlacementStep
  <1>1. task \in [Tasks -> TaskType]
    BY DEF IInv, Typed
  <1>2. \A u \in Tasks : task'[u].on_rq = task[u].on_rq /\ task'[u].cpu = task[u].cpu
    BY <1>1 DEF set_cpus_allowed, TaskType
  <1> QED BY <1>2, QuietStep DEF set_cpus_allowed

-----------------------------------------------------------------------------
(***************************************************************************)
(* Steps that move tasks which no CPU runs.                                *)
(***************************************************************************)
\* detach_task takes a task from a queue, and not the one that the CPU runs.
LEMMA DetachMoves ==
  ASSUME IInv, NEW e \in Cpus, NEW x \in EnvType, NEW t \in Tasks, x.src \in Cpus,
         t \in ToSet(rq[x.src].cfs_tasks), rq[x.src].curr # t, detach_task(e, x, t)
  PROVE  PlacementStep
  <1> DEFINE s == x.src
  <1>1. task[t].on_rq = "queued" /\ task[t].cpu = s
    BY DEF IInv, QueuesExact
  <1>2. \A d \in Cpus : rq[d].curr # t
    BY <1>1, CurrFacts
  <1>3. /\ task'[t].on_rq = "migrating" /\ \A u \in Tasks \ {t} : task'[u] = task[u]
    <2>1. task \in [Tasks -> TaskType] /\ task' = [task EXCEPT ![t].on_rq = "migrating"]
      BY DEF IInv, Typed, detach_task
    <2> QED BY <2>1 DEF TaskType
  <1>4. \A d \in Cpus : rq'[d].curr = rq[d].curr
    <2> DEFINE r == [Dequeued(rq[s], t) EXCEPT !.lock = IF Preempt THEN NoCpu ELSE e]
    <2>1. rq \in [Cpus -> RqType] /\ rq' = [rq EXCEPT ![s] = r]
      BY DEF IInv, Typed, detach_task
    <2>2. r.curr = rq[s].curr
      BY <2>1 DEF Dequeued, RqType
    <2> HIDE DEF r
    <2> QED BY <2>1, <2>2
  <1>5. \A d \in Cpus : RunningNow'[d] = RunningNow[d]
    BY <1>2, <1>3, <1>4, RunningKept
  <1>6. \A d \in Cpus : RunningNow[d] # t
    BY <1>2, MappedFacts, TasksAssumption
  <1>7. \A u \in Tasks : AtNow'[u] = IF u \in {t} THEN NoCpu ELSE AtNow[u]
    BY <1>3, MappedFacts
  <1>8. {t} \in SUBSET Tasks
    OBVIOUS
  <1>9. \A u \in {t}, d \in Cpus : RunningNow[d] # u
    BY <1>6
  <1> QED BY <1>5, <1>7, <1>8, <1>9, MoveStep

\* detach_tasks takes tasks off their CPU.
LEMMA PassMoves ==
  ASSUME IInv, NEW e \in Cpus, detach_tasks(e)
  PROVE  PlacementStep
  <1> DEFINE v == env[e]
             q == rq[v.src].cfs_tasks
             t == Head(q)
             w == [v EXCEPT !.pc = "detach", !.loop = @ + 1]
             brk == [w EXCEPT !.loop_break = @ + NrMigrateBreak, !.flags = @ \cup {"NEED_BREAK"}]
             can(why) == can_migrate_task(v, t, why)
             x(why) == [w EXCEPT !.flags = can(why).flags, !.new_dst = can(why).new_dst]
  <1>1. /\ v \in EnvType /\ AtDomain(e, v) /\ Pulling(v) /\ v.src \in Cpus
    <2>1. v.pc = "detach" \/ (v.pc = "more_balance" /\ Unlocked(v.src))
      BY DEF detach_tasks
    <2> QED BY <2>1, PassFacts
  <1>2. \/ UNCHANGED task /\ \/ rq' = [rq EXCEPT ![v.src].lock = NoCpu]
                             \/ rq' = [rq EXCEPT ![v.src].lock = e, ![v.src].cfs_tasks = Append(Tail(q), t)]
        \/ q # <<>> /\ \E why \in {"cold", "hot", "throttled"} : can(why).ok /\ detach_task(e, x(why), t)
    <2>1. \/ \E y \in {v, w, brk} : DetachEnd(e, y) /\ UNCHANGED task
          \/ /\ UNCHANGED task
             /\ rq' = [rq EXCEPT ![v.src].lock = e, ![v.src].cfs_tasks = Append(Tail(q), t)]
          \/ q # <<>> /\ \E why \in {"cold", "hot", "throttled"} : can(why).ok /\ detach_task(e, x(why), t)
      BY Zenon DEF detach_tasks
    <2>2. w.src = v.src /\ brk.src = v.src
      BY <1>1 DEF EnvType
    <2> HIDE DEF w, brk
    <2>3. \A y \in {v, w, brk} : DetachEnd(e, y) => rq' = [rq EXCEPT ![v.src].lock = NoCpu]
      BY <2>2 DEF DetachEnd
    <2> QED BY <2>1, <2>3
  <1>3. CASE UNCHANGED task /\ rq' = [rq EXCEPT ![v.src].lock = NoCpu]
    <2>1. \A c \in Cpus : rq'[c].curr = rq[c].curr
      BY <1>1, <1>3 DEF IInv, Typed, RqType
    <2> QED BY <1>3, <2>1, QuietStep
  <1>4. CASE UNCHANGED task /\ rq' = [rq EXCEPT ![v.src].lock = e, ![v.src].cfs_tasks = Append(Tail(q), t)]
    <2> DEFINE r == [rq[v.src] EXCEPT !.lock = e, !.cfs_tasks = Append(Tail(q), t)]
    <2>1. rq \in [Cpus -> RqType] /\ r.curr = rq[v.src].curr
      BY <1>1 DEF IInv, Typed, RqType
    <2>2. rq' = [rq EXCEPT ![v.src] = r]
      BY <1>1, <1>4, <2>1
    <2> HIDE DEF r
    <2>3. \A c \in Cpus : rq'[c].curr = rq[c].curr
      BY <2>1, <2>2
    <2> QED BY <1>4, <2>3, QuietStep
  <1>5. ASSUME q # <<>>, NEW why \in {"cold", "hot", "throttled"}, can(why).ok, detach_task(e, x(why), t)
        PROVE  PlacementStep
    <2>1. t \in ToSet(q) /\ t \in Tasks
      <3>1. q \in Seq(Tasks) /\ Injective(q)
        BY <1>1 DEF IInv, Typed, RqType, QueuesExact
      <3>2. ToSet(q) \subseteq Tasks
        BY <3>1 DEF ToSet
      <3> QED BY <1>5, <3>1, <3>2, RotateFacts
    <2> HIDE DEF t, q
    <2>2. /\ can(why).flags \in SUBSET {"ALL_PINNED", "DST_PINNED", "NEED_BREAK"}
          /\ can(why).new_dst \in Cpus \cup {NoCpu}
          /\ rq[v.src].curr # t
      BY <1>1, <1>5, <2>1, CanMigrateFacts DEF IInv
    <2> HIDE DEF can
    <2>3. w \in EnvType /\ w.src = v.src
      <3> DEFINE a == [v EXCEPT !.pc = "detach"]
      <3>1. a \in EnvType
        BY <1>1, PcTyped DEF PullPcs
      <3>2. v.loop + 1 \in Nat /\ w = [a EXCEPT !.loop = v.loop + 1]
        BY <1>1 DEF EnvType
      <3>3. w.src = v.src
        BY <1>1 DEF EnvType
      <3> HIDE DEF a, w
      <3> QED BY <3>1, <3>2, <3>3, LoopTyped
    <2> HIDE DEF w
    <2>4. x(why) \in EnvType /\ x(why).src = v.src
      BY <2>2, <2>3, ZenonT(40) DEF EnvType
    <2> QED BY <1>1, <1>5, <2>1, <2>2, <2>4, DetachMoves DEF q
  <1> QED BY <1>2, <1>3, <1>4, <1>5

\* detach_one_task of active balancing takes one.
LEMMA PushMoves ==
  ASSUME IInv, NEW e \in Cpus, active_load_balance_push(e)
  PROVE  PlacementStep
  <1> DEFINE v == env[e]
  <1>1. v.pc = "stop" /\ v \in EnvType /\ StopShape(e, v) /\ rq[e].curr = Stopper
    BY StopFacts DEF active_load_balance_push
  <1>2. v.src = e
    BY <1>1 DEF StopShape
  <1>3. ASSUME NEW t \in ToSet(rq[e].cfs_tasks), detach_task(e, v, t)
        PROVE  PlacementStep
    <2>1. t \in Tasks
      BY <1>3 DEF IInv, Typed, RqType, ToSet
    <2> QED BY <1>1, <1>2, <1>3, <2>1, DetachMoves, TasksAssumption
  <1>4. CASE rq' = [rq EXCEPT ![e].active_balance = FALSE, ![e].push_cpu = NoCpu] /\ UNCHANGED task
    <2> DEFINE r == [rq[e] EXCEPT !.active_balance = FALSE, !.push_cpu = NoCpu]
    <2>1. rq \in [Cpus -> RqType] /\ r.curr = rq[e].curr
      BY DEF IInv, Typed, RqType
    <2>2. rq' = [rq EXCEPT ![e] = r]
      BY <1>4, <2>1
    <2> HIDE DEF r
    <2>3. \A c \in Cpus : rq'[c].curr = rq[c].curr
      BY <2>1, <2>2
    <2> QED BY <1>4, <2>3, QuietStep
  <1> QED BY <1>3, <1>4 DEF active_load_balance_push

\* attach_tasks puts all it holds on one CPU.
LEMMA AttachTasksMoves ==
  ASSUME IInv, NEW e \in Cpus, attach_tasks(e)
  PROVE  PlacementStep
  <1> DEFINE v == env[e]
             moved == ToSet(v.tasks)
             r == Enqueued(rq[v.dst], Reverse(v.tasks))
  <1>1. /\ v.pc = "attach_tasks"
        /\ rq' = [rq EXCEPT ![v.dst] = Enqueued(@, Reverse(v.tasks))]
        /\ task' = [t \in Tasks |-> IF t \in moved THEN [task[t] EXCEPT !.on_rq = "queued"] ELSE task[t]]
    BY DEF attach_tasks
  <1>2. task \in [Tasks -> TaskType] /\ rq \in [Cpus -> RqType]
    BY DEF IInv, Typed
  <1>3. v.dst \in Cpus
    <2>1. v.level # 0
      BY <1>1, HereFacts DEF StopShape, StopPcs, LockPcs
    <2>2. v \in EnvType /\ AtDomain(e, v) /\ Pulling(v)
      BY <1>1, <2>1, HereFacts DEF BalanceShape, PullPcs
    <2> QED BY <2>2, DomainFacts DEF Pulling
  <1>4. ASSUME NEW t \in moved
        PROVE  t \in Tasks /\ task[t].cpu = v.dst /\ \A c \in Cpus : rq[c].curr # t
    <2>1. t \in Held(e)
      BY DEF Held
    <2> QED BY <1>1, <2>1, HandFacts DEF IInv, HandsForDst
  <1> HIDE DEF moved
  <1>5. \A t \in Tasks : /\ t \in moved => task'[t].on_rq = "queued" /\ task'[t].cpu = v.dst
                         /\ t \notin moved => task'[t] = task[t]
    BY <1>1, <1>2, <1>4 DEF TaskType
  <1>6. \A c \in Cpus : rq'[c].curr = rq[c].curr
    <2>1. rq' = [rq EXCEPT ![v.dst] = r] /\ r.curr = rq[v.dst].curr
      BY <1>1, <1>2, <1>3 DEF Enqueued, RqType
    <2> HIDE DEF r
    <2> QED BY <1>2, <2>1
  <1>7. \A d \in Cpus : RunningNow'[d] = RunningNow[d]
    BY <1>4, <1>5, <1>6, RunningKept
  <1>8. \A t \in moved, d \in Cpus : RunningNow[d] # t
    BY <1>4, MappedFacts, TasksAssumption
  <1>9. \A t \in Tasks : AtNow'[t] = IF t \in moved THEN v.dst ELSE AtNow[t]
    BY <1>5, MappedFacts
  <1>10. moved \in SUBSET Tasks
    BY <1>4
  <1> QED BY <1>3, <1>7, <1>8, <1>9, <1>10, MoveStep

\* A task that no CPU has as its current one comes to the queue of c.
LEMMA ArrivalMoves ==
  ASSUME NEW t \in Tasks, NEW c \in Cpus, \A d \in Cpus : rq[d].curr # t /\ rq'[d].curr = rq[d].curr,
         task'[t].on_rq = "queued", task'[t].cpu = c, \A u \in Tasks \ {t} : task'[u] = task[u]
  PROVE  PlacementStep
  <1>1. \A d \in Cpus : RunningNow'[d] = RunningNow[d]
    BY RunningKept
  <1>2. \A u \in {t}, d \in Cpus : RunningNow[d] # u
    BY MappedFacts, TasksAssumption
  <1>3. \A u \in Tasks : AtNow'[u] = IF u \in {t} THEN c ELSE AtNow[u]
    BY MappedFacts
  <1>4. {t} \in SUBSET Tasks
    OBVIOUS
  <1> QED BY <1>1, <1>2, <1>3, <1>4, MoveStep, ZenonT(40)

\* attach_one_task puts one.
LEMMA AttachOneMoves ==
  ASSUME IInv, NEW e \in Cpus, attach_one_task(e)
  PROVE  PlacementStep
  <1> DEFINE v == env[e]
             r == Enqueued(rq[v.dst], <<v.p>>)
  <1>1. /\ v.pc = "attach_one"
        /\ task' = [task EXCEPT ![v.p].on_rq = "queued"]
        /\ rq' = [rq EXCEPT ![v.dst] = Enqueued(@, <<v.p>>)]
    BY DEF attach_one_task
  <1>2. task \in [Tasks -> TaskType] /\ rq \in [Cpus -> RqType]
    BY DEF IInv, Typed
  <1>3. v.dst \in Cpus /\ v.p \in Tasks
    BY <1>1, StopFacts, HereFacts DEF Shape
  <1>4. task[v.p].cpu = v.dst
    BY <1>1, <1>3 DEF IInv, HandsForDst
  <1>5. \A c \in Cpus : rq[c].curr # v.p
    <2>1. v.p \in Held(e)
      BY <1>3 DEF Held
    <2> QED BY <2>1, HandFacts
  <1>6. task'[v.p].on_rq = "queued" /\ task'[v.p].cpu = v.dst /\ \A u \in Tasks \ {v.p} : task'[u] = task[u]
    BY <1>1, <1>2, <1>3, <1>4 DEF TaskType
  <1>7. \A c \in Cpus : rq'[c].curr = rq[c].curr
    <2>1. rq' = [rq EXCEPT ![v.dst] = r] /\ r.curr = rq[v.dst].curr
      BY <1>1, <1>2, <1>3 DEF Enqueued, RqType
    <2> HIDE DEF r
    <2> QED BY <1>2, <2>1
  <1>8. PICK t \in Tasks, c \in Cpus : t = v.p /\ c = v.dst
    BY <1>3
  <1>9. /\ \A d \in Cpus : rq[d].curr # t /\ rq'[d].curr = rq[d].curr
        /\ task'[t].on_rq = "queued" /\ task'[t].cpu = c /\ \A u \in Tasks \ {t} : task'[u] = task[u]
    BY <1>5, <1>6, <1>7, <1>8
  <1> QED BY <1>9, ArrivalMoves

\* A sleeping task gets a place.
LEMMA WakeMoves ==
  ASSUME IInv, NEW t \in Tasks, NEW c \in Cpus, try_to_wake_up(t, c)
  PROVE  PlacementStep
  <1> DEFINE r == Enqueued(rq[c], <<t>>)
  <1>1. /\ task' = [task EXCEPT ![t].on_rq = "queued", ![t].cpu = c]
        /\ rq' = [rq EXCEPT ![c] = r]
        /\ \A d \in Cpus : rq[d].curr # t
    BY DEF try_to_wake_up
  <1>2. task \in [Tasks -> TaskType] /\ rq \in [Cpus -> RqType]
    BY DEF IInv, Typed
  <1>3. task'[t].on_rq = "queued" /\ task'[t].cpu = c /\ \A u \in Tasks \ {t} : task'[u] = task[u]
    BY <1>1, <1>2 DEF TaskType
  <1>4. r.curr = rq[c].curr
    BY <1>2 DEF Enqueued, RqType
  <1> HIDE DEF r
  <1>5. \A d \in Cpus : rq'[d].curr = rq[d].curr
    BY <1>1, <1>2, <1>4
  <1> QED BY <1>1, <1>3, <1>5, ArrivalMoves

-----------------------------------------------------------------------------
(***************************************************************************)
(* Steps by which a CPU turns to another task.                             *)
(***************************************************************************)
\* Only the current task of c changes, to one of its queue, or to none of the fair class.
LEMMA CurrSwitches ==
  ASSUME IInv, NEW c \in Cpus, UNCHANGED task, \A d \in Cpus \ {c} : rq'[d].curr = rq[d].curr,
         rq'[c].curr \in ToSet(rq[c].cfs_tasks) \cup {Idle, Stopper}
  PROVE  PlacementStep
  <1>1. \A t \in Tasks : AtNow'[t] = AtNow[t]
    BY MappedFacts
  <1>2. \A d \in Cpus \ {c} : RunningNow'[d] = RunningNow[d]
    BY MappedFacts
  <1>3. \A t \in Tasks : t \in ToSet(rq[c].cfs_tasks) => task[t].on_rq = "queued" /\ task[t].cpu = c
    BY DEF IInv, QueuesExact
  <1>4. RunningNow'[c] = Idle \/ (RunningNow'[c] \in Tasks /\ AtNow'[RunningNow'[c]] = c)
    BY <1>3, MappedFacts, TasksAssumption
  <1> QED BY <1>1, <1>2, <1>4, SwitchStep

\* What PickNext may choose.
LEMMA PickedFacts ==
  ASSUME NEW r \in RqType, NEW x \in PickNext(r)
  PROVE  x \in RqType /\ x.curr \in ToSet(r.cfs_tasks) \cup {Idle}
  <1>1. PICK u \in (IF r.cfs_tasks = <<>> THEN {Idle} ELSE ToSet(r.cfs_tasks)) : x = [r EXCEPT !.curr = u]
    BY DEF PickNext
  <1>2. u \in ToSet(r.cfs_tasks) \cup {Idle}
    BY <1>1
  <1>3. r.cfs_tasks \in Seq(Tasks) /\ ToSet(r.cfs_tasks) \subseteq Tasks
    BY DEF RqType, ToSet
  <1> QED BY <1>1, <1>2, <1>3 DEF RqType

\* A CPU runs another task.
LEMMA CurrMoves ==
  ASSUME IInv, NEW e \in Cpus,
         \/ idle_balance_end(e) \/ stopper_sleeps(e) \/ active_load_balance_cpu_stop(e)
         \/ \E t \in Tasks : schedule(e, t)
  PROVE  PlacementStep
  <1>1. rq \in [Cpus -> RqType] /\ rq[e] \in RqType
    BY DEF IInv, Typed
  <1>2. UNCHANGED task
    BY DEF idle_balance_end, stopper_sleeps, active_load_balance_cpu_stop, schedule
  <1>3. /\ \A d \in Cpus \ {e} : rq'[d].curr = rq[d].curr
        /\ rq'[e].curr \in ToSet(rq[e].cfs_tasks) \cup {Idle, Stopper}
    <2>1. CASE idle_balance_end(e)
      <3>1. PICK t \in (IF h_nr_running(e) = 0 THEN {Idle} ELSE ToSet(rq[e].cfs_tasks)) :
              rq' = [rq EXCEPT ![e].curr = t]
        BY <2>1 DEF idle_balance_end
      <3> QED BY <1>1, <3>1 DEF RqType
    <2>2. CASE stopper_sleeps(e)
      <3>1. PICK r \in PickNext(rq[e]) : rq' = [rq EXCEPT ![e] = r]
        BY <2>2 DEF stopper_sleeps
      <3> QED BY <1>1, <3>1, PickedFacts
    <2>3. CASE active_load_balance_cpu_stop(e)
      <3> DEFINE r == [rq[e] EXCEPT !.work = FALSE, !.curr = Stopper]
      <3>1. r.curr = Stopper
        BY <1>1 DEF RqType
      <3>2. rq' = [rq EXCEPT ![e] = r]
        BY <1>1, <2>3 DEF active_load_balance_cpu_stop
      <3> HIDE DEF r
      <3> QED BY <1>1, <3>1, <3>2
    <2>4. CASE \E t \in Tasks : schedule(e, t)
      <3>1. PICK t \in ToSet(rq[e].cfs_tasks) : rq' = [rq EXCEPT ![e].curr = t]
        BY <2>4 DEF schedule
      <3> QED BY <1>1, <3>1 DEF RqType
    <2> QED BY <2>1, <2>2, <2>3, <2>4
  <1> QED BY <1>2, <1>3, CurrSwitches

\* The task that CPU c runs leaves its queue, for another CPU or for none, and c runs one that
\* stays.
LEMMA LeaveSwitches ==
  ASSUME IInv, NEW c \in Cpus, NEW t \in Tasks, NEW place \in (Cpus \cup {NoCpu}) \ {c},
         rq[c].curr = t, task[t].on_rq = "queued", task[t].cpu = c,
         \A d \in Cpus \ {c} : rq'[d].curr = rq[d].curr,
         rq'[c].curr \in ((ToSet(rq[c].cfs_tasks) \ {t}) \cup {Idle})
           \/ (rq'[c].curr = t /\ place = NoCpu),
         \A u \in Tasks \ {t} : task'[u] = task[u],
         IF place = NoCpu THEN task'[t].on_rq = "no"
         ELSE task'[t].on_rq = "queued" /\ task'[t].cpu = place
  PROVE  PlacementStep
  <1>0. NoCpu \notin Cpus
    BY CpusAssumption DEF NoCpu
  <1>1. RunningNow[c] = t
    BY MappedFacts
  <1>2. \A u \in Tasks : AtNow'[u] = IF u = RunningNow[c] THEN place ELSE AtNow[u]
    BY <1>1, MappedFacts
  <1>3. \A d \in Cpus \ {c} : RunningNow'[d] = RunningNow[d]
    <2>1. \A d \in Cpus \ {c} : rq[d].curr # t
      BY CurrFacts
    <2> QED BY <2>1, MappedFacts
  <1>4. \A u \in Tasks : u \in ToSet(rq[c].cfs_tasks) => task[u].on_rq = "queued" /\ task[u].cpu = c
    BY DEF IInv, QueuesExact
  <1>5. RunningNow'[c] = Idle \/ (RunningNow'[c] \in Tasks /\ AtNow'[RunningNow'[c]] = c)
    BY <1>4, MappedFacts, TasksAssumption
  <1> QED BY <1>1, <1>2, <1>3, <1>5, SwitchStep

\* The running task sleeps.
LEMMA DeactivateMoves ==
  ASSUME IInv, NEW e \in Cpus, deactivate_task(e)
  PROVE  PlacementStep
  <1> DEFINE r == Dequeued(rq[e], rq[e].curr)
  <1>1. PICK t \in Tasks : t = rq[e].curr
    BY DEF deactivate_task
  <1>2. task[t].on_rq = "queued" /\ task[t].cpu = e
    <2>1. env[e].idle = "NOT_IDLE"
      BY RunFacts DEF deactivate_task
    <2> QED BY <1>1, <2>1, CurrFacts
  <1>3. task'[t].on_rq = "no" /\ \A u \in Tasks \ {t} : task'[u] = task[u]
    <2>1. task' = [task EXCEPT ![t].on_rq = "no"] /\ task \in [Tasks -> TaskType]
      BY <1>1 DEF deactivate_task, IInv, Typed
    <2> QED BY <2>1 DEF TaskType
  <1>4. r \in RqType /\ r.curr = t /\ ToSet(r.cfs_tasks) = ToSet(rq[e].cfs_tasks) \ {t}
    BY <1>1, <1>2, DequeueFacts
  <1>5. \E x \in PickNext(r) \cup {r} : rq' = [rq EXCEPT ![e] = x]
    BY DEF deactivate_task
  <1> HIDE DEF r
  <1>6. PICK x \in PickNext(r) \cup {r} : rq' = [rq EXCEPT ![e] = x]
    BY <1>5
  <1>7. rq' = [rq EXCEPT ![e] = x] /\ x.curr \in ToSet(r.cfs_tasks) \cup {Idle, t}
    BY <1>4, <1>6, PickedFacts
  <1>8. /\ \A d \in Cpus \ {e} : rq'[d].curr = rq[d].curr
        /\ rq'[e].curr \in ((ToSet(rq[e].cfs_tasks) \ {t}) \cup {Idle}) \/ rq'[e].curr = t
    BY <1>4, <1>7 DEF IInv, Typed
  <1>9. NoCpu \in (Cpus \cup {NoCpu}) \ {e}
    BY CpusAssumption DEF NoCpu
  <1> QED BY <1>1, <1>2, <1>3, <1>8, <1>9, LeaveSwitches

\* The migration thread moves a task that its mask no longer allows.
LEMMA MigrationMoves ==
  ASSUME IInv, NEW t \in Tasks, NEW c \in Cpus, migration_cpu_stop(t, c)
  PROVE  PlacementStep
  <1> DEFINE src == task[t].cpu
             stay == task[t].on_rq # "queued" \/ src \in task[t].cpus_allowed
             r == Dequeued(rq[src], t)
             q == Enqueued(rq[c], <<t>>)
  <1>1. task[t] \in TaskType /\ src \in Cpus /\ task \in [Tasks -> TaskType] /\ rq \in [Cpus -> RqType]
    BY DEF IInv, Typed, TaskType
  <1>2. /\ task'[t].on_rq = task[t].on_rq /\ task'[t].cpu = IF stay THEN src ELSE c
        /\ \A u \in Tasks \ {t} : task'[u] = task[u]
    <2> DEFINE to == IF stay THEN src ELSE c
               x == [task[t] EXCEPT !.moving = FALSE, !.cpu = to]
    <2>1. task' = [task EXCEPT ![t] = x]
      BY DEF migration_cpu_stop, IInv, Typed
    <2> HIDE DEF to
    <2>2. x.on_rq = task[t].on_rq /\ x.cpu = to
      BY <1>1 DEF TaskType
    <2> HIDE DEF x
    <2> QED BY <1>1, <2>1, <2>2 DEF to
  <1>3. CASE stay
    <2>1. UNCHANGED rq
      BY <1>3 DEF migration_cpu_stop
    <2> QED BY <1>2, <1>3, <2>1, QuietStep
  <1>4. CASE ~stay
    <2>1. task[t].on_rq = "queued" /\ c # src
      BY <1>4 DEF migration_cpu_stop
    <2>2. r \in RqType /\ r.curr = rq[src].curr /\ ToSet(r.cfs_tasks) = ToSet(rq[src].cfs_tasks) \ {t}
      BY <1>1, <2>1, DequeueFacts, ZenonT(40)
    <2>3. q.curr = rq[c].curr
      BY <1>1 DEF Enqueued, RqType
    <2>4. PICK x \in (IF rq[src].curr = t THEN PickNext(r) ELSE {r}) :
            rq' = [rq EXCEPT ![src] = x, ![c] = Enqueued(@, <<t>>)]
      BY <1>4 DEF migration_cpu_stop
    <2>5. rq'[src] = x /\ rq'[c] = q /\ \A d \in Cpus \ {src, c} : rq'[d] = rq[d]
      BY <1>1, <2>1, <2>4
    <2> HIDE DEF r, q
    <2>6. \A d \in Cpus \ {src} : rq'[d].curr = rq[d].curr
      BY <2>3, <2>5
    <2>7. task'[t].on_rq = "queued" /\ task'[t].cpu = c
      BY <1>2, <1>4, <2>1
    <2>8. CASE rq[src].curr = t
      <3>1. rq'[src].curr \in (ToSet(rq[src].cfs_tasks) \ {t}) \cup {Idle}
        BY <2>2, <2>4, <2>5, <2>8, PickedFacts
      <3>2. PICK s \in Cpus : s = src
        BY <1>1
      <3>3. c \in (Cpus \cup {NoCpu}) \ {s} /\ c # NoCpu
        BY <2>1, <3>2, CpusAssumption DEF NoCpu
      <3> QED BY <1>2, <2>1, <2>6, <2>7, <2>8, <3>1, <3>2, <3>3, LeaveSwitches
    <2>9. CASE rq[src].curr # t
      <3>1. rq'[src].curr = rq[src].curr
        BY <2>2, <2>4, <2>5, <2>9
      <3>2. \A d \in Cpus : rq[d].curr # t
        BY <2>1, <2>9, CurrFacts
      <3> QED BY <1>2, <2>6, <2>7, <3>1, <3>2, ArrivalMoves
    <2> QED BY <2>8, <2>9
  <1> QED BY <1>3, <1>4

-----------------------------------------------------------------------------
\* At the beginning no task is queued and every CPU is idle.
LEMMA InitMapped == Init => Abstract!Init
  <1> SUFFICES ASSUME Init PROVE Abstract!Init
    OBVIOUS
  <1>1. \A t \in Tasks : task[t].on_rq = "no"
    BY DEF Init
  <1>2. \A c \in Cpus : rq[c].curr = Idle
    BY DEF Init
  <1>3. \A t \in Tasks : AtNow[t] = NoCpu
    BY <1>1 DEF AtNow, Queued
  <1>4. AtNow \in [Tasks -> Cpus \cup {NoCpu}]
    BY <1>3 DEF AtNow
  <1>5. RunningNow = [c \in Cpus |-> Idle]
    BY <1>2 DEF RunningNow
  <1> QED BY <1>4, <1>5 DEF Abstract!Init, AtNow, RunningNow, Queued

\* Every step of the balancer is a step of Placement or none.
LEMMA NextMapped == IInv /\ [Next]_vars => PlacementStep
  <1> SUFFICES ASSUME IInv, [Next]_vars PROVE PlacementStep
    OBVIOUS
  <1>1. ASSUME NEW e \in Cpus, Step(e) PROVE PlacementStep
    BY <1>1, UnseenLocks, UnseenSetCpu, PassMoves, PushMoves, AttachTasksMoves, AttachOneMoves, CurrMoves
       DEF Step
  <1>2. ASSUME NEW e \in Cpus,
               active_load_balance_cpu_stop(e) \/ deactivate_task(e)
                 \/ (\E c \in Cpus : run_rebalance_domains(e, c)) \/ \E t \in Tasks : schedule(e, t)
        PROVE  PlacementStep
    BY <1>2, CurrMoves, DeactivateMoves, UnseenCallers
  <1>3. ASSUME NEW t \in Tasks, NEW c \in Cpus, try_to_wake_up(t, c) \/ migration_cpu_stop(t, c)
        PROVE  PlacementStep
    BY <1>3, WakeMoves, MigrationMoves
  <1>4. ASSUME NEW t \in Tasks, NEW m \in Masks, set_cpus_allowed(t, m) PROVE PlacementStep
    BY <1>4, UnseenMasks
  <1>5. CASE UNCHANGED vars
    <2>1. UNCHANGED <<task, rq>>
      BY <1>5 DEF vars
    <2> QED BY <2>1, QuietStep
  <1> QED BY <1>1, <1>2, <1>3, <1>4, <1>5 DEF Next

\* The balancer implements Placement: a task is queued on one CPU or is on its way, and no
\* CPU that pulls takes the task that another CPU runs.
THEOREM BalancerImplementsPlacement == Spec => ImplementsPlacement
  <1>1. Init => Abstract!Init
    BY InitMapped
  <1>2. IInv /\ [Next]_vars =>
          [Abstract!Next]_<<[t \in Tasks |-> IF task[t].on_rq = "queued" THEN task[t].cpu ELSE NoCpu],
                            [c \in Cpus |-> IF rq[c].curr \in Tasks /\ task[rq[c].curr].on_rq = "queued"
                                            THEN rq[c].curr ELSE Idle]>>
    BY NextMapped DEF PlacementStep, AtNow, RunningNow, Queued
  <1> QED BY <1>1, <1>2, LoadBalanceInvariant, PTL DEF Spec, ImplementsPlacement, Abstract!Spec
=============================================================================
