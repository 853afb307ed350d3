-------------------------- MODULE LoadBalanceProofs --------------------------
(***************************************************************************)
(* Load balancing for every set of CPUs, every set of tasks and every      *)
(* domain hierarchy.                                                       *)
(***************************************************************************)
EXTENDS LoadBalance, ListLemmas

-----------------------------------------------------------------------------
(***************************************************************************)
(* The inductive invariant.                                                *)
(***************************************************************************)
\* Where a CPU waits for the second lock, or has both.
LockPcs == {"trylock", "lock_first", "lock_second", "lock_dst", "set_task_cpu"}

\* Where load_balance has no busiest queue in its lb_env, and where it has one.
CallerPcs == {"domain", "idle_end"}
ActivePcs == {"active", "stop_one_cpu"}
PullPcs   == {"more_balance", "detach", "attach_tasks"} \cup LockPcs
StopPcs   == {"stop", "attach_one", "stop_done"} \cup LockPcs

EnvType ==
  [pc : {"run", "redo"} \cup CallerPcs \cup ActivePcs \cup PullPcs \cup StopPcs,
   cpu : Cpus \cup {NoCpu}, level : Nat, idle : {"NOT_IDLE", "IDLE", "NEWLY_IDLE"},
   continue_balancing : BOOLEAN, cpus : SUBSET Cpus, src : Cpus \cup {NoCpu},
   dst : Cpus \cup {NoCpu}, new_dst : Cpus \cup {NoCpu}, imbalance : Int,
   flags : SUBSET {"ALL_PINNED", "DST_PINNED", "NEED_BREAK"},
   loop : Nat, loop_break : Nat, loop_max : Nat, p : Tasks \cup {Idle}, tasks : Seq(Tasks),
   ld_moved : BOOLEAN]

RqType ==
  [lock : Cpus \cup {NoCpu}, cfs_tasks : Seq(Tasks), curr : Tasks \cup {Idle, Stopper},
   active_balance : BOOLEAN, push_cpu : Cpus \cup {NoCpu}, work : BOOLEAN]

TaskType ==
  [on_rq : {"no", "queued", "migrating"}, cpu : Cpus, cpus_allowed : Masks, moving : BOOLEAN]

Typed ==
  /\ task \in [Tasks -> TaskType]
  /\ rq \in [Cpus -> RqType]
  /\ env \in [Cpus -> EnvType]
  /\ affine \in 0 .. MaxAffine

\* The stopper of CPU e pushes to another CPU.
StopShape(e, v) ==
  /\ v.pc \in StopPcs
  /\ v.src = e /\ v.dst \in Cpus \ {e}
  /\ v.tasks = <<>> /\ v.flags = {} /\ v.idle = "IDLE"
  /\ v.loop = 0

\* A balancer is at a domain of the CPU it balances for; idle_balance balances for its own.
AtDomain(e, v) ==
  /\ v.cpu \in Cpus /\ v.level \in DOMAIN Domains[v.cpu]
  /\ v.idle = "NEWLY_IDLE" => v.cpu = e

\* It pulls to the local group of the domain and from outside of it.
Pulling(v) ==
  /\ v.src \in Cpus \ sd(v).group /\ v.dst \in sd(v).group
  /\ v.loop <= v.loop_max + 1
  /\ "NEED_BREAK" \in v.flags => v.loop <= v.loop_max
  /\ "DST_PINNED" \in v.flags => v.new_dst \in (sd(v).group \cap v.cpus) \ {v.dst}

BalanceShape(e, v) ==
  /\ v.pc \in {"redo"} \cup CallerPcs \cup ActivePcs \cup PullPcs
  /\ AtDomain(e, v)
  /\ v.pc \in CallerPcs => v.src = NoCpu /\ v.flags = {} /\ v.loop = 0
  /\ v.pc \in ActivePcs =>
       v.src \in Cpus \ sd(v).group /\ v.dst = NoCpu /\ v.flags = {} /\ v.loop = 0
  /\ v.pc \in PullPcs => Pulling(v) /\ (v.loop <= v.loop_max \/ v.pc = "attach_tasks")
  /\ v.pc = "redo" =>
       /\ v.src \notin sd(v).group /\ v.dst \in sd(v).group /\ v.loop = 0
       /\ "DST_PINNED" \in v.flags => v.new_dst \in (sd(v).group \cap v.cpus) \ {v.dst}
  /\ v.tasks # <<>> => v.pc \in {"detach", "attach_tasks"} \cup LockPcs
  /\ "NEED_BREAK" \in v.flags => v.pc = "attach_tasks"

Shape(e, v) ==
  /\ v.pc = "run" => v = NoEnv
  /\ v.pc # "run" => IF v.level = 0 THEN StopShape(e, v) ELSE BalanceShape(e, v)
  /\ v.p \in Tasks <=> v.pc \in LockPcs \cup {"attach_one"}
  /\ v.pc = "lock_dst" => v.src < v.dst

\* The runqueue locks that a CPU holds between its steps.
Locks(v) ==
  CASE v.pc \in {"detach", "trylock", "lock_dst"} -> {v.src}
    [] v.pc = "lock_second"                       -> {Lower(v)}
    [] v.pc = "set_task_cpu"                      -> {v.src, v.dst}
    [] OTHER                                      -> {}

LocksHeld == \A c, e \in Cpus : rq[c].lock = e <=> c \in Locks(env[e])

\* cfs_tasks holds each queued task of the CPU once.
QueuesExact ==
  \A c \in Cpus : /\ \A t \in Tasks : t \in ToSet(rq[c].cfs_tasks) <=>
                                        task[t].on_rq = "queued" /\ task[t].cpu = c
                  /\ Injective(rq[c].cfs_tasks)

\* A task is in one hand exactly while it migrates, and once in env->tasks.
HandsExact ==
  /\ \A t \in Tasks : task[t].on_rq = "migrating" <=> \E e \in Cpus : t \in Held(e)
  /\ \A t \in Tasks, d, e \in Cpus : t \in Held(d) /\ t \in Held(e) => d = e
  /\ \A e \in Cpus : env[e].p \notin ToSet(env[e].tasks) /\ Injective(env[e].tasks)

\* What is in hand may run on dst, and belongs to it once set_task_cpu has been done.
HandsForDst ==
  \A e \in Cpus :
    /\ \A t \in Held(e) : env[e].dst \in task[t].cpus_allowed
    /\ \A t \in ToSet(env[e].tasks) : task[t].cpu = env[e].dst
    /\ env[e].pc = "attach_one" => task[env[e].p].cpu = env[e].dst

\* A CPU runs a task of its queue, its stopper, or what has just gone to sleep on it
\* and is still curr while idle_balance looks for work.
CurrQueued ==
  \A c \in Cpus :
    /\ rq[c].curr = Stopper <=> InStopper(c)
    /\ rq[c].curr \in Tasks =>
         \/ task[rq[c].curr].on_rq = "queued" /\ task[rq[c].curr].cpu = c
         \/ task[rq[c].curr].on_rq = "no" /\ env[c].idle = "NEWLY_IDLE"

Kicks(e, c) == env[e].pc = "stop_one_cpu" /\ env[e].src = c
Stops(c) == InStopper(c) /\ env[c].pc \notin {"attach_one", "stop_done"}

\* active_balance belongs to one CPU that is about to queue the work, to the queued
\* work, or to the stopper.
ActiveOwned ==
  \A c \in Cpus :
    /\ rq[c].active_balance <=> rq[c].work \/ Stops(c) \/ \E e \in Cpus : Kicks(e, c)
    /\ ~(rq[c].work /\ Stops(c))
    /\ \A e \in Cpus : Kicks(e, c) => ~rq[c].work /\ ~Stops(c)
    /\ \A d, e \in Cpus : Kicks(d, c) /\ Kicks(e, c) => d = e

PushElsewhere == \A c \in Cpus : rq[c].active_balance => rq[c].push_cpu \in Cpus \ {c}

IInv ==
  /\ Typed
  /\ \A e \in Cpus : Shape(e, env[e])
  /\ LocksHeld
  /\ QueuesExact /\ HandsExact /\ HandsForDst
  /\ AffinityKept
  /\ CurrQueued
  /\ ActiveOwned /\ PushElsewhere

-----------------------------------------------------------------------------
(***************************************************************************)
(* The lb_env stays in shape.                                              *)
(***************************************************************************)
\* What load_balance has left when it holds no task and no lock.
EmptyHanded(v, w) ==
  /\ w.tasks = <<>> /\ w.p = Idle
  /\ w.level # 0 \/ w.pc = "run"
  /\ v.idle = "NEWLY_IDLE" => w.idle = "NEWLY_IDLE"

\* The sched_domain a pass stands at exists, and there is one above it unless it is the last.
LEMMA DomainFacts ==
  ASSUME NEW e \in Cpus, NEW v \in EnvType, AtDomain(e, v)
  PROVE  /\ v.level # 0 /\ v.level \in 1 .. Len(Domains[v.cpu])
         /\ v.cpu \in sd(v).group /\ sd(v).group \subseteq Cpus /\ sd(v).span \subseteq Cpus
         /\ v.level # Len(Domains[v.cpu]) => v.level + 1 \in DOMAIN Domains[v.cpu]
  <1> DEFINE D == Domains[v.cpu]
             Domain == [group : SUBSET Cpus, span : SUBSET Cpus, newidle : BOOLEAN]
  <1>1. v.cpu \in Cpus /\ v.level \in DOMAIN D
    BY DEF AtDomain
  <1>2. D \in Seq(Domain) /\ v.cpu \in D[v.level].group
    BY <1>1, DomainsAssumption
  <1> HIDE DEF D, Domain
  <1>3. v.level \in 1 .. Len(D) /\ D[v.level] \in Domain /\ Len(D) \in Nat
    BY <1>1, <1>2
  <1>4. v.level # Len(D) => v.level + 1 \in DOMAIN D
    BY <1>2, <1>3
  <1>5. sd(v) = D[v.level]
    BY DEF sd, D
  <1> QED BY <1>2, <1>3, <1>4, <1>5 DEF D, Domain

\* An idle CPU's environment.
LEMMA NoEnvShape ==
  ASSUME NEW e \in Cpus
  PROVE  NoEnv \in EnvType /\ Shape(e, NoEnv)
  BY TasksAssumption, EmptyFacts DEF NoEnv, EnvType, Shape, LockPcs, NoCpu

\* idle_balance on its way out of the for_each_domain loop.
LEMMA IdleEndShape ==
  ASSUME NEW e \in Cpus, NEW v \in EnvType, AtDomain(e, v)
  PROVE  /\ IdleEnd(v) \in EnvType /\ Shape(e, IdleEnd(v)) /\ EmptyHanded(v, IdleEnd(v))
         /\ IdleEnd(v).pc = "idle_end"
  <1> DEFINE w == IdleEnd(v)
  <1>1. w \in EnvType
    BY NoEnvShape DEF EnvType, IdleEnd, CallerPcs
  <1>2. /\ w.pc = "idle_end" /\ w.cpu = v.cpu /\ w.level = v.level /\ w.idle = v.idle
        /\ w.src = NoCpu /\ w.flags = {} /\ w.loop = 0 /\ w.p = Idle /\ w.tasks = <<>>
    BY DEF IdleEnd, NoEnv
  <1> HIDE DEF w
  <1>3. AtDomain(e, w) /\ w.level # 0
    BY <1>2, DomainFacts DEF AtDomain
  <1>4. Shape(e, w)
    BY <1>2, <1>3, TasksAssumption
       DEF Shape, BalanceShape, LockPcs, ActivePcs, PullPcs, CallerPcs
  <1>5. EmptyHanded(v, w)
    BY <1>2, <1>3 DEF EmptyHanded
  <1> QED BY <1>1, <1>2, <1>4, <1>5 DEF w

\* for_each_domain goes on or ends, empty-handed.
LEMMA NextDomainShape ==
  ASSUME NEW e \in Cpus, NEW v \in EnvType, AtDomain(e, v)
  PROVE  /\ NextDomain(v) \in EnvType /\ Shape(e, NextDomain(v)) /\ EmptyHanded(v, NextDomain(v))
         /\ NextDomain(v).pc \in {"run"} \cup CallerPcs
  <1> DEFINE w == [NoEnv EXCEPT !.pc = "domain", !.cpu = v.cpu, !.level = v.level + 1, !.idle = v.idle,
                                !.ld_moved = v.ld_moved]
  <1>1. CASE v.level # Len(Domains[v.cpu])
    <2>1. v.level + 1 \in DOMAIN Domains[v.cpu] /\ v.level + 1 # 0 /\ v.level + 1 \in Nat
      BY <1>1, DomainFacts DEF EnvType
    <2>2. w \in EnvType
      BY <2>1, NoEnvShape, ZenonT(40) DEF EnvType, CallerPcs
    <2>3. /\ w.pc = "domain" /\ w.cpu = v.cpu /\ w.level = v.level + 1 /\ w.idle = v.idle
          /\ w.src = NoCpu /\ w.flags = {} /\ w.loop = 0 /\ w.p = Idle /\ w.tasks = <<>>
      BY DEF NoEnv
    <2>4. NextDomain(v) \in {w, IdleEnd(v), NoEnv} /\ (v.idle = "NEWLY_IDLE" => NextDomain(v) # NoEnv)
      <3>1. w # NoEnv /\ IdleEnd(v) # NoEnv
        <4>1. NoEnv.pc = "run"
          BY DEF NoEnv
        <4>2. w.pc = "domain" /\ IdleEnd(v).pc = "idle_end"
          BY <2>3, IdleEndShape
        <4> HIDE DEF w
        <4> QED BY <4>1, <4>2
      <3> QED BY <1>1, <3>1 DEF NextDomain
    <2> HIDE DEF w
    <2>5. AtDomain(e, w)
      BY <2>1, <2>3 DEF AtDomain
    <2>6. Shape(e, w)
      BY <2>1, <2>3, <2>5, TasksAssumption
         DEF Shape, BalanceShape, LockPcs, ActivePcs, PullPcs, CallerPcs
    <2>7. EmptyHanded(v, w)
      BY <2>1, <2>3 DEF EmptyHanded
    <2>8. v.idle # "NEWLY_IDLE" => EmptyHanded(v, NoEnv)
      BY DEF EmptyHanded, NoEnv
    <2>9. NoEnv.pc = "run"
      BY DEF NoEnv
    <2> QED BY <2>2, <2>3, <2>4, <2>6, <2>7, <2>8, <2>9, IdleEndShape, NoEnvShape DEF CallerPcs
  <1>2. CASE v.level = Len(Domains[v.cpu])
    BY <1>2, IdleEndShape, NoEnvShape DEF NextDomain, EmptyHanded, NoEnv, CallerPcs
  <1> QED BY <1>1, <1>2

\* load_balance returns to its caller, empty-handed.
LEMMA ReturnShape ==
  ASSUME NEW e \in Cpus, NEW v \in EnvType, AtDomain(e, v), NEW moved \in BOOLEAN
  PROVE  /\ Return(v, moved) \in EnvType /\ Shape(e, Return(v, moved)) /\ EmptyHanded(v, Return(v, moved))
         /\ Return(v, moved).pc \in {"run"} \cup CallerPcs
  <1> DEFINE w == [v EXCEPT !.ld_moved = moved]
  <1>1. w \in EnvType /\ AtDomain(e, w) /\ w.idle = v.idle
    BY DEF EnvType, AtDomain
  <1>2. Return(v, moved) \in {IdleEnd(v), NextDomain(w)}
    BY DEF Return
  <1> HIDE DEF w
  <1>3. EmptyHanded(w, NextDomain(w)) => EmptyHanded(v, NextDomain(w))
    BY <1>1 DEF EmptyHanded
  <1> QED BY <1>1, <1>2, <1>3, IdleEndShape, NextDomainShape DEF CallerPcs

\* The environment keeps its type when one field is assigned: env->imbalance ...
LEMMA ImbalanceTyped ==
  ASSUME NEW v \in EnvType, NEW i \in Int
  PROVE  [v EXCEPT !.imbalance = i] \in EnvType
  BY DEF EnvType

\* ... continue_balancing ...
LEMMA ContinueTyped ==
  ASSUME NEW v \in EnvType, NEW b \in BOOLEAN
  PROVE  [v EXCEPT !.continue_balancing = b] \in EnvType
  BY DEF EnvType

\* ... the place in the code ...
LEMMA PcTyped ==
  ASSUME NEW v \in EnvType, NEW pc \in {"run", "redo"} \cup CallerPcs \cup ActivePcs \cup PullPcs \cup StopPcs
  PROVE  [v EXCEPT !.pc = pc] \in EnvType
  BY SMTT(30) DEF EnvType

\* ... env->loop and env->loop_break ...
LEMMA LoopTyped ==
  ASSUME NEW v \in EnvType, NEW n \in Nat
  PROVE  [v EXCEPT !.loop = n] \in EnvType /\ [v EXCEPT !.loop_break = n] \in EnvType
  BY SMTT(30) DEF EnvType

\* ... the tasks in hand ...
LEMMA HandTyped ==
  ASSUME NEW v \in EnvType, NEW t \in Tasks \cup {Idle}, NEW s \in Seq(Tasks)
  PROVE  [v EXCEPT !.p = t] \in EnvType /\ [v EXCEPT !.tasks = s] \in EnvType
  <1>1. [v EXCEPT !.p = t] \in EnvType
    BY DEF EnvType
  <1>2. [v EXCEPT !.tasks = s] \in EnvType
    BY DEF EnvType
  <1> QED BY <1>1, <1>2

\* ... and env->flags.
LEMMA FlagsTyped ==
  ASSUME NEW v \in EnvType, NEW f \in SUBSET {"ALL_PINNED", "DST_PINNED", "NEED_BREAK"}
  PROVE  [v EXCEPT !.flags = f] \in EnvType
  BY DEF EnvType

\* Fresh is reached from a domain.
LEMMA FreshShape ==
  ASSUME NEW e \in Cpus, NEW v \in EnvType, AtDomain(e, v), v.p = Idle
  PROVE  /\ Fresh(v) \in EnvType /\ Shape(e, Fresh(v)) /\ EmptyHanded(v, Fresh(v))
         /\ Fresh(v).pc = "redo"
  <1> DEFINE w == Fresh(v)
  <1>1. w \in EnvType
    <2>1. NrMigrateBreak \in Nat /\ <<>> \in Seq(Tasks) /\ Cpus \in SUBSET Cpus /\ v.cpu \in Cpus
      BY NumbersAssumption, EmptyFacts DEF AtDomain
    <2> DEFINE a == [v EXCEPT !.pc = "redo", !.cpus = Cpus, !.dst = v.cpu, !.src = NoCpu, !.new_dst = NoCpu]
               b == [a EXCEPT !.imbalance = 0]
               f == [b EXCEPT !.flags = {}]
               d == [f EXCEPT !.loop = 0, !.loop_break = NrMigrateBreak, !.loop_max = 0]
    <2>2. w = [d EXCEPT !.tasks = <<>>, !.ld_moved = FALSE]
      BY DEF Fresh
    <2>3. a \in EnvType
      BY <2>1 DEF EnvType
    <2> HIDE DEF a, w
    <2>4. b \in EnvType
      BY <2>3, ImbalanceTyped
    <2> HIDE DEF b
    <2>5. f \in EnvType
      BY <2>4, FlagsTyped
    <2> HIDE DEF f
    <2>6. d \in EnvType
      BY <2>1, <2>5, ZenonT(40) DEF EnvType
    <2> HIDE DEF d
    <2> QED BY <2>1, <2>2, <2>6 DEF EnvType
  <1>2. /\ w.pc = "redo" /\ w.cpu = v.cpu /\ w.level = v.level /\ w.idle = v.idle
        /\ w.src = NoCpu /\ w.dst = v.cpu /\ w.flags = {} /\ w.loop = 0 /\ w.p = Idle /\ w.tasks = <<>>
    BY DEF Fresh, EnvType
  <1> HIDE DEF w
  <1>3. AtDomain(e, w) /\ w.level # 0 /\ sd(w) = sd(v)
    BY <1>2, DomainFacts DEF AtDomain, sd
  <1>4. w.dst \in sd(w).group /\ w.src \notin sd(w).group
    BY <1>2, <1>3, DomainFacts, CpusAssumption DEF NoCpu
  <1>5. Shape(e, w)
    BY <1>2, <1>3, <1>4, TasksAssumption
       DEF Shape, BalanceShape, LockPcs, ActivePcs, PullPcs, CallerPcs
  <1>6. EmptyHanded(v, w)
    BY <1>2, <1>3 DEF EmptyHanded
  <1> QED BY <1>1, <1>2, <1>5, <1>6 DEF w

\* need_active_balance: back to the caller, or on to active balancing.
LEMMA NeedActiveShape ==
  ASSUME NEW e \in Cpus, NEW v \in EnvType, AtDomain(e, v), v.src \in Cpus \ sd(v).group,
         NEW x \in need_active_balance(v)
  PROVE  /\ x \in EnvType /\ Shape(e, x) /\ EmptyHanded(v, x)
         /\ x.pc \in {"run", "active"} \cup CallerPcs
  <1> DEFINE w == [NoEnv EXCEPT !.pc = "active", !.cpu = v.cpu, !.level = v.level, !.idle = v.idle,
                                !.src = v.src]
  <1>1. CASE x = Return(v, FALSE)
    BY <1>1, ReturnShape
  <1>2. CASE x = w
    <2>1. w \in EnvType
      BY NoEnvShape DEF EnvType, ActivePcs
    <2>2. /\ w.pc = "active" /\ w.cpu = v.cpu /\ w.level = v.level /\ w.idle = v.idle
          /\ w.src = v.src /\ w.dst = NoCpu /\ w.flags = {} /\ w.loop = 0 /\ w.p = Idle /\ w.tasks = <<>>
      BY DEF NoEnv
    <2> HIDE DEF w
    <2>3. AtDomain(e, w) /\ w.level # 0 /\ sd(w) = sd(v)
      BY <2>2, DomainFacts DEF AtDomain, sd
    <2>4. Shape(e, w)
      BY <2>2, <2>3, TasksAssumption
         DEF Shape, BalanceShape, LockPcs, ActivePcs, PullPcs, CallerPcs
    <2>5. EmptyHanded(v, w)
      BY <2>2, <2>3 DEF EmptyHanded
    <2> QED BY <1>2, <2>1, <2>2, <2>4, <2>5
  <1> QED BY <1>1, <1>2 DEF need_active_balance

\* What may follow a pass over a queue.
LEMMA DecideShape ==
  ASSUME NEW e \in Cpus, NEW v \in EnvType, AtDomain(e, v), Pulling(v), v.tasks = <<>>, v.p = Idle,
         NEW x \in Decide(v)
  PROVE  /\ x \in EnvType /\ Shape(e, x) /\ EmptyHanded(v, x)
         /\ x.pc \in {"run", "redo", "more_balance", "active"} \cup CallerPcs
  <1>0. v.level # 0 /\ v.imbalance \in Int /\ v.src # NoCpu /\ v.src \notin sd(v).group
    BY DomainFacts, CpusAssumption DEF EnvType, Pulling, NoCpu
  <1>1. CASE "NEED_BREAK" \in v.flags
    <2> DEFINE w == [v EXCEPT !.pc = "more_balance", !.flags = @ \ {"NEED_BREAK"}]
    <2>1. w \in EnvType
      BY DEF EnvType, PullPcs
    <2>2. /\ w.pc = "more_balance" /\ w.flags = v.flags \ {"NEED_BREAK"}
          /\ w.cpu = v.cpu /\ w.level = v.level /\ w.idle = v.idle /\ w.p = v.p /\ w.tasks = v.tasks
          /\ w.src = v.src /\ w.dst = v.dst /\ w.new_dst = v.new_dst /\ w.cpus = v.cpus
          /\ w.loop = v.loop /\ w.loop_max = v.loop_max
      BY DEF EnvType
    <2> HIDE DEF w
    <2>3. AtDomain(e, w) /\ sd(w) = sd(v)
      BY <2>2 DEF AtDomain, sd
    <2>4. Pulling(w) /\ w.loop <= w.loop_max
      BY <1>1, <2>2, <2>3 DEF Pulling
    <2>5. Shape(e, w) /\ EmptyHanded(v, w)
      BY <1>0, <2>2, <2>3, <2>4, TasksAssumption
         DEF Shape, BalanceShape, LockPcs, ActivePcs, PullPcs, CallerPcs, EmptyHanded
    <2>6. x = w
      BY <1>1 DEF Decide, w
    <2> QED BY <2>1, <2>2, <2>5, <2>6
  <1>2. CASE "NEED_BREAK" \notin v.flags /\ "DST_PINNED" \in v.flags /\ v.imbalance > 0
    <2> DEFINE w == NewDst(v)
    <2>1. w \in EnvType
      BY <1>2, NumbersAssumption, ZenonT(40) DEF NewDst, EnvType, PullPcs, Pulling
    <2>2. /\ w.pc = "more_balance" /\ w.flags = v.flags \ {"DST_PINNED"}
          /\ w.cpu = v.cpu /\ w.level = v.level /\ w.idle = v.idle /\ w.p = v.p /\ w.tasks = v.tasks
          /\ w.src = v.src /\ w.dst = v.new_dst /\ w.loop = 0 /\ w.loop_max \in Nat
      BY DEF NewDst, EnvType
    <2> HIDE DEF w
    <2>3. AtDomain(e, w) /\ sd(w) = sd(v)
      BY <2>2 DEF AtDomain, sd
    <2>4. Pulling(w) /\ w.loop <= w.loop_max
      BY <1>2, <2>2, <2>3 DEF Pulling
    <2>5. Shape(e, w) /\ EmptyHanded(v, w)
      BY <1>0, <1>2, <2>2, <2>3, <2>4, TasksAssumption
         DEF Shape, BalanceShape, LockPcs, ActivePcs, PullPcs, CallerPcs, EmptyHanded
    <2>6. x = w
      BY <1>2 DEF Decide, w
    <2> QED BY <2>1, <2>2, <2>5, <2>6
  <1>3. CASE /\ "NEED_BREAK" \notin v.flags /\ ~("DST_PINNED" \in v.flags /\ v.imbalance > 0)
             /\ "ALL_PINNED" \in v.flags
    <2> DEFINE w == [v EXCEPT !.pc = "redo", !.cpus = @ \ {v.src}, !.loop = 0,
                              !.loop_break = NrMigrateBreak]
    <2>1. w \in EnvType
      BY NumbersAssumption, ZenonT(40) DEF EnvType
    <2>2. /\ w.pc = "redo" /\ w.flags = v.flags /\ w.cpus = v.cpus \ {v.src}
          /\ w.cpu = v.cpu /\ w.level = v.level /\ w.idle = v.idle /\ w.p = v.p /\ w.tasks = v.tasks
          /\ w.src = v.src /\ w.dst = v.dst /\ w.new_dst = v.new_dst /\ w.loop = 0
      BY DEF EnvType
    <2> HIDE DEF w
    <2>3. AtDomain(e, w) /\ sd(w) = sd(v)
      BY <2>2 DEF AtDomain, sd
    <2>4. "DST_PINNED" \in w.flags => w.new_dst \in (sd(w).group \cap w.cpus) \ {w.dst}
      BY <1>0, <2>2, <2>3 DEF Pulling
    <2>5. Shape(e, w) /\ EmptyHanded(v, w)
      BY <1>0, <1>3, <2>2, <2>3, <2>4, TasksAssumption
         DEF Shape, BalanceShape, LockPcs, ActivePcs, PullPcs, CallerPcs, EmptyHanded, Pulling
    <2>6. x \in {w, Return(v, FALSE)}
      BY <1>3 DEF Decide, w
    <2> QED BY <2>1, <2>2, <2>5, <2>6, ReturnShape
  <1>4. CASE /\ "NEED_BREAK" \notin v.flags /\ ~("DST_PINNED" \in v.flags /\ v.imbalance > 0)
             /\ "ALL_PINNED" \notin v.flags
    <2>1. x = Return(v, TRUE) \/ x \in need_active_balance(v)
      BY <1>4 DEF Decide
    <2> QED BY <2>1, ReturnShape, NeedActiveShape DEF Pulling
  <1> QED BY <1>1, <1>2, <1>3, <1>4

-----------------------------------------------------------------------------
(***************************************************************************)
(* What a step leaves alone.                                               *)
(***************************************************************************)
AtStop(v) == v.pc # "run" /\ v.level = 0
Stopping(v) == AtStop(v) /\ v.pc \notin {"attach_one", "stop_done"}

\* The same tasks in hand, for the same dst.
SameHand(v, w) ==
  /\ w.tasks = v.tasks /\ w.p = v.p
  /\ w.dst = v.dst \/ (v.tasks = <<>> /\ v.p = Idle)
  /\ w.pc = "attach_one" <=> v.pc = "attach_one"

\* The stopper, and idle_balance, go on.
SameCurr(v, w) ==
  /\ AtStop(w) <=> AtStop(v)
  /\ v.idle = "NEWLY_IDLE" => w.idle = "NEWLY_IDLE"

\* The same part in an active balancing.
SameKick(v, w) ==
  /\ Stopping(w) <=> Stopping(v)
  /\ w.pc = "stop_one_cpu" <=> v.pc = "stop_one_cpu"
  /\ w.pc = "stop_one_cpu" => w.src = v.src

\* A step of CPU e from v to w that takes and releases locks for itself only.
LockStep(e, v, w) ==
  \A c \in Cpus :
    \/ rq'[c].lock = rq[c].lock /\ (c \in Locks(w) <=> c \in Locks(v))
    \/ rq[c].lock \in {NoCpu, e} /\ rq'[c].lock = IF c \in Locks(w) THEN e ELSE NoCpu

\* Any other CPU is where it was.
LEMMA BecomesFacts ==
  ASSUME Typed, NEW e \in Cpus, NEW w, Becomes(e, w)
  PROVE  /\ env'[e] = w
         /\ \A f \in Cpus \ {e} : env'[f] = env[f]
         /\ w \in EnvType => env' \in [Cpus -> EnvType]
         /\ DOMAIN env' = Cpus
  BY DEF Typed, Becomes

\* A step that takes or drops only what its CPU's environment says keeps the locks exact.
LEMMA LocksKept ==
  ASSUME Typed, LocksHeld, NEW e \in Cpus, NEW w, Becomes(e, w), LockStep(e, env[e], w)
  PROVE  LocksHeld'
  <1>1. env'[e] = w /\ \A f \in Cpus \ {e} : env'[f] = env[f]
    BY BecomesFacts
  <1>2. ASSUME NEW c \in Cpus, NEW f \in Cpus
        PROVE  rq'[c].lock = f <=> c \in Locks(env'[f])
    <2>1. e # NoCpu /\ f # NoCpu
      BY CpusAssumption DEF NoCpu
    <2>2. rq[c].lock = f <=> c \in Locks(env[f])
      BY DEF LocksHeld
    <2>3. rq[c].lock = e <=> c \in Locks(env[e])
      BY DEF LocksHeld
    <2>4. CASE f = e
      BY <1>1, <2>1, <2>3, <2>4 DEF LockStep
    <2>5. CASE f # e
      BY <1>1, <2>1, <2>2, <2>5 DEF LockStep
    <2> QED BY <2>4, <2>5
  <1> QED BY <1>2 DEF LocksHeld

\* cfs_tasks may be reordered; as long as the same tasks are on it the queues stay exact.
LEMMA QueuesKept ==
  ASSUME QueuesExact,
         \A t \in Tasks : task'[t].on_rq = task[t].on_rq /\ task'[t].cpu = task[t].cpu,
         \A c \in Cpus : /\ ToSet(rq'[c].cfs_tasks) = ToSet(rq[c].cfs_tasks)
                         /\ Injective(rq'[c].cfs_tasks)
  PROVE  QueuesExact'
  BY DEF QueuesExact

\* Nobody's hands change, and no task in hand does.
LEMMA HandsKept ==
  ASSUME Typed, HandsExact, HandsForDst,
         \A e \in Cpus : Shape(e, env[e]) /\ SameHand(env[e], env'[e]),
         \A t \in Tasks : /\ task'[t].on_rq = "migrating" <=> task[t].on_rq = "migrating"
                          /\ task[t].on_rq = "migrating" => /\ task'[t].cpu = task[t].cpu
                                                            /\ task'[t].cpus_allowed = task[t].cpus_allowed
  PROVE  HandsExact' /\ HandsForDst'
  <1>1. \A e \in Cpus : Held(e)' = Held(e)
    BY DEF SameHand, Held
  <1>2. HandsExact'
    BY <1>1 DEF HandsExact, SameHand
  <1>3. \A e \in Cpus : \A t \in Held(e) : t \in Tasks /\ task[t].on_rq = "migrating"
    BY DEF HandsExact, Held, Typed, EnvType, ToSet
  <1>4. ASSUME NEW e \in Cpus
        PROVE  /\ \A t \in Held(e)' : env'[e].dst \in task'[t].cpus_allowed
               /\ \A t \in ToSet(env'[e].tasks) : task'[t].cpu = env'[e].dst
               /\ env'[e].pc = "attach_one" => task'[env'[e].p].cpu = env'[e].dst
    <2>1. SameHand(env[e], env'[e])
      OBVIOUS
    <2>2. \A t \in Held(e) : env'[e].dst = env[e].dst
      BY <2>1, TasksAssumption, EmptyFacts DEF SameHand, Held
    <2>3. \A t \in Held(e) : env[e].dst \in task[t].cpus_allowed /\ task'[t].cpus_allowed = task[t].cpus_allowed
      BY <1>3 DEF HandsForDst
    <2>4. \A t \in ToSet(env[e].tasks) : t \in Held(e) /\ task[t].cpu = env[e].dst /\ task'[t].cpu = task[t].cpu
      BY <1>3 DEF HandsForDst, Held
    <2>5. ASSUME env'[e].pc = "attach_one" PROVE task'[env'[e].p].cpu = env'[e].dst
      <3>1. env[e].pc = "attach_one" /\ env'[e].p = env[e].p /\ task[env[e].p].cpu = env[e].dst
        BY <2>1, <2>5 DEF SameHand, HandsForDst
      <3>2. env[e].p \in Tasks
        BY <3>1 DEF Shape
      <3>3. env[e].p \in Held(e)
        BY <3>2 DEF Held
      <3> QED BY <1>3, <2>2, <3>1, <3>3
    <2> QED BY <1>1, <2>1, <2>2, <2>3, <2>4, <2>5 DEF SameHand
  <1>5. HandsForDst'
    BY <1>4 DEF HandsForDst
  <1> QED BY <1>2, <1>5

\* No running task leaves its queue.
LEMMA CurrKept ==
  ASSUME CurrQueued,
         \A c \in Cpus : SameCurr(env[c], env'[c]) /\ rq'[c].curr = rq[c].curr,
         \A t \in Tasks : (\E c \in Cpus : rq[c].curr = t) =>
           task'[t].on_rq = task[t].on_rq /\ task'[t].cpu = task[t].cpu
  PROVE  CurrQueued'
  BY DEF CurrQueued, SameCurr, InStopper, AtStop

\* No request for active balancing is made, taken or dropped.
LEMMA ActiveKept ==
  ASSUME ActiveOwned, PushElsewhere,
         \A c \in Cpus : /\ SameKick(env[c], env'[c])
                         /\ rq'[c].active_balance = rq[c].active_balance
                         /\ rq'[c].work = rq[c].work /\ rq'[c].push_cpu = rq[c].push_cpu
  PROVE  ActiveOwned' /\ PushElsewhere'
  <1>1. \A c, e \in Cpus : Kicks(e, c)' <=> Kicks(e, c)
    BY DEF Kicks, SameKick
  <1>2. \A c \in Cpus : Stops(c)' <=> Stops(c)
    BY DEF Stops, InStopper, SameKick, Stopping, AtStop
  <1> QED BY <1>1, <1>2 DEF ActiveOwned, PushElsewhere

-----------------------------------------------------------------------------
(***************************************************************************)
(* Steps that move no task and no part of an active balancing.             *)
(***************************************************************************)
LEMMA HereFacts ==
  ASSUME IInv, NEW e \in Cpus
  PROVE  /\ env[e] \in EnvType /\ Shape(e, env[e])
         /\ env[e].pc # "run" /\ env[e].level = 0 => StopShape(e, env[e])
         /\ env[e].level # 0 => BalanceShape(e, env[e])
         /\ env[e].pc \notin LockPcs \cup {"attach_one"} => env[e].p = Idle
         /\ rq[e] \in RqType
         /\ NoEnv.level = 0 /\ NoEnv.p = Idle /\ NoEnv.tasks = <<>>
  <1>1. env[e] \in EnvType /\ Shape(e, env[e]) /\ rq[e] \in RqType
    BY DEF IInv, Typed
  <1>2. NoEnv.level = 0 /\ NoEnv.p = Idle /\ NoEnv.tasks = <<>>
    BY DEF NoEnv
  <1>3. env[e].p \in Tasks \cup {Idle}
    BY <1>1 DEF EnvType
  <1> QED BY <1>1, <1>2, <1>3 DEF Shape

\* A step of one CPU that moves no task and starts no active balancing keeps the invariant.
LEMMA QuietIInv ==
  ASSUME IInv, NEW e \in Cpus, NEW w \in EnvType, Shape(e, w), Becomes(e, w),
         UNCHANGED <<task, affine>>, rq' \in [Cpus -> RqType],
         \A c \in Cpus : /\ rq'[c].curr = rq[c].curr /\ rq'[c].active_balance = rq[c].active_balance
                         /\ rq'[c].work = rq[c].work /\ rq'[c].push_cpu = rq[c].push_cpu
                         /\ ToSet(rq'[c].cfs_tasks) = ToSet(rq[c].cfs_tasks)
                         /\ Injective(rq'[c].cfs_tasks),
         LockStep(e, env[e], w), SameHand(env[e], w), SameCurr(env[e], w), SameKick(env[e], w)
  PROVE  IInv'
  <1>1. env'[e] = w /\ (\A f \in Cpus \ {e} : env'[f] = env[f]) /\ env' \in [Cpus -> EnvType]
    BY BecomesFacts DEF IInv
  <1>2. Typed' /\ \A f \in Cpus : Shape(f, env'[f])
    BY <1>1 DEF IInv, Typed
  <1>3. LocksHeld'
    BY LocksKept DEF IInv
  <1>4. \A f \in Cpus : SameHand(env[f], env'[f]) /\ SameCurr(env[f], env'[f]) /\ SameKick(env[f], env'[f])
    BY <1>1 DEF SameHand, SameCurr, SameKick
  <1>5. QueuesExact'
    BY QueuesKept DEF IInv
  <1>6. HandsExact' /\ HandsForDst'
    BY <1>4, HandsKept DEF IInv
  <1>7. AffinityKept'
    BY DEF IInv, AffinityKept
  <1>8. CurrQueued'
    BY <1>4, CurrKept DEF IInv
  <1>9. ActiveOwned' /\ PushElsewhere'
    BY <1>4, ActiveKept DEF IInv
  <1> QED BY <1>2, <1>3, <1>5, <1>6, <1>7, <1>8, <1>9 DEF IInv

\* A balancer that has nothing in hand, neither before nor after.
LEMMA EmptyStep ==
  ASSUME NEW e \in Cpus, NEW v \in EnvType, NEW w \in EnvType, Shape(e, v), Shape(e, w),
         EmptyHanded(v, w), v.level # 0 \/ v.pc = "run", v.tasks = <<>>, v.p = Idle,
         v.pc # "stop_one_cpu", w.pc # "stop_one_cpu"
  PROVE  SameHand(v, w) /\ SameCurr(v, w) /\ SameKick(v, w)
  <1>1. v.pc # "attach_one" /\ w.pc # "attach_one"
    BY TasksAssumption DEF Shape, EmptyHanded
  <1>2. ~AtStop(v) /\ ~AtStop(w)
    BY DEF AtStop, EmptyHanded
  <1> QED BY <1>1, <1>2 DEF SameHand, SameCurr, SameKick, Stopping, EmptyHanded

\* It reads the run queues only.
LEMMA ReadStep ==
  ASSUME IInv, NEW e \in Cpus, NEW w \in EnvType, Shape(e, w), Becomes(e, w), UNCHANGED <<task, rq, affine>>,
         EmptyHanded(env[e], w), Locks(env[e]) = {}, Locks(w) = {},
         env[e].level # 0 \/ env[e].pc = "run", env[e].tasks = <<>>, env[e].p = Idle,
         env[e].pc # "stop_one_cpu", w.pc # "stop_one_cpu"
  PROVE  IInv'
  <1>1. env[e] \in EnvType /\ Shape(e, env[e])
    BY HereFacts
  <1>2. SameHand(env[e], w) /\ SameCurr(env[e], w) /\ SameKick(env[e], w)
    BY <1>1, EmptyStep
  <1>3. LockStep(e, env[e], w)
    BY DEF LockStep
  <1>4. \A c \in Cpus : Injective(rq[c].cfs_tasks)
    BY DEF IInv, QueuesExact
  <1> QED BY <1>2, <1>3, <1>4, QuietIInv DEF IInv, Typed

\* run_rebalance_domains: the softirq begins for one CPU.
LEMMA RunRebalanceIInv ==
  ASSUME IInv, NEW e \in Cpus, NEW c \in Cpus, run_rebalance_domains(e, c)
  PROVE  IInv'
  <1> DEFINE w == [NoEnv EXCEPT !.pc = "domain", !.cpu = c, !.level = 1, !.idle = IdleType(c)]
  <1>1. env[e].pc = "run" /\ Becomes(e, w) /\ UNCHANGED <<task, rq, affine>> /\ <<e, c>> \in Balancers
    BY DEF run_rebalance_domains
  <1>2. env[e] = NoEnv
    BY <1>1, HereFacts DEF Shape
  <1>3. 1 \in DOMAIN Domains[c]
    <2> DEFINE Domain == [group : SUBSET Cpus, span : SUBSET Cpus, newidle : BOOLEAN]
    <2>1. Domains[c] \in Seq(Domain) /\ Domains[c] # <<>>
      BY <1>1, DomainsAssumption
    <2> HIDE DEF Domain
    <2> QED BY <2>1
  <1>4. IdleType(c) \in {"IDLE", "NOT_IDLE"}
    BY DEF IdleType
  <1>5. w \in EnvType
    BY <1>4, NoEnvShape DEF EnvType, CallerPcs
  <1>6. /\ w.pc = "domain" /\ w.cpu = c /\ w.level = 1 /\ w.idle # "NEWLY_IDLE"
        /\ w.src = NoCpu /\ w.flags = {} /\ w.loop = 0 /\ w.p = Idle /\ w.tasks = <<>>
    BY <1>4 DEF NoEnv
  <1> HIDE DEF w
  <1>7. AtDomain(e, w)
    BY <1>3, <1>6 DEF AtDomain
  <1>8. Shape(e, w)
    BY <1>6, <1>7, TasksAssumption DEF Shape, BalanceShape, LockPcs, ActivePcs, PullPcs, CallerPcs
  <1>9. EmptyHanded(env[e], w)
    BY <1>2, <1>6 DEF EmptyHanded, NoEnv
  <1>10. Locks(env[e]) = {} /\ Locks(w) = {}
    BY <1>1, <1>6 DEF Locks
  <1> QED BY <1>1, <1>2, <1>5, <1>6, <1>8, <1>9, <1>10, ReadStep, HereFacts

\* Where a caller of load_balance is.
LEMMA CallerFacts ==
  ASSUME IInv, NEW e \in Cpus, env[e].pc \in {"redo", "active", "stop_one_cpu"} \cup CallerPcs
  PROVE  /\ env[e] \in EnvType /\ Shape(e, env[e]) /\ BalanceShape(e, env[e]) /\ AtDomain(e, env[e])
         /\ env[e].level # 0 /\ env[e].tasks = <<>> /\ env[e].p = Idle /\ Locks(env[e]) = {}
  <1>1. env[e].level # 0
    BY HereFacts DEF StopShape, StopPcs, LockPcs, CallerPcs
  <1>2. env[e].tasks = <<>> /\ env[e].p = Idle
    BY <1>1, HereFacts DEF BalanceShape, LockPcs, CallerPcs
  <1> QED BY <1>1, <1>2, HereFacts DEF BalanceShape, Locks, CallerPcs

\* rebalance_domains: the next level, or the end.
LEMMA RebalanceIInv ==
  ASSUME IInv, NEW e \in Cpus, rebalance_domains(e)
  PROVE  IInv'
  <1> DEFINE v == env[e]
             w == IF v.ld_moved THEN [v EXCEPT !.idle = IdleType(v.cpu)] ELSE v
  <1>1. /\ v.pc = "domain" /\ v.idle # "NEWLY_IDLE" /\ UNCHANGED <<task, rq, affine>>
        /\ Becomes(e, NextDomain(w)) \/ Becomes(e, Fresh(w))
    BY DEF rebalance_domains
  <1>2. /\ v \in EnvType /\ Shape(e, v) /\ AtDomain(e, v) /\ v.level # 0
        /\ v.tasks = <<>> /\ v.p = Idle /\ Locks(v) = {}
    BY <1>1, CallerFacts DEF CallerPcs
  <1>3. w \in EnvType /\ AtDomain(e, w) /\ w.p = Idle
    BY <1>2 DEF EnvType, AtDomain, IdleType
  <1> HIDE DEF w
  <1>4. PICK x \in {NextDomain(w), Fresh(w)} : Becomes(e, x)
    BY <1>1
  <1>5. /\ x \in EnvType /\ Shape(e, x) /\ EmptyHanded(w, x)
        /\ x.pc \in {"run", "redo"} \cup CallerPcs
    BY <1>3, <1>4, NextDomainShape, FreshShape
  <1>6. EmptyHanded(v, x) /\ Locks(x) = {} /\ x.pc # "stop_one_cpu"
    BY <1>1, <1>5 DEF EmptyHanded, Locks, CallerPcs
  <1> QED BY <1>1, <1>2, <1>4, <1>5, <1>6, ReadStep

\* idle_balance begins, with rq->lock dropped.
LEMMA IdleBalanceIInv ==
  ASSUME IInv, NEW e \in Cpus, idle_balance(e)
  PROVE  IInv'
  <1> DEFINE v == env[e]
  <1>1. v.pc = "domain" /\ UNCHANGED <<task, rq, affine>>
    BY DEF idle_balance
  <1>2. /\ v \in EnvType /\ Shape(e, v) /\ AtDomain(e, v) /\ v.level # 0
        /\ v.tasks = <<>> /\ v.p = Idle /\ Locks(v) = {}
    BY <1>1, CallerFacts DEF CallerPcs
  <1>3. PICK x \in {IdleEnd(v), Return(v, FALSE), Fresh(v)} : Becomes(e, x)
    BY DEF idle_balance
  <1>4. /\ x \in EnvType /\ Shape(e, x) /\ EmptyHanded(v, x)
        /\ x.pc \in {"run", "redo"} \cup CallerPcs
    BY <1>2, <1>3, IdleEndShape, ReturnShape, FreshShape DEF CallerPcs
  <1>5. Locks(x) = {} /\ x.pc # "stop_one_cpu"
    BY <1>4 DEF Locks, CallerPcs
  <1> QED BY <1>1, <1>2, <1>3, <1>4, <1>5, ReadStep

\* A run queue counts its tasks.
LEMMA NrRunningNat ==
  ASSUME Typed, NEW c \in Cpus
  PROVE  nr_running(c) \in Nat
  <1> DEFINE k == IF rq[c].work \/ InStopper(c) THEN 1 ELSE 0
  <1>1. k \in {0, 1}
    OBVIOUS
  <1>2. Len(rq[c].cfs_tasks) \in Nat
    BY DEF Typed, RqType
  <1>3. nr_running(c) = Len(rq[c].cfs_tasks) + k
    BY DEF nr_running, h_nr_running
  <1> HIDE DEF k
  <1> QED BY <1>1, <1>2, <1>3

\* find_busiest_queue answers with a CPU outside of the local group.
LEMMA RedoIInv ==
  ASSUME IInv, NEW e \in Cpus, redo(e)
  PROVE  IInv'
  <1> DEFINE v == env[e]
  <1>1. v.pc = "redo" /\ UNCHANGED <<task, rq, affine>>
    BY DEF redo
  <1>2. /\ v \in EnvType /\ Shape(e, v) /\ BalanceShape(e, v) /\ AtDomain(e, v) /\ v.level # 0
        /\ v.tasks = <<>> /\ v.p = Idle /\ Locks(v) = {}
    BY <1>1, CallerFacts DEF CallerPcs
  <1>3. SUFFICES ASSUME NEW x, Becomes(e, x)
                 PROVE  /\ x \in EnvType /\ Shape(e, x) /\ EmptyHanded(v, x)
                        /\ x.pc \in {"run", "active", "more_balance"} \cup CallerPcs
    <2>1. PICK x : Becomes(e, x)
      BY <1>1 DEF redo
    <2>2. /\ x \in EnvType /\ Shape(e, x) /\ EmptyHanded(v, x)
          /\ x.pc \in {"run", "active", "more_balance"} \cup CallerPcs
      BY <2>1, <1>3
    <2>3. Locks(x) = {} /\ x.pc # "stop_one_cpu"
      BY <2>2 DEF Locks, CallerPcs
    <2> QED BY <1>1, <1>2, <2>1, <2>2, <2>3, ReadStep
  <1>4. x = env'[e]
    BY <1>3, BecomesFacts DEF IInv
  <1>5. \A y : Becomes(e, y) => y = x
    BY <1>4, BecomesFacts DEF IInv
  <1>6. CASE \/ Becomes(e, Return([v EXCEPT !.continue_balancing = FALSE], FALSE))
             \/ Becomes(e, Return(v, FALSE))
    <2> DEFINE w == [v EXCEPT !.continue_balancing = FALSE]
    <2>1. w \in EnvType /\ AtDomain(e, w) /\ w.idle = v.idle
      <3>1. w \in EnvType
        BY <1>2, ContinueTyped
      <3>2. w.cpu = v.cpu /\ w.level = v.level /\ w.idle = v.idle
        BY <1>2 DEF EnvType
      <3> HIDE DEF w
      <3> QED BY <1>2, <3>1, <3>2 DEF AtDomain
    <2>2. EmptyHanded(w, x) => EmptyHanded(v, x)
      BY <2>1 DEF EmptyHanded
    <2>3. x \in {Return(w, FALSE), Return(v, FALSE)}
      BY <1>5, <1>6
    <2> HIDE DEF w
    <2> QED BY <1>2, <2>1, <2>2, <2>3, ReturnShape
  <1>7. ASSUME NEW c \in find_busiest_queue(v), NEW i \in Imbalances,
               LET w == [v EXCEPT !.src = c, !.imbalance = i, !.ld_moved = FALSE]
               IN  \/ Becomes(e, [w EXCEPT !.pc = "more_balance", !.flags = @ \cup {"ALL_PINNED"},
                                           !.loop_max = Min({NrMigrate, nr_running(c)})])
                   \/ \E y \in need_active_balance(w) : Becomes(e, y)
        PROVE  /\ x \in EnvType /\ Shape(e, x) /\ EmptyHanded(v, x)
               /\ x.pc \in {"run", "active", "more_balance"} \cup CallerPcs
    <2> DEFINE a == [v EXCEPT !.src = c, !.ld_moved = FALSE]
               w == [a EXCEPT !.imbalance = i]
               y == [w EXCEPT !.pc = "more_balance", !.flags = @ \cup {"ALL_PINNED"},
                              !.loop_max = Min({NrMigrate, nr_running(c)})]
    <2>1. c \in Cpus \ sd(v).group /\ i \in Int
      BY <1>2, DomainFacts, NumbersAssumption DEF find_busiest_queue
    <2>2. w = [v EXCEPT !.src = c, !.imbalance = i, !.ld_moved = FALSE]
      BY <1>2 DEF EnvType
    <2>3. Min({NrMigrate, nr_running(c)}) \in Nat
      <3>1. NrMigrate \in Nat /\ nr_running(c) \in Nat
        BY <2>1, NumbersAssumption, NrRunningNat DEF IInv
      <3> QED BY <3>1, MinPair
    <2>4. a \in EnvType
      BY <1>2, <2>1, ZenonT(40) DEF EnvType
    <2>5. w \in EnvType
      BY <2>1, <2>4, ImbalanceTyped
    <2>6. /\ w.pc = v.pc /\ w.flags = v.flags /\ w.cpu = v.cpu /\ w.level = v.level /\ w.idle = v.idle
          /\ w.p = v.p /\ w.tasks = v.tasks /\ w.src = c /\ w.dst = v.dst /\ w.new_dst = v.new_dst
          /\ w.cpus = v.cpus /\ w.loop = v.loop
      BY <1>2 DEF EnvType
    <2> HIDE DEF w
    <2>7. AtDomain(e, w) /\ sd(w) = sd(v)
      BY <1>2, <2>6 DEF AtDomain, sd
    <2>8. CASE x = y
      <3>1. y \in EnvType
        BY <2>3, <2>5 DEF EnvType, PullPcs
      <3>2. /\ y.pc = "more_balance" /\ y.flags = v.flags \cup {"ALL_PINNED"}
            /\ y.cpu = v.cpu /\ y.level = v.level /\ y.idle = v.idle /\ y.p = v.p /\ y.tasks = v.tasks
            /\ y.src = c /\ y.dst = v.dst /\ y.new_dst = v.new_dst /\ y.cpus = v.cpus
            /\ y.loop = 0 /\ y.loop_max \in Nat
        BY <1>1, <1>2, <2>3, <2>5, <2>6 DEF EnvType, BalanceShape
      <3> HIDE DEF y
      <3>3. AtDomain(e, y) /\ sd(y) = sd(v)
        BY <1>2, <3>2 DEF AtDomain, sd
      <3>4. Pulling(y) /\ y.loop <= y.loop_max
        BY <1>1, <1>2, <2>1, <3>2, <3>3 DEF Pulling, BalanceShape
      <3>5. Shape(e, y) /\ EmptyHanded(v, y)
        BY <1>1, <1>2, <3>2, <3>3, <3>4, TasksAssumption
           DEF Shape, BalanceShape, LockPcs, ActivePcs, PullPcs, CallerPcs, EmptyHanded
      <3> QED BY <2>8, <3>1, <3>2, <3>5
    <2>9. CASE x \in need_active_balance(w)
      <3>1. x \in EnvType /\ Shape(e, x) /\ EmptyHanded(w, x) /\ x.pc \in {"run", "active"} \cup CallerPcs
        BY <2>1, <2>5, <2>6, <2>7, <2>9, NeedActiveShape
      <3> QED BY <2>6, <3>1 DEF EmptyHanded
    <2>10. x = y \/ x \in need_active_balance(w)
      BY <1>5, <1>7, <2>2
    <2> QED BY <2>8, <2>9, <2>10
  <1>8. \/ \/ Becomes(e, Return([v EXCEPT !.continue_balancing = FALSE], FALSE))
           \/ Becomes(e, Return(v, FALSE))
        \/ \E c \in find_busiest_queue(v), i \in Imbalances :
             LET w == [v EXCEPT !.src = c, !.imbalance = i, !.ld_moved = FALSE]
             IN  \/ Becomes(e, [w EXCEPT !.pc = "more_balance", !.flags = @ \cup {"ALL_PINNED"},
                                         !.loop_max = Min({NrMigrate, nr_running(c)})])
                 \/ \E y \in need_active_balance(w) : Becomes(e, y)
    BY DEF redo
  <1> QED BY <1>6, <1>7, <1>8

\* Where both run queues are known: for a balancer and for a stopper.
LEMMA LockFacts ==
  ASSUME IInv, NEW e \in Cpus, env[e].pc \in LockPcs
  PROVE  /\ env[e] \in EnvType /\ Shape(e, env[e]) /\ env[e].p \in Tasks
         /\ env[e].src \in Cpus /\ env[e].dst \in Cpus /\ env[e].src # env[e].dst
         /\ env[e].src \in Nat /\ env[e].dst \in Nat
         /\ env[e].level = 0 => StopShape(e, env[e])
         /\ env[e].level # 0 =>
              BalanceShape(e, env[e]) /\ AtDomain(e, env[e]) /\ Pulling(env[e]) /\ env[e].loop <= env[e].loop_max
         /\ Lower(env[e]) = IF env[e].src <= env[e].dst THEN env[e].src ELSE env[e].dst
         /\ Higher(env[e]) = IF env[e].src <= env[e].dst THEN env[e].dst ELSE env[e].src
  <1>1. env[e].pc # "run" /\ env[e].pc \in PullPcs /\ env[e].pc # "attach_tasks"
    BY DEF LockPcs, PullPcs
  <1>2. env[e].level # 0 => AtDomain(e, env[e]) /\ Pulling(env[e]) /\ env[e].loop <= env[e].loop_max
    BY <1>1, HereFacts DEF BalanceShape
  <1>3. env[e].level # 0 => sd(env[e]).group \subseteq Cpus
    BY <1>2, HereFacts, DomainFacts
  <1>4. env[e].src \in Cpus /\ env[e].dst \in Cpus /\ env[e].src # env[e].dst
    BY <1>1, <1>2, <1>3, HereFacts DEF Pulling, StopShape
  <1>5. env[e].src \in Nat /\ env[e].dst \in Nat
    BY <1>4, CpusAssumption
  <1> QED BY <1>1, <1>2, <1>4, <1>5, HereFacts, MinPair DEF Lower, Higher, Shape

\* From one of these places to another.
LEMMA LockPcStep ==
  ASSUME IInv, NEW e \in Cpus, env[e].pc \in LockPcs, NEW pc \in LockPcs,
         pc = "lock_dst" => env[e].src < env[e].dst
  PROVE  LET w == [env[e] EXCEPT !.pc = pc]
         IN  /\ w \in EnvType /\ Shape(e, w) /\ w.pc = pc /\ w.src = env[e].src /\ w.dst = env[e].dst
             /\ Lower(w) = Lower(env[e])
             /\ SameHand(env[e], w) /\ SameCurr(env[e], w) /\ SameKick(env[e], w)
  <1> DEFINE v == env[e]
             w == [v EXCEPT !.pc = pc]
  <1>1. w \in EnvType
    BY LockFacts, PcTyped DEF PullPcs
  <1>2. /\ w.pc = pc /\ w.flags = v.flags /\ w.cpu = v.cpu /\ w.level = v.level /\ w.idle = v.idle
        /\ w.p = v.p /\ w.tasks = v.tasks /\ w.src = v.src /\ w.dst = v.dst /\ w.new_dst = v.new_dst
        /\ w.cpus = v.cpus /\ w.loop = v.loop /\ w.loop_max = v.loop_max
    BY LockFacts DEF EnvType
  <1> HIDE DEF w
  <1>3. v.level = 0 => StopShape(e, w)
    BY <1>2, LockFacts DEF StopShape, StopPcs
  <1>4. v.level # 0 => BalanceShape(e, w)
    <2> SUFFICES ASSUME v.level # 0 PROVE BalanceShape(e, w)
      OBVIOUS
    <2>1. AtDomain(e, w) /\ sd(w) = sd(v)
      BY <1>2, LockFacts DEF AtDomain, sd
    <2>2. Pulling(w) /\ w.loop <= w.loop_max
      BY <1>2, <2>1, LockFacts DEF Pulling
    <2>3. "NEED_BREAK" \notin v.flags
      BY LockFacts DEF BalanceShape, LockPcs
    <2> QED BY <1>2, <2>1, <2>2, <2>3 DEF BalanceShape, LockPcs, PullPcs, CallerPcs, ActivePcs
  <1>5. Shape(e, w)
    BY <1>2, <1>3, <1>4, LockFacts DEF Shape, LockPcs
  <1>6. SameHand(v, w) /\ SameCurr(v, w) /\ SameKick(v, w)
    BY <1>2 DEF SameHand, SameCurr, SameKick, Stopping, AtStop, LockPcs
  <1> QED BY <1>1, <1>2, <1>5, <1>6 DEF w, Lower

\* rq[c].lock changes, and nothing else of the run queues.
LEMMA LockOnly ==
  ASSUME Typed, NEW c \in Cpus, NEW x \in Cpus \cup {NoCpu}, rq' = [rq EXCEPT ![c].lock = x]
  PROVE  /\ rq' \in [Cpus -> RqType]
         /\ rq'[c].lock = x /\ \A d \in Cpus \ {c} : rq'[d] = rq[d]
         /\ \A d \in Cpus : /\ rq'[d].curr = rq[d].curr /\ rq'[d].active_balance = rq[d].active_balance
                            /\ rq'[d].work = rq[d].work /\ rq'[d].push_cpu = rq[d].push_cpu
                            /\ rq'[d].cfs_tasks = rq[d].cfs_tasks
  BY DEF Typed, RqType

\* A pass takes one more run queue lock.
LEMMA TakeLockIInv ==
  ASSUME IInv, NEW e \in Cpus, NEW c \in Cpus, NEW pc \in LockPcs, env[e].pc \in LockPcs,
         pc = "lock_dst" => env[e].src < env[e].dst,
         Locks([env[e] EXCEPT !.pc = pc]) = Locks(env[e]) \cup {c},
         TakeLock(e, c, pc), UNCHANGED <<task, affine>>
  PROVE  IInv'
  <1> DEFINE v == env[e]
             w == [v EXCEPT !.pc = pc]
  <1>1. rq[c].lock = NoCpu /\ rq' = [rq EXCEPT ![c].lock = e] /\ Becomes(e, w)
    BY DEF TakeLock, Unlocked
  <1>2. w \in EnvType /\ Shape(e, w) /\ SameHand(v, w) /\ SameCurr(v, w) /\ SameKick(v, w)
    BY LockPcStep
  <1>3. /\ rq' \in [Cpus -> RqType]
        /\ rq'[c].lock = e /\ \A d \in Cpus \ {c} : rq'[d] = rq[d]
        /\ \A d \in Cpus : /\ rq'[d].curr = rq[d].curr /\ rq'[d].active_balance = rq[d].active_balance
                           /\ rq'[d].work = rq[d].work /\ rq'[d].push_cpu = rq[d].push_cpu
                           /\ rq'[d].cfs_tasks = rq[d].cfs_tasks
    BY <1>1, LockOnly DEF IInv
  <1> HIDE DEF w
  <1>4. LockStep(e, v, w)
    BY <1>1, <1>3 DEF LockStep, w
  <1>5. \A d \in Cpus : Injective(rq[d].cfs_tasks)
    BY DEF IInv, QueuesExact
  <1> QED BY <1>1, <1>2, <1>3, <1>4, <1>5, QuietIInv

\* double_rq_lock: the lower address first.
LEMMA DoubleRqLockIInv ==
  ASSUME IInv, NEW e \in Cpus, double_rq_lock(e)
  PROVE  IInv'
  <1> DEFINE v == env[e]
  <1>1. UNCHANGED <<task, affine>> /\ v.pc \in LockPcs
    BY DEF double_rq_lock, LockPcs
  <1>2. \A pc \in LockPcs \ {"lock_dst"} :
          LET w == [v EXCEPT !.pc = pc]
          IN  w.pc = pc /\ w.src = v.src /\ w.dst = v.dst /\ Lower(w) = Lower(v)
    BY <1>1, LockPcStep
  <1>3. Lower(v) \in Cpus /\ Higher(v) \in Cpus /\ {v.src, v.dst} = {Lower(v), Higher(v)}
    BY <1>1, LockFacts
  <1>4. CASE v.pc = "lock_first" /\ TakeLock(e, Lower(v), "lock_second")
    <2>1. Locks([v EXCEPT !.pc = "lock_second"]) = Locks(v) \cup {Lower(v)}
      BY <1>2, <1>4 DEF Locks, LockPcs
    <2> QED BY <1>1, <1>3, <1>4, <2>1, TakeLockIInv DEF LockPcs
  <1>5. CASE v.pc = "lock_second" /\ TakeLock(e, Higher(v), "set_task_cpu")
    <2>1. Locks([v EXCEPT !.pc = "set_task_cpu"]) = Locks(v) \cup {Higher(v)}
      BY <1>2, <1>3, <1>5 DEF Locks, LockPcs
    <2> QED BY <1>1, <1>3, <1>5, <2>1, TakeLockIInv DEF LockPcs
  <1>6. CASE v.pc = "lock_dst" /\ TakeLock(e, v.dst, "set_task_cpu")
    <2>1. Locks([v EXCEPT !.pc = "set_task_cpu"]) = Locks(v) \cup {v.dst}
      BY <1>2, <1>6 DEF Locks, LockPcs
    <2> QED BY <1>1, <1>6, <2>1, LockFacts, TakeLockIInv DEF LockPcs
  <1> QED BY <1>4, <1>5, <1>6 DEF double_rq_lock

\* double_lock_balance gets the second lock at once.
LEMMA TrylockIInv ==
  ASSUME IInv, NEW e \in Cpus, double_lock_trylock(e)
  PROVE  IInv'
  <1> DEFINE v == env[e]
             w(pc) == [v EXCEPT !.pc = pc]
  <1>1. UNCHANGED <<task, affine>> /\ v.pc = "trylock" /\ v.pc \in LockPcs
    BY DEF double_lock_trylock, LockPcs
  <1>2. /\ v.src \in Cpus /\ v.dst \in Cpus
        /\ \A pc \in LockPcs \ {"lock_dst"} : w(pc).pc = pc /\ w(pc).src = v.src /\ w(pc).dst = v.dst
    BY <1>1, LockFacts, LockPcStep
  <1>3. CASE TakeLock(e, v.dst, "set_task_cpu")
    <2>1. Locks(w("set_task_cpu")) = Locks(v) \cup {v.dst}
      BY <1>1, <1>2 DEF Locks, LockPcs
    <2> QED BY <1>1, <1>2, <1>3, <2>1, TakeLockIInv DEF LockPcs
  <1>4. CASE rq' = [rq EXCEPT ![v.src].lock = NoCpu] /\ Becomes(e, w("lock_first"))
    <2>1. "lock_first" \in LockPcs
      BY DEF LockPcs
    <2>2. /\ w("lock_first") \in EnvType /\ Shape(e, w("lock_first"))
          /\ SameHand(v, w("lock_first")) /\ SameCurr(v, w("lock_first")) /\ SameKick(v, w("lock_first"))
      BY <1>1, <2>1, LockPcStep
    <2>3. Locks(w("lock_first")) = {} /\ Locks(v) = {v.src}
      BY <1>1, <1>2, <2>1 DEF Locks
    <2> HIDE DEF w
    <2>4. /\ rq' \in [Cpus -> RqType]
          /\ rq'[v.src].lock = NoCpu /\ \A d \in Cpus \ {v.src} : rq'[d] = rq[d]
          /\ \A d \in Cpus : /\ rq'[d].curr = rq[d].curr /\ rq'[d].active_balance = rq[d].active_balance
                             /\ rq'[d].work = rq[d].work /\ rq'[d].push_cpu = rq[d].push_cpu
                             /\ rq'[d].cfs_tasks = rq[d].cfs_tasks
      BY <1>2, <1>4, LockOnly DEF IInv
    <2>5. rq[v.src].lock = e
      BY <1>2, <2>3 DEF IInv, LocksHeld
    <2>6. LockStep(e, v, w("lock_first"))
      BY <1>2, <2>3, <2>4, <2>5 DEF LockStep
    <2>7. \A d \in Cpus : Injective(rq[d].cfs_tasks)
      BY DEF IInv, QueuesExact
    <2> QED BY <1>1, <1>4, <2>2, <2>4, <2>6, <2>7, QuietIInv
  <1>5. CASE v.dst > v.src /\ UNCHANGED rq /\ Becomes(e, w("lock_dst"))
    <2>1. "lock_dst" \in LockPcs /\ v.src < v.dst
      BY <1>1, <1>5, LockFacts DEF LockPcs
    <2>2. /\ w("lock_dst") \in EnvType /\ Shape(e, w("lock_dst"))
          /\ w("lock_dst").pc = "lock_dst" /\ w("lock_dst").src = v.src
          /\ SameHand(v, w("lock_dst")) /\ SameCurr(v, w("lock_dst")) /\ SameKick(v, w("lock_dst"))
      BY <1>1, <2>1, LockPcStep
    <2> HIDE DEF w
    <2>3. Locks(w("lock_dst")) = Locks(v)
      BY <1>1, <2>2 DEF Locks
    <2>4. LockStep(e, v, w("lock_dst"))
      BY <1>5, <2>3 DEF LockStep
    <2>5. \A d \in Cpus : Injective(rq[d].cfs_tasks)
      BY DEF IInv, QueuesExact
    <2>6. rq' \in [Cpus -> RqType]
      BY <1>5 DEF IInv, Typed
    <2> QED BY <1>1, <1>5, <2>2, <2>4, <2>5, <2>6, QuietIInv
  <1> QED BY <1>3, <1>4, <1>5 DEF double_lock_trylock

-----------------------------------------------------------------------------
(***************************************************************************)
(* detach_tasks.                                                           *)
(***************************************************************************)
\* A balancer with or without the lock of src, before or during a pass.
LEMMA PassFacts ==
  ASSUME IInv, NEW e \in Cpus, env[e].pc = "detach" \/ (env[e].pc = "more_balance" /\ Unlocked(env[e].src))
  PROVE  /\ env[e] \in EnvType /\ Shape(e, env[e]) /\ BalanceShape(e, env[e]) /\ AtDomain(e, env[e])
         /\ Pulling(env[e]) /\ env[e].level # 0 /\ env[e].p = Idle
         /\ env[e].src \in Cpus /\ env[e].dst \in Cpus /\ env[e].src # env[e].dst
         /\ "NEED_BREAK" \notin env[e].flags
         /\ rq[env[e].src].lock \in {NoCpu, e} /\ Locks(env[e]) \subseteq {env[e].src}
  <1> DEFINE v == env[e]
  <1>1. v.level # 0 /\ v.p = Idle /\ v.pc \in PullPcs
    BY HereFacts DEF StopShape, StopPcs, LockPcs, PullPcs
  <1>2. v \in EnvType /\ Shape(e, v) /\ BalanceShape(e, v) /\ AtDomain(e, v) /\ Pulling(v)
    BY <1>1, HereFacts DEF BalanceShape
  <1>3. v.src \in Cpus /\ v.dst \in Cpus /\ v.src # v.dst
    BY <1>2, DomainFacts DEF Pulling
  <1>4. "NEED_BREAK" \notin v.flags
    BY <1>2 DEF BalanceShape
  <1>5. rq[v.src].lock \in {NoCpu, e} /\ Locks(v) \subseteq {v.src}
    <2>1. CASE v.pc = "detach"
      <3>1. Locks(v) = {v.src}
        BY <2>1 DEF Locks
      <3> QED BY <1>3, <3>1 DEF IInv, LocksHeld
    <2>2. CASE v.pc = "more_balance" /\ Unlocked(v.src)
      BY <2>2 DEF Unlocked, Locks
    <2> QED BY <2>1, <2>2
  <1> QED BY <1>1, <1>2, <1>3, <1>4, <1>5

\* The lock of src is released; the tasks in hand are still to be attached, or there are none.
LEMMA DetachEndIInv ==
  ASSUME IInv, NEW e \in Cpus, env[e].pc = "detach" \/ (env[e].pc = "more_balance" /\ Unlocked(env[e].src)),
         NEW x \in EnvType, AtDomain(e, x), Pulling(x), x.level = env[e].level, x.idle = env[e].idle,
         x.p = Idle, x.tasks = env[e].tasks, x.src = env[e].src, x.dst = env[e].dst,
         DetachEnd(e, x), UNCHANGED <<task, affine>>
  PROVE  IInv'
  <1> DEFINE v == env[e]
  <1>1. /\ v \in EnvType /\ Shape(e, v) /\ v.level # 0 /\ v.p = Idle /\ v.src \in Cpus
        /\ rq[v.src].lock \in {NoCpu, e} /\ Locks(v) \subseteq {v.src} /\ v.pc \in {"detach", "more_balance"}
    BY PassFacts
  <1>2. PICK y \in (IF x.tasks = <<>> THEN Decide(x) ELSE {[x EXCEPT !.pc = "attach_tasks"]}) : Becomes(e, y)
    BY DEF DetachEnd
  <1>3. /\ y \in EnvType /\ Shape(e, y) /\ Locks(y) = {}
        /\ SameHand(v, y) /\ SameCurr(v, y) /\ SameKick(v, y)
    <2>1. CASE x.tasks = <<>>
      <3>1. /\ y \in EnvType /\ Shape(e, y) /\ EmptyHanded(x, y)
            /\ y.pc \in {"run", "redo", "more_balance", "active"} \cup CallerPcs
        BY <1>2, <2>1, DecideShape
      <3>2. EmptyHanded(v, y) /\ Locks(y) = {} /\ y.pc # "stop_one_cpu"
        BY <3>1 DEF EmptyHanded, Locks, CallerPcs
      <3> QED BY <1>1, <2>1, <3>1, <3>2, EmptyStep
    <2>2. CASE x.tasks # <<>>
      <3> DEFINE z == [x EXCEPT !.pc = "attach_tasks"]
      <3>1. z \in EnvType
        BY DEF EnvType, PullPcs
      <3>2. /\ z.pc = "attach_tasks" /\ z.flags = x.flags /\ z.cpu = x.cpu /\ z.level = x.level /\ z.idle = x.idle
            /\ z.p = Idle /\ z.tasks = x.tasks /\ z.src = x.src /\ z.dst = x.dst /\ z.new_dst = x.new_dst
            /\ z.cpus = x.cpus /\ z.loop = x.loop /\ z.loop_max = x.loop_max
        BY DEF EnvType
      <3>3. y = z
        BY <1>2, <2>2
      <3> HIDE DEF z
      <3>4. AtDomain(e, z) /\ sd(z) = sd(x)
        BY <3>2 DEF AtDomain, sd
      <3>5. Pulling(z) /\ ("NEED_BREAK" \in z.flags => z.loop <= z.loop_max)
        BY <3>2, <3>4 DEF Pulling
      <3>6. Shape(e, z)
        BY <1>1, <3>2, <3>4, <3>5, TasksAssumption
           DEF Shape, BalanceShape, LockPcs, ActivePcs, PullPcs, CallerPcs
      <3>7. Locks(z) = {}
        BY <3>2 DEF Locks
      <3>8. SameHand(v, z) /\ SameCurr(v, z) /\ SameKick(v, z)
        BY <1>1, <3>2 DEF SameHand, SameCurr, SameKick, AtStop, Stopping
      <3> QED BY <3>1, <3>3, <3>6, <3>7, <3>8
    <2> QED BY <2>1, <2>2
  <1>4. /\ rq' \in [Cpus -> RqType]
        /\ rq'[v.src].lock = NoCpu /\ \A d \in Cpus \ {v.src} : rq'[d] = rq[d]
        /\ \A d \in Cpus : /\ rq'[d].curr = rq[d].curr /\ rq'[d].active_balance = rq[d].active_balance
                           /\ rq'[d].work = rq[d].work /\ rq'[d].push_cpu = rq[d].push_cpu
                           /\ rq'[d].cfs_tasks = rq[d].cfs_tasks
    BY <1>1, LockOnly DEF IInv, DetachEnd
  <1>5. LockStep(e, v, y)
    BY <1>1, <1>3, <1>4 DEF LockStep
  <1>6. \A d \in Cpus : Injective(rq[d].cfs_tasks)
    BY DEF IInv, QueuesExact
  <1> QED BY <1>2, <1>3, <1>4, <1>5, <1>6, QuietIInv

\* What can_migrate_task answers.
LEMMA CanMigrateFacts ==
  ASSUME NEW e \in Cpus, NEW v \in EnvType, AtDomain(e, v), Pulling(v), NEW t \in Tasks, Typed,
         NEW why \in {"cold", "hot", "throttled"}
  PROVE  LET can == can_migrate_task(v, t, why)
         IN  /\ can.flags \in SUBSET {"ALL_PINNED", "DST_PINNED", "NEED_BREAK"}
             /\ can.new_dst \in Cpus \cup {NoCpu}
             /\ "NEED_BREAK" \in can.flags => "NEED_BREAK" \in v.flags
             /\ "DST_PINNED" \in can.flags => can.new_dst \in (sd(v).group \cap v.cpus) \ {v.dst}
             /\ can.ok => v.dst \in task[t].cpus_allowed /\ rq[v.src].curr # t
  <1> DEFINE can == can_migrate_task(v, t, why)
             allowed == task[t].cpus_allowed
             others == sd(v).group \cap v.cpus \cap allowed
             look == v.idle # "NEWLY_IDLE" /\ "DST_PINNED" \notin v.flags /\ others # {}
  <1>1. /\ v.flags \in SUBSET {"ALL_PINNED", "DST_PINNED", "NEED_BREAK"} /\ v.new_dst \in Cpus \cup {NoCpu}
        /\ "DST_PINNED" \in v.flags => v.new_dst \in (sd(v).group \cap v.cpus) \ {v.dst}
    BY DEF EnvType, Pulling
  <1>2. others \subseteq Cpus
    BY DomainFacts
  <1>3. look => Min(others) \in others
    BY <1>2, CpusAssumption, MinInSet
  <1>4. CASE why = "throttled"
    BY <1>1, <1>4 DEF can_migrate_task
  <1>5. CASE why # "throttled" /\ v.dst \notin allowed
    <2>1. can = [ok |-> FALSE, flags |-> v.flags \cup (IF look THEN {"DST_PINNED"} ELSE {}),
                 new_dst |-> IF look THEN Min(others) ELSE v.new_dst]
      BY <1>5 DEF can_migrate_task
    <2>2. can.ok = FALSE /\ can.flags = v.flags \cup (IF look THEN {"DST_PINNED"} ELSE {})
          /\ can.new_dst = IF look THEN Min(others) ELSE v.new_dst
      BY <2>1
    <2>3. CASE look
      BY <1>1, <1>2, <1>3, <1>5, <2>2, <2>3
    <2>4. CASE ~look
      <3>1. can.flags = v.flags /\ can.new_dst = v.new_dst
        BY <2>2, <2>4
      <3> HIDE DEF can, look
      <3> QED BY <1>1, <2>2, <3>1 DEF can
    <2> QED BY <2>3, <2>4
  <1>6. CASE why # "throttled" /\ v.dst \in allowed
    <2>1. can = [ok |-> why = "cold" /\ rq[v.src].curr # t, flags |-> v.flags \ {"ALL_PINNED"},
                 new_dst |-> v.new_dst]
      BY <1>6 DEF can_migrate_task
    <2>2. /\ can.ok = (why = "cold" /\ rq[v.src].curr # t) /\ can.flags = v.flags \ {"ALL_PINNED"}
          /\ can.new_dst = v.new_dst
      BY <2>1
    <2> HIDE DEF can
    <2> QED BY <1>1, <1>6, <2>2 DEF can
  <1> QED BY <1>4, <1>5, <1>6

\* What a pass holds in its hands are tasks.
LEMMA HeldTasks ==
  ASSUME Typed, NEW e \in Cpus
  PROVE  Held(e) \subseteq Tasks
  <1>1. env[e].tasks \in Seq(Tasks)
    BY DEF Typed, EnvType
  <1>2. ToSet(env[e].tasks) \subseteq Tasks
    BY <1>1 DEF ToSet
  <1> QED BY <1>2 DEF Held

\* detach_task: a task that its CPU does not run comes from its queue into the hand of e.
LEMMA DetachTaskIInv ==
  ASSUME IInv, NEW e \in Cpus, NEW x \in EnvType, NEW y \in EnvType, NEW t \in Tasks,
         x.src \in Cpus, rq[x.src].lock \in {NoCpu, e}, Locks(env[e]) \subseteq {x.src},
         t \in ToSet(rq[x.src].cfs_tasks), rq[x.src].curr # t, y.dst \in task[t].cpus_allowed,
         y = [x EXCEPT !.p = t, !.pc = IF Preempt THEN "lock_first" ELSE "trylock"],
         Shape(e, y), y.tasks = env[e].tasks, y.dst = env[e].dst, env[e].p = Idle, env[e].pc # "attach_one",
         SameCurr(env[e], y), SameKick(env[e], y), detach_task(e, x, t), UNCHANGED affine
  PROVE  IInv'
  <1> DEFINE v == env[e]
             s == x.src
  <1>0. Typed /\ LocksHeld /\ QueuesExact /\ HandsExact /\ HandsForDst /\ AffinityKept /\ CurrQueued
        /\ ActiveOwned /\ PushElsewhere /\ \A f \in Cpus : Shape(f, env[f])
    BY DEF IInv
  <1>1. y.p = t /\ y.pc = (IF Preempt THEN "lock_first" ELSE "trylock") /\ y.src = s
    BY DEF EnvType
  <1>2. Becomes(e, y) /\ task' = [task EXCEPT ![t].on_rq = "migrating"]
    BY DEF detach_task
  <1>3. env'[e] = y /\ (\A f \in Cpus \ {e} : env'[f] = env[f]) /\ env' \in [Cpus -> EnvType]
    BY <1>0, <1>2, BecomesFacts
  <1>4. /\ task' \in [Tasks -> TaskType]
        /\ \A u \in Tasks \ {t} : task'[u] = task[u]
        /\ task'[t].on_rq = "migrating" /\ task'[t].cpu = task[t].cpu
        /\ task'[t].cpus_allowed = task[t].cpus_allowed
    BY <1>0, <1>2 DEF Typed, TaskType
  <1>5. rq[s] \in RqType /\ rq[s].cfs_tasks \in Seq(Tasks) /\ Injective(rq[s].cfs_tasks)
    BY <1>0 DEF Typed, RqType, QueuesExact
  <1>6. /\ RemoveFirst(rq[s].cfs_tasks, t) \in Seq(Tasks)
        /\ ToSet(RemoveFirst(rq[s].cfs_tasks, t)) = ToSet(rq[s].cfs_tasks) \ {t}
        /\ Injective(RemoveFirst(rq[s].cfs_tasks, t))
    BY <1>5, RemoveFirstFacts
  <1>7. /\ rq' \in [Cpus -> RqType]
        /\ \A d \in Cpus \ {s} : rq'[d] = rq[d]
        /\ rq'[s].lock = (IF Preempt THEN NoCpu ELSE e)
        /\ rq'[s].cfs_tasks = RemoveFirst(rq[s].cfs_tasks, t)
        /\ rq'[s].curr = rq[s].curr /\ rq'[s].active_balance = rq[s].active_balance
        /\ rq'[s].work = rq[s].work /\ rq'[s].push_cpu = rq[s].push_cpu
    <2> DEFINE r == [Dequeued(rq[s], t) EXCEPT !.lock = IF Preempt THEN NoCpu ELSE e]
    <2>1. /\ r \in RqType /\ r.lock = (IF Preempt THEN NoCpu ELSE e)
          /\ r.cfs_tasks = RemoveFirst(rq[s].cfs_tasks, t)
          /\ r.curr = rq[s].curr /\ r.active_balance = rq[s].active_balance
          /\ r.work = rq[s].work /\ r.push_cpu = rq[s].push_cpu
      BY <1>5, <1>6 DEF RqType, Dequeued
    <2>2. rq' = [rq EXCEPT ![s] = r]
      BY DEF detach_task
    <2> HIDE DEF r
    <2> QED BY <1>0, <2>1, <2>2 DEF Typed
  <1>8. task[t].on_rq = "queued" /\ task[t].cpu = s
    BY <1>0 DEF QueuesExact
  <1>9. Typed' /\ \A f \in Cpus : Shape(f, env'[f])
    BY <1>0, <1>3, <1>4, <1>7 DEF Typed
  <1>10. LocksHeld'
    <2>1. Locks(y) = IF Preempt THEN {} ELSE {s}
      BY <1>1 DEF Locks
    <2>2. LockStep(e, v, y)
      BY <1>7, <2>1 DEF LockStep
    <2> QED BY <1>0, <1>2, <2>2, LocksKept
  <1>11. QueuesExact'
    BY <1>0, <1>4, <1>6, <1>7, <1>8, SMTT(30) DEF QueuesExact
  <1>12. /\ \A f \in Cpus \ {e} : Held(f)' = Held(f)
         /\ Held(e)' = Held(e) \cup {t} /\ Held(e) = ToSet(v.tasks)
         /\ \A f \in Cpus : t \notin Held(f)
    <2>1. \A f \in Cpus : t \notin Held(f)
      BY <1>0, <1>8 DEF HandsExact
    <2> QED BY <1>1, <1>3, <2>1, TasksAssumption DEF Held
  <1>13. HandsExact'
    <2>1. \A f \in Cpus : env'[f].p \notin ToSet(env'[f].tasks) /\ Injective(env'[f].tasks)
      <3>1. \A f \in Cpus : env[f].p \notin ToSet(env[f].tasks) /\ Injective(env[f].tasks)
        BY <1>0 DEF HandsExact
      <3>2. env'[e].p = t /\ env'[e].tasks = v.tasks /\ t \notin ToSet(v.tasks)
        BY <1>1, <1>3, <1>12
      <3> QED BY <1>3, <3>1, <3>2
    <2>2. \A u \in Tasks : task'[u].on_rq = "migrating" <=> \E f \in Cpus : u \in Held(f)'
      BY <1>0, <1>4, <1>12 DEF HandsExact
    <2>3. \A u \in Tasks, d, f \in Cpus : u \in Held(d)' /\ u \in Held(f)' => d = f
      BY <1>0, <1>12 DEF HandsExact
    <2> QED BY <2>1, <2>2, <2>3 DEF HandsExact
  <1>14. HandsForDst'
    <2>1. \A f \in Cpus : \A u \in Held(f) : u \in Tasks /\ u # t
      BY <1>0, <1>12, HeldTasks
    <2>2. ASSUME NEW f \in Cpus
          PROVE  /\ \A u \in Held(f)' : env'[f].dst \in task'[u].cpus_allowed
                 /\ \A u \in ToSet(env'[f].tasks) : task'[u].cpu = env'[f].dst
                 /\ env'[f].pc = "attach_one" => task'[env'[f].p].cpu = env'[f].dst
      <3>1. CASE f = e
        <4>1. \A u \in Held(e) : task'[u] = task[u] /\ v.dst \in task[u].cpus_allowed /\ task[u].cpu = v.dst
          BY <1>0, <1>4, <1>12, <2>1 DEF HandsForDst
        <4>2. env'[e].dst = v.dst /\ env'[e].tasks = v.tasks /\ env'[e].pc # "attach_one"
          BY <1>1, <1>3
        <4>3. v.dst \in task'[t].cpus_allowed
          BY <1>1, <1>4
        <4> QED BY <1>12, <3>1, <4>1, <4>2, <4>3
      <3>2. CASE f # e
        <4>1. ToSet(env[f].tasks) \subseteq Held(f)
          BY DEF Held
        <4>2. env[f].pc = "attach_one" => env[f].p \in Held(f)
          BY <1>0 DEF Shape, Held
        <4>3. env'[f] = env[f] /\ Held(f)' = Held(f) /\ \A u \in Held(f) : task'[u] = task[u]
          BY <1>3, <1>4, <1>12, <2>1, <3>2
        <4> QED BY <1>0, <4>1, <4>2, <4>3 DEF HandsForDst
      <3> QED BY <3>1, <3>2
    <2> QED BY <2>2 DEF HandsForDst
  <1>15. AffinityKept'
    BY <1>0, <1>4 DEF AffinityKept
  <1>16. CurrQueued'
    <2>1. \A c \in Cpus : rq'[c].curr = rq[c].curr /\ SameCurr(env[c], env'[c])
      BY <1>3, <1>7 DEF SameCurr
    <2>2. \A c \in Cpus : rq[c].curr # t
      BY <1>0, <1>8 DEF CurrQueued
    <2> QED BY <1>0, <1>4, <2>1, <2>2, CurrKept
  <1>17. ActiveOwned' /\ PushElsewhere'
    <2>1. \A c \in Cpus : /\ SameKick(env[c], env'[c])
                          /\ rq'[c].active_balance = rq[c].active_balance
                          /\ rq'[c].work = rq[c].work /\ rq'[c].push_cpu = rq[c].push_cpu
      BY <1>3, <1>7 DEF SameKick
    <2> QED BY <1>0, <2>1, ActiveKept
  <1> QED BY <1>9, <1>10, <1>11, <1>13, <1>14, <1>15, <1>16, <1>17 DEF IInv

\* The loop counts a task of the queue before it looks at it.
LEMMA PassStep ==
  ASSUME NEW e \in Cpus, NEW v \in EnvType, AtDomain(e, v), Pulling(v), v.loop <= v.loop_max,
         "NEED_BREAK" \notin v.flags
  PROVE  LET w == [v EXCEPT !.pc = "detach", !.loop = @ + 1]
         IN  /\ w \in EnvType /\ AtDomain(e, w) /\ sd(w) = sd(v) /\ Pulling(w)
             /\ w.pc = "detach" /\ w.loop = v.loop + 1 /\ w.loop_max = v.loop_max /\ w.flags = v.flags
             /\ w.cpu = v.cpu /\ w.level = v.level /\ w.idle = v.idle /\ w.p = v.p /\ w.tasks = v.tasks
             /\ w.src = v.src /\ w.dst = v.dst /\ w.new_dst = v.new_dst /\ w.cpus = v.cpus
  <1> DEFINE w == [v EXCEPT !.pc = "detach", !.loop = @ + 1]
  <1>1. w \in EnvType
    <2> DEFINE a == [v EXCEPT !.pc = "detach"]
    <2>1. a \in EnvType
      BY PcTyped DEF PullPcs
    <2>2. v.loop + 1 \in Nat
      BY DEF EnvType
    <2>3. w = [a EXCEPT !.loop = v.loop + 1]
      BY DEF EnvType
    <2> HIDE DEF a, w
    <2> QED BY <2>1, <2>2, <2>3, LoopTyped
  <1>2. /\ w.pc = "detach" /\ w.loop = v.loop + 1 /\ w.loop_max = v.loop_max /\ w.flags = v.flags
        /\ w.cpu = v.cpu /\ w.level = v.level /\ w.idle = v.idle /\ w.p = v.p /\ w.tasks = v.tasks
        /\ w.src = v.src /\ w.dst = v.dst /\ w.new_dst = v.new_dst /\ w.cpus = v.cpus
    BY DEF EnvType
  <1>3. v.loop \in Nat /\ v.loop_max \in Nat
    BY DEF EnvType
  <1> HIDE DEF w
  <1>4. AtDomain(e, w) /\ sd(w) = sd(v)
    BY <1>2 DEF AtDomain, sd
  <1>5. Pulling(w)
    BY <1>2, <1>3, <1>4 DEF Pulling
  <1> QED BY <1>1, <1>2, <1>4, <1>5 DEF w

\* detach_tasks, with all its ways out.
LEMMA DetachTasksIInv ==
  ASSUME IInv, NEW e \in Cpus, detach_tasks(e)
  PROVE  IInv'
  <1> DEFINE v == env[e]
             q == rq[v.src].cfs_tasks
             t == Head(q)
             w == [v EXCEPT !.pc = "detach", !.loop = @ + 1]
             brk == [w EXCEPT !.loop_break = @ + NrMigrateBreak, !.flags = @ \cup {"NEED_BREAK"}]
             can(why) == can_migrate_task(v, t, why)
             x(why) == [w EXCEPT !.flags = can(why).flags, !.new_dst = can(why).new_dst]
  <1>0. v.pc = "detach" \/ (v.pc = "more_balance" /\ Unlocked(v.src))
    BY DEF detach_tasks
  <1>1. /\ v \in EnvType /\ Shape(e, v) /\ BalanceShape(e, v) /\ AtDomain(e, v)
        /\ Pulling(v) /\ v.level # 0 /\ v.p = Idle
        /\ v.src \in Cpus /\ v.dst \in Cpus /\ v.src # v.dst
        /\ "NEED_BREAK" \notin v.flags
        /\ rq[v.src].lock \in {NoCpu, e} /\ Locks(v) \subseteq {v.src}
    BY <1>0, PassFacts
  <1>2. v.loop <= v.loop_max /\ v.loop \in Nat /\ v.loop_max \in Nat
    BY <1>0, <1>1 DEF BalanceShape, PullPcs, EnvType
  <1>3. /\ w \in EnvType /\ AtDomain(e, w) /\ sd(w) = sd(v) /\ Pulling(w)
        /\ w.pc = "detach" /\ w.loop = v.loop + 1 /\ w.loop_max = v.loop_max /\ w.flags = v.flags
        /\ w.cpu = v.cpu /\ w.level = v.level /\ w.idle = v.idle /\ w.p = v.p /\ w.tasks = v.tasks
        /\ w.src = v.src /\ w.dst = v.dst /\ w.new_dst = v.new_dst /\ w.cpus = v.cpus
    BY <1>1, <1>2, PassStep
  <1>4. UNCHANGED affine
    BY DEF detach_tasks
  <1>5. \/ DetachEnd(e, v) /\ UNCHANGED task
        \/ DetachEnd(e, w) /\ UNCHANGED task
        \/ w.loop <= v.loop_max /\ DetachEnd(e, brk) /\ UNCHANGED task
        \/ /\ q # <<>> /\ w.loop <= v.loop_max
           /\ \E why \in {"cold", "hot", "throttled"} :
                \/ can(why).ok /\ detach_task(e, x(why), t)
                \/ /\ rq' = [rq EXCEPT ![v.src].lock = e, ![v.src].cfs_tasks = Append(Tail(q), t)]
                   /\ Becomes(e, x(why)) /\ UNCHANGED task
    BY Zenon DEF detach_tasks
  <1> HIDE DEF w
  <1>6. CASE DetachEnd(e, v) /\ UNCHANGED task
    BY <1>0, <1>1, <1>4, <1>6, DetachEndIInv
  <1>7. CASE DetachEnd(e, w) /\ UNCHANGED task
    BY <1>0, <1>1, <1>3, <1>4, <1>7, DetachEndIInv
  <1>8. CASE w.loop <= v.loop_max /\ DetachEnd(e, brk) /\ UNCHANGED task
    <2>1. brk \in EnvType
      <3> DEFINE n == w.loop_break + NrMigrateBreak
                 f == w.flags \cup {"NEED_BREAK"}
                 a == [w EXCEPT !.loop_break = n]
      <3>1. n \in Nat /\ f \in SUBSET {"ALL_PINNED", "DST_PINNED", "NEED_BREAK"}
        BY <1>3, NumbersAssumption DEF EnvType
      <3>2. brk = [a EXCEPT !.flags = f]
        BY <1>3 DEF EnvType
      <3> HIDE DEF n, f, brk
      <3>3. a \in EnvType
        BY <1>3, <3>1, LoopTyped
      <3> HIDE DEF a
      <3> QED BY <3>1, <3>2, <3>3, FlagsTyped
    <2>2. /\ brk.flags = w.flags \cup {"NEED_BREAK"} /\ brk.loop = w.loop /\ brk.loop_max = w.loop_max
          /\ brk.cpu = w.cpu /\ brk.level = w.level /\ brk.idle = w.idle /\ brk.p = w.p /\ brk.tasks = w.tasks
          /\ brk.src = w.src /\ brk.dst = w.dst /\ brk.new_dst = w.new_dst /\ brk.cpus = w.cpus
      BY <1>3 DEF EnvType
    <2> HIDE DEF brk
    <2>3. AtDomain(e, brk) /\ sd(brk) = sd(w)
      BY <1>3, <2>2 DEF AtDomain, sd
    <2>4. Pulling(brk)
      BY <1>3, <1>8, <2>2, <2>3 DEF Pulling
    <2> QED BY <1>0, <1>1, <1>3, <1>4, <1>8, <2>1, <2>2, <2>3, <2>4, DetachEndIInv
  <1>9. ASSUME q # <<>>, w.loop <= v.loop_max, NEW why \in {"cold", "hot", "throttled"},
               \/ can(why).ok /\ detach_task(e, x(why), t)
               \/ /\ rq' = [rq EXCEPT ![v.src].lock = e, ![v.src].cfs_tasks = Append(Tail(q), t)]
                  /\ Becomes(e, x(why)) /\ UNCHANGED task
        PROVE  IInv'
    <2> DEFINE z == x(why)
    <2>1. q \in Seq(Tasks) /\ Injective(q)
      BY <1>1 DEF IInv, Typed, RqType, QueuesExact
    <2>2. /\ t \in ToSet(q) /\ t \in Tasks
          /\ Append(Tail(q), t) \in Seq(Tasks)
          /\ ToSet(Append(Tail(q), t)) = ToSet(q) /\ Injective(Append(Tail(q), t))
      <3>1. ToSet(q) \subseteq Tasks
        BY <2>1 DEF ToSet
      <3> QED BY <1>9, <2>1, <3>1, RotateFacts
    <2> HIDE DEF q, t
    <2>3. /\ can(why).flags \in SUBSET {"ALL_PINNED", "DST_PINNED", "NEED_BREAK"}
          /\ can(why).new_dst \in Cpus \cup {NoCpu}
          /\ "NEED_BREAK" \notin can(why).flags
          /\ "DST_PINNED" \in can(why).flags => can(why).new_dst \in (sd(v).group \cap v.cpus) \ {v.dst}
          /\ can(why).ok => v.dst \in task[t].cpus_allowed /\ rq[v.src].curr # t
      BY <1>1, <2>2, CanMigrateFacts DEF IInv
    <2> HIDE DEF can
    <2>4. z \in EnvType
      BY <1>3, <2>3 DEF EnvType
    <2>5. /\ z.flags = can(why).flags /\ z.new_dst = can(why).new_dst /\ z.pc = "detach"
          /\ z.loop = w.loop /\ z.loop_max = w.loop_max
          /\ z.cpu = v.cpu /\ z.level = v.level /\ z.idle = v.idle /\ z.p = Idle /\ z.tasks = v.tasks
          /\ z.src = v.src /\ z.dst = v.dst /\ z.cpus = v.cpus
      BY <1>1, <1>3 DEF EnvType
    <2> HIDE DEF z
    <2>6. AtDomain(e, z) /\ sd(z) = sd(v)
      BY <1>1, <2>5 DEF AtDomain, sd
    <2>7. Pulling(z) /\ z.loop <= z.loop_max
      BY <1>1, <1>2, <1>3, <1>9, <2>3, <2>5, <2>6 DEF Pulling
    <2>8. CASE can(why).ok /\ detach_task(e, z, t)
      <3> DEFINE y == [z EXCEPT !.p = t, !.pc = IF Preempt THEN "lock_first" ELSE "trylock"]
                 pc == IF Preempt THEN "lock_first" ELSE "trylock"
      <3>1. pc \in LockPcs \ {"lock_dst"} /\ pc \in PullPcs /\ pc \notin {"stop_one_cpu", "attach_one", "run"}
        BY DEF LockPcs, PullPcs
      <3>2. y \in EnvType
        <4> DEFINE a == [z EXCEPT !.p = t]
        <4>1. a \in EnvType
          BY <2>2, <2>4, HandTyped, EmptyFacts
        <4>2. y = [a EXCEPT !.pc = pc]
          BY <2>4 DEF EnvType
        <4> HIDE DEF a, y, pc
        <4> QED BY <3>1, <4>1, <4>2, PcTyped
      <3>3. /\ y.pc = pc /\ y.p = t
            /\ y.flags = z.flags /\ y.new_dst = z.new_dst /\ y.loop = z.loop /\ y.loop_max = z.loop_max
            /\ y.cpu = z.cpu /\ y.level = z.level /\ y.idle = z.idle /\ y.tasks = z.tasks
            /\ y.src = z.src /\ y.dst = z.dst /\ y.cpus = z.cpus
        BY <2>4 DEF EnvType
      <3> HIDE DEF y, pc
      <3>4. AtDomain(e, y) /\ sd(y) = sd(z)
        BY <2>6, <3>3 DEF AtDomain, sd
      <3>5. Pulling(y) /\ y.loop <= y.loop_max
        BY <2>7, <3>3, <3>4 DEF Pulling
      <3>6. BalanceShape(e, y)
        BY <2>3, <2>5, <3>1, <3>3, <3>4, <3>5
           DEF BalanceShape, LockPcs, ActivePcs, PullPcs, CallerPcs
      <3>7. Shape(e, y)
        BY <1>1, <2>2, <2>5, <3>1, <3>3, <3>6 DEF Shape
      <3>8. SameCurr(v, y) /\ SameKick(v, y)
        BY <1>0, <1>1, <2>5, <3>1, <3>3 DEF SameCurr, SameKick, AtStop, Stopping
      <3>9. y = [z EXCEPT !.p = t, !.pc = IF Preempt THEN "lock_first" ELSE "trylock"]
        BY DEF y
      <3>10. t \in ToSet(rq[z.src].cfs_tasks) /\ rq[z.src].curr # t /\ y.dst \in task[t].cpus_allowed
        BY <2>2, <2>3, <2>5, <2>8, <3>3 DEF q
      <3>11. /\ z.src \in Cpus /\ rq[z.src].lock \in {NoCpu, e} /\ Locks(env[e]) \subseteq {z.src}
             /\ y.tasks = env[e].tasks /\ y.dst = env[e].dst /\ env[e].p = Idle /\ env[e].pc # "attach_one"
        BY <1>0, <1>1, <2>5, <3>3
      <3> QED BY <1>4, <2>2, <2>4, <2>8, <3>2, <3>7, <3>8, <3>9, <3>10, <3>11, DetachTaskIInv
    <2>9. CASE /\ rq' = [rq EXCEPT ![v.src].lock = e, ![v.src].cfs_tasks = Append(Tail(q), t)]
               /\ Becomes(e, z) /\ UNCHANGED task
      <3>1. BalanceShape(e, z)
        BY <2>3, <2>5, <2>6, <2>7 DEF BalanceShape, LockPcs, ActivePcs, PullPcs, CallerPcs
      <3>2. Shape(e, z)
        BY <1>1, <2>5, <3>1, TasksAssumption DEF Shape, LockPcs
      <3>3. SameHand(v, z) /\ SameCurr(v, z) /\ SameKick(v, z)
        BY <1>0, <1>1, <2>5 DEF SameHand, SameCurr, SameKick, AtStop, Stopping
      <3>4. /\ rq' \in [Cpus -> RqType]
            /\ rq'[v.src].lock = e /\ rq'[v.src].cfs_tasks = Append(Tail(q), t)
            /\ \A d \in Cpus \ {v.src} : rq'[d] = rq[d]
            /\ \A d \in Cpus : /\ rq'[d].curr = rq[d].curr /\ rq'[d].active_balance = rq[d].active_balance
                               /\ rq'[d].work = rq[d].work /\ rq'[d].push_cpu = rq[d].push_cpu
        <4> DEFINE r == [rq[v.src] EXCEPT !.lock = e, !.cfs_tasks = Append(Tail(q), t)]
        <4>1. rq[v.src] \in RqType /\ rq \in [Cpus -> RqType]
          BY <1>1 DEF IInv, Typed
        <4>2. /\ r \in RqType /\ r.lock = e /\ r.cfs_tasks = Append(Tail(q), t)
              /\ r.curr = rq[v.src].curr /\ r.active_balance = rq[v.src].active_balance
              /\ r.work = rq[v.src].work /\ r.push_cpu = rq[v.src].push_cpu
          BY <2>2, <4>1 DEF RqType
        <4>3. rq' = [rq EXCEPT ![v.src] = r]
          BY <1>1, <2>9, <4>1
        <4> HIDE DEF r
        <4> QED BY <1>1, <4>1, <4>2, <4>3
      <3>5. \A d \in Cpus : /\ ToSet(rq'[d].cfs_tasks) = ToSet(rq[d].cfs_tasks)
                            /\ Injective(rq'[d].cfs_tasks)
        BY <2>2, <3>4, ZenonT(40) DEF IInv, QueuesExact, q
      <3>6. Locks(z) = {v.src}
        BY <2>5 DEF Locks
      <3>7. LockStep(e, v, z)
        BY <1>1, <3>4, <3>6 DEF LockStep
      <3> QED BY <1>4, <2>4, <2>9, <3>2, <3>3, <3>4, <3>5, <3>7, QuietIInv
    <2> QED BY <1>9, <2>8, <2>9 DEF z
  <1> QED BY <1>5, <1>6, <1>7, <1>8, <1>9
=============================================================================
