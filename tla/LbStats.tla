------------------------------- MODULE LbStats -------------------------------
(***************************************************************************)
(* find_busiest_group and find_busiest_queue of kernel/sched/fair.c: which *)
(* group and which run queue a CPU pulls from, and how much load.          *)
(*                                                                         *)
(* A domain is [groups, imbalance_pct, prefer_sibling, asym_capacity,      *)
(* asym_packing]; a group is [cpus, imbalance], and the groups are a       *)
(* sequence that starts with the local one, as sd->groups does.  A CPU is  *)
(* [load, util, nr, misfit, orig, rt_used]: only fair tasks count, and the *)
(* biased loads of LB_BIAS are the load.  An environment is [dst, idle,    *)
(* cpus, aware]; aware says whether the features ENERGY_AWARE or           *)
(* CAPACITY_AWARE are on, and the domain is the topmost one.  There is one *)
(* NUMA node, so fbq_type plays no role.                                   *)
(***************************************************************************)
EXTENDS Integers, Sequences, FiniteSetsExt, SequencesExt

CONSTANTS CapScale,          \* SCHED_CAPACITY_SCALE
          capacity_margin    \* 1280 on a scale of 1024

group_other       == 0
group_misfit_task == 1
group_imbalanced  == 2
group_overloaded  == 3

NoLimit == 2000000000        \* ~0UL
NoGroup == 0                 \* sds->busiest = NULL; groups are numbered from one

Least(a, b) == IF a <= b THEN a ELSE b
SumOver(C, f) == MapThenSumSet(LAMBDA c : f[c], C)

----------------------------------------------------------------------------
(* update_group_capacity: what realtime leaves of a CPU, at least one.     *)

scale_rt_capacity(c) == IF c.rt_used < CapScale THEN CapScale - c.rt_used ELSE 1

update_cpu_capacity(c) ==
  LET capacity == (c.orig * scale_rt_capacity(c)) \div CapScale
  IN  IF capacity = 0 THEN 1 ELSE capacity

max_capacity(cpu, sg) == Max({update_cpu_capacity(cpu[c]) : c \in sg.cpus})

check_cpu_capacity(sd, c) == update_cpu_capacity(c) * sd.imbalance_pct < c.orig * 100

----------------------------------------------------------------------------
(* update_sg_lb_stats *)

cpu_overutilized(c) == update_cpu_capacity(c) * CapScale < c.util * capacity_margin

group_has_capacity(sd, sgs) ==
  \/ sgs.sum_nr_running < sgs.group_weight
  \/ sgs.group_capacity * 100 > sgs.group_util * sd.imbalance_pct

group_is_overloaded(sd, sgs) ==
  /\ sgs.sum_nr_running > sgs.group_weight
  /\ sgs.group_capacity * 100 < sgs.group_util * sd.imbalance_pct

group_smaller_cpu_capacity(cpu, sg, ref) ==
  max_capacity(cpu, sg) + capacity_margin - CapScale < max_capacity(cpu, ref)

group_classify(sg, sgs) ==
  CASE sgs.group_no_capacity       -> group_overloaded
    [] sg.imbalance                -> group_imbalanced
    [] sgs.group_misfit_task > 0   -> group_misfit_task
    [] OTHER                       -> group_other

SetCapacity(sd, sgs) == [sgs EXCEPT !.group_no_capacity = group_is_overloaded(sd, sgs)]
SetType(sg, sgs) == [sgs EXCEPT !.group_type = group_classify(sg, sgs)]

\* The CPUs of the group that may still be pulled from are counted; capacity and
\* weight are those of the whole group.
update_sg_lb_stats(sd, cpu, sg, cpus) ==
  LET C    == sg.cpus \cap cpus
      over == {c \in C : cpu_overutilized(cpu[c]) /\ cpu[c].misfit}
      load == SumOver(C, [c \in C |-> cpu[c].load])
      nr   == SumOver(C, [c \in C |-> cpu[c].nr])
      capa == SumOver(sg.cpus, [c \in sg.cpus |-> update_cpu_capacity(cpu[c])])
      sgs  == [sum_nr_running    |-> nr,
               group_weight      |-> Cardinality(sg.cpus),
               group_capacity    |-> capa,
               group_util        |-> SumOver(C, [c \in C |-> cpu[c].util]),
               group_load        |-> load,
               avg_load          |-> (load * CapScale) \div capa,
               load_per_task     |-> IF nr = 0 THEN 0 ELSE load \div nr,
               idle_cpus         |-> Cardinality({c \in C : cpu[c].nr = 0}),
               group_misfit_task |-> IF over = {} THEN 0 ELSE update_cpu_capacity(cpu[Min(over)]),
               group_no_capacity |-> FALSE,
               group_type        |-> group_other]
  IN  SetType(sg, SetCapacity(sd, sgs))

\* What update_sd_lb_stats makes of the statistics of a group that is not local:
\* excess tasks go to siblings, a misfit task only to a more capable group.
Adjusted(sd, cpu, g, sgs, local) ==
  LET sg     == sd.groups[g]
      crowd  == sd.prefer_sibling /\ group_has_capacity(sd, local) /\ sgs.sum_nr_running > 1
      typed  == IF crowd THEN SetType(sg, [sgs EXCEPT !.group_no_capacity = TRUE]) ELSE sgs
      worse  == \/ ~group_has_capacity(sd, local)
                \/ ~group_smaller_cpu_capacity(cpu, sg, sd.groups[1])
  IN  IF typed.group_type = group_misfit_task /\ worse
        THEN [typed EXCEPT !.group_type = group_other] ELSE typed

\* The candidate g is busier than the group picked so far.
update_sd_pick_busiest(sd, cpu, env, local, best, g, sgs) ==
  LET first(i)  == Min(sd.groups[i].cpus)
      heavier   == /\ sgs.group_type = group_other => group_has_capacity(sd, local)
                   /\ sgs.avg_load > best.stat.avg_load
                   /\ ~ /\ sd.asym_capacity
                        /\ sgs.sum_nr_running <= sgs.group_weight
                        /\ group_smaller_cpu_capacity(cpu, sd.groups[1], sd.groups[g])
      packs     == \/ ~sd.asym_packing
                   \/ env.idle = "not_idle"
                   \/ /\ sgs.sum_nr_running > 0 /\ env.dst < first(g)
                      /\ best.group = NoGroup \/ first(best.group) < first(g)
  IN  \/ sgs.group_type > best.stat.group_type
      \/ sgs.group_type = best.stat.group_type /\ heavier /\ packs

Busier(sd, cpu, env, local, best, g, sgs) ==
  IF update_sd_pick_busiest(sd, cpu, env, local, best, g, sgs)
    THEN [group |-> g, stat |-> sgs] ELSE best

\* The groups that are not local, one after the other.
Busiest(sd, cpu, env, stat) ==
  LET local == stat[1]
      none  == [group |-> NoGroup,
                stat  |-> [local EXCEPT !.avg_load = 0, !.sum_nr_running = 0,
                                        !.group_type = group_other]]
  IN  FoldLeft(LAMBDA best, g : Busier(sd, cpu, env, local, best, g,
                                       Adjusted(sd, cpu, g, stat[g], local)),
               none, [i \in 1 .. Len(sd.groups) - 1 |-> i + 1])

DomainStats(stat, best) ==
  [local |-> stat[1], busiest |-> best.group, busiest_stat |-> best.stat,
   avg_load |-> (CapScale * SumOver(DOMAIN stat, [g \in DOMAIN stat |-> stat[g].group_load]))
                  \div SumOver(DOMAIN stat, [g \in DOMAIN stat |-> stat[g].group_capacity])]

\* The statistics of the local group, the busiest other group with its own, and the
\* average over the domain.
update_sd_lb_stats(sd, cpu, env) ==
  LET all(stat) == DomainStats(stat, Busiest(sd, cpu, env, stat))
  IN  all([g \in DOMAIN sd.groups |-> update_sg_lb_stats(sd, cpu, sd.groups[g], env.cpus)])

----------------------------------------------------------------------------
(* The amount of load to move. *)

\* Mutant: one task is moved whatever the loads are.
fix_always(cpu, env, local, busiest, imbalance) == busiest.load_per_task

\* One task is moved when the groups differ by more than it, or when the capacity
\* in use grows by it.
fix_small_imbalance(cpu, env, local, busiest, imbalance) ==
  LET dst    == cpu[env.dst]
      l_task == IF local.sum_nr_running > 0 THEN local.load_per_task
                ELSE IF dst.nr = 0 THEN 0 ELSE dst.load \div dst.nr
      imbn   == IF local.sum_nr_running > 0 /\ busiest.load_per_task > l_task THEN 1 ELSE 2
      scaled == (busiest.load_per_task * CapScale) \div busiest.group_capacity
      now    == (busiest.group_capacity * Least(busiest.load_per_task, busiest.avg_load)
                   + local.group_capacity * Least(l_task, local.avg_load)) \div CapScale
      taken  == IF busiest.avg_load > scaled
                  THEN busiest.group_capacity
                         * Least(busiest.load_per_task, busiest.avg_load - scaled)
                  ELSE 0
      added  == Least(busiest.avg_load * busiest.group_capacity,
                      busiest.load_per_task * CapScale) \div local.group_capacity
      move   == (taken + local.group_capacity * Least(l_task, local.avg_load + added))
                  \div CapScale
  IN  IF busiest.avg_load + scaled >= local.avg_load + scaled * imbn \/ move > now
        THEN busiest.load_per_task ELSE imbalance

calculate_imbalance(cpu, env, sds) ==
  LET local   == sds.local
      busiest == IF sds.busiest_stat.group_type = group_imbalanced
                   THEN [sds.busiest_stat EXCEPT !.load_per_task = Least(@, sds.avg_load)]
                   ELSE sds.busiest_stat
      above   == busiest.sum_nr_running * CapScale - busiest.group_capacity
      limit   == IF /\ busiest.group_type = group_overloaded
                    /\ local.group_type = group_overloaded
                    /\ above > 0
                   THEN (above * CapScale) \div busiest.group_capacity ELSE NoLimit
      level   == Least(Least(busiest.avg_load - sds.avg_load, limit) * busiest.group_capacity,
                       (sds.avg_load - local.avg_load) * local.group_capacity) \div CapScale
      boosted == IF busiest.group_type = group_misfit_task
                   THEN Max({level, busiest.group_misfit_task}) ELSE level
  IN  IF busiest.avg_load <= sds.avg_load \/ local.avg_load >= sds.avg_load
        THEN CASE busiest.group_type = group_misfit_task -> busiest.group_misfit_task
               [] busiest.group_type = group_overloaded /\ local.group_type <= group_misfit_task ->
                    busiest.load_per_task
               [] OTHER -> fix_small_imbalance(cpu, env, local, busiest, 0)
        ELSE IF boosted < busiest.load_per_task
               THEN fix_small_imbalance(cpu, env, local, busiest, boosted)
               ELSE boosted

\* The groups need no balancing, by their loads.
Balanced(sd, cpu, env, sds) ==
  LET local == sds.local  busiest == sds.busiest_stat
  IN  \/ local.avg_load >= busiest.avg_load
      \/ local.avg_load >= sds.avg_load
      \/ IF env.idle = "idle"
           THEN /\ busiest.group_type # group_overloaded
                /\ local.idle_cpus <= busiest.idle_cpus + 1
                /\ ~group_smaller_cpu_capacity(cpu, sd.groups[sds.busiest], sd.groups[1])
           ELSE 100 * busiest.avg_load <= sd.imbalance_pct * local.avg_load

check_asym_packing(sd, env, sds) ==
  /\ sd.asym_packing
  /\ env.idle # "not_idle"
  /\ sds.busiest # NoGroup
  /\ env.dst <= Min(sd.groups[sds.busiest].cpus)

\* Some kinds of imbalance are not judged by the average load.
ForceBalance(sd, env, sds) ==
  \/ sds.busiest_stat.group_type \in {group_imbalanced, group_misfit_task}
  \/ /\ env.idle = "newly_idle"
     /\ group_has_capacity(sd, sds.local)
     /\ sds.busiest_stat.group_no_capacity

\* rd->overutilized, as update_sd_lb_stats has just set it for the topmost domain.
overutilized(sd, cpu, env) ==
  \E g \in 1 .. Len(sd.groups), c \in env.cpus :
     c \in sd.groups[g].cpus /\ cpu_overutilized(cpu[c])

\* What the statistics come to.
Imbalance(sd, cpu, env, sds) ==
  LET busiest == sds.busiest_stat
      found(imb) == [group |-> sds.busiest, imbalance |-> imb, type |-> busiest.group_type]
      balanced == [group |-> NoGroup, imbalance |-> 0, type |-> group_other]
  IN  CASE env.aware /\ ~overutilized(sd, cpu, env) -> balanced
        [] check_asym_packing(sd, env, sds) ->
             \* env->busiest_group_type is not set on this path
             [found((busiest.avg_load * busiest.group_capacity + CapScale \div 2) \div CapScale)
                EXCEPT !.type = group_other]
        [] \/ sds.busiest = NoGroup
           \/ busiest.sum_nr_running = 0
           \/ ~ForceBalance(sd, env, sds) /\ Balanced(sd, cpu, env, sds) -> balanced
        [] OTHER -> found(calculate_imbalance(cpu, env, sds))

find_busiest_group(sd, cpu, env) == Imbalance(sd, cpu, env, update_sd_lb_stats(sd, cpu, env))

\* A queue with one task too heavy to move is passed over, unless the CPU lost
\* capacity or the task is a misfit; of the others the one with the most load for
\* its capacity is taken, the first of equals.
find_busiest_queue(sd, cpu, env, fbg) ==
  LET C       == sd.groups[fbg.group].cpus \cap env.cpus
      skip(c) == /\ cpu[c].nr = 1
                 /\ cpu[c].load > fbg.imbalance
                 /\ ~check_cpu_capacity(sd, cpu[c])
                 /\ fbg.type # group_misfit_task
      none    == [queue |-> {}, load |-> 0, capacity |-> 1]
      pick(best, c) ==
        IF ~skip(c) /\ cpu[c].load * best.capacity > best.load * update_cpu_capacity(cpu[c])
          THEN [queue |-> {c}, load |-> cpu[c].load, capacity |-> update_cpu_capacity(cpu[c])]
          ELSE best
  IN  FoldLeft(pick, none, SetToSortSeq(C, <)).queue
=============================================================================
