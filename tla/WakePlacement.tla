---------------------------- MODULE WakePlacement ----------------------------
(***************************************************************************)
(* select_task_rq_fair of kernel/sched/fair.c: the CPU that a task which   *)
(* wakes, forks or executes is queued on.                                  *)
(*                                                                         *)
(* A machine is that of EnergyModel with [features, overutilized, ea,      *)
(* cstate_aware, sync_hint, balance_wake, idle_cores, scan]: the features  *)
(* CAPACITY_AWARE and ENERGY_AWARE that are on, the mark of the root       *)
(* domain, whether there is an energy model, the sysctls, whether the      *)
(* domains have SD_BALANCE_WAKE, the hint has_idle_cores and whether       *)
(* select_idle_cpu finds the scan worth its cost.  A CPU has further       *)
(* [cload, curr, idle, stamp]: cpu_load[] at the index in use,             *)
(* capacity_curr_of, idle_cpu and rq->idle_stamp.  A task is [util, margin *)
(* (of its boost), load, allowed, boosted, prefer_idle, accepts, flips,    *)
(* tg, new].  A wakeup is [this, prev, flag, sync, curr_load, flips,       *)
(* same_wakee, expired], where flips are the waker's wakee_flips.          *)
(* There are no SMT siblings and WALT is off; -1 is no CPU.                *)
(***************************************************************************)
EXTENDS EnergyModel

CONSTANTS capacity_down_margin    \* 1706 on a scale of 1024

MIN_SHARES == 2
None == -1

----------------------------------------------------------------------------
(* Loads *)

source_load(m, c) == Least(m.cpu[c].cload, m.cpu[c].load)
target_load(m, c) == Max({m.cpu[c].cload, m.cpu[c].load})

\* One level of effective_load: what the share of the group on CPU c changes by
\* when wl is added there and wg to the group as a whole.
ShareShift(level, c, wl, wg) ==
  LET w == level.load_avg[c] + wl
      W == wg + level.tg_load_avg - level.contrib[c] + level.load_avg[c]
      share == IF W > 0 /\ w < W THEN (w * level.shares) \div W ELSE level.shares
  IN  Max({share, MIN_SHARES}) - level.se_load_avg[c]

\* Mutant: the levels above gain the weight as well.
weight_at_every_level(tg, c, wl, wg) ==
  FoldLeft(LAMBDA x, level : [wl |-> ShareShift(level, c, x.wl, x.wg), wg |-> wg],
           [wl |-> wl, wg |-> wg], tg).wl

\* tg is the sequence of the levels from the task's group up; it is empty for the
\* root group.  Above the first level the groups only redistribute.
effective_load(tg, c, wl, wg) ==
  FoldLeft(LAMBDA x, level : [wl |-> ShareShift(level, c, x.wl, x.wg), wg |-> 0],
           [wl |-> wl, wg |-> wg], tg).wl

----------------------------------------------------------------------------
(* Who wakes whom *)

\* The flips of the waker once this wakeup counts: halved when a second is over, one
\* more unless it woke the same task last.
record_wakee(w) ==
  (IF w.expired THEN w.flips \div 2 ELSE w.flips) + (IF w.same_wakee THEN 0 ELSE 1)

wake_wide(m, p, w) ==
  LET factor == Cardinality(m.clusters[ClusterOf(m, w.this)])
      master == Max({record_wakee(w), p.flips})
      slave  == Least(record_wakee(w), p.flips)
  IN  slave >= factor /\ master >= slave * factor

wake_affine(m, p, w) ==
  LET pct       == 125
      sync      == w.sync
      this_load == target_load(m, w.this)
                     - (IF sync THEN w.curr_load ELSE 0)   \* the waker is in the root group
      load      == source_load(m, w.prev)
      this_eff  == 100 * capacity_of(m, w.prev)
                     * (IF this_load > 0
                          THEN this_load + effective_load(p.tg, w.this, p.load, p.load) ELSE 1)
      prev_eff  == (100 + (pct - 100) \div 2) * capacity_of(m, w.this)
                     * (IF this_load > 0
                          THEN load + effective_load(p.tg, w.prev, 0, p.load) ELSE 1)
  IN  this_eff <= prev_eff

MaxCapacity(m) == Max({m.cpu[c].orig : c \in CPUs(m)})

wake_cap(m, p, w) ==
  LET min_cap == Least(m.cpu[w.prev].orig, m.cpu[w.this].orig)
      max_cap == MaxCapacity(m)
  IN  /\ max_cap - min_cap >= max_cap \div 8
      /\ min_cap * CapScale < p.util * capacity_margin

----------------------------------------------------------------------------
(* Fitting *)

boosted_task_util(p) == p.util + p.margin

cpu_util_wake(m, c, p, prev) ==
  IF c # prev \/ p.new THEN cpu_util(m, c)
  ELSE Least(Max({cpu_util(m, c) - p.util, 0}), m.cpu[c].orig)

capacity_spare_wake(m, c, p, prev) == m.cpu[c].orig - cpu_util_wake(m, c, p, prev)

__task_fits(m, p, c) == capacity_of(m, c) * CapScale > boosted_task_util(p) * capacity_margin

task_fits_max(m, p, c) ==
  \/ capacity_of(m, c) = MaxCapacity(m)
  \/ capacity_of(m, c) * capacity_margin > MaxCapacity(m) * CapScale
  \/ __task_fits(m, p, c)

----------------------------------------------------------------------------
(* The slow path: the idlest CPU of the idlest group, level by level *)

find_idlest_group(m, sd, p, w, this) ==
  LET imbalance == 100 + (125 - 100) \div 2
      local(g)  == this \in g
      spare(g)  == Max({0} \cup {capacity_spare_wake(m, c, p, w.prev) : c \in g})
      load(g)   == (SumOver(g, [c \in g |-> IF local(g) THEN source_load(m, c) ELSE target_load(m, c)])
                      * CapScale) \div SumOver(g, [c \in g |-> capacity_of(m, c)])
      allowed   == SelectSeq(sd.groups, LAMBDA g : g \cap p.allowed # {})
      here      == SelectSeq(allowed, local)
      others    == SelectSeq(allowed, LAMBDA g : ~local(g))
      better(a, g) == IF a = {} \/ load(g) < load(a) THEN g ELSE a
      roomier(a, g) == IF spare(g) > (IF a = {} THEN 0 ELSE spare(a)) THEN g ELSE a
      this_load  == IF here = <<>> THEN 0 ELSE load(here[1])
      this_spare == IF here = <<>> THEN 0 ELSE spare(here[1])
      by_load(idlest) ==
        IF idlest = {} \/ 100 * this_load < imbalance * load(idlest) THEN {} ELSE idlest
      by_spare(most, most_spare) ==
        CASE this_spare > p.util \div 2 /\ imbalance * this_spare > 100 * most_spare -> {}
          [] /\ this_spare <= p.util \div 2 \/ imbalance * this_spare <= 100 * most_spare
             /\ most_spare > p.util \div 2 -> most
          [] OTHER -> by_load(FoldLeft(better, {}, others))
      of(most) == by_spare(most, IF most = {} THEN 0 ELSE spare(most))
  IN  of(FoldLeft(roomier, {}, others))

\* Of the idle CPUs the one in the shallowest state, the last to go idle among
\* equals; without one the least loaded.
find_idlest_cpu(m, sg, p, this) ==
  LET shallower(b, c) ==
        LET state == m.cpu[c].cstate  stamp == m.cpu[c].stamp
        IN  CASE state >= 0 /\ state < b.latency -> [cpu |-> c, latency |-> state, stamp |-> stamp]
              [] state < 0 /\ stamp > b.stamp -> [b EXCEPT !.cpu = c, !.stamp = stamp]
              [] state >= 0 /\ state = b.latency /\ stamp > b.stamp ->
                   [b EXCEPT !.cpu = c, !.stamp = stamp]
              [] OTHER -> b
      lighter(b, c) ==
        LET load == m.cpu[c].load
        IN  IF load < b.load \/ (load = b.load /\ c = this) THEN [cpu |-> c, load |-> load] ELSE b
      choice == SetToSortSeq(sg \cap p.allowed, <)
      idle   == FoldLeft(shallower, [cpu |-> None, latency |-> NoLimit, stamp |-> 0],
                         SelectSeq(choice, LAMBDA c : m.cpu[c].idle))
      least  == FoldLeft(lighter, [cpu |-> this, load |-> NoLimit],
                         SelectSeq(choice, LAMBDA c : ~m.cpu[c].idle))
  IN  CASE Cardinality(sg) = 1 -> Min(sg)
        [] Cardinality(sg) # 1 /\ idle.cpu # None -> idle.cpu
        [] OTHER -> least.cpu

\* Every level of new_cpu below the one that was balanced; the levels have all the
\* flags of forks and executions.
descend(m, p, w, level) ==
  LET walk[l \in 0 .. level, this \in CPUs(m), new_cpu \in CPUs(m)] ==
        IF l = 0 THEN new_cpu
        ELSE LET group == find_idlest_group(m, Domains(m, this)[l], p, w, this)
                 found == find_idlest_cpu(m, group, p, this)
             IN  IF group = {} THEN walk[l - 1, this, new_cpu] ELSE walk[l - 1, found, found]
  IN  walk[level, w.this, w.prev]

----------------------------------------------------------------------------
(* The fast path: an idle CPU that shares the cache of the target *)

\* The CPUs of the span in the order of for_each_cpu_wrap from target.
Wrapped(span, target) ==
  SetToSortSeq({c \in span : c >= target}, <) \o SetToSortSeq({c \in span : c < target}, <)
FirstOr(s, default) == IF s = <<>> THEN default ELSE s[1]

IdleAllowed(m, p, span, target) ==
  SelectSeq(Wrapped(span, target), LAMBDA c : c \in p.allowed /\ m.cpu[c].idle)

\* Without SMT every CPU is a core.
select_idle_core(m, p, span, target) ==
  IF m.idle_cores THEN FirstOr(IdleAllowed(m, p, span, target), None) ELSE None

select_idle_cpu(m, p, span, target) ==
  IF m.scan THEN FirstOr(IdleAllowed(m, p, span, target), None) ELSE None

select_idle_smt(m, p, target) ==
  IF target \in p.allowed /\ m.cpu[target].idle THEN target ELSE None

\* Mutant: the task has to fit at the current frequency.
cstate_choice_now(m, p, groups, target) ==
  LET usage   == boosted_task_util(p)
      fitting == SelectSeq(groups, LAMBDA c : /\ c \in p.allowed /\ m.cpu[c].idle
                                              /\ usage <= m.cpu[c].curr)
  IN  IF fitting = <<>> THEN target ELSE fitting[1]

\* Of the idle CPUs on which the task fits: the target if its current frequency
\* will do, else the shallowest among those no bigger than the best so far.
cstate_choice(m, p, groups, target) ==
  LET usage   == boosted_task_util(p)
      fitting == SelectSeq(groups, LAMBDA c : /\ c \in p.allowed /\ m.cpu[c].idle
                                              /\ usage <= m.cpu[c].orig)
      better(b, c) == IF b = None \/ (/\ m.cpu[c].cstate < m.cpu[b].cstate
                                      /\ m.cpu[c].orig <= m.cpu[b].orig) THEN c ELSE b
      best    == FoldLeft(better, None, fitting)
  IN  IF best = None \/ (target \in Range(fitting) /\ usage <= m.cpu[target].curr)
        THEN target ELSE best

\* The last resort: the first group that is idle and allowed.
group_choice(m, p, groups, target) ==
  FirstOr(SelectSeq(groups, LAMBDA c : c # target /\ m.cpu[c].idle /\ c \in p.allowed), target)

select_idle_sibling(m, p, prev, target) ==
  LET sd     == Domains(m, target)[1]
      groups == [i \in DOMAIN sd.groups |-> Min(sd.groups[i])]
      found  == SelectSeq(<<select_idle_core(m, p, sd.span, target),
                            select_idle_cpu(m, p, sd.span, target),
                            select_idle_smt(m, p, target)>>, LAMBDA c : c # None)
  IN  CASE m.cstate_aware -> cstate_choice(m, p, groups, target)
        [] ~m.cstate_aware /\ m.cpu[target].idle -> target
        [] ~m.cstate_aware /\ ~m.cpu[target].idle /\ prev \in sd.span /\ m.cpu[prev].idle -> prev
        [] OTHER -> FirstOr(found, group_choice(m, p, groups, target))

----------------------------------------------------------------------------
(* With CAPACITY_AWARE: the least capable cluster that has room *)

capacity_aware_wake_cpu(m, p, w) ==
  LET sd     == Domains(m, w.prev)[2]
      first(g) == Min(g)
      better(b, g) == IF /\ b = {} \/ capacity_of(m, first(g)) < capacity_of(m, first(b))
                         /\ task_fits_max(m, p, first(g)) THEN g ELSE b
      home     == m.clusters[ClusterOf(m, w.prev)]
      down(cap) == /\ m.cpu[w.prev].orig > cap
                   /\ p.util * capacity_down_margin > cap * CapScale
      group(smallest) == CASE smallest = {} -> sd.groups[1]
                           [] smallest # {} /\ down(capacity_of(m, first(smallest))) -> home
                           [] OTHER -> smallest
      room     == SelectSeq(SetToSortSeq(group(FoldLeft(better, {}, sd.groups)) \cap p.allowed, <),
                            LAMBDA c : cpu_util(m, c) + boosted_task_util(p) <= m.cpu[c].orig)
      idle     == SelectSeq(room, LAMBDA c : m.cpu[c].idle)
  IN  CASE m.sync_hint /\ w.sync /\ w.this \in p.allowed -> w.this
        [] ~(m.sync_hint /\ w.sync /\ w.this \in p.allowed) /\ ~m.ea -> w.prev
        [] OTHER -> FirstOr(idle, FirstOr(SelectSeq(room, LAMBDA c : c # w.prev),
                                          w.prev))

----------------------------------------------------------------------------
(* The energy-aware choice *)

start_cpu(m, boosted) ==
  LET caps == {m.cpu[c].orig : c \in CPUs(m)}
      cap  == IF boosted THEN Max(caps) ELSE Min(caps)
  IN  Min({c \in CPUs(m) : m.cpu[c].orig = cap})

\* The CPUs in the order they are looked at, cluster by cluster.
ScanOrder(m, c) ==
  FlattenSeq([k \in DOMAIN m.clusters |->
                SetToSortSeq(Domains(m, c)[2].groups[k], <)])

Nothing == [target |-> None, spare |-> 0, capacity |-> NoLimit,
            idle |-> None, idle_capacity |-> NoLimit, idle_state |-> NoLimit,
            active |-> None, active_wake |-> NoLimit, active_util |-> NoLimit]

\* A busy CPU for a task that prefers idle ones: the most spare capacity where it
\* fits at the current frequency; until there is one, the least utilised.
active_for_idle_lover(m, b, c, wake_util, new_util) ==
  LET spare == m.cpu[c].orig - new_util
  IN  CASE m.cpu[c].curr > new_util /\ spare > b.spare -> [b EXCEPT !.spare = spare, !.target = c]
        [] /\ ~(m.cpu[c].curr > new_util /\ spare > b.spare)
           /\ b.target = None /\ wake_util <= b.active_wake /\ new_util <= b.active_util ->
             [b EXCEPT !.active = c, !.active_wake = wake_util, !.active_util = new_util]
        [] OTHER -> b

\* An idle CPU for another task: the least capable, the shallowest among equals.
best_idle(m, b, c) ==
  IF \/ m.cpu[c].orig > b.idle_capacity
     \/ m.cstate_aware /\ b.idle_state <= m.cpu[c].cstate
    THEN b
    ELSE [b EXCEPT !.idle = c, !.idle_capacity = m.cpu[c].orig, !.idle_state = m.cpu[c].cstate]

\* A busy one: the least capable with the most room.
best_active(m, b, c, new_util) ==
  IF m.cpu[c].orig > b.capacity \/ m.cpu[c].orig - new_util < b.spare THEN b
    ELSE [b EXCEPT !.target = c, !.spare = m.cpu[c].orig - new_util, !.capacity = m.cpu[c].orig]

new_util_of(m, p, prev, c) ==
  Max({boosted_task_util(p), cpu_util_wake(m, c, p, prev) + p.util})

HasRoom(m, p, prev, c) == new_util_of(m, p, prev, c) <= m.cpu[c].orig

\* The target and the backup of what was found.
TargetAndBackup(found, second) ==
  IF found.target = None THEN [target |-> second, backup |-> None]
  ELSE [target |-> found.target, backup |-> second]

find_best_target(m, p, prev) ==
  LET room == SelectSeq(ScanOrder(m, start_cpu(m, p.boosted)),
                        LAMBDA c : c \in p.allowed /\ HasRoom(m, p, prev, c))
      idle == SelectSeq(room, LAMBDA c : m.cpu[c].idle)
      look(b, c) ==
        CASE p.prefer_idle ->
               active_for_idle_lover(m, b, c, cpu_util_wake(m, c, p, prev), new_util_of(m, p, prev, c))
          [] ~p.prefer_idle /\ m.cpu[c].idle -> best_idle(m, b, c)
          [] OTHER -> best_active(m, b, c, new_util_of(m, p, prev, c))
      pair(found) == TargetAndBackup(found, IF p.prefer_idle THEN found.active ELSE found.idle)
  IN  CASE ~m.ea -> [target |-> None, backup |-> None]
        [] m.ea /\ p.prefer_idle /\ idle # <<>> -> [target |-> idle[1], backup |-> None]
        [] OTHER -> pair(FoldLeft(look, Nothing, room))

\* Negative when the move pays; what SchedTune makes of a boosted task's move is
\* not part of the repository: p.accepts is the set of CPUs it approves of.
energy_diff(m, p, prev, dst) ==
  LET diff == __energy_diff(m, [src |-> prev, dst |-> dst, util_delta |-> p.util])
  IN  CASE ~p.boosted -> diff
        [] p.boosted /\ dst \in p.accepts -> -1
        [] OTHER -> 1

\* Mutant: the backup is taken without asking what it costs.
backup_unasked(m, p, prev, best) ==
  CASE energy_diff(m, p, prev, best.target) < 0 -> best.target
    [] best.backup # None -> best.backup
    [] OTHER -> prev

\* The target if it saves energy, else the backup if that does, else where it was.
CheapestOf(m, p, prev, best) ==
  FirstOr(SelectSeq(<<best.target, best.backup>>,
                    LAMBDA c : c # None /\ energy_diff(m, p, prev, c) < 0), prev)

\* Some targets are taken without asking what they cost.
TargetOrCheapest(m, p, prev, best) ==
  CASE best.target = None -> prev
    [] /\ best.target # None
       /\ \/ (p.boosted \/ p.prefer_idle) /\ m.cpu[best.target].idle
          \/ best.target = prev
          \/ cpu_overutilized([m.cpu[prev] EXCEPT !.util = cpu_util(m, prev)]) -> best.target
    [] OTHER -> CheapestOf(m, p, prev, best)

select_energy_cpu_brute(m, p, w) ==
  LET hinted == m.sync_hint /\ w.sync /\ w.this \in p.allowed
  IN  CASE hinted -> w.this
        [] ~hinted /\ ~m.ea -> w.prev
        [] OTHER -> TargetOrCheapest(m, p, w.prev, find_best_target(m, p, w.prev))

----------------------------------------------------------------------------
\* Mutant: the waking CPU is a candidate although the task may not run there.
affine_anywhere(m, p, w) == (~wake_wide(m, p, w) /\ ~wake_cap(m, p, w)) \/ "CAPACITY_AWARE" \in m.features

want_affine(m, p, w) ==
  \/ ~wake_wide(m, p, w) /\ ~wake_cap(m, p, w) /\ w.this \in p.allowed
  \/ "CAPACITY_AWARE" \in m.features

select_task_rq_fair(m, p, w) ==
  LET affine == w.flag = "wake" /\ want_affine(m, p, w)
      slow   == ~affine /\ (w.flag = "fork" \/ m.balance_wake)
      target == IF affine /\ w.this # w.prev /\ wake_affine(m, p, w) THEN w.this ELSE w.prev
      calm   == ~m.overutilized
  IN  CASE slow -> descend(m, p, w, 2)
        [] ~slow /\ calm /\ "ENERGY_AWARE" \in m.features -> select_energy_cpu_brute(m, p, w)
        [] ~slow /\ calm /\ m.features = {"CAPACITY_AWARE"} -> capacity_aware_wake_cpu(m, p, w)
        [] OTHER -> select_idle_sibling(m, p, w.prev, target)
=============================================================================
