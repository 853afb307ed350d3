----------------------------- MODULE EnergyModel -----------------------------
(***************************************************************************)
(* The energy model of kernel/sched/fair.c: what the CPUs are estimated to *)
(* use when the utilisation of one task moves from one CPU to another.     *)
(*                                                                         *)
(* A machine is [clusters, cpu, sge]: a sequence of sets of CPUs, what is  *)
(* known of each CPU, and the energy tables of each group of CPUs          *)
(* (cap_states with cap and power, idle_states with power).  There are two *)
(* levels of scheduling domains: the CPUs of a cluster, which share their  *)
(* capacity states, and the clusters.  A CPU has what LbStats knows of it, *)
(* with util its cfs.avg.util_avg, and [cstate].  A move is [src, dst,     *)
(* util_delta].  No CPU goes offline, so no computation is abandoned.      *)
(* Tables and states are numbered from one.                                *)
(***************************************************************************)
EXTENDS LbStats

----------------------------------------------------------------------------
(* Scheduling domains, the lowest first; the groups of a domain start with *)
(* the one the CPU is in.                                                  *)

From(s, i) == SubSeq(s, i, Len(s)) \o SubSeq(s, 1, i - 1)
ClusterOf(m, c) == CHOOSE k \in DOMAIN m.clusters : c \in m.clusters[k]
CPUs(m) == UNION {m.clusters[k] : k \in DOMAIN m.clusters}

Domains(m, c) ==
  LET k     == ClusterOf(m, c)
      mates == SetToSortSeq(m.clusters[k], <)
  IN  <<[span |-> m.clusters[k],
         groups |-> [i \in DOMAIN mates |-> {From(mates, CHOOSE j \in DOMAIN mates : mates[j] = c)[i]}]],
        [span |-> CPUs(m), groups |-> From(m.clusters, k)]>>

----------------------------------------------------------------------------
capacity_of(m, c) == update_cpu_capacity(m.cpu[c])

__cpu_util(cpu, delta) == Least(Max({0, cpu.util + delta}), cpu.orig)
cpu_util(m, c) == __cpu_util(m.cpu[c], 0)

__cpu_norm_util(cpu, capacity, delta) ==
  LET util == __cpu_util(cpu, delta)
  IN  IF util >= capacity THEN CapScale ELSE (util * CapScale) \div capacity

calc_util_delta(e, c) ==
  CASE c = e.src -> -e.util_delta
    [] c # e.src /\ c = e.dst -> e.util_delta
    [] OTHER -> 0

group_max_util(m, e, sg_cap) ==
  Max({__cpu_util(m.cpu[c], calc_util_delta(e, c)) : c \in sg_cap})

group_norm_util(m, e, sg, capacity) ==
  Least(CapScale, SumOver(sg, [c \in sg |->
                                 __cpu_norm_util(m.cpu[c], capacity, calc_util_delta(e, c))]))

\* The first capacity state that is high enough; one past the last if none is.
find_new_capacity(sge, util) ==
  Min({i \in DOMAIN sge.cap_states : sge.cap_states[i].cap >= util} \cup {Len(sge.cap_states) + 1})

\* The idle state of a group: the shallowest of its CPUs, and when the move
\* changes its utilisation, one that goes linearly with what is left of it.
group_idle_state(m, e, sg) ==
  LET deepest  == Len(m.sge[sg].idle_states)
      util     == SumOver(sg, [c \in sg |-> cpu_util(m, c)])
                    + (IF e.src \in sg THEN -e.util_delta ELSE e.util_delta)
      capacity == Max({capacity_of(m, c) : c \in sg})
      steps    == Least(deepest - 2, (util * (deepest - 2)) \div capacity)
  IN  CASE (e.src \in sg) = (e.dst \in sg) -> Min({m.cpu[c].cstate : c \in sg}) + 2
        [] (e.src \in sg) # (e.dst \in sg) /\ util > capacity * Cardinality(sg) -> 1
        [] (e.src \in sg) # (e.dst \in sg) /\ util <= 0 -> deepest
        [] OTHER -> deepest - 1 - steps

----------------------------------------------------------------------------
(* sched_group_energy *)

\* The group whose most utilised CPU decides the capacity state of sg.
SharedCap(m, c, sg) ==
  LET shared == Domains(m, c)[2].groups[1]
  IN  IF Cardinality(shared) >= Cardinality(sg) THEN shared ELSE sg

\* The rows of its tables that are looked up for a group.
CapIndex(m, e, c, sg) == find_new_capacity(m.sge[sg], group_max_util(m, e, SharedCap(m, c, sg)))
IdleIndex(m, e, sg) == group_idle_state(m, e, sg)

\* At a capacity state the group is busy for util and idle for the rest.
BusyAndIdle(util, busy_power, idle_power) ==
  (util * busy_power) \div CapScale + ((CapScale - util) * idle_power) \div CapScale

GroupEnergyAt(m, e, sg, state) ==
  BusyAndIdle(group_norm_util(m, e, sg, state.cap), state.power,
              m.sge[sg].idle_states[IdleIndex(m, e, sg)])
GroupEnergy(m, e, c, sg) == GroupEnergyAt(m, e, sg, m.sge[sg].cap_states[CapIndex(m, e, c, sg)])

\* The CPUs that one pass up the domains of c takes off the list.
Visited(m, c, top) ==
  IF {c} = top THEN {c} ELSE Domains(m, c)[1].span

\* The groups that the pass goes through: those of the lowest domain, then of the
\* next unless they have been seen from another CPU, as far as the group asked for.
UpTo(groups, top) == SubSeq(groups, 1, Min({i \in DOMAIN groups : groups[i] = top} \cup {Len(groups)}))
Climb(m, c, top) ==
  LET groups(sd) == sd[1].groups \o (IF Min(sd[2].groups[1]) = c THEN sd[2].groups ELSE <<>>)
  IN  UpTo(groups(Domains(m, c)), top)

sched_group_energy(m, e, top) ==
  LET energy[visit \in SUBSET top] ==
        IF visit = {} THEN 0
        ELSE LET c == Min(visit)
             IN  FoldLeft(LAMBDA sum, sg : sum + GroupEnergy(m, e, c, sg), 0, Climb(m, c, top))
                   + energy[(visit \ Visited(m, c, top)) \ {c}]
  IN  energy[top]

\* The clusters that the move concerns, before and after it, with a dead zone.
__energy_diff(m, e) ==
  LET tops      == {sg \in Range(m.clusters) : e.src \in sg \/ e.dst \in sg}
      energy(x) == SumOver(tops, [sg \in tops |-> sched_group_energy(m, x, sg)])
      zoned(before, diff) == IF Max({diff, -diff}) < before \div 64 THEN 0 ELSE diff
      change(before, after) == zoned(before, after - before)
  IN  IF e.src = e.dst THEN 0 ELSE change(energy([e EXCEPT !.util_delta = 0]), energy(e))
=============================================================================
