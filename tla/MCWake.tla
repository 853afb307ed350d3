-------------------------------- MODULE MCWake --------------------------------
(***************************************************************************)
(* Wakeups on a machine of two small and two big CPUs: an input is a       *)
(* machine, then a task that wakes on it; or a task group on three CPUs.   *)
(***************************************************************************)
EXTENDS WakePlacement

VARIABLES input

\* What can be told of a CPU: busy or idle, its utilisation out of its capacity in
\* quarters, its idle state.
CpuKinds == {[idle |-> FALSE, cstate |-> -1, quarters |-> 1, load |-> 8],
             [idle |-> FALSE, cstate |-> -1, quarters |-> 4, load |-> 24],
             [idle |-> TRUE,  cstate |-> 0,  quarters |-> 2, load |-> 0],
             [idle |-> TRUE,  cstate |-> 1,  quarters |-> 0, load |-> 0]}

SmallBig == <<{1, 2}, {3, 4}>>
Capacity(c) == IF c \in SmallBig[1] THEN CapScale \div 2 ELSE CapScale

\* The tables of one CPU and of one cluster, the big ones at more than twice the
\* power for twice the capacity.
States(caps, powers) == [i \in DOMAIN caps |-> [cap |-> caps[i], power |-> powers[i]]]
Tables ==
  [sg \in {{1}, {2}, {1, 2}, {3}, {4}, {3, 4}} |->
     LET caps == IF sg \subseteq SmallBig[1] THEN <<3, 8>> ELSE <<6, 11, 16>>
         idle == IF sg \subseteq SmallBig[1] THEN <<4, 2, 0>> ELSE <<12, 6, 0>>
         core == IF sg \subseteq SmallBig[1] THEN <<16, 60>> ELSE <<90, 220, 480>>
     IN  [cap_states |-> States(caps, IF Cardinality(sg) = 1 THEN core ELSE [i \in DOMAIN caps |-> 20 * i]),
          idle_states |-> idle]]

\* The CPU c of kind k, at its lowest frequency until it is half used.
CpuOf(c, k) ==
  [util |-> (Capacity(c) * k.quarters) \div 4, load |-> k.load, cload |-> k.load + (k.load \div 2),
   nr |-> IF k.idle THEN 0 ELSE 1, orig |-> Capacity(c), rt_used |-> 0, misfit |-> FALSE,
   curr |-> IF k.quarters > 2 THEN Capacity(c) ELSE Capacity(c) \div 2,
   idle |-> k.idle, cstate |-> k.cstate, stamp |-> c]

Machines ==
  {[clusters |-> SmallBig, cpu |-> [c \in 1 .. 4 |-> CpuOf(c, k[c])], sge |-> Tables] :
     k \in [1 .. 4 -> CpuKinds]}
MachineInputs == [kind : {"machine"}, machine : Machines]

\* What the kernel is set up for.
Setup(features, over, cstate_aware, balance_wake, scan) ==
  [features |-> features, overutilized |-> over, ea |-> features # {}, sync_hint |-> over,
   cstate_aware |-> cstate_aware, balance_wake |-> balance_wake, scan |-> scan, idle_cores |-> scan]
Setups == {Setup({"ENERGY_AWARE"}, FALSE, TRUE, FALSE, TRUE),
           Setup({"ENERGY_AWARE", "CAPACITY_AWARE"}, FALSE, FALSE, FALSE, TRUE),
           Setup({"CAPACITY_AWARE"}, FALSE, TRUE, FALSE, TRUE),
           Setup({"ENERGY_AWARE"}, TRUE, FALSE, TRUE, FALSE),
           Setup({}, FALSE, TRUE, TRUE, TRUE),
           Setup({}, TRUE, FALSE, FALSE, FALSE)}

Task(util, allowed, boosted, prefer_idle, new) ==
  [util |-> util, load |-> 8, margin |-> IF boosted THEN 2 ELSE 0, allowed |-> allowed,
   boosted |-> boosted, prefer_idle |-> prefer_idle, accepts |-> {1, 3}, flips |-> 2, tg |-> <<>>,
   new |-> new]
Tasks == {Task(u, a, b, b, FALSE) : u \in {2, 6, 12}, a \in {1 .. 4, {1, 3}, {2, 4}}, b \in BOOLEAN}
           \cup {Task(2, {1, 2, 3}, FALSE, TRUE, FALSE), Task(0, {2, 3, 4}, FALSE, FALSE, TRUE)}

Wakeup(this, prev, flag) ==
  [this |-> this, prev |-> prev, flag |-> flag, sync |-> this = 3, curr_load |-> 8,
   flips |-> IF this = 3 /\ prev = 2 THEN 4 ELSE 1, same_wakee |-> prev = 1, expired |-> prev = 3]
Wakeups == {Wakeup(this, prev, "wake") : this \in {1, 3}, prev \in 1 .. 3}
             \cup {Wakeup(c, c, "fork") : c \in {2, 3}}
\* A new task is one that forks.
Possible(p, w) == p.new <=> w.flag = "fork"

Settled(m, s) == [f \in DOMAIN m \cup DOMAIN s |-> IF f \in DOMAIN m THEN m[f] ELSE s[f]]

\* The task wakes; what it used to use is still accounted for on its old CPU.
WakeUp ==
  /\ input.kind = "machine"
  /\ \E s \in Setups, p \in Tasks, w \in Wakeups :
       /\ Possible(p, w)
       /\ p.util <= Capacity(w.prev)
       /\ LET m == [Settled(input.machine, s) EXCEPT !.cpu[w.prev].util = @ + p.util]
          IN  input' = [kind |-> "wake", m |-> m, p |-> p, w |-> w,
                        chosen |-> select_task_rq_fair(m, p, w)]

----------------------------------------------------------------------------
\* A task that may run where it was is placed where it may run, whatever path the
\* choice takes.  (Not with CAPACITY_AWARE on an overutilized system, which makes
\* the waking CPU a candidate without asking: select_task_rq repairs that.)
WakesWhereAllowed ==
  /\ input.kind = "wake"
  /\ input.w.prev \in input.p.allowed
  /\ ~("CAPACITY_AWARE" \in input.m.features /\ input.m.overutilized)
  => input.chosen \in input.p.allowed

\* The search for an idle CPU by select_idle_sibling does not overlook one: a task
\* is queued behind another only if no CPU that shares the cache of the target is
\* idle, allowed and big enough.
IdleCpuNotOverlooked ==
  input.kind = "wake" =>
    LET p == input.p
    IN  \A target \in p.allowed :
          LET c    == select_idle_sibling(input.m, p, input.w.prev, target)
              mate == input.m.clusters[ClusterOf(input.m, target)]
          IN  (\E i \in mate \cap p.allowed : /\ input.m.cpu[i].idle
                                              /\ boosted_task_util(p) <= input.m.cpu[i].orig)
              => input.m.cpu[c].idle

\* The energy of a machine as it stands, each group counted once.
Standing == [src |-> 1, dst |-> 3, util_delta |-> 0]
EnergyOf(m, e) ==
  SumOver(DOMAIN m.sge, [sg \in DOMAIN m.sge |-> GroupEnergy(m, e, Min(sg), sg)])

\* The choice for energy: neither a hint, nor a boosted task, nor a previous CPU
\* that is used up.
ByEnergy(m, p, w) ==
  /\ w.flag = "wake" /\ "ENERGY_AWARE" \in m.features /\ ~m.overutilized
  /\ ~p.boosted /\ ~p.prefer_idle
  /\ ~cpu_overutilized([m.cpu[w.prev] EXCEPT !.util = cpu_util(m, w.prev)])

\* A task leaves its CPU to save energy only if the machine with the task's
\* utilisation on the new CPU instead is estimated to use less.
MovesSaveEnergy ==
  input.kind = "wake" /\ ByEnergy(input.m, input.p, input.w) /\ input.chosen # input.w.prev =>
    LET m     == input.m  w == input.w  util == input.p.util
        still == [src |-> w.prev, dst |-> input.chosen, util_delta |-> 0]
        moved == [m EXCEPT !.cpu[w.prev].util = @ - util, !.cpu[input.chosen].util = @ + util]
    IN  EnergyOf(moved, still) < EnergyOf(m, still)

\* The task fits where the energy-aware choice sends it.
FitsWhereSent ==
  input.kind = "wake" /\ ByEnergy(input.m, input.p, input.w) /\ input.chosen # input.w.prev =>
    input.m.cpu[input.chosen].util + input.p.util <= input.m.cpu[input.chosen].orig

\* The rows of the energy tables that are looked up exist, for every move of the
\* task that the energy model may be asked about, also onto a CPU it overcommits.
EnergyTablesInBounds ==
  input.kind = "wake" /\ input.m.features = {"ENERGY_AWARE"} /\ ~input.m.overutilized =>
    \A dst \in CPUs(input.m), sg \in DOMAIN input.m.sge, delta \in {0, input.p.util} :
      LET m == input.m
          e == [src |-> input.w.prev, dst |-> dst, util_delta |-> delta]
      IN  /\ CapIndex(m, e, Min(sg), sg) \in DOMAIN m.sge[sg].cap_states
          /\ IdleIndex(m, e, sg) \in DOMAIN m.sge[sg].idle_states

\* select_energy_cpu_brute moves a task only where it fits and saves energy, and
\* the tables bear out every question it asks them.
EnergyChoiceSound == MovesSaveEnergy /\ FitsWhereSent /\ EnergyTablesInBounds

----------------------------------------------------------------------------
(* Groups *)

\* A group with entities of weight w[c] on three CPUs, in the root group or in a
\* group that has tasks of weight own[c] besides.
GroupInputs == [kind : {"group"}, w : [1 .. 3 -> {0, 2, 3, 8}], own : {<<0, 4, 0>>, <<6, 0, 4>>},
                nested : BOOLEAN, at : 1 .. 3, weight : {1, 4}]

Total(w) == w[1] + w[2] + w[3]
\* The weight of the entities of a group of 60 shares whose weights are w.
Entities(w) ==
  [c \in 1 .. 3 |-> IF w[c] = Total(w) THEN 60 ELSE Max({MIN_SHARES, (60 * w[c]) \div Total(w)})]
Upper(in, inner) == [c \in 1 .. 3 |-> in.own[c] + inner[c]]
Level(w) == [load_avg |-> w, tg_load_avg |-> Total(w), contrib |-> w, shares |-> 60,
             se_load_avg |-> Entities(w)]
\* The load at the root that the weights w cause.
RootLoad(in, w) == IF in.nested THEN Entities(Upper(in, Entities(w))) ELSE Entities(w)

\* The load change that effective_load predicts for a CPU from the change of one
\* weight is what the shares, computed anew for all of the group, come to: to
\* within the rounding of the levels.
EffectiveLoadIsShareShift ==
  input.kind = "group" /\ Total(input.w) > 0 =>
    LET w   == input.w
        new == [w EXCEPT ![input.at] = @ + input.weight]
        tg  == <<Level(w)>> \o (IF input.nested THEN <<Level(Upper(input, Entities(w)))>> ELSE <<>>)
    IN  \A c \in 1 .. 3 :
          LET wl      == IF c = input.at THEN input.weight ELSE 0
              shift   == effective_load(tg, c, wl, input.weight)
              anew    == RootLoad(input, new)[c] - RootLoad(input, w)[c]
          IN  shift - anew \in -3 .. 3

=============================================================================
