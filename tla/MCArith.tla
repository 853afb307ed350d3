------------------------------- MODULE MCArith -------------------------------
(***************************************************************************)
(* The pure functions of the governor and of the scheduler against what    *)
(* they are for, over every input of a small scale.  A state is one input  *)
(* of one of them; the inputs of the load averages are whole histories,    *)
(* which grow by one update per step.                                      *)
(***************************************************************************)
EXTENDS SugovMath, Pelt, CpuLoad, LbStats, CfsSlice, MCWake

CONSTANTS MaxRt,        \* bound on the RT share of a CPU
          MaxUpdates,   \* bound on the updates of a history
          MaxTasks,     \* bound on the tasks of a CPU
          Tolerance     \* units of time by which a late update may differ

----------------------------------------------------------------------------
(* The governor's request *)

SugovInputs == [kind : {"sugov"}, margin : 0 .. Scale,
                mods : {{"pemt", "freq"}, {"pemt", "freq", "perf"}},
                avg : [util_avg : {0}, core_util_avg : 0 .. Scale, memory_util_avg : 0 .. Scale,
                       rt : 0 .. MaxRt]]

Util(a) == sugov_get_util(a, input.margin, Scale, Scale, input.mods)

\* The time the memory is predicted to take, with the margin, out of Scale.
MemoryTime(a) ==
  LET margin == perf_margin(a, input.margin, Scale, input.mods)
  IN  a.memory_util_avg + ((a.memory_util_avg * margin) \div Scale)

\* At a frequency of u / Scale the core work of a takes core * Scale / u; u fits
\* when that and the memory time stay within the period.
Fits(a, u) == u * (Scale - MemoryTime(a)) >= Scale * a.core_util_avg

\* sugov_get_util asks for the least frequency, to within its rounding down of
\* one unit, at which the predicted load fits, and for all of the capacity when
\* none fits.
LeastFrequencyThatFits ==
  input.kind = "sugov" =>
    LET avg == input.avg
        u   == Util([avg EXCEPT !.rt = 0])
    IN  IF MemoryTime(avg) < Scale /\ \E v \in 1 .. Scale : Fits(avg, v)
          THEN /\ u < Scale => Fits(avg, u + 1)
               /\ u > 0 => ~Fits(avg, u - 1)
          ELSE u = Scale

\* More core work, more memory time or more RT time never lowers the request of
\* sugov_get_util.
DemandIsMonotone ==
  input.kind = "sugov" =>
    LET avg == input.avg
    IN  /\ Util([avg EXCEPT !.core_util_avg = @ + 1]) >= Util(avg)
        /\ Util([avg EXCEPT !.memory_util_avg = @ + 1]) >= Util(avg)
        /\ Util([avg EXCEPT !.rt = @ + 1]) >= Util(avg)

\* What sugov_get_util asks for is the least frequency that fits, and never falls
\* when the demand rises.
RequestIsLeast == LeastFrequencyThatFits /\ DemandIsMonotone

----------------------------------------------------------------------------
(* Load averages *)

\* Tables for periods of 64 units, half-lives of 4 and of 2 periods, made as the
\* real ones are: inverses and sums rounded down, the limit by iterating
\* x' = x * y + 64 in integers until it stands still.
SlowTable == [period |-> 4, max |-> 396, maxn |-> 27,
              inv |-> [n \in 0 .. 3 |-> <<4095, 3444, 2896, 2435>>[n + 1]],
              sum |-> [n \in 0 .. 4 |-> <<0, 53, 99, 137, 169>>[n + 1]]]
FastTable == [period |-> 2, max |-> 216, maxn |-> 15,
              inv |-> [n \in 0 .. 1 |-> <<4095, 2896>>[n + 1]],
              sum |-> [n \in 0 .. 2 |-> <<0, 45, 77>>[n + 1]]]

Weight == 64
CpuScale == 64

\* The time of an update in clock ticks (two to a unit): within a period, to its
\* last unit, across it, over several half-lives, past maxn periods.
Waits == {3, 126, 131, 128 * 5 + 7, 128 * 40}
LongWait == 128 * 26

Updates == [now : Waits, weight : {0, Weight}, running : BOOLEAN, scale_freq : {24, 64},
            scale_cpu : {CpuScale}, pemt : {TRUE}, ratio : {0, 25, 64}]
\* A running entity is queued and weighs something; the ratio of one that does
\* not run is not looked at.
PossibleUpdates == {u \in Updates : /\ u.running => u.weight > 0
                                    /\ ~u.running => u.ratio = 0}

PeltInputs == [kind : {"pelt"}, sa : {ZeroAvg(0), ZeroAvg(63)}, updates : {0}, long : {FALSE}]

\* One more update; last_update_time is the origin of the clock.
GrowHistory ==
  /\ input.kind = "pelt" /\ input.updates < MaxUpdates
  /\ \E u \in PossibleUpdates :
       input' = [input EXCEPT !.sa = [__update_load_avg(@, u) EXCEPT !.last_update_time = 0],
                              !.updates = @ + 1,
                              !.long = @ \/ u.now > LongWait]

\* What the sum s can reach: every unit of time adds at most this much.
Rate(s) == IF s = "load" THEN Weight ELSE CpuScale

\* A sum of a geometric series of whole periods and the period_contrib units of
\* the current one, compared without division: 1 - y = (InvScale - inv[1]) / InvScale.
WithinSeries(sum, s, spare) ==
  LET gap == InvScale - TableOf(s).inv[1]
  IN  sum * gap <= (Unit * InvScale - (Unit - input.sa.period_contrib - spare) * gap) * Rate(s)

\* The sums of __update_load_avg never exceed what an entity that always ran
\* would have, its core and memory time together included: rounding down keeps
\* the recombined tables from overestimating.  Only an update over LOAD_AVG_MAX_N
\* periods or more does, by the one period that LOAD_AVG_MAX counts too much.
NoOverestimate ==
  input.kind = "pelt" =>
    LET spare == IF input.long THEN Unit ELSE 0
        sum   == input.sa.sum
    IN  /\ \A s \in Sums : WithinSeries(sum[s], s, spare)
        /\ WithinSeries(sum["core_util"] + sum["memory_util"], "util", spare)
        /\ WithinSeries(sum["core_util_fast"] + sum["memory_util_fast"], "util_fast", spare)

\* The split loses nothing: with the pemt module loaded core and memory time are
\* together at least the frequency-scaled utilisation, to within rounding, and
\* the core part alone is never more than it.
SplitCoversUtil ==
  input.kind = "pelt" =>
    LET avg == input.sa.avg  sum == input.sa.sum
    IN  /\ avg["core_util"] + avg["memory_util"] + 2 >= avg["util"]
        /\ avg["core_util_fast"] + avg["memory_util_fast"] + 2 >= avg["util_fast"]
        /\ sum["core_util"] <= sum["util"] /\ sum["core_util_fast"] <= sum["util_fast"]

\* The history a full-time, partly stalled entity adds in w ticks.
Busy(w) == [now |-> w, weight |-> Weight, running |-> TRUE, scale_freq |-> 64,
            scale_cpu |-> CpuScale, pemt |-> TRUE, ratio |-> 25]
Extend(sa, w) == [__update_load_avg(sa, Busy(w)) EXCEPT !.last_update_time = 0]

\* An update that is late counts the same time as two on time: the closed form of
\* the whole periods agrees with the piecewise sums to the rounding of the tables.
LateUpdateAgrees ==
  input.kind = "pelt" /\ input.updates < MaxUpdates =>
    \A v \in {26, 128, 400}, w \in {80, 512, 1500} :
      LET once  == Extend(input.sa, v + w)
          twice == Extend(Extend(input.sa, v), w)
      IN  /\ once.period_contrib = twice.period_contrib
          /\ \A s \in Sums : /\ once.sum[s] <= twice.sum[s] + Tolerance * Rate(s)
                             /\ twice.sum[s] <= once.sum[s] + Tolerance * Rate(s)

\* __update_load_avg, its split into core and memory time and its closed form of
\* long updates are exact to the rounding of the tables.
LoadAveragesExact == NoOverestimate /\ SplitCoversUtil /\ LateUpdateAgrees

----------------------------------------------------------------------------
(* cpu_load[] *)

CpuLoadInputs == [kind : {"cpu_load"}, old : {0, 9, 100, 1000}, tickless : {0, 10, 700},
                  load : {0, 10, 1000}, pending : 1 .. 9 \cup {31, 40, 64, 127, 130}]

Indices(in) == [i \in 0 .. CPU_LOAD_IDX_MAX - 1 |-> IF i = 0 THEN in.tickless ELSE in.old]

\* n ticks with the load that stood when the tick stopped.
Ticked[cl \in [0 .. CPU_LOAD_IDX_MAX - 1 -> Nat], load \in Nat, n \in Nat] ==
  IF n = 0 THEN cl ELSE Ticked[cpu_load_update_periodic(cl, load), load, n - 1]

\* No index of cpu_load[] leaves the range of the loads it averages.
CpuLoadWithinRange ==
  input.kind = "cpu_load" =>
    LET new == cpu_load_update_nohz(Indices(input), input.pending, input.load)
        all == {input.old, input.tickless, input.load}
    IN  \A i \in DOMAIN new : Min(all) - 1 <= new[i] /\ new[i] <= Max(all)

\* A rising average rounds up to 2^i - 1 per tick; a decay loses 1/32 of the load.
LoadTolerance(i, load) == 2 ^ i + load \div 32

\* Ticks accounted late, on the exit from nohz mode, leave cpu_load[] where the
\* missed ticks one by one would have, to the resolution of the 128-point scale.
MissedTicksAgree ==
  input.kind = "cpu_load" =>
    LET cl   == Indices(input)
        late == cpu_load_update_nohz(cl, input.pending, input.load)
        each == cpu_load_update_periodic(Ticked[cl, input.tickless, input.pending - 1], input.load)
        all  == {input.old, input.tickless, input.load}
    IN  \A i \in DOMAIN cl : /\ late[i] <= each[i] + LoadTolerance(i, Max(all))
                            /\ each[i] <= late[i] + LoadTolerance(i, Max(all))

\* cpu_load[] stays an average of the loads, however late the ticks are.
CpuLoadExact == CpuLoadWithinRange /\ MissedTicksAgree

----------------------------------------------------------------------------
(* Balancing *)

TaskLoad == CapScale
Machine  == 1 .. 4
Pair     == <<{1, 2}, {3, 4}>>

LbInputs ==
  [kind : {"lb"}, nr : [Machine -> 0 .. MaxTasks], dst : {1, 3}, slow : {{}, {3, 4}},
   rt_used : {0, CapScale \div 2}, imbalance : BOOLEAN, misfit : BOOLEAN,
   idle : {"idle", "newly_idle"}, sibling : BOOLEAN, asym : BOOLEAN]
PossibleLb(in) ==
  /\ in.misfit => in.slow # {} \/ in.rt_used > 0
  /\ in.idle = "newly_idle" => in.nr[in.dst] = 0
  /\ in.nr[in.dst + 1] = 0 => in.nr[in.dst] = 0   \* should_we_balance

Orig(in, c) == IF c \in in.slow THEN CapScale \div 2 ELSE CapScale

\* Every task weighs the same and would use up a big CPU.
CpuStats(in, nr) ==
  LET misfit(c) == in.misfit /\ nr[c] > 0 /\ (c \in in.slow \/ (c = 1 /\ in.rt_used > 0))
  IN  [c \in Machine |-> [load |-> nr[c] * TaskLoad, nr |-> nr[c], orig |-> Orig(in, c),
                         util |-> IF nr[c] = 0 THEN 0 ELSE Orig(in, c), misfit |-> misfit(c),
                         rt_used |-> IF c = 1 THEN in.rt_used ELSE 0]]
Domain(in, dst) ==
  LET local == IF dst \in Pair[1] THEN 1 ELSE 2
  IN  [groups |-> [g \in 1 .. 2 |->
                     [cpus |-> Pair[IF g = 1 THEN local ELSE 3 - local],
                      imbalance |-> in.imbalance /\ g = 2]],
       imbalance_pct |-> 125, prefer_sibling |-> in.sibling,
       asym_capacity |-> in.asym, asym_packing |-> FALSE]
Environment(in, nr, dst) ==
  [dst |-> dst, cpus |-> Machine, aware |-> FALSE,
   idle |-> IF nr[dst] > 0 THEN "not_idle" ELSE in.idle]

\* The tasks detach_tasks takes for an imbalance: while some is left and half a
\* task does not exceed it; the running task of the source stays.
Detached(nr, imbalance) ==
  Max({0} \cup {k \in 1 .. nr - 1 : /\ imbalance - (k - 1) * TaskLoad > 0
                                    /\ TaskLoad \div 2 <= imbalance - (k - 1) * TaskLoad})

Move(nr, src, fbg) ==
  [src |-> src, type |-> fbg.type,
   moved |-> SumOver(src, [c \in src |-> Detached(nr[c], fbg.imbalance)])]

\* What one balancing pass by dst moves: from where and how many tasks.
Pass(in, nr, dst) ==
  LET sd  == Domain(in, dst)
      cpu == CpuStats(in, nr)
      env == Environment(in, nr, dst)
      src(fbg) == IF fbg.group = NoGroup THEN {} ELSE find_busiest_queue(sd, cpu, env, fbg)
      pull(fbg) == Move(nr, src(fbg), fbg)
  IN  pull(find_busiest_group(sd, cpu, env))

\* The tasks of every CPU after the pass.
Moved(nr, dst, pass) ==
  [c \in Machine |-> nr[c] + (IF c = dst THEN pass.moved ELSE 0)
                           - (IF c \in pass.src THEN pass.moved ELSE 0)]
After(in, nr, dst) == Moved(nr, dst, Pass(in, nr, dst))

\* Between groups of the same capacity a periodic pull never overshoots: the group
\* that pulled is not left with more load than the group it pulled from had.  (A
\* newly idle CPU may, as it fills itself whatever the rest of its group has.)
PullDoesNotOvershoot ==
  input.kind = "lb" /\ input.slow = {} /\ input.rt_used = 0 /\ input.idle = "idle" =>
    LET groups == Domain(input, input.dst).groups
        tasks(nr, g) == SumOver(groups[g].cpus, nr)
        after == After(input, input.nr, input.dst)
    IN  after # input.nr => tasks(after, 1) <= tasks(input.nr, 2)

\* A group with a misfit task is pulled from by a more capable group only.
MisfitMovesUp ==
  input.kind = "lb" =>
    LET pass == Pass(input, input.nr, input.dst)
    IN  pass.type = group_misfit_task => \A c \in pass.src : Orig(input, c) < Orig(input, input.dst)

\* find_busiest_group and find_busiest_queue pull an amount, and from where, that
\* the next pass has no reason to undo.
PullsImprove == PullDoesNotOvershoot /\ MisfitMovesUp

----------------------------------------------------------------------------
(* Slices *)

Weights == {1, 3, 7, 16, 20, 48}
SliceInputs == [kind : {"slice"}, queued : UNION {[1 .. n -> Weights] : n \in 1 .. 4}, new : Weights]

Queued(ws) == FoldLeft(LAMBDA x, y : x + y, 0, ws)
SliceOf(ws, i) ==
  sched_slice(Len(ws), <<[weight |-> ws[i], load |-> Queued(ws), on_rq |-> TRUE]>>)

\* sched_slice shares the period out: the slices of all queued entities fit into
\* it and leave at most one unit per entity of it unused, and an entity that
\* place_entity is about to insert is promised no more than the slice it will have.
SlicesFillPeriod ==
  input.kind = "slice" =>
    LET ws     == input.queued
        n      == Len(ws)
        slices == FoldLeft(LAMBDA x, y : x + y, 0, [i \in 1 .. n |-> SliceOf(ws, i)])
        promise == sched_slice(n, <<[weight |-> input.new, load |-> Queued(ws), on_rq |-> FALSE]>>)
    IN  /\ slices <= __sched_period(n) /\ __sched_period(n) - slices <= n
        /\ promise <= SliceOf(Append(ws, input.new), n + 1)

\* Virtual time runs at NICE_0_LOAD / weight: the multiplication by an inverse
\* that is shifted into a word never runs ahead of the quotient, and falls behind
\* it by less than two units, for the time of up to a whole period.
VirtualTimeExact ==
  input.kind = "slice" /\ Len(input.queued) = 1 =>
    \A delta \in 0 .. 40 :
      LET w     == input.new
          exact == (delta * NICE_0_LOAD) \div w
      IN  calc_delta_fair(delta, w) \in exact - 1 .. exact

\* Periods are shared out whole, and the virtual time that measures the shares is
\* exact, although neither is computed with a division of its own.
SharesExact == SlicesFillPeriod /\ VirtualTimeExact

----------------------------------------------------------------------------
Inputs == SugovInputs \cup PeltInputs \cup CpuLoadInputs \cup SliceInputs
            \cup MachineInputs \cup GroupInputs
            \cup {in \in LbInputs : PossibleLb(in)}
Init == input \in Inputs
Next == GrowHistory \/ WakeUp
Spec == Init /\ [][Next]_input
=============================================================================
