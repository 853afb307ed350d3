-------------------------------- MODULE Pelt --------------------------------
(***************************************************************************)
(* The geometric load averages of kernel/sched/fair.c: decay_load,         *)
(* __compute_runnable_contrib, their fast twins and __update_load_avg with *)
(* the split of the utilisation into core and memory time.                 *)
(*                                                                         *)
(* The lookup tables are parameters, so that a scaled-down set can be      *)
(* model-checked: the 1024 units of a period are Unit, the 32 periods of a *)
(* half-life T.period, the 2^32 of the inverse table InvScale.  The nine   *)
(* sums of struct sched_avg are one function over Sums; each is fed by     *)
(* Accrued and decays along the table of its speed.  CONFIG_TASK_WEIGHT is *)
(* off (no configuration in the repository sets it).                       *)
(***************************************************************************)
EXTENDS Integers

CONSTANTS Unit,       \* 1024: units of time in a period, and SCHED_CAPACITY_SCALE
          InvScale,   \* 2^32 of runnable_avg_yN_inv
          SubUnit,    \* 1024: clock ticks in a unit of time
          Slow,       \* the tables for LOAD_AVG_PERIOD
          Fast        \* the tables for LOAD_AVG_FAST_PERIOD

\* A table: half-life in periods, limit of the sum and the number of periods
\* that produce it, y^n for n < period, the sums of y^k for 1 <= k <= n.
IsTable(T) == /\ {"period", "max", "maxn", "inv", "sum"} = DOMAIN T
              /\ {T.period, T.max, T.maxn} \subseteq Nat \ {0}
              /\ DOMAIN T.inv = 0 .. T.period - 1
              /\ DOMAIN T.sum = 0 .. T.period

ASSUME PeltAssumption == /\ {Unit, InvScale, SubUnit} \subseteq Nat \ {0}
                         /\ IsTable(Slow) /\ IsTable(Fast)

MaxHalvings == 63

\* A value of fewer than 31 bits shifted right by k.
Shr(v, k) == IF k > 30 THEN 0 ELSE v \div 2 ^ k

----------------------------------------------------------------------------
\* val * y^n; a value that decayed through MaxHalvings half-lives is gone.
decay_load(T, val, n) ==
  CASE n = 0                       -> val
    [] n > T.period * MaxHalvings  -> 0
    [] OTHER -> (Shr(val, n \div T.period) * T.inv[n % T.period]) \div InvScale

\* The sums of k half-lives: __accumulated_sum_N32[k], and what k rounds of the
\* loop of __compute_runnable_contrib_fast add up.
accumulated_sum[T \in {Slow, Fast}, k \in Nat] ==
  IF k = 0 THEN 0 ELSE accumulated_sum[T, k - 1] \div 2 + T.sum[T.period]

\* The slow table is indexed by the whole half-lives in n.
__compute_runnable_contrib(n) ==
  CASE n <= Slow.period -> Slow.sum[n]
    [] n >= Slow.maxn   -> Slow.max
    [] OTHER -> decay_load(Slow, accumulated_sum[Slow, n \div Slow.period], n % Slow.period)
                  + Slow.sum[n % Slow.period]

\* The fast loop runs while more than a half-life is left, so that the rest of n
\* is between 1 and a whole half-life.
__compute_runnable_contrib_fast(n) ==
  LET rounds == (n - 1) \div Fast.period
      rest   == n - rounds * Fast.period
  IN  CASE n <= Fast.period -> Fast.sum[n]
        [] n >= Fast.maxn   -> Fast.max
        [] OTHER -> decay_load(Fast, accumulated_sum[Fast, rounds], rest) + Fast.sum[rest]

----------------------------------------------------------------------------
(* struct sched_avg *)

PemtSlow == {"core_util", "memory_util"}
PemtFast == {"core_util_fast", "memory_util_fast"}
Pemt     == PemtSlow \cup PemtFast
FastSums == PemtFast \cup {"util_fast"}
Sums     == {"load", "util"} \cup PemtSlow \cup FastSums

TableOf(s) == IF s \in FastSums THEN Fast ELSE Slow

contrib_of(s, n) == IF s \in FastSums THEN __compute_runnable_contrib_fast(n)
                                      ELSE __compute_runnable_contrib(n)

cap_scale(v, s) == (v * s) \div Unit

(* What an update is told: the time, whether the entity runs, its weight,  *)
(* the two scales, the switch of the pemt module and the ratio.            *)

\* The part of the time in which the core did not wait for memory, out of Unit.
CoreShare(in) == Unit - in.ratio

\* What amount units of time add to the sum s: load and core time are scaled by
\* the frequency, memory time is not.
Accrued(s, amount, in) ==
  LET scaled == cap_scale(amount, in.scale_freq)
  IN  CASE s = "load"    -> in.weight * scaled
        [] ~in.running   -> 0
        [] s \in {"util", "util_fast"} -> scaled * in.scale_cpu
        [] ~in.pemt      -> 0
        [] s \in {"core_util", "core_util_fast"} ->
             (scaled * in.scale_cpu * CoreShare(in)) \div Unit
        [] OTHER         -> (amount * in.scale_cpu * in.ratio) \div Unit

\* Without the pemt module its sums are left as they are.
Tracked(s, in) == s \notin Pemt \/ in.pemt

\* Mutant: the periods are counted before the current one is completed.
periods_from_delta(delta, delta_w) == delta \div Unit

\* The whole periods that pass after the current one is completed.
Periods(delta, delta_w) == (delta - (Unit - delta_w)) \div Unit

\* The sum s after delta units that cross into a new period: the current period
\* is completed, everything decays, the whole periods and the rest are added.
Rolled(s, sum, delta, delta_w, in) ==
  LET p == Periods(delta, delta_w)
  IN  decay_load(TableOf(s), sum + Accrued(s, Unit - delta_w, in), p + 1)
        + Accrued(s, contrib_of(s, p), in)
        + Accrued(s, (delta - (Unit - delta_w)) % Unit, in)

\* The new averages are taken from the sums only when a period was completed.
Averages(sa, sum, in) ==
  [s \in Sums |-> IF Tracked(s, in) THEN sum[s] \div TableOf(s).max ELSE sa.avg[s]]

\* __update_load_avg.  The clock ticks that do not fill a unit are dropped with
\* last_update_time = now.
__update_load_avg(sa, in) ==
  LET delta   == (in.now - sa.last_update_time) \div SubUnit
      delta_w == sa.period_contrib
      decayed == delta + delta_w >= Unit
      sum     == [s \in Sums |->
                    IF ~Tracked(s, in) THEN sa.sum[s]
                    ELSE IF decayed THEN Rolled(s, sa.sum[s], delta, delta_w, in)
                    ELSE sa.sum[s] + Accrued(s, delta, in)]
  IN  CASE in.now < sa.last_update_time -> [sa EXCEPT !.last_update_time = in.now]
        [] delta = 0 -> sa
        [] OTHER -> [last_update_time |-> in.now,
                     period_contrib   |-> IF decayed THEN (delta - (Unit - delta_w)) % Unit
                                                     ELSE delta_w + delta,
                     sum              |-> sum,
                     avg              |-> IF decayed THEN Averages(sa, sum, in) ELSE sa.avg]

\* The averages of an entity that has not been updated since it was zeroed.
ZeroAvg(pc) == [last_update_time |-> 0, period_contrib |-> pc,
                sum |-> [s \in Sums |-> 0], avg |-> [s \in Sums |-> 0]]
=============================================================================
