------------------------------ MODULE SugovMath ------------------------------
(***************************************************************************)
(* The arithmetic of the schedutil governor with the memory-aware          *)
(* (mSchedutil) extension, kernel/sched/cpufreq_schedutil.c.  Every        *)
(* operator is a pure function of the per-CPU averages, the tunables and   *)
(* the loaded pkshin modules.                                              *)
(*                                                                         *)
(* C's fixed-point scale (SCHED_CAPACITY_SCALE = 1 << 10) and the range of *)
(* unsigned int are constants, so that small instances keep the shape of   *)
(* the rounding and of the truncation.                                     *)
(***************************************************************************)
EXTENDS Integers

CONSTANTS
  Scale,       \* SCHED_CAPACITY_SCALE, and 1 << CAPACITY_MARGIN_FLOOR_FACTOR
  UIntMod      \* 2^32 in C: the modulus of unsigned int

ASSUME ScaleAssumption   == Scale \in Nat \ {0}
ASSUME UIntModAssumption == UIntMod \in Nat \ {0, 1}

UINT_MAX == UIntMod - 1
Lo(a, b) == IF a <= b THEN a ELSE b
Hi(a, b) == IF a >= b THEN a ELSE b

\* Unsigned division as the arm64 build executes it: UDIV by zero yields zero
\* (the Makefile builds for aarch64; nothing in the code guards the divisor).
UDiv(a, b) == IF b = 0 THEN 0 ELSE a \div b

(***************************************************************************)
(* The averages of one CPU's root cfs_rq that the governor reads:          *)
(*   util_avg, core_util_avg, memory_util_avg, and rt (rt_avg scaled).     *)
(* The switches flipped by the pkshin modules: a subset of                 *)
(*   {"pemt", "freq", "perf"}.                                             *)
(***************************************************************************)

\* The performance-aware margin: up to twice the knob for a core-bound mix,
\* less for a memory-bound one.
perf_margin(avg, margin, scale_freq, mods) ==
  IF "perf" \in mods
    THEN UDiv(margin * 2 * avg.core_util_avg,
              avg.core_util_avg + ((avg.memory_util_avg * scale_freq) \div Scale))
    ELSE margin

\* Mutant: the memory time itself is not set aside.
margin_only_util(avg, margin, max_cap) ==
  LET left == max_cap - ((avg.memory_util_avg * margin) \div Scale)
  IN  IF left > avg.core_util_avg
        THEN Lo(((max_cap * avg.core_util_avg) \div left) + avg.rt, max_cap)
        ELSE max_cap

\* The memory-aware utilisation: the capacity left once the memory time,
\* inflated by the margin, is set aside.
memory_aware_util(avg, margin, max_cap) ==
  LET temp == ((avg.memory_util_avg * margin) \div Scale) + avg.memory_util_avg
      left == max_cap - temp
  IN  IF max_cap > temp /\ left > avg.core_util_avg
        THEN Lo(((max_cap * avg.core_util_avg) \div left) + avg.rt, max_cap)
        ELSE max_cap

\* sugov_get_util(): the utilisation handed to get_next_freq.
sugov_get_util(avg, margin, scale_freq, max_cap, mods) ==
  IF {"pemt", "freq"} \subseteq mods
    THEN memory_aware_util(avg, perf_margin(avg, margin, scale_freq, mods), max_cap)
    ELSE Lo(avg.util_avg + avg.rt, max_cap)

\* sugov_iowait_boost(): <<util, max>> after the comparison of the boosted
\* ratio with the measured one.
boosted(util, max, boost, boost_max) ==
  IF boost # 0 /\ util * boost_max < max * boost
    THEN <<boost, boost_max>>
    ELSE <<util, max>>

\* The frequency get_next_freq computes before it is cut to unsigned int.
tfreq(freq, margin, util, max) ==
  UDiv((((freq * margin) \div Scale) + freq) * util, max)

\* (unsigned int) tfreq
raw_freq(freq, margin, util, max) == tfreq(freq, margin, util, max) % UIntMod
=============================================================================
