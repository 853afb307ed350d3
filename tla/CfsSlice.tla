------------------------------ MODULE CfsSlice ------------------------------
(***************************************************************************)
(* The fixed-point division by a load weight and the slices of CFS         *)
(* (kernel/sched/fair.c: __calc_delta ... sched_vslice).  Weights are what *)
(* scale_load_down leaves of them.  The word of 32 bits has WordBits here. *)
(***************************************************************************)
EXTENDS Integers, Sequences, SequencesExt

CONSTANTS WordBits,                    \* WMULT_SHIFT
          NICE_0_LOAD,
          sysctl_sched_latency, sysctl_sched_min_granularity

ASSUME SliceAssumption == /\ WordBits \in Nat \ {0} /\ NICE_0_LOAD \in Nat \ {0}
                          /\ sysctl_sched_min_granularity \in Nat \ {0}
                          /\ sysctl_sched_latency \in Nat

Word == 2^WordBits

\* WMULT_CONST / w.
__update_inv_weight(w) ==
  IF w >= Word - 1 THEN 1 ELSE IF w = 0 THEN Word - 1 ELSE (Word - 1) \div w

\* How often a factor is halved until it fits into a word.
Halvings(fact) == CHOOSE k \in 0 .. 2 * WordBits :
                    /\ fact \div 2^k < Word
                    /\ k > 0 => fact \div 2^(k - 1) >= Word

\* delta_exec * weight / lw, by a multiplication and a shift.
__calc_delta(delta_exec, weight, lw) ==
  LET k1   == Halvings(weight)
      fact == (weight \div 2^k1) * __update_inv_weight(lw)
      k2   == Halvings(fact)
  IN  (delta_exec * (fact \div 2^k2)) \div 2^(WordBits - k1 - k2)

\* Time in units of an entity's weight; exact at the weight of nice 0.
calc_delta_fair(delta, weight) ==
  IF weight = NICE_0_LOAD THEN delta ELSE __calc_delta(delta, NICE_0_LOAD, weight)

\* DIV_ROUND_UP(latency, min_granularity), sched_proc_update_handler.
sched_nr_latency ==
  (sysctl_sched_latency + sysctl_sched_min_granularity - 1) \div sysctl_sched_min_granularity

\* The period in which each task runs once: stretched when there are many.
__sched_period(nr_running) ==
  IF nr_running > sched_nr_latency THEN nr_running * sysctl_sched_min_granularity
  ELSE sysctl_sched_latency

\* Mutant: an entity that is not queued yet gets its part of the old load.
slice_of_old_load(nr_running, path) ==
  FoldLeft(LAMBDA slice, level : __calc_delta(slice, level.weight, level.load),
           __sched_period(nr_running + (IF path[1].on_rq THEN 0 ELSE 1)), path)

\* The part of the period that is due to an entity, level by level up its path.
\* A level has the entity's weight, the load of its cfs_rq and on_rq.
sched_slice(nr_running, path) ==
  LET load(level) == level.load + (IF level.on_rq THEN 0 ELSE level.weight)
  IN  FoldLeft(LAMBDA slice, level : __calc_delta(slice, level.weight, load(level)),
               __sched_period(nr_running + (IF path[1].on_rq THEN 0 ELSE 1)), path)

\* The slice in virtual time.
sched_vslice(nr_running, path) ==
  calc_delta_fair(sched_slice(nr_running, path), path[1].weight)
=============================================================================
