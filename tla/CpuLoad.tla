------------------------------- MODULE CpuLoad -------------------------------
(***************************************************************************)
(* The per-CPU load indices cpu_load[] of kernel/sched/fair.c: their decay *)
(* at every tick and after ticks that were missed in nohz mode.  The       *)
(* tables are the real ones.                                               *)
(***************************************************************************)
EXTENDS Integers, Sequences

CPU_LOAD_IDX_MAX == 5
DEGRADE_SHIFT    == 7

\* Rows and columns count from one here, from zero in C.
degrade_zero_ticks == <<0, 8, 32, 64, 128>>
degrade_factor ==
  << <<0, 0, 0, 0, 0, 0, 0, 0>>, <<64, 32, 8, 0, 0, 0, 0, 0>>,
     <<96, 72, 40, 12, 1, 0, 0, 0>>, <<112, 98, 75, 43, 15, 1, 0, 0>>,
     <<120, 112, 98, 76, 45, 16, 2, 0>> >>

\* load after the factors of the bits j, j + 1, ... of missed.
degraded[load \in Nat, missed \in Nat, idx \in 0 .. 4, j \in 0 .. DEGRADE_SHIFT + 1] ==
  IF missed = 0 THEN load
  ELSE degraded[IF missed % 2 = 1
                  THEN (load * degrade_factor[idx + 1][j + 1]) \div 2 ^ DEGRADE_SHIFT
                  ELSE load,
                missed \div 2, idx, j + 1]

\* Mutant: the factor of a bit is used whether it is set or not.
decay_every_bit(load, missed, idx) ==
  IF missed = 0 THEN load
  ELSE (load * degrade_factor[idx + 1][2]) \div 2 ^ DEGRADE_SHIFT

decay_load_missed(load, missed, idx) ==
  CASE missed = 0 -> load
    [] missed >= degrade_zero_ticks[idx + 1] -> 0
    [] idx = 1 -> load \div 2 ^ missed
    [] OTHER -> degraded[load, missed, idx, 0]

\* One step of the average towards this_load, rounded up while the load rises.
Averaged(old, this_load, i) ==
  (old * (2 ^ i - 1) + this_load + (IF this_load > old THEN 2 ^ i - 1 ELSE 0)) \div 2 ^ i

\* cpu_load is a function from 0 .. CPU_LOAD_IDX_MAX - 1.  The load that stood in
\* index 0 when the tick stopped counts for the ticks that were missed.
cpu_load_update(cpu_load, this_load, pending_updates) ==
  LET tickless == cpu_load[0]
      missed(i) == decay_load_missed(cpu_load[i], pending_updates - 1, i)
                     + (tickless - decay_load_missed(tickless, pending_updates - 1, i))
  IN  [i \in DOMAIN cpu_load |-> IF i = 0 THEN this_load
                                 ELSE Averaged(missed(i), this_load, i)]

\* At every tick while it runs, and on the exit from nohz mode or for an idle CPU
\* with the jiffies that passed; nothing happens when none did.
cpu_load_update_periodic(cpu_load, load) == cpu_load_update(cpu_load, load, 1)
cpu_load_update_nohz(cpu_load, pending, load) ==
  IF pending = 0 THEN cpu_load ELSE cpu_load_update(cpu_load, load, pending)
cpu_load_update_nohz_start(cpu_load, load) == [cpu_load EXCEPT ![0] = load]
=============================================================================
