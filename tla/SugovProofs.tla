----------------------------- MODULE SugovProofs -----------------------------
(***************************************************************************)
(* Theorems about one running schedutil instance, for every set of CPUs,   *)
(* every frequency table and every value of the other constants.           *)
(***************************************************************************)
EXTENDS Sugov, TLAPS

-----------------------------------------------------------------------------
(***************************************************************************)
(* The arithmetic stays in the naturals.                                   *)
(***************************************************************************)

\* Unsigned division of naturals, by zero included, is a natural.
LEMMA UDivNat ==
  ASSUME NEW a \in Nat, NEW b \in Nat
  PROVE  UDiv(a, b) \in Nat
  BY DEF UDiv

\* A product of naturals is a natural.
LEMMA TimesNat ==
  ASSUME NEW a \in Nat, NEW b \in Nat
  PROVE  a * b \in Nat
  OBVIOUS

\* A quotient by the capacity scale is a natural.
LEMMA ScaleDivNat ==
  ASSUME NEW a \in Nat
  PROVE  a \div Scale \in Nat
  BY ScaleAssumption

\* The cut to unsigned int is in its range.
LEMMA RawRange ==
  ASSUME NEW t \in Nat
  PROVE  t % UIntMod \in 0 .. UINT_MAX
  BY UIntModAssumption DEF UINT_MAX

\* The performance-aware margin is a natural.
LEMMA PerfMarginNat ==
  ASSUME NEW avg \in AveragesType, NEW m \in Nat, NEW s \in Nat, NEW ms
  PROVE  perf_margin(avg, m, s, ms) \in Nat
  <1> DEFINE c == avg.core_util_avg
             d == (avg.memory_util_avg * s) \div Scale
  <1>1. avg.core_util_avg \in Nat /\ avg.memory_util_avg \in Nat
    BY DEF AveragesType
  <1>2. d \in Nat
    BY <1>1, TimesNat, ScaleDivNat
  <1>3. m * 2 * c \in Nat
    BY <1>1, TimesNat
  <1>4. c + d \in Nat
    BY <1>1, <1>2
  <1>5. UDiv(m * 2 * c, c + d) \in Nat
    BY <1>3, <1>4, UDivNat
  <1> QED
    BY <1>5 DEF perf_margin

\* So is the utilisation of a CPU.
LEMMA GetUtilNat ==
  ASSUME NEW avg \in AveragesType, NEW m \in Nat, NEW s \in Nat, NEW ms
  PROVE  sugov_get_util(avg, m, s, MaxCap, ms) \in Nat
  <1> DEFINE pm   == perf_margin(avg, m, s, ms)
             temp == ((avg.memory_util_avg * pm) \div Scale) + avg.memory_util_avg
             q    == (MaxCap * avg.core_util_avg) \div (MaxCap - temp)
  <1>1. /\ avg.core_util_avg \in Nat /\ avg.memory_util_avg \in Nat
        /\ avg.util_avg \in Nat /\ avg.rt \in Nat /\ MaxCap \in Nat
    BY ScalarAssumption DEF AveragesType
  <1>2. pm \in Nat
    BY PerfMarginNat
  <1>3. temp \in Nat
    BY <1>1, <1>2, TimesNat, ScaleDivNat
  <1>4. MaxCap * avg.core_util_avg \in Nat
    BY <1>1, TimesNat
  <1>5. ASSUME MaxCap > temp PROVE q \in Nat
    <2> HIDE DEF temp
    <2> QED BY <1>1, <1>3, <1>4, <1>5
  <1>6. memory_aware_util(avg, pm, MaxCap) \in Nat
    <2> HIDE DEF pm
    <2> QED BY <1>1, <1>3, <1>5 DEF memory_aware_util, Lo
  <1> QED
    BY <1>1, <1>6 DEF sugov_get_util, Lo

\* tfreq is a natural.
LEMMA TfreqNat ==
  ASSUME NEW f \in Nat, NEW m \in Nat, NEW u \in Nat, NEW x \in Nat
  PROVE  tfreq(f, m, u, x) \in Nat
  <1>1. ((f * m) \div Scale) + f \in Nat
    BY TimesNat, ScaleDivNat
  <1>2. (((f * m) \div Scale) + f) * u \in Nat
    BY <1>1, TimesNat
  <1> QED
    BY <1>2, UDivNat DEF tfreq

\* The 64-bit frequency a hook computes is a natural.
LEMMA EvalFreqNat ==
  ASSUME TypeOK, NEW c \in Cpus, NEW avg \in Averages, NEW avg0 \in Averages
  PROVE  EvalFreq(c, avg, avg0) \in Nat
  <1> DEFINE um == EvalUtil(c, avg, ScaleFreq)
             sb == sg_cpu[EvalCpu(c)].iowait_boost
             b  == boosted(um[1], um[2], sb, tunables.iowait_boost_max)
             pm == perf_margin(IF Shared /\ um[1] = 0 THEN avg0 ELSE avg,
                               tunables.capacity_margin, ScaleFreq, mods)
             f  == IF FreqInvariant THEN MaxFreq ELSE policy.cur
  <1>1. avg \in AveragesType /\ avg0 \in AveragesType
    BY InputAssumption
  <1>2. /\ MaxFreq \in Nat \ {0} /\ MaxCap \in Nat
        /\ \A g \in FreqTable : g \in Nat
    BY FreqAssumption, ScalarAssumption, UIntModAssumption DEF UINT_MAX
  <1>3. /\ policy.cur \in Nat /\ tunables.capacity_margin \in Nat
        /\ tunables.iowait_boost_max \in Nat
    BY <1>2 DEF TypeOK, PolicyType, TunablesType
  <1>4. sb \in Nat
    <2>1. EvalCpu(c) \in Cpus
      BY CpusAssumption DEF EvalCpu
    <2> QED BY <2>1 DEF TypeOK, SgCpuType
  <1>5. ScaleFreq \in Nat
    <2>1. policy.cur * Scale \in Nat
      BY <1>3, ScaleAssumption, TimesNat
    <2> QED BY <2>1, <1>2 DEF ScaleFreq
  <1>6. um[1] \in Nat /\ um[2] \in Nat
    <2>1. sugov_get_util(avg, tunables.capacity_margin, ScaleFreq, MaxCap, mods) \in Nat
      BY <1>1, <1>3, <1>5, GetUtilNat
    <2> QED BY <2>1, <1>2 DEF EvalUtil
  <1>7. b[1] \in Nat /\ b[2] \in Nat
    <2> HIDE DEF um, sb
    <2> QED BY <1>3, <1>4, <1>6 DEF boosted
  <1>8. pm \in Nat
    <2>1. (IF Shared /\ um[1] = 0 THEN avg0 ELSE avg) \in AveragesType
      BY <1>1
    <2> HIDE DEF um
    <2> QED BY <2>1, <1>3, <1>5, PerfMarginNat
  <1>9. f \in Nat
    BY <1>2, <1>3
  <1>10. EvalFreq(c, avg, avg0) = tfreq(f, pm, b[1], b[2])
    BY DEF EvalFreq
  <1>11. tfreq(f, pm, b[1], b[2]) \in Nat
    <2> HIDE DEF f, pm, b
    <2> QED BY <1>7, <1>8, <1>9, TfreqNat
  <1> QED
    BY <1>10, <1>11

-----------------------------------------------------------------------------
(***************************************************************************)
(* Type correctness.                                                       *)
(***************************************************************************)

\* The frequencies of the table are positive numbers below UINT_MAX.
LEMMA FreqsNat ==
  /\ FreqTable \subseteq Nat
  /\ MaxFreq \in FreqTable
  /\ UINT_MAX \in Nat
  /\ UINT_MAX \notin FreqTable
  /\ Frequencies \subseteq Nat
  BY FreqAssumption, UIntModAssumption DEF UINT_MAX, Frequencies

\* The state sugov_init leaves behind is well typed.
LEMMA InitTypeOK == Init => TypeOK
  <1> SUFFICES ASSUME Init PROVE TypeOK
    OBVIOUS
  <1>1. Idle \in FrameType
    BY DEF Idle, FrameType, FramePcs, Frequencies
  <1>2. Zeroed \in SgCpuType
    BY DEF Zeroed, SgCpuType
  <1>3. policy \in PolicyType
    <2>1. PICK l \in Limits : policy = [min |-> l[1], max |-> l[2], cur |-> l[2]]
      BY DEF Init
    <2>2. l[1] \in FreqTable /\ l[2] \in FreqTable
      BY LimitsAssumption
    <2> QED BY <2>1, <2>2 DEF PolicyType
  <1>4. tunables \in TunablesType
    BY ScalarAssumption DEF Init, TunablesType
  <1>5. worker \in WorkerType /\ worker.pc # "set" /\ core \in CoreType
    BY DEF Init, WorkerType, CoreType, WorkPcs, CorePcs, Frequencies
  <1>6. 0 \in 0 .. UINT_MAX
    BY FreqsNat
  <1> QED
    BY <1>1, <1>2, <1>3, <1>4, <1>5, <1>6, ScalarAssumption
       DEF Init, TypeOK, Frequencies

\* A hook step keeps the types.
LEMMA HookTypeOK ==
  ASSUME TypeOK, NEW c \in Cpus, HookStep(c)
  PROVE  TypeOK'
  <1> USE DEF rateVars, sgVars, workVars, envVars
  <1>0. Idle \in FrameType
    BY DEF Idle, FrameType, FramePcs, Frequencies
  <1>f. /\ frame[c] \in FrameType
        /\ \A pc \in FramePcs : [frame[c] EXCEPT !.pc = pc] \in FrameType
    BY DEF TypeOK, FrameType
  <1>1. CASE sugov_update_enter(c)
    <2>1. sugov_set_iowait_boost(c, frame[c].time, frame[c].flags) \in Nat
      BY DEF TypeOK, sugov_set_iowait_boost, SgCpuType, TunablesType
    <2>2. sugov_should_update_freq(frame[c].time) \in FramePcs
      BY DEF sugov_should_update_freq, FramePcs
    <2>3. frame' \in [Cpus -> FrameType]
      BY <1>1, <1>0, <1>f, <2>2 DEF TypeOK, sugov_update_enter
    <2>4. NoteCall(c, frame[c]) \in SgCpuType
      BY <1>f, <2>1, ZenonT(40) DEF TypeOK, NoteCall, SgCpuType, FrameType
    <2>5. sg_cpu' \in [Cpus -> SgCpuType]
      BY <1>1, <2>4 DEF TypeOK, sugov_update_enter
    <2> QED BY <1>1, <2>3, <2>5 DEF TypeOK, sugov_update_enter
  <1>2. CASE sugov_force_update(c)
    <2>1. frame' \in [Cpus -> FrameType]
      BY <1>2, <1>f DEF TypeOK, sugov_force_update, FramePcs
    <2> QED BY <1>2, <2>1 DEF TypeOK, sugov_force_update, Frequencies
  <1>3. CASE sugov_eval_max(c)
    <2>0. [frame[c] EXCEPT !.pc = "commit", !.next_f = MaxFreq] \in FrameType
      BY <1>f, FreqsNat DEF FrameType, FramePcs, Frequencies
    <2>1. frame' \in [Cpus -> FrameType]
      BY <1>3, <2>0 DEF TypeOK, sugov_eval_max
    <2>2. sg_cpu' \in [Cpus -> SgCpuType]
      BY <1>3 DEF TypeOK, sugov_eval_max, SgCpuType, NoteIdleCalls
    <2> QED BY <1>3, <2>1, <2>2 DEF TypeOK, sugov_eval_max
  <1>4. CASE sugov_eval_util(c)
    <2>1. PICK avg \in Averages, avg0 \in Averages, f \in FreqTable \cup {next_freq} :
            LET t == EvalFreq(c, avg, IF WorkCore = 0 THEN avg ELSE avg0)
            IN /\ get_next_freq(t, f)
               /\ frame' = [frame EXCEPT ![c] = [@ EXCEPT !.pc = "commit", !.tfreq = t,
                                                         !.next_f = HoldIfBusy(c, f)]]
      BY <1>4 DEF sugov_eval_util
    <2> DEFINE t == EvalFreq(c, avg, IF WorkCore = 0 THEN avg ELSE avg0)
    <2>2. t \in Nat
      BY EvalFreqNat
    <2>3. /\ get_next_freq(t, f)
          /\ frame' = [frame EXCEPT ![c] = [@ EXCEPT !.pc = "commit", !.tfreq = t,
                                                    !.next_f = HoldIfBusy(c, f)]]
      BY <2>1
    <2> HIDE DEF t
    <2>5. f \in Frequencies /\ HoldIfBusy(c, f) \in Frequencies
      BY DEF TypeOK, HoldIfBusy, Frequencies
    <2>4. [frame[c] EXCEPT !.pc = "commit", !.tfreq = t,
                           !.next_f = HoldIfBusy(c, f)] \in FrameType
      BY <1>f, <2>2, <2>5 DEF FrameType, FramePcs
    <2>6. frame' \in [Cpus -> FrameType]
      BY <2>3, <2>4 DEF TypeOK
    <2>7. cached_raw_freq' \in 0 .. UINT_MAX
      <3>1. t % UIntMod \in 0 .. UINT_MAX
        BY <2>2, RawRange
      <3> QED BY <2>3, <3>1 DEF TypeOK, get_next_freq
    <2>8. sg_cpu' \in [Cpus -> SgCpuType]
      <3>1. EvalCpu(c) \in Cpus
        BY CpusAssumption DEF EvalCpu
      <3>2. \A n \in Nat : n \div 2 \in Nat
        OBVIOUS
      <3>3. \A s \in SgCpuType : HalveBoost(NoteIdleCalls(s)) \in SgCpuType
        BY <3>2 DEF SgCpuType, NoteIdleCalls, HalveBoost
      <3> QED BY <1>4, <3>1, <3>3 DEF TypeOK, sugov_eval_util
    <2> QED BY <1>4, <2>6, <2>7, <2>8 DEF TypeOK, sugov_eval_util
  <1>5. CASE sugov_eval_oops(c)
    <2>1. frame' \in [Cpus -> FrameType]
      BY <1>5, <1>f DEF TypeOK, sugov_eval_oops, FramePcs
    <2> QED BY <1>5, <2>1 DEF TypeOK, sugov_eval_oops
  <1>6. CASE sugov_update_commit(c)
    <2>1. frame' \in [Cpus -> FrameType]
      BY <1>6, <1>0 DEF TypeOK, sugov_update_commit
    <2>2. frame[c].next_f \in Frequencies /\ frame[c].time \in Nat
      BY <1>f DEF FrameType
    <2> QED BY <1>6, <2>1, <2>2 DEF TypeOK, sugov_update_commit
  <1> QED
    BY <1>1, <1>2, <1>3, <1>4, <1>5, <1>6 DEF HookStep

\* The irq_work and the kthread keep the types.
LEMMA WorkTypeOK ==
  ASSUME TypeOK, sugov_irq_work \/ Worker
  PROVE  TypeOK'
  <1> USE DEF rateVars, sgVars, workVars, envVars, TypeOK
  <1>0. /\ worker.pc \in WorkPcs /\ worker.target \in Frequencies
        /\ \A pc \in WorkPcs, t \in Frequencies : [pc |-> pc, target |-> t] \in WorkerType
        /\ \A pc \in WorkPcs : [worker EXCEPT !.pc = pc] \in WorkerType
    BY DEF WorkerType
  <1>1. CASE sugov_irq_work
    BY <1>1 DEF sugov_irq_work
  <1>2. CASE sugov_work
    <2>1. worker' \in WorkerType /\ worker'.pc = "lock"
      BY <1>0, <1>2 DEF sugov_work, WorkPcs, WorkerType
    <2> QED BY <1>2, <2>1 DEF sugov_work
  <1>3. CASE sugov_work_lock
    <2>1. worker' \in WorkerType /\ worker'.pc = "target"
      BY <1>0, <1>3 DEF sugov_work_lock, WorkPcs, WorkerType
    <2> QED BY <1>3, <2>1 DEF sugov_work_lock
  <1>4. CASE sugov_work_target
    BY <1>0, <1>4 DEF sugov_work_target, WorkPcs, Frequencies
  <1>5. CASE sugov_work_set
    <2>1. policy' \in PolicyType
      BY <1>5 DEF sugov_work_set, PolicyType
    <2> QED BY <1>0, <1>5, <2>1 DEF sugov_work_set, WorkPcs, Frequencies
  <1>6. CASE sugov_work_clear
    <2>1. worker' \in WorkerType /\ worker'.pc = "idle"
      BY <1>0, <1>6 DEF sugov_work_clear, WorkPcs, WorkerType
    <2> QED BY <1>6, <2>1 DEF sugov_work_clear
  <1> QED
    BY <1>1, <1>2, <1>3, <1>4, <1>5, <1>6 DEF Worker

\* The cpufreq core keeps the types.
LEMMA CoreTypeOK ==
  ASSUME TypeOK, Core
  PROVE  TypeOK'
  <1> USE DEF rateVars, sgVars, workVars, envVars, TypeOK
  <1>0. /\ core.todo \subseteq Cpus
        /\ \A pc \in CorePcs, t \in SUBSET Cpus : [pc |-> pc, todo |-> t] \in CoreType
        /\ \A pc \in CorePcs : [core EXCEPT !.pc = pc] \in CoreType
        /\ \A t \in SUBSET Cpus : [core EXCEPT !.todo = t] \in CoreType
    BY DEF CoreType
  <1>1. CASE sugov_start
    BY <1>0, <1>1 DEF sugov_start, CorePcs, TunablesType
  <1>2. CASE sugov_start_reset
    <2>1. tunables' \in TunablesType
      BY <1>2, FreqsNat DEF sugov_start_reset, TunablesType
    <2>2. min_rate_limit_ns' \in Nat
      BY <1>2 DEF sugov_start_reset, update_min_rate_limit_us, Lo
    <2>3. next_freq' \in Frequencies /\ cached_raw_freq' \in 0 .. UINT_MAX
      BY <1>2, FreqsNat DEF sugov_start_reset, Frequencies
    <2>4. core' \in CoreType
      BY <1>0, <1>2 DEF sugov_start_reset, CorePcs
    <2> QED BY <1>2, <2>1, <2>2, <2>3, <2>4 DEF sugov_start_reset
  <1>3. CASE sugov_start_memset
    <2>1. Zeroed \in SgCpuType
      BY DEF Zeroed, SgCpuType
    <2> QED BY <1>0, <1>3, <2>1 DEF sugov_start_memset, CorePcs
  <1>4. CASE sugov_start_hook
    <2>1. PICK c \in Cpus :
            /\ sg_cpu' = [sg_cpu EXCEPT ![c].sg_policy = TRUE, ![c].flags = {"DL"}]
            /\ hooks' = hooks \cup {c}
            /\ core' = IF core.todo = {c} THEN [pc |-> "limits_lock", todo |-> {}]
                       ELSE [pc |-> "start_clear", todo |-> core.todo \ {c}]
      BY <1>4 DEF sugov_start_hook
    <2>2. sg_cpu' \in [Cpus -> SgCpuType]
      BY <2>1 DEF SgCpuType, FlagBits
    <2>3. core' \in CoreType
      BY <1>0, <2>1 DEF CorePcs
    <2> QED BY <1>4, <2>1, <2>2, <2>3 DEF sugov_start_hook
  <1>5. CASE cpufreq_set_policy
    <2>1. policy' \in PolicyType
      BY <1>5, LimitsAssumption DEF cpufreq_set_policy, PolicyType
    <2> QED BY <1>0, <1>5, <2>1 DEF cpufreq_set_policy, CorePcs
  <1>6. CASE sugov_limits_lock
    BY <1>0, <1>6 DEF sugov_limits_lock, CorePcs
  <1>7. CASE sugov_limits_apply
    <2>1. policy' \in PolicyType
      BY <1>7 DEF sugov_limits_apply, PolicyType, Clamp
    <2> QED BY <1>0, <1>7, <2>1 DEF sugov_limits_apply, CorePcs
  <1>8. CASE sugov_limits_flag
    BY <1>0, <1>8 DEF sugov_limits_flag, CorePcs
  <1>9. CASE sugov_stop
    BY <1>0, <1>9 DEF sugov_stop, CorePcs
  <1>10. CASE sugov_stop_hook
    BY <1>0, <1>10 DEF sugov_stop_hook, CorePcs
  <1>11. CASE sugov_stop_sync
    BY <1>0, <1>11 DEF sugov_stop_sync, CorePcs
  <1>12. CASE sugov_stop_cancel
    BY <1>0, <1>12 DEF sugov_stop_cancel, CorePcs
  <1>13. CASE sugov_stop_flush
    BY <1>0, <1>13 DEF sugov_stop_flush, CorePcs
  <1> QED
    BY <1>1, <1>2, <1>3, <1>4, <1>5, <1>6, <1>7, <1>8, <1>9, <1>10, <1>11, <1>12, <1>13
       DEF Core, CoreStep

\* sysfs keeps the types.
LEMMA SysfsTypeOK ==
  ASSUME TypeOK, Sysfs
  PROVE  TypeOK'
  <1> USE DEF rateVars, sgVars, workVars, envVars, TypeOK
  <1>1. CASE up_rate_limit_us_store
    <2>1. tunables' \in TunablesType
      BY <1>1, InputAssumption DEF up_rate_limit_us_store, TunablesType
    <2> QED BY <1>1, <2>1 DEF up_rate_limit_us_store
  <1>2. CASE down_rate_limit_us_store
    <2>1. tunables' \in TunablesType
      BY <1>2, InputAssumption DEF down_rate_limit_us_store, TunablesType
    <2> QED BY <1>2, <2>1 DEF down_rate_limit_us_store
  <1>3. CASE rate_limit_us_delay
    BY <1>3 DEF rate_limit_us_delay, TunablesType
  <1>4. CASE rate_limit_us_min
    BY <1>4 DEF rate_limit_us_min, update_min_rate_limit_us, Lo
  <1>5. CASE iowait_boost_max_store
    <2>1. tunables' \in TunablesType
      BY <1>5, InputAssumption DEF iowait_boost_max_store, TunablesType
    <2> QED BY <1>5, <2>1 DEF iowait_boost_max_store
  <1>6. CASE capacity_margin_store
    <2>1. tunables' \in TunablesType
      BY <1>6, InputAssumption DEF capacity_margin_store, TunablesType
    <2> QED BY <1>6, <2>1 DEF capacity_margin_store
  <1> QED
    BY <1>1, <1>2, <1>3, <1>4, <1>5, <1>6 DEF Sysfs

\* Every step keeps the types.
LEMMA NextTypeOK == TypeOK /\ [Next]_vars => TypeOK'
  <1> SUFFICES ASSUME TypeOK, [Next]_vars PROVE TypeOK'
    OBVIOUS
  <1> USE DEF rateVars, sgVars, workVars, envVars
  <1>1. ASSUME NEW c \in Cpus, NEW flags \in CallFlags, cpufreq_update_util(c, flags)
        PROVE  TypeOK'
    <2>1. [Idle EXCEPT !.pc = "called", !.time = now, !.flags = flags] \in FrameType
      BY InputAssumption DEF TypeOK, Idle, FrameType, FramePcs, Frequencies
    <2>2. frame' \in [Cpus -> FrameType]
      BY <1>1, <2>1 DEF TypeOK, cpufreq_update_util
    <2> QED BY <1>1, <2>2 DEF TypeOK, cpufreq_update_util
  <1>2. ASSUME NEW c \in Cpus, tick_nohz_idle_call(c) PROVE TypeOK'
    <2>1. sg_cpu' \in [Cpus -> SgCpuType]
      BY <1>2 DEF TypeOK, tick_nohz_idle_call, SgCpuType
    <2> QED BY <1>2, <2>1 DEF TypeOK, tick_nohz_idle_call
  <1>3. ASSUME NEW m \in Modules, pkshin_module_init(m) \/ pkshin_module_exit(m)
        PROVE  TypeOK'
    BY <1>3, InputAssumption DEF TypeOK, pkshin_module_init, pkshin_module_exit
  <1>4. CASE Tick
    BY <1>4 DEF TypeOK, Tick
  <1>5. CASE UNCHANGED vars
    BY <1>5 DEF TypeOK, vars
  <1> QED
    BY <1>1, <1>2, <1>3, <1>4, <1>5, HookTypeOK, WorkTypeOK, CoreTypeOK, SysfsTypeOK
       DEF Next

\* Whatever the scheduler, sysfs and the cpufreq core do, every field of the
\* governor keeps its type; next_freq is a table frequency, UINT_MAX or 0.
THEOREM TypeCorrect == Spec => []TypeOK
  BY InitTypeOK, NextTypeOK, PTL DEF Spec

-----------------------------------------------------------------------------
(***************************************************************************)
(* The safety of the slow path: the inductive invariant IInv of Sugov, and *)
(* what follows from it.                                                   *)
(***************************************************************************)
\* The governor is created stopped and idle.
LEMMA InitIInv == Init => IInv
  <1> SUFFICES ASSUME Init PROVE IInv
    OBVIOUS
  <1>1. /\ \A c \in Cpus : frame[c].pc = "idle"
        /\ worker.pc = "idle" /\ core.pc = "stopped"
        /\ hooks = {} /\ ~irq_pending /\ ~work_queued /\ work_lock = "none"
    BY DEF Init, Idle
  <1>2. policy.min <= policy.cur /\ policy.cur <= policy.max /\ policy.min <= policy.max
    <2>1. PICK l \in Limits : policy = [min |-> l[1], max |-> l[2], cur |-> l[2]]
      BY DEF Init
    <2>2. l[1] \in FreqTable /\ l[2] \in FreqTable /\ l[1] <= l[2]
      BY LimitsAssumption
    <2>3. l[1] \in Nat /\ l[2] \in Nat
      BY <2>2, FreqsNat
    <2>4. policy.min = l[1] /\ policy.max = l[2] /\ policy.cur = l[2]
      BY <2>1
    <2> QED BY <2>2, <2>3, <2>4
  <1> QED
    BY <1>1, <1>2
       DEF IInv, UpdateExclusion, Updating, PhaseInv, HooksGone, OneTransition, InFlight,
           CommitInv, WorkerTargetsTableFreq, HookInv, HookSeesPolicy, WorkLockInv,
           LimitsInv, LimitsHold

-----------------------------------------------------------------------------
(***************************************************************************)
(* The hook.                                                               *)
(***************************************************************************)

\* What the steps of a hook leave alone, and what follows for the invariants
\* that do not speak of frames.
HookFrameOnly(c) ==
  /\ \A d \in Cpus \ {c} : frame'[d] = frame[d] /\ sg_cpu'[d].sg_policy = sg_cpu[d].sg_policy
  /\ sg_cpu'[c].sg_policy = sg_cpu[c].sg_policy
  /\ frame[c].pc # "idle"
  /\ UNCHANGED <<hooks, core, policy, worker, work_lock, work_queued>>

\* The invariants that only look at what HookFrameOnly keeps.
LEMMA HookKeeps ==
  ASSUME TypeOK, IInv, NEW c \in Cpus, HookFrameOnly(c)
  PROVE  HookInv' /\ HookSeesPolicy' /\ WorkLockInv' /\ LimitsInv' /\ LimitsHold'
  <1>1. \A d \in Cpus : sg_cpu'[d].sg_policy = sg_cpu[d].sg_policy
    BY DEF HookFrameOnly
  <1>3. HookInv'
    BY <1>1 DEF TypeOK, IInv, HookInv, HookFrameOnly
  <1>4. HookSeesPolicy'
    BY <1>1 DEF IInv, HookSeesPolicy, HookFrameOnly
  <1>2. WorkLockInv' /\ LimitsInv' /\ LimitsHold'
    BY DEF IInv, WorkLockInv, LimitsInv, LimitsHold, HookFrameOnly
  <1> QED BY <1>2, <1>3, <1>4

\* A hook takes update_lock and decides whether to go on.
LEMMA HookEnterIInv ==
  ASSUME TypeOK, IInv, NEW c \in Cpus, sugov_update_enter(c)
  PROVE  IInv'
  <1> USE DEF workVars, sgVars
  <1> DEFINE pc == sugov_should_update_freq(frame[c].time)
  <1>1. /\ frame'[c].pc = pc
        /\ pc \in {"idle", "force", "eval"}
        /\ pc # "idle" => ~work_in_progress
        /\ Shared /\ pc # "idle" => update_lock' = c
        /\ pc = "idle" => update_lock' = update_lock
        /\ Shared => update_lock = NoCpu
    BY DEF TypeOK, sugov_update_enter, sugov_should_update_freq, FrameType, Idle
  <1>2. HookFrameOnly(c)
    BY DEF TypeOK, sugov_update_enter, HookFrameOnly, NoteCall, SgCpuType
  <1>3. UNCHANGED <<irq_pending, work_in_progress, next_freq>>
    BY DEF sugov_update_enter
  <1>4. Shared => \A d \in Cpus : ~Updating(d)
    BY <1>1, CpusAssumption DEF IInv, UpdateExclusion, NoCpu
  <1> HIDE DEF pc
  <1>5. \A d \in Cpus \ {c} : Updating(d)' <=> Updating(d)
    BY <1>2 DEF HookFrameOnly, Updating
  <1>6. Updating(c)' <=> pc # "idle"
    BY <1>1 DEF Updating
  <1>7. UpdateExclusion'
    <2>1. \A d \in Cpus : Shared /\ Updating(d)' => update_lock' = d
      BY <1>1, <1>4, <1>5, <1>6
    <2>2. \A d, e \in Cpus : Updating(d)' /\ Updating(e)' => d = e
      BY <1>4, <1>5, <1>6 DEF Shared
    <2> QED BY <2>1, <2>2 DEF UpdateExclusion, Shared, Updating
  <1>8. PhaseInv'
    BY <1>1, <1>2, <1>3 DEF TypeOK, CoreType, IInv, PhaseInv, HooksGone, HookFrameOnly
  <1>9. OneTransition' /\ WorkerTargetsTableFreq'
    BY <1>1, <1>2, <1>3, <1>5, <1>6
       DEF IInv, OneTransition, WorkerTargetsTableFreq, InFlight, HookFrameOnly
  <1>10. CommitInv'
    BY <1>1, <1>2, <1>3 DEF IInv, CommitInv, HookFrameOnly
  <1> QED
    BY <1>2, <1>7, <1>8, <1>9, <1>10, HookKeeps DEF IInv

\* A step of the hook that decides, and goes on deciding.
LEMMA HookStaysIInv ==
  ASSUME TypeOK, IInv, NEW c \in Cpus, HookFrameOnly(c), Updating(c), Updating(c)',
         UNCHANGED <<update_lock, irq_pending, work_in_progress>>,
         frame'[c].pc = "commit" => frame'[c].next_f \in FreqTable \cup {next_freq'}
  PROVE  IInv'
  <1>1. \A d \in Cpus \ {c} : frame'[d] = frame[d] /\ ~Updating(d)
    BY DEF IInv, UpdateExclusion, HookFrameOnly
  <1>2. \A d \in Cpus \ {c} : ~Updating(d)'
    BY <1>1 DEF Updating
  <1>3. UpdateExclusion'
    BY <1>2 DEF IInv, UpdateExclusion, Shared
  <1>4. PhaseInv'
    BY <1>1 DEF TypeOK, CoreType, IInv, PhaseInv, HooksGone, HookFrameOnly, Updating
  <1>5. ~InFlight /\ ~InFlight'
    BY DEF IInv, OneTransition, InFlight, HookFrameOnly
  <1>6. OneTransition' /\ WorkerTargetsTableFreq'
    <2>1. ~work_in_progress'
      BY DEF IInv, OneTransition
    <2> QED BY <1>5, <2>1 DEF OneTransition, InFlight, WorkerTargetsTableFreq
  <1>7. CommitInv'
    BY <1>2 DEF CommitInv, Updating
  <1> QED
    BY <1>3, <1>4, <1>6, <1>7, HookKeeps DEF IInv

\* sugov_update_commit.
LEMMA HookCommitIInv ==
  ASSUME TypeOK, IInv, NEW c \in Cpus, sugov_update_commit(c)
  PROVE  IInv'
  <1> USE DEF rateVars, envVars
  <1>1. HookFrameOnly(c) /\ Updating(c) /\ frame[c].pc = "commit"
    BY DEF TypeOK, sugov_update_commit, HookFrameOnly, Updating
  <1>2. frame'[c].pc = "idle"
    BY DEF TypeOK, sugov_update_commit, Idle
  <1>3. \A d \in Cpus \ {c} : frame'[d] = frame[d] /\ ~Updating(d)
    BY <1>1 DEF IInv, UpdateExclusion, HookFrameOnly
  <1>4. \A d \in Cpus : ~Updating(d)'
    BY <1>2, <1>3 DEF Updating
  <1>5. ~InFlight
    BY <1>1 DEF IInv, OneTransition
  <1>6. UpdateExclusion' /\ CommitInv'
    BY <1>4 DEF UpdateExclusion, CommitInv, Updating
  <1>7. \/ UNCHANGED <<next_freq, work_in_progress, irq_pending>>
        \/ /\ Commits(frame[c].time, frame[c].next_f)
           /\ next_freq' = frame[c].next_f
           /\ work_in_progress' /\ irq_pending'
    BY DEF sugov_update_commit
  <1>8. OneTransition'
    BY <1>1, <1>4, <1>5, <1>7 DEF OneTransition, InFlight, HookFrameOnly
  <1>9. WorkerTargetsTableFreq'
    <2>1. frame[c].next_f \in FreqTable \cup {next_freq}
      BY <1>1 DEF IInv, CommitInv
    <2>2. CASE UNCHANGED <<next_freq, work_in_progress, irq_pending>>
      BY <1>1, <1>5, <2>2 DEF WorkerTargetsTableFreq, InFlight, HookFrameOnly
    <2>3. CASE Commits(frame[c].time, frame[c].next_f) /\ next_freq' = frame[c].next_f
      BY <2>1, <2>3 DEF WorkerTargetsTableFreq, Commits
    <2> QED BY <1>7, <2>2, <2>3
  <1>10. PhaseInv'
    <2>1. core.pc \notin {"stop_irq", "stop_flush", "stopped", "start_min"}
      BY <1>1 DEF IInv, PhaseInv, HooksGone
    <2> QED BY <1>1, <1>2, <1>3, <2>1 DEF TypeOK, CoreType, IInv, PhaseInv, HookFrameOnly
  <1> QED
    BY <1>1, <1>6, <1>8, <1>9, <1>10, HookKeeps DEF IInv

\* Every step of a hook.
LEMMA HookIInv ==
  ASSUME TypeOK, IInv, NEW c \in Cpus, HookStep(c)
  PROVE  IInv'
  <1> USE DEF workVars, sgVars, rateVars, envVars
  <1>0. frame[c] \in FrameType /\ sg_cpu[c] \in SgCpuType
    BY DEF TypeOK
  <1>1. CASE sugov_force_update(c)
    <2>1. HookFrameOnly(c) /\ frame[c].pc = "force" /\ frame'[c].pc = "eval"
      BY <1>1, <1>0 DEF TypeOK, FrameType, sugov_force_update, HookFrameOnly
    <2>2. UNCHANGED <<update_lock, irq_pending, work_in_progress>>
      BY <1>1 DEF sugov_force_update
    <2> QED BY <2>1, <2>2, HookStaysIInv DEF Updating
  <1>2. CASE sugov_eval_max(c)
    <2>1. /\ HookFrameOnly(c) /\ frame[c].pc = "eval"
          /\ frame'[c].pc = "commit" /\ frame'[c].next_f = MaxFreq
      BY <1>2, <1>0 DEF TypeOK, FrameType, SgCpuType, sugov_eval_max, HookFrameOnly,
                        NoteIdleCalls
    <2>2. UNCHANGED <<update_lock, irq_pending, work_in_progress>>
      BY <1>2 DEF sugov_eval_max
    <2> QED BY <2>1, <2>2, HookStaysIInv, FreqsNat DEF Updating
  <1>3. CASE sugov_eval_util(c)
    <2>1. PICK f \in FreqTable \cup {next_freq} : \E t :
            frame' = [frame EXCEPT ![c] = [@ EXCEPT !.pc = "commit", !.tfreq = t,
                                                    !.next_f = HoldIfBusy(c, f)]]
      BY <1>3 DEF sugov_eval_util
    <2>2. /\ frame[c].pc = "eval" /\ frame'[c].pc = "commit"
          /\ frame'[c].next_f \in FreqTable \cup {next_freq}
          /\ \A d \in Cpus \ {c} : frame'[d] = frame[d]
      BY <1>0, <1>3, <2>1 DEF TypeOK, FrameType, sugov_eval_util, HoldIfBusy
    <2>3. \A d \in Cpus : sg_cpu'[d].sg_policy = sg_cpu[d].sg_policy
      <3>1. EvalCpu(c) \in Cpus
        BY CpusAssumption DEF EvalCpu
      <3>2. \A s \in SgCpuType : HalveBoost(NoteIdleCalls(s)).sg_policy = s.sg_policy
        BY DEF SgCpuType, HalveBoost, NoteIdleCalls
      <3> QED BY <1>3, <3>1, <3>2 DEF TypeOK, sugov_eval_util
    <2>4. HookFrameOnly(c)
      BY <1>3, <2>2, <2>3 DEF HookFrameOnly, sugov_eval_util
    <2>5. UNCHANGED <<update_lock, irq_pending, work_in_progress, next_freq>>
      BY <1>3 DEF sugov_eval_util
    <2> QED BY <2>2, <2>4, <2>5, HookStaysIInv DEF Updating
  <1>4. CASE sugov_eval_oops(c)
    <2>1. HookFrameOnly(c) /\ frame[c].pc = "eval" /\ frame'[c].pc = "oops"
      BY <1>4, <1>0 DEF TypeOK, FrameType, sugov_eval_oops, HookFrameOnly
    <2>2. UNCHANGED <<update_lock, irq_pending, work_in_progress>>
      BY <1>4 DEF sugov_eval_oops
    <2> QED BY <2>1, <2>2, HookStaysIInv DEF Updating
  <1> QED
    BY <1>1, <1>2, <1>3, <1>4, HookEnterIInv, HookCommitIInv DEF HookStep

-----------------------------------------------------------------------------
(***************************************************************************)
(* The slow path.                                                          *)
(***************************************************************************)

\* A frequency resolved within the limits is within them.
LEMMA ResolvedInLimits ==
  ASSUME TypeOK, LimitsInv, NEW f \in Frequencies, NEW t, IsResolved(t, f, policy)
  PROVE  policy.min <= t /\ t <= policy.max
  <1>1. /\ policy.min \in FreqTable /\ policy.max \in FreqTable
        /\ policy.min \in Nat /\ policy.max \in Nat /\ f \in Nat /\ t \in Nat
    BY FreqsNat DEF TypeOK, PolicyType, IsResolved
  <1>2. policy.min <= Clamp(f, policy) /\ Clamp(f, policy) <= policy.max
        /\ Clamp(f, policy) \in Nat
    BY <1>1 DEF LimitsInv, Clamp
  <1> QED
    BY <1>1, <1>2 DEF IsResolved

\* The irq_work and the kthread.
LEMMA WorkIInv ==
  ASSUME TypeOK, IInv, sugov_irq_work \/ Worker
  PROVE  IInv'
  <1> USE DEF workVars, sgVars, rateVars, envVars
  <1>0. worker \in WorkerType
    BY DEF TypeOK
  <1>f. /\ UNCHANGED <<frame, sg_cpu, hooks, update_lock, core, next_freq>>
        /\ HookInv' /\ HookSeesPolicy' /\ CommitInv' /\ UpdateExclusion'
    <2>1. UNCHANGED <<frame, sg_cpu, hooks, update_lock, core, next_freq>>
      BY DEF sugov_irq_work, Worker, sugov_work, sugov_work_lock, sugov_work_target,
             sugov_work_set, sugov_work_clear
    <2> QED BY <2>1 DEF IInv, HookInv, HookSeesPolicy, CommitInv, UpdateExclusion, Updating
  <1>u. \A c \in Cpus : Updating(c)' <=> Updating(c)
    BY <1>f DEF Updating
  <1> USE DEF IInv, PhaseInv, HooksGone, OneTransition, InFlight, WorkerTargetsTableFreq
  <1>1. CASE sugov_irq_work
    <2>1. PhaseInv'
      BY <1>1, <1>f DEF sugov_irq_work
    <2>2. OneTransition' /\ WorkerTargetsTableFreq'
      BY <1>1, <1>f, <1>u DEF sugov_irq_work
    <2>3. WorkLockInv' /\ LimitsInv' /\ LimitsHold'
      BY <1>1 DEF sugov_irq_work, WorkLockInv, LimitsInv, LimitsHold
    <2> QED BY <1>f, <2>1, <2>2, <2>3
  <1>2. CASE sugov_work
    <2>0. worker'.pc = "lock"
      BY <1>0, <1>2 DEF sugov_work, WorkerType
    <2>1. PhaseInv'
      BY <1>2, <1>f, <2>0 DEF sugov_work
    <2>2. OneTransition' /\ WorkerTargetsTableFreq'
      BY <1>2, <1>f, <1>u, <2>0 DEF sugov_work
    <2>3. WorkLockInv' /\ LimitsInv' /\ LimitsHold'
      BY <1>2, <2>0 DEF sugov_work, WorkLockInv, LimitsInv, LimitsHold
    <2> QED BY <1>f, <2>1, <2>2, <2>3
  <1>3. CASE sugov_work_lock
    <2>0. worker'.pc = "target"
      BY <1>0, <1>3 DEF sugov_work_lock, WorkerType
    <2>1. PhaseInv'
      BY <1>3, <1>f, <2>0 DEF sugov_work_lock
    <2>2. OneTransition' /\ WorkerTargetsTableFreq'
      BY <1>3, <1>f, <1>u, <2>0 DEF sugov_work_lock
    <2>3. WorkLockInv' /\ LimitsInv' /\ LimitsHold'
      BY <1>3, <2>0 DEF sugov_work_lock, WorkLockInv, LimitsInv, LimitsHold
    <2> QED BY <1>f, <2>1, <2>2, <2>3
  <1>4. CASE sugov_work_target
    <2>0. PICK t \in FreqTable : IsResolved(t, next_freq, policy)
                                 /\ worker' = [pc |-> "set", target |-> t]
      BY <1>4 DEF sugov_work_target
    <2>1. PhaseInv'
      BY <1>4, <1>f, <2>0 DEF sugov_work_target
    <2>2. OneTransition' /\ WorkerTargetsTableFreq'
      BY <1>4, <1>f, <1>u, <2>0 DEF sugov_work_target
    <2>3. policy.min <= t /\ t <= policy.max
      BY <2>0, ResolvedInLimits DEF TypeOK
    <2>4. WorkLockInv' /\ LimitsInv' /\ LimitsHold'
      BY <1>4, <2>0, <2>3 DEF sugov_work_target, WorkLockInv, LimitsInv, LimitsHold
    <2> QED BY <1>f, <2>1, <2>2, <2>4
  <1>5. CASE sugov_work_set
    <2>0. /\ worker'.pc = "clear" /\ policy'.cur = worker.target
          /\ policy'.min = policy.min /\ policy'.max = policy.max
      BY <1>5 DEF sugov_work_set, TypeOK, PolicyType
    <2>1. PhaseInv'
      BY <1>5, <1>f, <2>0 DEF sugov_work_set
    <2>2. OneTransition' /\ WorkerTargetsTableFreq'
      BY <1>5, <1>f, <1>u, <2>0 DEF sugov_work_set
    <2>3. WorkLockInv' /\ LimitsInv' /\ LimitsHold'
      BY <1>5, <2>0 DEF sugov_work_set, WorkLockInv, LimitsInv, LimitsHold
    <2> QED BY <1>f, <2>1, <2>2, <2>3
  <1>6. CASE sugov_work_clear
    <2>0. worker'.pc = "idle"
      BY <1>0, <1>6 DEF sugov_work_clear, WorkerType
    <2>1. PhaseInv'
      BY <1>6, <1>f, <2>0 DEF sugov_work_clear
    <2>2. OneTransition' /\ WorkerTargetsTableFreq'
      BY <1>6, <1>f, <1>u, <2>0 DEF sugov_work_clear
    <2>3. WorkLockInv' /\ LimitsInv' /\ LimitsHold'
      BY <1>6, <2>0 DEF sugov_work_clear, WorkLockInv, LimitsInv, LimitsHold
    <2> QED BY <1>f, <2>1, <2>2, <2>3
  <1> QED
    BY <1>1, <1>2, <1>3, <1>4, <1>5, <1>6 DEF Worker

-----------------------------------------------------------------------------
(***************************************************************************)
(* The cpufreq core.                                                       *)
(***************************************************************************)
LEMMA CoreIInv ==
  ASSUME TypeOK, IInv, Core
  PROVE  IInv'
  <1> USE DEF workVars, sgVars, rateVars, envVars
  <1>0. core \in CoreType /\ core.todo \subseteq Cpus /\ hooks \subseteq Cpus
    BY DEF TypeOK, CoreType
  <1>f. /\ UNCHANGED <<frame, update_lock, worker, irq_pending>>
        /\ UpdateExclusion'
    <2>1. UNCHANGED <<frame, update_lock, worker, irq_pending>>
      BY DEF Core, CoreStep, sugov_start, sugov_start_reset, sugov_start_memset,
             sugov_start_hook, cpufreq_set_policy, sugov_limits_lock, sugov_limits_apply,
             sugov_limits_flag, sugov_stop, sugov_stop_hook, sugov_stop_sync,
             sugov_stop_cancel, sugov_stop_flush
    <2> QED BY <2>1 DEF IInv, UpdateExclusion, Updating
  <1>u. \A c \in Cpus : Updating(c)' <=> Updating(c)
    BY <1>f DEF Updating
  <1> DEFINE Pipeline == OneTransition /\ WorkerTargetsTableFreq /\ CommitInv
             HookPart == HookInv /\ HookSeesPolicy
             LimPart  == WorkLockInv /\ LimitsInv /\ LimitsHold
  <1>p. ASSUME UNCHANGED <<work_queued, work_in_progress, next_freq>>
        PROVE  Pipeline'
    BY <1>f, <1>u, <1>p
       DEF IInv, OneTransition, InFlight, WorkerTargetsTableFreq, CommitInv
  <1>h. ASSUME UNCHANGED <<sg_cpu, hooks>>
        PROVE  HookPart'
    BY <1>f, <1>h DEF IInv, HookInv, HookSeesPolicy
  <1>l. ASSUME UNCHANGED <<policy, work_lock>>,
               core.pc \notin {"limits_lock", "limits_apply"}, core'.pc # "limits_apply"
        PROVE  LimPart'
    BY <1>f, <1>l DEF IInv, WorkLockInv, LimitsInv, LimitsHold
  <1>q. ASSUME PhaseInv', Pipeline', HookPart', LimPart'
        PROVE  IInv'
    BY <1>f, <1>q DEF IInv
  <1> HIDE DEF Pipeline, HookPart, LimPart
  <1>1. CASE sugov_start
    <2>1. core.pc = "stopped" /\ core'.pc = "start_min"
      BY <1>1 DEF sugov_start
    <2>2. PhaseInv'
      BY <1>1, <1>f, <2>1 DEF sugov_start, IInv, PhaseInv, HooksGone
    <2>3. Pipeline' /\ HookPart' /\ LimPart'
      BY <1>1, <1>p, <1>h, <1>l, <2>1 DEF sugov_start
    <2> QED BY <1>q, <2>2, <2>3
  <1>2. CASE sugov_start_reset
    <2>1. core.pc = "start_min" /\ core'.pc = "start_clear"
      BY <1>2 DEF sugov_start_reset
    <2>2. HooksGone /\ ~InFlight /\ ~InFlight'
      BY <1>2, <1>f, <2>1 DEF sugov_start_reset, IInv, PhaseInv, InFlight
    <2>3. PhaseInv'
      BY <1>2, <1>f, <2>1, <2>2, <1>0 DEF sugov_start_reset, PhaseInv, HooksGone
    <2>4. Pipeline'
      BY <1>2, <1>f, <2>2
         DEF sugov_start_reset, Pipeline, OneTransition, InFlight, WorkerTargetsTableFreq,
             CommitInv, HooksGone
    <2>5. HookPart' /\ LimPart'
      BY <1>2, <1>h, <1>l, <2>1 DEF sugov_start_reset
    <2> QED BY <1>q, <2>3, <2>4, <2>5
  <1>3. CASE sugov_start_memset
    <2>0. PICK c \in Cpus : IsNext(c) /\ sg_cpu' = [sg_cpu EXCEPT ![c] = Zeroed]
      BY <1>3 DEF sugov_start_memset
    <2>1. core.pc = "start_clear" /\ core'.pc = "start_hook" /\ core'.todo = core.todo
      BY <1>3, <1>0 DEF sugov_start_memset, CoreType
    <2>2. c \notin hooks /\ frame[c].pc = "idle"
      BY <2>0, <2>1 DEF IInv, PhaseInv, IsNext
    <2>3. PhaseInv'
      BY <1>3, <1>f, <2>1 DEF sugov_start_memset, IInv, PhaseInv, HooksGone
    <2>4. \A d \in Cpus \ {c} : sg_cpu'[d] = sg_cpu[d]
      BY <2>0 DEF TypeOK
    <2>5. HookPart'
      BY <1>3, <1>f, <1>0, <2>2, <2>4
         DEF sugov_start_memset, HookPart, IInv, HookInv, HookSeesPolicy
    <2>6. Pipeline' /\ LimPart'
      BY <1>3, <1>p, <1>l, <2>1 DEF sugov_start_memset
    <2> QED BY <1>q, <2>3, <2>5, <2>6
  <1>4. CASE sugov_start_hook
    <2>0. PICK c \in Cpus :
            /\ sg_cpu' = [sg_cpu EXCEPT ![c].sg_policy = TRUE, ![c].flags = {"DL"}]
            /\ hooks' = hooks \cup {c}
            /\ core' = IF core.todo = {c} THEN [pc |-> "limits_lock", todo |-> {}]
                       ELSE [pc |-> "start_clear", todo |-> core.todo \ {c}]
      BY <1>4 DEF sugov_start_hook
    <2>1. /\ core.pc = "start_hook" /\ core'.pc \in {"limits_lock", "start_clear"}
          /\ core'.pc = "start_clear" => core'.todo = core.todo \ {c}
      BY <1>4, <2>0 DEF sugov_start_hook
    <2>2. PhaseInv'
      BY <1>4, <1>f, <2>0, <2>1 DEF sugov_start_hook, IInv, PhaseInv
    <2>3. /\ sg_cpu'[c].sg_policy
          /\ \A d \in Cpus \ {c} : sg_cpu'[d].sg_policy = sg_cpu[d].sg_policy
      BY <2>0 DEF TypeOK, SgCpuType
    <2>4. HookPart'
      BY <1>f, <1>0, <2>0, <2>3 DEF HookPart, IInv, HookInv, HookSeesPolicy
    <2>5. Pipeline' /\ LimPart'
      BY <1>4, <1>p, <1>l, <2>1 DEF sugov_start_hook
    <2> QED BY <1>q, <2>2, <2>4, <2>5
  <1>5. CASE cpufreq_set_policy
    <2>0. PICK l \in Limits : policy' = [policy EXCEPT !.min = l[1], !.max = l[2]]
      BY <1>5 DEF cpufreq_set_policy
    <2>1. core.pc = "running" /\ core'.pc = "limits_lock"
      BY <1>5, <1>0 DEF cpufreq_set_policy, CoreType
    <2>2. PhaseInv'
      BY <1>5, <1>f, <2>1 DEF cpufreq_set_policy, PhaseInv
    <2>3. policy'.min <= policy'.max
      BY <2>0, LimitsAssumption DEF TypeOK, PolicyType
    <2>4. LimPart'
      BY <1>5, <1>f, <2>1, <2>3
         DEF cpufreq_set_policy, LimPart, IInv, WorkLockInv, LimitsInv, LimitsHold
    <2>5. Pipeline' /\ HookPart'
      BY <1>5, <1>p, <1>h DEF cpufreq_set_policy
    <2> QED BY <1>q, <2>2, <2>4, <2>5
  <1>6. CASE sugov_limits_lock
    <2>1. core.pc = "limits_lock" /\ core'.pc = "limits_apply"
      BY <1>6, <1>0 DEF sugov_limits_lock, CoreType
    <2>2. PhaseInv'
      BY <2>1 DEF PhaseInv
    <2>3. LimPart'
      BY <1>6, <1>f, <2>1
         DEF sugov_limits_lock, LimPart, IInv, WorkLockInv, LimitsInv, LimitsHold
    <2>4. Pipeline' /\ HookPart'
      BY <1>6, <1>p, <1>h DEF sugov_limits_lock
    <2> QED BY <1>q, <2>2, <2>3, <2>4
  <1>7. CASE sugov_limits_apply
    <2>1. core.pc = "limits_apply" /\ core'.pc = "limits_flag"
      BY <1>7, <1>0 DEF sugov_limits_apply, CoreType
    <2>2. PhaseInv'
      BY <2>1 DEF PhaseInv
    <2>3. /\ policy'.cur = Clamp(policy.cur, policy)
          /\ policy'.min = policy.min /\ policy'.max = policy.max
          /\ policy.min \in Nat /\ policy.max \in Nat /\ policy.cur \in Nat
      BY <1>7, FreqsNat DEF sugov_limits_apply, TypeOK, PolicyType
    <2>4. LimPart'
      BY <1>7, <1>f, <2>1, <2>3
         DEF sugov_limits_apply, LimPart, IInv, WorkLockInv, LimitsInv, LimitsHold, Clamp
    <2>5. Pipeline' /\ HookPart'
      BY <1>7, <1>p, <1>h DEF sugov_limits_apply
    <2> QED BY <1>q, <2>2, <2>4, <2>5
  <1>8. CASE sugov_limits_flag
    <2>1. core.pc = "limits_flag" /\ core'.pc = "running"
      BY <1>8, <1>0 DEF sugov_limits_flag, CoreType
    <2>2. PhaseInv'
      BY <2>1 DEF PhaseInv
    <2>3. Pipeline' /\ HookPart' /\ LimPart'
      BY <1>8, <1>p, <1>h, <1>l, <2>1 DEF sugov_limits_flag
    <2> QED BY <1>q, <2>2, <2>3
  <1>9. CASE sugov_stop
    <2>1. core.pc = "running" /\ core'.pc = "stop_hooks" /\ core'.todo = Cpus
      BY <1>9 DEF sugov_stop
    <2>2. PhaseInv'
      BY <1>9, <1>0, <2>1 DEF sugov_stop, PhaseInv
    <2>3. Pipeline' /\ HookPart' /\ LimPart'
      BY <1>9, <1>p, <1>h, <1>l, <2>1 DEF sugov_stop
    <2> QED BY <1>q, <2>2, <2>3
  <1>10. CASE sugov_stop_hook
    <2>0. PICK c \in Cpus :
            /\ hooks' = hooks \ {c}
            /\ core' = IF core.todo = {c} THEN [pc |-> "stop_sync", todo |-> {}]
                       ELSE [core EXCEPT !.todo = @ \ {c}]
      BY <1>10 DEF sugov_stop_hook
    <2>1. /\ core.pc = "stop_hooks" /\ core'.pc \in {"stop_hooks", "stop_sync"}
          /\ core'.pc = "stop_sync" => core.todo = {c}
          /\ core'.pc = "stop_hooks" => core'.todo = core.todo \ {c}
      BY <1>10, <1>0, <2>0 DEF sugov_stop_hook, CoreType
    <2>2. PhaseInv'
      BY <2>0, <2>1 DEF IInv, PhaseInv
    <2>3. HookPart'
      BY <1>10, <1>f, <2>0 DEF sugov_stop_hook, HookPart, IInv, HookInv, HookSeesPolicy
    <2>4. Pipeline' /\ LimPart'
      BY <1>10, <1>p, <1>l, <2>1 DEF sugov_stop_hook
    <2> QED BY <1>q, <2>2, <2>3, <2>4
  <1>11. CASE sugov_stop_sync
    <2>1. core.pc = "stop_sync" /\ core'.pc = "stop_irq"
      BY <1>11, <1>0 DEF sugov_stop_sync, CoreType
    <2>2. PhaseInv'
      BY <1>11, <1>f, <2>1
         DEF sugov_stop_sync, synchronize_sched, IInv, PhaseInv, HooksGone
    <2>3. Pipeline' /\ HookPart' /\ LimPart'
      BY <1>11, <1>p, <1>h, <1>l, <2>1 DEF sugov_stop_sync
    <2> QED BY <1>q, <2>2, <2>3
  <1>12. CASE sugov_stop_cancel
    <2>1. core.pc = "stop_irq" /\ core'.pc = "stop_flush"
      BY <1>12, <1>0 DEF sugov_stop_cancel, CoreType
    <2>2. PhaseInv'
      BY <1>12, <1>f, <2>1
         DEF sugov_stop_cancel, irq_work_sync, IInv, PhaseInv, HooksGone
    <2>3. Pipeline'
      BY <1>12, <1>f, <1>u
         DEF sugov_stop_cancel, Pipeline, IInv, OneTransition, InFlight,
             WorkerTargetsTableFreq, CommitInv
    <2>4. HookPart' /\ LimPart'
      BY <1>12, <1>h, <1>l, <2>1 DEF sugov_stop_cancel
    <2> QED BY <1>q, <2>2, <2>3, <2>4
  <1>13. CASE sugov_stop_flush
    <2>1. core.pc = "stop_flush" /\ core'.pc = "stopped"
      BY <1>13, <1>0 DEF sugov_stop_flush, CoreType
    <2>2. PhaseInv'
      BY <1>13, <1>f, <2>1 DEF sugov_stop_flush, IInv, PhaseInv, HooksGone
    <2>3. Pipeline' /\ HookPart' /\ LimPart'
      BY <1>13, <1>p, <1>h, <1>l, <2>1 DEF sugov_stop_flush
    <2> QED BY <1>q, <2>2, <2>3
  <1> QED
    BY <1>1, <1>2, <1>3, <1>4, <1>5, <1>6, <1>7, <1>8, <1>9, <1>10, <1>11, <1>12, <1>13
       DEF Core, CoreStep

-----------------------------------------------------------------------------
(***************************************************************************)
(* The theorems.                                                           *)
(***************************************************************************)

\* Every step of the governor and of its environment keeps the invariant.
LEMMA NextIInv == TypeOK /\ IInv /\ [Next]_vars => IInv'
  <1> SUFFICES ASSUME TypeOK, IInv, [Next]_vars PROVE IInv'
    OBVIOUS
  <1> USE DEF workVars, sgVars, rateVars, envVars
  <1>c. ASSUME UNCHANGED <<next_freq, work_in_progress, irq_pending, work_queued, worker,
                           work_lock, update_lock, hooks, frame, policy, core>>,
               \A c \in Cpus : sg_cpu'[c].sg_policy = sg_cpu[c].sg_policy
        PROVE  IInv'
    <2>1. UpdateExclusion' /\ PhaseInv' /\ OneTransition'
      BY <1>c DEF IInv, UpdateExclusion, Updating, PhaseInv, HooksGone, OneTransition,
                  InFlight
    <2>2. CommitInv' /\ WorkerTargetsTableFreq'
      BY <1>c DEF IInv, CommitInv, WorkerTargetsTableFreq, InFlight
    <2>3. HookInv' /\ HookSeesPolicy'
      BY <1>c DEF TypeOK, IInv, HookInv, HookSeesPolicy
    <2>4. WorkLockInv' /\ LimitsInv' /\ LimitsHold'
      BY <1>c DEF IInv, WorkLockInv, LimitsInv, LimitsHold
    <2> QED BY <2>1, <2>2, <2>3, <2>4 DEF IInv
  <1>1. ASSUME NEW c \in Cpus, NEW flags \in CallFlags, cpufreq_update_util(c, flags)
        PROVE  IInv'
    <2>1. /\ c \in hooks /\ frame'[c].pc = "called"
          /\ \A d \in Cpus \ {c} : frame'[d] = frame[d]
      BY <1>1 DEF TypeOK, cpufreq_update_util, Idle
    <2>2. UNCHANGED <<next_freq, work_in_progress, irq_pending, work_queued, worker,
                      work_lock, update_lock, hooks, sg_cpu, policy, core>>
      BY <1>1 DEF cpufreq_update_util
    <2>3. \A d \in Cpus : Updating(d)' <=> Updating(d)
      BY <1>1, <2>1 DEF cpufreq_update_util, Updating
    <2>4. UpdateExclusion'
      BY <2>2, <2>3 DEF IInv, UpdateExclusion
    <2>5. PhaseInv'
      BY <2>1, <2>2 DEF TypeOK, CoreType, IInv, PhaseInv, HooksGone
    <2>6. OneTransition' /\ WorkerTargetsTableFreq'
      BY <2>2, <2>3 DEF IInv, OneTransition, WorkerTargetsTableFreq, InFlight
    <2>7. CommitInv'
      BY <2>1, <2>2 DEF IInv, CommitInv
    <2>8. HookInv' /\ HookSeesPolicy'
      BY <2>1, <2>2 DEF IInv, HookInv, HookSeesPolicy
    <2>9. WorkLockInv' /\ LimitsInv' /\ LimitsHold'
      BY <2>2 DEF IInv, WorkLockInv, LimitsInv, LimitsHold
    <2> QED BY <2>4, <2>5, <2>6, <2>7, <2>8, <2>9 DEF IInv
  <1>2. ASSUME NEW c \in Cpus, tick_nohz_idle_call(c) PROVE IInv'
    <2>1. \A d \in Cpus : sg_cpu'[d].sg_policy = sg_cpu[d].sg_policy
      BY <1>2 DEF TypeOK, SgCpuType, tick_nohz_idle_call
    <2> QED BY <1>2, <1>c, <2>1 DEF tick_nohz_idle_call
  <1>3. CASE Sysfs
    BY <1>3, <1>c
       DEF Sysfs, up_rate_limit_us_store, down_rate_limit_us_store, rate_limit_us_delay,
           rate_limit_us_min, iowait_boost_max_store, capacity_margin_store
  <1>4. ASSUME NEW m \in Modules, pkshin_module_init(m) \/ pkshin_module_exit(m)
        PROVE  IInv'
    BY <1>4, <1>c DEF pkshin_module_init, pkshin_module_exit
  <1>5. CASE Tick
    BY <1>5, <1>c DEF Tick
  <1>6. CASE UNCHANGED vars
    BY <1>6, <1>c DEF vars
  <1> QED
    BY <1>1, <1>2, <1>3, <1>4, <1>5, <1>6, HookIInv, WorkIInv, CoreIInv DEF Next

\* Both invariants hold in every reachable state.
LEMMA SpecIInv == Spec => [](TypeOK /\ IInv)
  <1>1. Init => TypeOK /\ IInv
    BY InitTypeOK, InitIInv
  <1>2. (TypeOK /\ IInv) /\ [Next]_vars => (TypeOK /\ IInv)'
    BY NextTypeOK, NextIInv
  <1> QED
    BY <1>1, <1>2, PTL DEF Spec

\* sugov_update_commit, sugov_irq_work and sugov_work carry one frequency at a
\* time, announced by work_in_progress from its commit to its end.
THEOREM PipelineOfOne == Spec => []OneTransition
  <1>1. IInv => OneTransition
    BY DEF IInv
  <1> QED
    BY <1>1, SpecIInv, PTL

\* sugov_work never reads the UINT_MAX of a limits change from next_freq.
THEOREM WorkerTargetsTable == Spec => []WorkerTargetsTableFreq
  <1>1. IInv => WorkerTargetsTableFreq
    BY DEF IInv
  <1> QED
    BY <1>1, SpecIInv, PTL

\* After sugov_stop nothing of the governor is left running.
THEOREM StopIsComplete == Spec => []StopQuiesces
  <1>1. IInv => StopQuiesces
    BY DEF IInv, PhaseInv, HooksGone, StopQuiesces, InFlight
  <1> QED
    BY <1>1, SpecIInv, PTL

\* sugov_start never clears the sugov_cpu under a running hook.
THEOREM HooksSeeTheirPolicy == Spec => []HookSeesPolicy
  <1>1. IInv => HookSeesPolicy
    BY DEF IInv
  <1> QED
    BY <1>1, SpecIInv, PTL

\* Between calls of sugov_limits the CPU runs within the limits.
THEOREM FrequencyWithinLimits == Spec => []LimitsHold
  <1>1. IInv => LimitsHold
    BY DEF IInv
  <1> QED
    BY <1>1, SpecIInv, PTL

\* Only a hook that decides and a restart change next_freq, and no hook decides
\* while work_in_progress is set.
THEOREM RequestsRejected == Spec => RejectsWhileInProgress
  <1>1. ASSUME TypeOK, IInv, [Next]_vars, work_in_progress, core.pc # "start_min"
        PROVE  next_freq' = next_freq
    <2> USE DEF workVars, sgVars, rateVars, envVars
    <2>1. ASSUME NEW c \in Cpus, HookStep(c) PROVE next_freq' = next_freq
      <3>1. ~Updating(c)
        BY <1>1 DEF IInv, OneTransition
      <3>2. sugov_update_enter(c)
        BY <2>1, <3>1 DEF HookStep, Updating, sugov_force_update, sugov_eval_max,
                          sugov_eval_util, sugov_eval_oops, sugov_update_commit
      <3> QED BY <3>2 DEF sugov_update_enter
    <2>2. CASE sugov_irq_work \/ Worker
      BY <2>2 DEF sugov_irq_work, Worker, sugov_work, sugov_work_lock, sugov_work_target,
                  sugov_work_set, sugov_work_clear
    <2>3. CASE Core
      BY <1>1, <2>3
         DEF Core, CoreStep, sugov_start, sugov_start_reset, sugov_start_memset,
             sugov_start_hook, cpufreq_set_policy, sugov_limits_lock, sugov_limits_apply,
             sugov_limits_flag, sugov_stop, sugov_stop_hook, sugov_stop_sync,
             sugov_stop_cancel, sugov_stop_flush
    <2>4. CASE Sysfs
      BY <2>4 DEF Sysfs, up_rate_limit_us_store, down_rate_limit_us_store,
                  rate_limit_us_delay, rate_limit_us_min, iowait_boost_max_store,
                  capacity_margin_store
    <2>5. ASSUME NEW c \in Cpus,
                 \/ \E flags \in CallFlags : cpufreq_update_util(c, flags)
                 \/ tick_nohz_idle_call(c)
          PROVE  next_freq' = next_freq
      BY <2>5 DEF cpufreq_update_util, tick_nohz_idle_call
    <2>6. ASSUME NEW m \in Modules, pkshin_module_init(m) \/ pkshin_module_exit(m)
          PROVE  next_freq' = next_freq
      BY <2>6 DEF pkshin_module_init, pkshin_module_exit
    <2>7. CASE Tick
      BY <2>7 DEF Tick
    <2>8. CASE UNCHANGED vars
      BY <2>8 DEF vars
    <2> QED
      BY <1>1, <2>1, <2>2, <2>3, <2>4, <2>5, <2>6, <2>7, <2>8 DEF Next
  <1>2. TypeOK /\ IInv /\ [Next]_vars =>
          [work_in_progress /\ core.pc # "start_min" => next_freq' = next_freq]_vars
    BY <1>1
  <1> QED
    BY <1>2, SpecIInv, PTL DEF Spec, RejectsWhileInProgress

\* sugov_update_commit only moves last_freq_update_time forward: both rate limits
\* are at least zero, so a hook whose clock sample is older than the last commit
\* never gets past sugov_up_down_rate_limit.
THEOREM UpdateTimeNeverBack == Spec => UpdateTimeMonotone
  <1>1. ASSUME TypeOK, [Next]_vars, core.pc # "start_min"
        PROVE  last_freq_update_time' >= last_freq_update_time
    <2> USE DEF workVars, sgVars, rateVars, envVars
    <2>0. /\ last_freq_update_time \in Nat /\ next_freq \in Nat
          /\ up_rate_delay_ns \in Nat /\ down_rate_delay_ns \in Nat
      BY <1>1, FreqsNat DEF TypeOK
    <2>1. ASSUME NEW c \in Cpus, sugov_update_commit(c)
          PROVE  last_freq_update_time' >= last_freq_update_time
      <3>1. frame[c].time \in Nat /\ frame[c].next_f \in Nat
        BY <1>1, FreqsNat DEF TypeOK, FrameType
      <3>2. CASE Commits(frame[c].time, frame[c].next_f)
        <4>1. last_freq_update_time' = frame[c].time
          BY <2>1, <3>2 DEF sugov_update_commit
        <4>2. /\ frame[c].next_f # next_freq
              /\ ~(/\ frame[c].next_f > next_freq
                   /\ frame[c].time - last_freq_update_time < up_rate_delay_ns)
              /\ ~(/\ frame[c].next_f < next_freq
                   /\ frame[c].time - last_freq_update_time < down_rate_delay_ns)
          BY <3>2 DEF Commits, sugov_up_down_rate_limit
        <4> QED BY <2>0, <3>1, <4>1, <4>2
      <3>3. CASE ~Commits(frame[c].time, frame[c].next_f)
        BY <2>0, <2>1, <3>3 DEF sugov_update_commit
      <3> QED BY <3>2, <3>3
    <2>2. last_freq_update_time' = last_freq_update_time \/
          \E c \in Cpus : sugov_update_commit(c)
      <3>1. ASSUME NEW c \in Cpus, HookStep(c), ~sugov_update_commit(c)
            PROVE  last_freq_update_time' = last_freq_update_time
        BY <3>1 DEF HookStep, sugov_update_enter, sugov_force_update, sugov_eval_max,
                    sugov_eval_util, sugov_eval_oops
      <3>2. CASE sugov_irq_work \/ Worker
        BY <3>2 DEF sugov_irq_work, Worker, sugov_work, sugov_work_lock,
                    sugov_work_target, sugov_work_set, sugov_work_clear
      <3>3. CASE Core
        BY <1>1, <3>3
           DEF Core, CoreStep, sugov_start, sugov_start_reset, sugov_start_memset,
               sugov_start_hook, cpufreq_set_policy, sugov_limits_lock,
               sugov_limits_apply, sugov_limits_flag, sugov_stop, sugov_stop_hook,
               sugov_stop_sync, sugov_stop_cancel, sugov_stop_flush
      <3>4. CASE Sysfs
        BY <3>4 DEF Sysfs, up_rate_limit_us_store, down_rate_limit_us_store,
                    rate_limit_us_delay, rate_limit_us_min, iowait_boost_max_store,
                    capacity_margin_store
      <3>5. ASSUME NEW c \in Cpus,
                   \/ \E flags \in CallFlags : cpufreq_update_util(c, flags)
                   \/ tick_nohz_idle_call(c)
            PROVE  last_freq_update_time' = last_freq_update_time
        BY <3>5 DEF cpufreq_update_util, tick_nohz_idle_call
      <3>6. ASSUME NEW m \in Modules, pkshin_module_init(m) \/ pkshin_module_exit(m)
            PROVE  last_freq_update_time' = last_freq_update_time
        BY <3>6 DEF pkshin_module_init, pkshin_module_exit
      <3>7. CASE Tick \/ UNCHANGED vars
        BY <3>7 DEF Tick, vars
      <3> QED
        BY <1>1, <3>1, <3>2, <3>3, <3>4, <3>5, <3>6, <3>7 DEF Next
    <2> QED
      BY <2>0, <2>1, <2>2
  <1>2. TypeOK /\ [Next]_vars =>
          [core.pc # "start_min" => last_freq_update_time' >= last_freq_update_time]_vars
    BY <1>1
  <1> QED
    BY <1>2, TypeCorrect, PTL DEF Spec, UpdateTimeMonotone

\* sugov_start and a sysfs store write a delay first and the minimum in a later step, without a
\* common lock: whichever of them ends last leaves the minimum of both delays, and nobody
\* else writes any of the three.
THEOREM MinRateAlwaysMinimum == Spec => []MinRateIsMinimum
  <1>1. Init => MinRateIsMinimum
    BY DEF Init, MinRateIsMinimum, Lo
  <1>2. ASSUME MinRateIsMinimum, [Next]_vars
        PROVE  MinRateIsMinimum'
    <2> USE DEF workVars, sgVars, rateVars, envVars
    <2>1. ASSUME UNCHANGED rateVars, core'.pc = core.pc \/ core.pc # "start_min",
                 store' = store \/ store # "min"
          PROVE  MinRateIsMinimum'
      BY <1>2, <2>1 DEF MinRateIsMinimum
    <2>2. ASSUME update_min_rate_limit_us, UNCHANGED <<up_rate_delay_ns, down_rate_delay_ns>>
          PROVE  MinRateIsMinimum'
      BY <2>2 DEF update_min_rate_limit_us, MinRateIsMinimum
    <2>3. ASSUME NEW c \in Cpus, HookStep(c) PROVE MinRateIsMinimum'
      BY <2>1, <2>3 DEF HookStep, sugov_update_enter, sugov_force_update, sugov_eval_max,
                        sugov_eval_util, sugov_eval_oops, sugov_update_commit
    <2>4. CASE sugov_irq_work \/ Worker
      BY <2>1, <2>4 DEF sugov_irq_work, Worker, sugov_work, sugov_work_lock,
                        sugov_work_target, sugov_work_set, sugov_work_clear
    <2>5. CASE Core
      <3>1. CASE sugov_start
        <4>1. core'.pc = "start_min"
          BY <3>1 DEF sugov_start
        <4> QED BY <4>1 DEF MinRateIsMinimum
      <3>2. CASE sugov_start_reset
        BY <2>2, <3>2 DEF sugov_start_reset
      <3>3. CASE Core /\ ~sugov_start /\ ~sugov_start_reset
        <4>1. UNCHANGED <<rateVars, store>> /\ core.pc # "start_min"
          BY <3>3 DEF Core, CoreStep, sugov_start_memset, sugov_start_hook, cpufreq_set_policy,
                      sugov_limits_lock, sugov_limits_apply, sugov_limits_flag, sugov_stop,
                      sugov_stop_hook, sugov_stop_sync, sugov_stop_cancel, sugov_stop_flush
        <4> QED BY <2>1, <4>1
      <3> QED BY <2>5, <3>1, <3>2, <3>3
    <2>6. CASE Sysfs
      <3>1. CASE rate_limit_us_delay
        BY <3>1 DEF rate_limit_us_delay, MinRateIsMinimum
      <3>2. CASE rate_limit_us_min
        BY <2>2, <3>2 DEF rate_limit_us_min
      <3>3. CASE Sysfs /\ ~rate_limit_us_delay /\ ~rate_limit_us_min
        <4>1. UNCHANGED <<rateVars, core>> /\ (store' = store \/ store # "min")
          BY <3>3 DEF Sysfs, up_rate_limit_us_store, down_rate_limit_us_store,
                      iowait_boost_max_store, capacity_margin_store
        <4> QED BY <2>1, <4>1
      <3> QED BY <2>6, <3>1, <3>2, <3>3
    <2>7. ASSUME NEW c \in Cpus,
                 \/ \E flags \in CallFlags : cpufreq_update_util(c, flags)
                 \/ tick_nohz_idle_call(c)
          PROVE  MinRateIsMinimum'
      BY <2>1, <2>7 DEF cpufreq_update_util, tick_nohz_idle_call
    <2>8. ASSUME NEW m \in Modules, pkshin_module_init(m) \/ pkshin_module_exit(m)
          PROVE  MinRateIsMinimum'
      BY <2>1, <2>8 DEF pkshin_module_init, pkshin_module_exit
    <2>9. CASE Tick \/ UNCHANGED vars
      BY <2>1, <2>9 DEF Tick, vars
    <2> QED
      BY <1>2, <2>3, <2>4, <2>5, <2>6, <2>7, <2>8, <2>9 DEF Next
  <1> QED
    BY <1>1, <1>2, PTL DEF Spec
=============================================================================
