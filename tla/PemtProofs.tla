----------------------------- MODULE PemtProofs -----------------------------
(***************************************************************************)
(* The samples of Pemt, for all tasks, groups and CPUs: every sample holds *)
(* the cycles of its own tasks only, a group follows the task that runs    *)
(* below it, and the execution time fits into the time that has passed.    *)
(***************************************************************************)
EXTENDS Pemt, TLAPS

Cycles   == SUBSET (Tasks \cup {None})
AvgType  == [se : [Ses -> Cycles], rq : [Rqs -> Cycles],
             seTime : [Ses -> Int], rqTime : [Rqs -> Int]]
ExecType == [time : 0 .. TimeMod - 1, clear : 0 .. MaxTime[WorkCore], store : -1 .. TimeMod - 1]

\* The curr pointers of a CPU while t runs there, and while it idles or runs another class.
On(t, q)    == IF q = cfs_rq_of(t) THEN t ELSE IF q = RootRq(CpuOf[t]) THEN cfs_rq_of(t) ELSE None
Runs(f, t)  == \A q \in Rqs : q[2] = CpuOf[t] => f[q] = On(t, q)
Idles(f, c) == \A q \in Rqs : q[2] = c => f[q] = None

\* Between two handlers the curr pointers of a CPU lead to a queued task, or to none.
HierarchyInv ==
  \A c \in Cpus : Idles(curr, c) \/ \E t \in queued : CpuOf[t] = c /\ Runs(curr, t)

\* A CPU that the module has not reached, or has left, counts nothing.
Silent(c) == ~prev[c] /\ counted[c] = {}
ModuleInv ==
  /\ pemt <=> module.pc = "in"
  /\ module.pc \in {"out", "init"} => \A c \in Cpus : Silent(c)
  /\ module.pc = "exit" => \A c \in Cpus \ module.ipi : Silent(c)

\* No average is ahead of its clock.
ClockInv == \A e \in Ses : avg.seTime[e] <= cfs_rq_clock_task(cfs_rq_of(e))

\* What a CPU has counted belongs to the task that runs there, and has come since its
\* average was updated.
CountersInv ==
  ~remote /\ pemt =>
    \A c \in Cpus : \A t \in Tasks : Running(c) = t /\ counted[c] # {} =>
      counted[c] = {t} /\ avg.seTime[t] < cfs_rq_clock_task(cfs_rq_of(t))

IInv ==
  /\ TypeOK /\ clock \in [Cpus -> Int] /\ avg \in AvgType /\ exec \in ExecType
  /\ HierarchyInv /\ ModuleInv /\ ClockInv /\ CountersInv /\ NoForeignCycles

-----------------------------------------------------------------------------
(***************************************************************************)
(* Names.                                                                  *)
(***************************************************************************)
\* The clock an entity's average follows.
Clock(e) == cfs_rq_clock_task(cfs_rq_of(e))

\* The tasks whose cycles a sample of an entity, and of a cfs_rq, may hold.
Own(e)     == IF e \in Tasks THEN {e} ELSE {t \in Tasks : cfs_rq_of(t) = e}
RqTasks(q) == IF q \in Ges THEN Own(q) ELSE {t \in Tasks : CpuOf[t] = q[2]}

\* Task groups, their entities and their cfs_rqs are not confused with each other.
LEMMA RqFacts ==
  /\ \A c \in Cpus : RootRq(c) \in Rqs /\ RootRq(c) \notin Ges /\ RootRq(c)[2] = c
  /\ \A g \in Ges : g \in Rqs /\ g \in Ses /\ g \notin Tasks /\ g[2] \in Cpus /\ cfs_rq_of(g) = RootRq(g[2])
  /\ \A t \in Tasks : /\ t \in Ses /\ t \notin Ges /\ t # None
                      /\ CpuOf[t] \in Cpus /\ cfs_rq_of(t) \in Rqs /\ cfs_rq_of(t)[2] = CpuOf[t]
                      /\ ~Grouped(t) => cfs_rq_of(t) = RootRq(CpuOf[t])
                      /\ cfs_rq_of(t) = RootRq(CpuOf[t]) => ~Grouped(t)
  /\ \A q \in Rqs : q \in Ges \/ (q[2] \in Cpus /\ q = RootRq(q[2]))
  /\ None \notin Ses /\ Ses = Tasks \cup Ges
  <1>1. \A c \in Cpus : RootRq(c) \in {Root} \X Cpus /\ RootRq(c)[2] = c
    BY DEF RootRq
  <1>2. \A c \in Cpus : RootRq(c) \in Rqs /\ RootRq(c) \notin Ges
    BY <1>1 DEF Rqs, Ges
  <1>3. ASSUME NEW t \in Tasks
        PROVE  /\ t \in Ses /\ t \notin Ges /\ t # None
               /\ CpuOf[t] \in Cpus /\ cfs_rq_of(t) \in Rqs /\ cfs_rq_of(t)[2] = CpuOf[t]
               /\ ~Grouped(t) => cfs_rq_of(t) = RootRq(CpuOf[t])
               /\ cfs_rq_of(t) = RootRq(CpuOf[t]) => ~Grouped(t)
    <2>1. CpuOf[t] \in Cpus /\ t \notin Ges /\ t # None
      BY PemtAssumption
    <2>2. cfs_rq_of(t) = <<GroupOf[t], CpuOf[t]>>
      BY DEF cfs_rq_of
    <2>3. cfs_rq_of(t) \in Ges \/ cfs_rq_of(t) \in {Root} \X Cpus
      BY <2>2 DEF Ges
    <2>4. ~Grouped(t) => cfs_rq_of(t) = RootRq(CpuOf[t])
      BY <2>2, <2>3 DEF Grouped, RootRq
    <2>5. cfs_rq_of(t) = RootRq(CpuOf[t]) => ~Grouped(t)
      BY <1>2, <2>1 DEF Grouped
    <2> QED BY <2>1, <2>2, <2>3, <2>4, <2>5 DEF Rqs, Ses
  <1>4. ASSUME NEW g \in Ges
        PROVE  g \in Rqs /\ g \in Ses /\ g \notin Tasks /\ g[2] \in Cpus /\ cfs_rq_of(g) = RootRq(g[2])
    <2>1. PICK t \in Tasks : g = <<GroupOf[t], CpuOf[t]>>
      BY DEF Ges
    <2>2. g[2] \in Cpus
      BY <1>3, <2>1
    <2>3. g \notin Tasks
      BY PemtAssumption
    <2> QED BY <2>2, <2>3 DEF Rqs, Ses, cfs_rq_of, RootRq
  <1>5. \A q \in Rqs : q \in Ges \/ (q[2] \in Cpus /\ q = RootRq(q[2]))
    BY DEF Rqs, RootRq
  <1>6. None \notin Ses
    BY PemtAssumption DEF Ses
  <1> QED BY <1>1, <1>2, <1>3, <1>4, <1>5, <1>6 DEF Ses

\* An entity's cfs_rq is one of its CPU.
LEMMA EntityRq ==
  ASSUME NEW e \in Ses
  PROVE  cfs_rq_of(e) \in Rqs /\ cfs_rq_of(e)[2] \in Cpus /\ CpuOfRq(cfs_rq_of(e)) \in Cpus
  BY RqFacts DEF CpuOfRq

\* The cycles of an entity are cycles of its cfs_rq.
LEMMA OwnTasks ==
  /\ \A e \in Ses : Own(e) \subseteq RqTasks(cfs_rq_of(e))
  /\ \A g \in Ges : RqTasks(g) = Own(g)
  <1>1. \A g \in Ges : RqTasks(g) = Own(g)
    BY DEF RqTasks
  <1>2. ASSUME NEW t \in Tasks PROVE Own(t) \subseteq RqTasks(cfs_rq_of(t))
    <2>1. Own(t) = {t}
      BY DEF Own
    <2>2. CASE Grouped(t)
      <3>1. cfs_rq_of(t) \in Ges /\ cfs_rq_of(t) \notin Tasks
        BY <2>2, RqFacts DEF Grouped
      <3> QED BY <2>1, <3>1 DEF RqTasks, Own
    <2>3. CASE ~Grouped(t)
      BY <2>1, <2>3, RqFacts DEF RqTasks, Grouped
    <2> QED BY <2>2, <2>3
  <1>3. ASSUME NEW g \in Ges PROVE Own(g) \subseteq RqTasks(cfs_rq_of(g))
    <2>1. cfs_rq_of(g) = RootRq(g[2]) /\ cfs_rq_of(g) \notin Ges /\ cfs_rq_of(g)[2] = g[2] /\ g \notin Tasks
      BY RqFacts
    <2>2. \A t \in Tasks : cfs_rq_of(t) = g => CpuOf[t] = g[2]
      BY RqFacts
    <2> QED BY <2>1, <2>2 DEF Own, RqTasks
  <1> QED BY <1>1, <1>2, <1>3, RqFacts

-----------------------------------------------------------------------------
(***************************************************************************)
(* The record that the handlers work on.                                   *)
(***************************************************************************)
VType == [curr : [Rqs -> Ses \cup {None}], counted : [Cpus -> Cycles], prev : [Cpus -> BOOLEAN],
          avg : AvgType, exec : ExecType]

\* The update takes a sample: time has passed on the clock of e, which runs.
Samples(v, e) == Clock(e) # v.avg.seTime[e] /\ pemt /\ v.curr[cfs_rq_of(e)] = e

\* The sample it takes.
Sample(v, e, me) == IF e \in Tasks THEN pkshin_pmu_get(v, me) ELSE GroupRatio(v, e)

\* The fields of v are typed.
LEMMA VFields ==
  ASSUME NEW v \in VType
  PROVE  /\ v.curr \in [Rqs -> Ses \cup {None}] /\ v.counted \in [Cpus -> Cycles] /\ v.prev \in [Cpus -> BOOLEAN]
         /\ v.avg \in AvgType /\ v.exec \in ExecType
         /\ v.avg.se \in [Ses -> Cycles] /\ v.avg.rq \in [Rqs -> Cycles]
         /\ v.avg.seTime \in [Ses -> Int] /\ v.avg.rqTime \in [Rqs -> Int]
  BY DEF VType, AvgType

\* Assignments to its fields: an average ...
LEMMA SetAvg ==
  ASSUME NEW v \in VType, NEW a \in AvgType
  PROVE  LET r == [v EXCEPT !.avg = a]
         IN  r \in VType /\ r.avg = a /\ r.curr = v.curr /\ r.counted = v.counted /\ r.prev = v.prev /\ r.exec = v.exec
  BY DEF VType

\* ... the time of an entity ...
LEMMA SetSeTime ==
  ASSUME NEW v \in VType, NEW e \in Ses, NEW n \in Int
  PROVE  LET r == [v EXCEPT !.avg.seTime[e] = n]
         IN  /\ r \in VType /\ r.curr = v.curr /\ r.counted = v.counted /\ r.prev = v.prev /\ r.exec = v.exec
             /\ r.avg.seTime = [v.avg.seTime EXCEPT ![e] = n]
             /\ r.avg.se = v.avg.se /\ r.avg.rq = v.avg.rq /\ r.avg.rqTime = v.avg.rqTime
  <1> DEFINE f == [v.avg.seTime EXCEPT ![e] = n]
             a == [v.avg EXCEPT !.seTime = f]
  <1>1. f \in [Ses -> Int]
    BY VFields
  <1> HIDE DEF f
  <1>2. /\ a \in AvgType /\ a.seTime = f
        /\ a.se = v.avg.se /\ a.rq = v.avg.rq /\ a.rqTime = v.avg.rqTime
    BY <1>1, VFields DEF AvgType
  <1>3. [v EXCEPT !.avg.seTime[e] = n] = [v EXCEPT !.avg = a]
    BY DEF f
  <1> HIDE DEF a
  <1>4. LET r == [v EXCEPT !.avg = a]
        IN  /\ r \in VType /\ r.curr = v.curr /\ r.counted = v.counted /\ r.prev = v.prev /\ r.exec = v.exec
            /\ r.avg.seTime = f
            /\ r.avg.se = v.avg.se /\ r.avg.rq = v.avg.rq /\ r.avg.rqTime = v.avg.rqTime
    BY <1>2, SetAvg
  <1> QED BY <1>3, <1>4, Zenon DEF f

\* ... the ratio of an entity ...
LEMMA SetSe ==
  ASSUME NEW v \in VType, NEW e \in Ses, NEW s \in Cycles
  PROVE  LET r == [v EXCEPT !.avg.se[e] = s]
         IN  /\ r \in VType /\ r.curr = v.curr /\ r.counted = v.counted /\ r.prev = v.prev /\ r.exec = v.exec
             /\ r.avg.se = [v.avg.se EXCEPT ![e] = s]
             /\ r.avg.seTime = v.avg.seTime /\ r.avg.rq = v.avg.rq /\ r.avg.rqTime = v.avg.rqTime
  <1> DEFINE f == [v.avg.se EXCEPT ![e] = s]
             a == [v.avg EXCEPT !.se = f]
  <1>1. f \in [Ses -> Cycles]
    BY VFields
  <1> HIDE DEF f
  <1>2. /\ a \in AvgType /\ a.se = f
        /\ a.seTime = v.avg.seTime /\ a.rq = v.avg.rq /\ a.rqTime = v.avg.rqTime
    BY <1>1, VFields DEF AvgType
  <1>3. [v EXCEPT !.avg.se[e] = s] = [v EXCEPT !.avg = a]
    BY DEF f
  <1> HIDE DEF a
  <1>4. LET r == [v EXCEPT !.avg = a]
        IN  /\ r \in VType /\ r.curr = v.curr /\ r.counted = v.counted /\ r.prev = v.prev /\ r.exec = v.exec
            /\ r.avg.se = f
            /\ r.avg.seTime = v.avg.seTime /\ r.avg.rq = v.avg.rq /\ r.avg.rqTime = v.avg.rqTime
    BY <1>2, SetAvg
  <1> QED BY <1>3, <1>4, Zenon DEF f

\* ... the ratio of a cfs_rq ...
LEMMA SetRq ==
  ASSUME NEW v \in VType, NEW q \in Rqs, NEW s \in Cycles
  PROVE  LET r == [v EXCEPT !.avg.rq[q] = s]
         IN  /\ r \in VType /\ r.curr = v.curr /\ r.counted = v.counted /\ r.prev = v.prev /\ r.exec = v.exec
             /\ r.avg.rq = [v.avg.rq EXCEPT ![q] = s]
             /\ r.avg.seTime = v.avg.seTime /\ r.avg.se = v.avg.se /\ r.avg.rqTime = v.avg.rqTime
  <1> DEFINE f == [v.avg.rq EXCEPT ![q] = s]
             a == [v.avg EXCEPT !.rq = f]
  <1>1. f \in [Rqs -> Cycles]
    BY VFields
  <1> HIDE DEF f
  <1>2. /\ a \in AvgType /\ a.rq = f
        /\ a.seTime = v.avg.seTime /\ a.se = v.avg.se /\ a.rqTime = v.avg.rqTime
    BY <1>1, VFields DEF AvgType
  <1>3. [v EXCEPT !.avg.rq[q] = s] = [v EXCEPT !.avg = a]
    BY DEF f
  <1> HIDE DEF a
  <1>4. LET r == [v EXCEPT !.avg = a]
        IN  /\ r \in VType /\ r.curr = v.curr /\ r.counted = v.counted /\ r.prev = v.prev /\ r.exec = v.exec
            /\ r.avg.rq = f
            /\ r.avg.seTime = v.avg.seTime /\ r.avg.se = v.avg.se /\ r.avg.rqTime = v.avg.rqTime
    BY <1>2, SetAvg
  <1> QED BY <1>3, <1>4, Zenon DEF f

\* ... and its time.
LEMMA SetRqTime ==
  ASSUME NEW v \in VType, NEW q \in Rqs, NEW n \in Int
  PROVE  LET r == [v EXCEPT !.avg.rqTime[q] = n]
         IN  /\ r \in VType /\ r.curr = v.curr /\ r.counted = v.counted /\ r.prev = v.prev /\ r.exec = v.exec
             /\ r.avg.rqTime = [v.avg.rqTime EXCEPT ![q] = n]
             /\ r.avg.seTime = v.avg.seTime /\ r.avg.se = v.avg.se /\ r.avg.rq = v.avg.rq
  <1> DEFINE f == [v.avg.rqTime EXCEPT ![q] = n]
             a == [v.avg EXCEPT !.rqTime = f]
  <1>1. f \in [Rqs -> Int]
    BY VFields
  <1> HIDE DEF f
  <1>2. /\ a \in AvgType /\ a.rqTime = f
        /\ a.seTime = v.avg.seTime /\ a.se = v.avg.se /\ a.rq = v.avg.rq
    BY <1>1, VFields DEF AvgType
  <1>3. [v EXCEPT !.avg.rqTime[q] = n] = [v EXCEPT !.avg = a]
    BY DEF f
  <1> HIDE DEF a
  <1>4. LET r == [v EXCEPT !.avg = a]
        IN  /\ r \in VType /\ r.curr = v.curr /\ r.counted = v.counted /\ r.prev = v.prev /\ r.exec = v.exec
            /\ r.avg.rqTime = f
            /\ r.avg.seTime = v.avg.seTime /\ r.avg.se = v.avg.se /\ r.avg.rq = v.avg.rq
    BY <1>2, SetAvg
  <1> QED BY <1>3, <1>4, Zenon DEF f

\* The counters of a CPU start over.
LEMMA Restart ==
  ASSUME NEW v \in VType, NEW me \in Cpus
  PROVE  LET r == [v EXCEPT !.counted[me] = {}, !.prev[me] = TRUE]
         IN  /\ r \in VType /\ r.curr = v.curr /\ r.avg = v.avg /\ r.exec = v.exec
             /\ r.counted = [v.counted EXCEPT ![me] = {}] /\ r.prev = [v.prev EXCEPT ![me] = TRUE]
  <1> DEFINE f == [v.counted EXCEPT ![me] = {}]
             p == [v.prev EXCEPT ![me] = TRUE]
  <1>1. f \in [Cpus -> Cycles]
    BY VFields DEF Cycles
  <1>2. p \in [Cpus -> BOOLEAN]
    BY VFields
  <1>3. [v EXCEPT !.counted[me] = {}, !.prev[me] = TRUE] = [v EXCEPT !.counted = f, !.prev = p]
    OBVIOUS
  <1> HIDE DEF f, p
  <1>4. LET r == [v EXCEPT !.counted = f, !.prev = p]
        IN  /\ r \in VType /\ r.curr = v.curr /\ r.avg = v.avg /\ r.exec = v.exec
            /\ r.counted = f /\ r.prev = p
    BY <1>1, <1>2 DEF VType
  <1> QED BY <1>3, <1>4 DEF f, p

\* The execution time is computed, and not yet stored.
LEMMA SetStore ==
  ASSUME NEW v \in VType, NEW n \in 0 .. TimeMod - 1
  PROVE  LET r == [v EXCEPT !.exec.store = n]
         IN  r \in VType /\ r.curr = v.curr /\ r.counted = v.counted /\ r.prev = v.prev /\ r.avg = v.avg
  <1> DEFINE x == [v.exec EXCEPT !.store = n]
  <1>1. n \in -1 .. TimeMod - 1
    BY PemtAssumption
  <1>2. x \in ExecType
    BY <1>1, VFields DEF ExecType
  <1>3. [v EXCEPT !.exec.store = n] = [v EXCEPT !.exec = x]
    OBVIOUS
  <1> HIDE DEF x
  <1> QED BY <1>2, <1>3 DEF VType

\* An entity becomes curr of a cfs_rq, or none does.
LEMMA SetCurr ==
  ASSUME NEW v \in VType, NEW q \in Rqs, NEW e \in Ses \cup {None}
  PROVE  LET r == [v EXCEPT !.curr[q] = e]
         IN  /\ r \in VType /\ r.counted = v.counted /\ r.prev = v.prev /\ r.avg = v.avg /\ r.exec = v.exec
             /\ r.curr = [v.curr EXCEPT ![q] = e]
  <1> DEFINE f == [v.curr EXCEPT ![q] = e]
  <1>1. f \in [Rqs -> Ses \cup {None}]
    BY VFields
  <1>2. [v EXCEPT !.curr[q] = e] = [v EXCEPT !.curr = f]
    OBVIOUS
  <1> HIDE DEF f
  <1> QED BY <1>1, <1>2 DEF VType, f

-----------------------------------------------------------------------------
(***************************************************************************)
(* __update_load_avg.                                                      *)
(***************************************************************************)
\* The clocks are numbers.
LEMMA ClockInt ==
  ASSUME IInv
  PROVE  /\ \A q \in Rqs : cfs_rq_clock_task(q) \in Int
         /\ \A e \in Ses : Clock(e) \in Int
  <1>1. \A c \in Cpus : clock[c] \in Int
    BY DEF IInv
  <1>2. \A g \in Ges : lag[g] \in Int
    BY PemtAssumption DEF IInv, TypeOK
  <1>3. \A q \in Rqs : cfs_rq_clock_task(q) \in Int
    BY <1>1, <1>2, RqFacts DEF cfs_rq_clock_task, CpuOfRq
  <1> QED BY <1>3, EntityRq DEF Clock

\* What an update adds to exec_time is a number of its width.
LEMMA StoreRange ==
  ASSUME IInv, NEW last \in Int, NEW n \in Int
  PROVE  (exec.time + ExecDelta(last, n)) % TimeMod \in 0 .. TimeMod - 1
  <1>1. exec.time \in Int /\ exec.clear \in Int /\ TimeMod \in Nat \ {0}
    <2>1. exec.time \in 0 .. TimeMod - 1 /\ exec.clear \in 0 .. MaxTime[WorkCore]
      BY DEF IInv, TypeOK
    <2> QED BY <2>1, PemtAssumption
  <1>2. ExecDelta(last, n) \in Int
    <2>1. SpanMod \in Nat \ {0}
      BY PemtAssumption
    <2> QED BY <1>1, <2>1 DEF ExecDelta
  <1> QED BY <1>1, <1>2

\* A sample is a set of cycles.
LEMMA SampleType ==
  ASSUME NEW v \in VType, NEW e \in Ses, NEW me \in Cpus
  PROVE  Sample(v, e, me) \in Cycles
  <1>1. CASE e \in Tasks
    BY <1>1, VFields DEF Sample, pkshin_pmu_get, Cycles
  <1>2. CASE e \notin Tasks
    <2>1. e \in Ges /\ e \in Rqs
      BY <1>2, RqFacts
    <2>2. v.curr[e] # None => v.curr[e] \in Ses
      BY <2>1, VFields
    <2> QED BY <1>2, <2>1, <2>2, VFields DEF Sample, GroupRatio
  <1> QED BY <1>1, <1>2

\* __update_load_avg of an entity leaves r of v.
SeUpdated(v, r, e, me) ==
  /\ r \in VType /\ r.curr = v.curr
  /\ r.avg.seTime = [v.avg.seTime EXCEPT ![e] = Clock(e)]
  /\ ~Samples(v, e) => r.avg.se = v.avg.se
  /\ Samples(v, e) => r.avg.se = [v.avg.se EXCEPT ![e] = Sample(v, e, me)]
  /\ ~(Samples(v, e) /\ e \in Tasks) =>
       r.avg.rq = v.avg.rq /\ r.counted = v.counted /\ r.prev = v.prev
  /\ Samples(v, e) /\ e \in Tasks =>
       /\ r.avg.rq = [v.avg.rq EXCEPT ![cfs_rq_of(e)] = Sample(v, e, me)]
       /\ r.counted = [v.counted EXCEPT ![me] = {}] /\ r.prev = [v.prev EXCEPT ![me] = TRUE]

\* It is what UpdateSe computes.
LEMMA UpdateSeFacts ==
  ASSUME IInv, NEW v \in VType, NEW e \in Ses, NEW me \in Cpus
  PROVE  SeUpdated(v, UpdateSe(v, e, me), e, me)
  <1> DEFINE q     == cfs_rq_of(e)
             n     == Clock(e)
             last  == v.avg.seTime[e]
             s     == Sample(v, e, me)
             timed == [v EXCEPT !.avg.seTime[e] = n]
             rated1 == [timed EXCEPT !.avg.se[e] = s]
             rated2 == [rated1 EXCEPT !.avg.rq[q] = s]
             rated3 == [rated2 EXCEPT !.counted[me] = {}, !.prev[me] = TRUE]
             rated == IF ~(pemt /\ v.curr[q] = e) THEN timed ELSE IF e \in Ges THEN rated1 ELSE rated3
             r     == UpdateSe(v, e, me)
  <1>1. n \in Int /\ last \in Int /\ q \in Rqs /\ s \in Cycles
    BY ClockInt, VFields, EntityRq, SampleType
  <1>2. /\ n = last => r = v
        /\ n # last => r = rated \/ r = [rated EXCEPT !.exec.store = (exec.time + ExecDelta(last, n)) % TimeMod]
    BY DEF UpdateSe, Clock, Sample
  <1>3. (exec.time + ExecDelta(last, n)) % TimeMod \in 0 .. TimeMod - 1
    BY <1>1, StoreRange
  <1> HIDE DEF r, n, last, s
  <1>4. /\ timed \in VType /\ timed.curr = v.curr /\ timed.counted = v.counted /\ timed.prev = v.prev
        /\ timed.avg.seTime = [v.avg.seTime EXCEPT ![e] = n]
        /\ timed.avg.se = v.avg.se /\ timed.avg.rq = v.avg.rq
    BY <1>1, SetSeTime
  <1> HIDE DEF timed
  <1>5. /\ rated1 \in VType /\ rated1.curr = v.curr /\ rated1.counted = v.counted /\ rated1.prev = v.prev
        /\ rated1.avg.seTime = timed.avg.seTime
        /\ rated1.avg.se = [v.avg.se EXCEPT ![e] = s] /\ rated1.avg.rq = v.avg.rq
    BY <1>1, <1>4, SetSe
  <1> HIDE DEF rated1
  <1>6. /\ rated2 \in VType /\ rated2.curr = v.curr /\ rated2.counted = v.counted /\ rated2.prev = v.prev
        /\ rated2.avg.seTime = timed.avg.seTime
        /\ rated2.avg.se = rated1.avg.se /\ rated2.avg.rq = [v.avg.rq EXCEPT ![q] = s]
    BY <1>1, <1>5, SetRq
  <1> HIDE DEF rated2
  <1>7. /\ rated3 \in VType /\ rated3.curr = v.curr
        /\ rated3.avg = rated2.avg
        /\ rated3.counted = [v.counted EXCEPT ![me] = {}] /\ rated3.prev = [v.prev EXCEPT ![me] = TRUE]
    <2>1. /\ rated3 \in VType /\ rated3.curr = rated2.curr /\ rated3.avg = rated2.avg
          /\ rated3.counted = [rated2.counted EXCEPT ![me] = {}]
          /\ rated3.prev = [rated2.prev EXCEPT ![me] = TRUE]
      BY <1>6, Restart
    <2> HIDE DEF rated3
    <2> QED BY <1>6, <2>1
  <1> HIDE DEF rated3
  <1>8. rated \in VType
    BY <1>4, <1>5, <1>7
  <1>9. n # last => /\ r \in VType /\ r.curr = rated.curr /\ r.counted = rated.counted /\ r.prev = rated.prev
                    /\ r.avg = rated.avg
    <2> HIDE DEF rated
    <2>1. CASE r = rated
      BY <1>8, <2>1
    <2>2. CASE r # rated /\ n # last
      <3>1. PICK m \in 0 .. TimeMod - 1 : r = [rated EXCEPT !.exec.store = m]
        BY <1>2, <1>3, <2>2
      <3> QED BY <1>8, <3>1, SetStore
    <2> QED BY <2>1, <2>2
  <1>10. Samples(v, e) <=> n # last /\ pemt /\ v.curr[q] = e
    BY DEF Samples, n, last
  <1>11. e \in Ges <=> e \notin Tasks
    BY RqFacts
  <1>12. CASE n = last
    <2>1. r = v /\ ~Samples(v, e)
      BY <1>2, <1>10, <1>12
    <2>2. v.avg.seTime = [v.avg.seTime EXCEPT ![e] = n]
      BY <1>12, VFields DEF last
    <2> QED BY <2>1, <2>2 DEF r, n, SeUpdated
  <1>13. CASE n # last
    <2> HIDE DEF rated
    <2>1. /\ r \in VType /\ r.curr = rated.curr /\ r.counted = rated.counted /\ r.prev = rated.prev
          /\ r.avg = rated.avg
      BY <1>9, <1>13
    <2>2. CASE ~(pemt /\ v.curr[q] = e)
      <3>1. rated = timed /\ ~Samples(v, e)
        BY <1>10, <2>2 DEF rated
      <3> QED BY <1>4, <2>1, <3>1 DEF r, n, SeUpdated
    <2>3. CASE pemt /\ v.curr[q] = e /\ e \in Ges
      <3>1. rated = rated1 /\ Samples(v, e) /\ e \notin Tasks
        BY <1>10, <1>11, <1>13, <2>3 DEF rated
      <3> QED BY <1>4, <1>5, <2>1, <3>1 DEF r, n, s, SeUpdated
    <2>4. CASE pemt /\ v.curr[q] = e /\ e \notin Ges
      <3>1. rated = rated3 /\ Samples(v, e) /\ e \in Tasks
        BY <1>10, <1>11, <1>13, <2>4 DEF rated
      <3> QED BY <1>4, <1>5, <1>6, <1>7, <2>1, <3>1 DEF r, n, s, q, SeUpdated
    <2> QED BY <2>2, <2>3, <2>4
  <1> QED BY <1>12, <1>13

\* __update_load_avg of a cfs_rq.
LEMMA UpdateRqFacts ==
  ASSUME IInv, NEW v \in VType, NEW q \in Rqs
  PROVE  LET r == UpdateRq(v, q)
         IN  /\ r \in VType /\ r.curr = v.curr /\ r.counted = v.counted /\ r.prev = v.prev
             /\ r.avg.seTime = v.avg.seTime /\ r.avg.se = v.avg.se
             /\ \A q2 \in Rqs : q2 # q => r.avg.rq[q2] = v.avg.rq[q2]
             /\ \/ r.avg.rq[q] = v.avg.rq[q]
                \/ v.curr[q] # None /\ r.avg.rq[q] = v.avg.se[v.curr[q]]
  <1> DEFINE n     == cfs_rq_clock_task(q)
             timed == [v EXCEPT !.avg.rqTime[q] = n]
             s     == v.avg.se[v.curr[q]]
             rated == [timed EXCEPT !.avg.rq[q] = s]
             r     == UpdateRq(v, q)
  <1>1. n \in Int
    BY ClockInt
  <1>2. r = v \/ r = timed \/ (v.curr[q] # None /\ r = rated)
    BY DEF UpdateRq
  <1> HIDE DEF r, n
  <1>3. /\ timed \in VType /\ timed.curr = v.curr /\ timed.counted = v.counted /\ timed.prev = v.prev
        /\ timed.avg.seTime = v.avg.seTime /\ timed.avg.se = v.avg.se /\ timed.avg.rq = v.avg.rq
    BY <1>1, SetRqTime, ZenonT(40)
  <1> HIDE DEF timed
  <1>4. v.curr[q] # None =>
          /\ rated \in VType /\ rated.curr = v.curr /\ rated.counted = v.counted /\ rated.prev = v.prev
          /\ rated.avg.seTime = v.avg.seTime /\ rated.avg.se = v.avg.se
          /\ rated.avg.rq = [v.avg.rq EXCEPT ![q] = s]
    <2>1. v.curr[q] # None => s \in Cycles
      BY VFields
    <2> HIDE DEF s
    <2> QED BY <2>1, <1>3, SetRq
  <1> HIDE DEF rated
  <1>5. CASE r = v
    BY <1>5 DEF r
  <1>6. CASE r = timed
    BY <1>3, <1>6 DEF r
  <1>7. CASE v.curr[q] # None /\ r = rated
    <2>1. rated.avg.rq[q] = s /\ \A q2 \in Rqs : q2 # q => rated.avg.rq[q2] = v.avg.rq[q2]
      BY <1>4, <1>7, VFields
    <2> QED BY <1>4, <1>7, <2>1 DEF r, s
  <1> QED BY <1>2, <1>5, <1>6, <1>7

\* update_load_avg, of an entity and then of its cfs_rq, leaves r of v.
Updated(v, r, e, me) ==
  /\ r \in VType /\ r.curr = v.curr
  /\ r.avg.seTime = [v.avg.seTime EXCEPT ![e] = Clock(e)]
  /\ ~Samples(v, e) => r.avg.se = v.avg.se
  /\ Samples(v, e) => r.avg.se = [v.avg.se EXCEPT ![e] = Sample(v, e, me)]
  /\ ~(Samples(v, e) /\ e \in Tasks) => r.counted = v.counted /\ r.prev = v.prev
  /\ Samples(v, e) /\ e \in Tasks =>
       /\ r.counted = [v.counted EXCEPT ![me] = {}] /\ r.prev = [v.prev EXCEPT ![me] = TRUE]
       /\ r.avg.rq[cfs_rq_of(e)] = r.avg.se[e]
  /\ \A q \in Rqs : q # cfs_rq_of(e) => r.avg.rq[q] = v.avg.rq[q]
  /\ \A q \in Rqs : r.avg.rq[q] = v.avg.rq[q] \/ (v.curr[q] # None /\ r.avg.rq[q] = r.avg.se[v.curr[q]])

\* It is what update_load_avg computes.
LEMMA UpdateFacts ==
  ASSUME IInv, NEW v \in VType, NEW e \in Ses, NEW me \in Cpus
  PROVE  Updated(v, update_load_avg(v, e, me), e, me)
  <1> DEFINE q == cfs_rq_of(e)
             s == Sample(v, e, me)
             w == UpdateSe(v, e, me)
             r == update_load_avg(v, e, me)
  <1>1. r = UpdateRq(w, q) /\ q \in Rqs
    BY EntityRq DEF update_load_avg
  <1>2. /\ w \in VType /\ w.curr = v.curr
        /\ w.avg.seTime = [v.avg.seTime EXCEPT ![e] = Clock(e)]
        /\ ~Samples(v, e) => w.avg.se = v.avg.se
        /\ Samples(v, e) => w.avg.se = [v.avg.se EXCEPT ![e] = s]
        /\ ~(Samples(v, e) /\ e \in Tasks) =>
             w.avg.rq = v.avg.rq /\ w.counted = v.counted /\ w.prev = v.prev
        /\ Samples(v, e) /\ e \in Tasks =>
             /\ w.avg.rq = [v.avg.rq EXCEPT ![q] = s]
             /\ w.counted = [v.counted EXCEPT ![me] = {}] /\ w.prev = [v.prev EXCEPT ![me] = TRUE]
    <2> HIDE DEF w
    <2>1. SeUpdated(v, w, e, me)
      BY UpdateSeFacts DEF w
    <2> QED BY <2>1 DEF SeUpdated
  <1> HIDE DEF w
  <1>3. /\ r \in VType /\ r.curr = w.curr /\ r.counted = w.counted /\ r.prev = w.prev
        /\ r.avg.seTime = w.avg.seTime /\ r.avg.se = w.avg.se
        /\ \A q2 \in Rqs : q2 # q => r.avg.rq[q2] = w.avg.rq[q2]
        /\ \/ r.avg.rq[q] = w.avg.rq[q]
           \/ w.curr[q] # None /\ r.avg.rq[q] = w.avg.se[w.curr[q]]
    BY <1>1, <1>2, UpdateRqFacts
  <1> HIDE DEF r, s, q
  <1>4. \A q2 \in Rqs : q2 # q => r.avg.rq[q2] = v.avg.rq[q2]
    BY <1>1, <1>2, <1>3, VFields
  <1>5. CASE Samples(v, e) /\ e \in Tasks
    <2>1. w.avg.rq[q] = s /\ w.avg.se[e] = s
      BY <1>1, <1>2, <1>5, VFields
    <2>2. v.curr[q] = e /\ e # None
      BY <1>5, RqFacts DEF Samples, q
    <2>3. r.avg.rq[q] = r.avg.se[e]
      BY <1>2, <1>3, <2>1, <2>2
    <2> QED BY <1>2, <1>3, <1>4, <1>5, <2>2, <2>3 DEF r, s, q, Updated
  <1>6. CASE ~(Samples(v, e) /\ e \in Tasks)
    BY <1>2, <1>3, <1>4, <1>6 DEF r, s, q, Updated
  <1> QED BY <1>5, <1>6

-----------------------------------------------------------------------------
(***************************************************************************)
(* What every sequence of updates, puts and sets of the entities of a CPU  *)
(* does to the record.                                                     *)
(***************************************************************************)
\* A cfs_rq has an entity of its own as curr.
Linked(v) == \A q \in Rqs : v.curr[q] # None => cfs_rq_of(v.curr[q]) = q

\* Every sample holds cycles of its own tasks only.
Clean(v) == /\ \A e \in Ses : v.avg.se[e] \subseteq Own(e)
            /\ \A q \in Rqs : v.avg.rq[q] \subseteq RqTasks(q)

\* The counters of a CPU have just been restarted.
Fresh(v, me) == pemt => v.counted[me] = {}

\* r comes from v by updates, puts and sets of entities of the CPU c, executed on me.
Moves(v, r, c, me) ==
  /\ r \in VType
  /\ \A q \in Rqs : q[2] # c => r.curr[q] = v.curr[q]
  /\ \A e \in Ses : r.avg.seTime[e] = v.avg.seTime[e] \/ r.avg.seTime[e] = Clock(e)
  /\ \A e \in Ses : cfs_rq_of(e)[2] # c => r.avg.seTime[e] = v.avg.seTime[e]
  /\ \A e \in Ses : v.avg.seTime[e] = Clock(e) => r.avg.se[e] = v.avg.se[e]
  /\ \A c2 \in Cpus : c2 # me => r.counted[c2] = v.counted[c2]
  /\ r.counted[me] = v.counted[me] \/ r.counted[me] = {}
  /\ ~pemt => r.counted = v.counted /\ r.prev = v.prev
  /\ Linked(v) => Linked(r)
  /\ Linked(v) /\ Clean(v) /\ Fresh(v, me) => Clean(r)

\* Doing nothing is such a sequence ...
LEMMA MovesRefl ==
  ASSUME NEW v \in VType, NEW c, NEW me
  PROVE  Moves(v, v, c, me)
  BY DEF Moves

\* ... and what two sequences do one after the other is of the same kind.
LEMMA MovesTrans ==
  ASSUME NEW v, NEW w, NEW r, NEW c, NEW me \in Cpus, Moves(v, w, c, me), Moves(w, r, c, me)
  PROVE  Moves(v, r, c, me)
  <1>1. r \in VType
    BY DEF Moves
  <1>2. \A q \in Rqs : q[2] # c => r.curr[q] = v.curr[q]
    BY DEF Moves
  <1>3. \A e \in Ses : r.avg.seTime[e] = v.avg.seTime[e] \/ r.avg.seTime[e] = Clock(e)
    BY DEF Moves
  <1>4. \A e \in Ses : cfs_rq_of(e)[2] # c => r.avg.seTime[e] = v.avg.seTime[e]
    BY DEF Moves
  <1>5. \A e \in Ses : v.avg.seTime[e] = Clock(e) => r.avg.se[e] = v.avg.se[e]
    BY DEF Moves
  <1>6. \A c2 \in Cpus : c2 # me => r.counted[c2] = v.counted[c2]
    BY DEF Moves
  <1>7. r.counted[me] = v.counted[me] \/ r.counted[me] = {}
    BY DEF Moves
  <1>8. ~pemt => r.counted = v.counted /\ r.prev = v.prev
    BY DEF Moves
  <1>9. Linked(v) => Linked(r)
    BY DEF Moves
  <1>10. Linked(v) /\ Clean(v) /\ Fresh(v, me) => Clean(r)
    <2>1. Fresh(v, me) => Fresh(w, me)
      BY DEF Moves, Fresh
    <2> QED BY <2>1 DEF Moves
  <1> QED BY <1>1, <1>2, <1>3, <1>4, <1>5, <1>6, <1>7, <1>8, <1>9, <1>10 DEF Moves

\* An update puts no foreign cycles into the samples unless the counters hold some.
LEMMA UpdateClean ==
  ASSUME IInv, NEW v \in VType, NEW e \in Ses, NEW me \in Cpus, Linked(v), Clean(v),
         e \in Tasks /\ Samples(v, e) => v.counted[me] \subseteq {e}
  PROVE  Clean(update_load_avg(v, e, me))
  <1> DEFINE r == update_load_avg(v, e, me)
             q == cfs_rq_of(e)
             s == Sample(v, e, me)
  <1>1. /\ r \in VType /\ r.curr = v.curr /\ q \in Rqs
        /\ ~Samples(v, e) => r.avg.se = v.avg.se
        /\ Samples(v, e) => r.avg.se = [v.avg.se EXCEPT ![e] = s]
        /\ \A q2 \in Rqs : q2 # q => r.avg.rq[q2] = v.avg.rq[q2]
        /\ \/ r.avg.rq[q] = v.avg.rq[q]
           \/ v.curr[q] # None /\ r.avg.rq[q] = r.avg.se[v.curr[q]]
    <2> HIDE DEF r
    <2>1. Updated(v, r, e, me) /\ q \in Rqs
      BY UpdateFacts, EntityRq DEF r
    <2> QED BY <2>1 DEF Updated
  <1>2. Samples(v, e) => s \subseteq Own(e)
    <2> SUFFICES ASSUME Samples(v, e) PROVE s \subseteq Own(e)
      OBVIOUS
    <2>1. CASE e \in Tasks
      BY <2>1 DEF Sample, pkshin_pmu_get, Own
    <2>2. CASE e \notin Tasks
      <3>1. e \in Ges /\ e \in Rqs /\ s = GroupRatio(v, e)
        BY <2>2, RqFacts DEF Sample
      <3>2. CASE v.curr[e] = None
        <4>1. s = v.avg.rq[e] /\ RqTasks(e) = Own(e)
          BY <3>1, <3>2, OwnTasks DEF GroupRatio
        <4> QED BY <3>1, <4>1 DEF Clean
      <3>3. CASE v.curr[e] # None
        <4>1. v.curr[e] \in Ses /\ cfs_rq_of(v.curr[e]) = e
          BY <3>1, <3>3, VFields DEF Linked
        <4>2. s = v.avg.se[v.curr[e]] /\ s \subseteq Own(v.curr[e])
          BY <3>1, <3>3, <4>1 DEF GroupRatio, Clean
        <4>3. Own(v.curr[e]) \subseteq RqTasks(e) /\ RqTasks(e) = Own(e)
          BY <3>1, <4>1, OwnTasks
        <4> QED BY <4>2, <4>3
      <3> QED BY <3>2, <3>3
    <2> QED BY <2>1, <2>2
  <1> HIDE DEF r, s, q
  <1>3. ASSUME NEW f \in Ses PROVE r.avg.se[f] \subseteq Own(f)
    <2>1. v.avg.se[f] \subseteq Own(f)
      BY DEF Clean
    <2>2. r.avg.se[f] = v.avg.se[f] \/ (Samples(v, e) /\ f = e /\ r.avg.se[f] = s)
      BY <1>1, VFields
    <2> QED BY <1>2, <2>1, <2>2
  <1>4. ASSUME NEW q2 \in Rqs PROVE r.avg.rq[q2] \subseteq RqTasks(q2)
    <2>1. v.avg.rq[q2] \subseteq RqTasks(q2)
      BY DEF Clean
    <2>2. CASE r.avg.rq[q2] = v.avg.rq[q2]
      BY <2>1, <2>2
    <2>3. CASE r.avg.rq[q2] # v.avg.rq[q2]
      <3>1. q2 = q /\ v.curr[q] # None /\ r.avg.rq[q] = r.avg.se[v.curr[q]]
        BY <1>1, <2>3
      <3>2. v.curr[q] \in Ses /\ cfs_rq_of(v.curr[q]) = q
        BY <1>1, <3>1, VFields DEF Linked
      <3>3. r.avg.se[v.curr[q]] \subseteq Own(v.curr[q])
        BY <1>3, <3>2
      <3>4. Own(v.curr[q]) \subseteq RqTasks(q)
        BY <3>2, OwnTasks
      <3> QED BY <3>1, <3>3, <3>4
    <2> QED BY <2>2, <2>3
  <1> QED BY <1>3, <1>4 DEF Clean, r

\* An update.
LEMMA UpdateMoves ==
  ASSUME IInv, NEW v \in VType, NEW e \in Ses, NEW me \in Cpus
  PROVE  Moves(v, update_load_avg(v, e, me), cfs_rq_of(e)[2], me)
  <1> DEFINE r == update_load_avg(v, e, me)
             c == cfs_rq_of(e)[2]
  <1>1. /\ r \in VType /\ r.curr = v.curr
        /\ r.avg.seTime = [v.avg.seTime EXCEPT ![e] = Clock(e)]
        /\ ~Samples(v, e) => r.avg.se = v.avg.se
        /\ Samples(v, e) => r.avg.se = [v.avg.se EXCEPT ![e] = Sample(v, e, me)]
        /\ ~(Samples(v, e) /\ e \in Tasks) => r.counted = v.counted /\ r.prev = v.prev
        /\ Samples(v, e) /\ e \in Tasks => r.counted = [v.counted EXCEPT ![me] = {}]
    <2> HIDE DEF r
    <2>1. Updated(v, r, e, me)
      BY UpdateFacts DEF r
    <2> QED BY <2>1 DEF Updated
  <1>2. Linked(v) /\ Clean(v) /\ Fresh(v, me) => Clean(r)
    <2>1. Fresh(v, me) /\ Samples(v, e) => v.counted[me] \subseteq {e}
      BY DEF Fresh, Samples
    <2> QED BY <2>1, UpdateClean
  <1>3. Linked(v) => Linked(r)
    BY <1>1, Zenon DEF Linked
  <1> HIDE DEF r
  <1>4. \A f \in Ses : v.avg.seTime[f] = Clock(f) => r.avg.se[f] = v.avg.se[f]
    BY <1>1, VFields DEF Samples
  <1>5. \A f \in Ses : r.avg.seTime[f] = v.avg.seTime[f] \/ r.avg.seTime[f] = Clock(f)
    BY <1>1, VFields
  <1>6. \A f \in Ses : cfs_rq_of(f)[2] # c => r.avg.seTime[f] = v.avg.seTime[f]
    BY <1>1, VFields
  <1>7. /\ \A c2 \in Cpus : c2 # me => r.counted[c2] = v.counted[c2]
        /\ r.counted[me] = v.counted[me] \/ r.counted[me] = {}
    BY <1>1, VFields
  <1>8. ~pemt => r.counted = v.counted /\ r.prev = v.prev
    BY <1>1 DEF Samples
  <1>9. \A q \in Rqs : r.curr[q] = v.curr[q]
    BY <1>1
  <1> HIDE DEF c
  <1> QED BY <1>1, <1>2, <1>3, <1>4, <1>5, <1>6, <1>7, <1>8, <1>9 DEF Moves, r, c

\* A change of curr.
LEMMA CurrMoves ==
  ASSUME NEW v \in VType, NEW q \in Rqs, NEW e \in Ses \cup {None}, NEW me \in Cpus,
         e # None => cfs_rq_of(e) = q
  PROVE  Moves(v, [v EXCEPT !.curr[q] = e], q[2], me)
  <1> DEFINE r == [v EXCEPT !.curr[q] = e]
  <1>1. /\ r \in VType /\ r.counted = v.counted /\ r.prev = v.prev /\ r.avg = v.avg
        /\ r.curr = [v.curr EXCEPT ![q] = e]
    BY SetCurr
  <1> HIDE DEF r
  <1>2. \A q2 \in Rqs : r.curr[q2] = IF q2 = q THEN e ELSE v.curr[q2]
    BY <1>1, VFields
  <1>3. Linked(v) => Linked(r)
    BY <1>2 DEF Linked
  <1>4. Clean(v) => Clean(r)
    BY <1>1 DEF Clean
  <1> QED BY <1>1, <1>2, <1>3, <1>4 DEF Moves, r

\* put_prev_entity.
LEMMA PutFacts ==
  ASSUME IInv, NEW v \in VType, NEW e \in Ses, NEW me \in Cpus
  PROVE  /\ Moves(v, put_prev_entity(v, e, me), cfs_rq_of(e)[2], me)
         /\ put_prev_entity(v, e, me).curr = [v.curr EXCEPT ![cfs_rq_of(e)] = None]
         /\ on_rq(e) => /\ put_prev_entity(v, e, me).avg = update_load_avg(v, e, me).avg
                        /\ put_prev_entity(v, e, me).counted = update_load_avg(v, e, me).counted
  <1> DEFINE w == IF on_rq(e) THEN update_load_avg(v, e, me) ELSE v
             q == cfs_rq_of(e)
             r == [w EXCEPT !.curr[q] = None]
  <1>1. put_prev_entity(v, e, me) = r
    BY DEF put_prev_entity
  <1>2. q \in Rqs
    BY EntityRq
  <1>3. on_rq(e) => w = update_load_avg(v, e, me)
    OBVIOUS
  <1>4. Moves(v, w, q[2], me) /\ w.curr = v.curr
    <2>1. Moves(v, v, q[2], me)
      BY MovesRefl
    <2>2. Moves(v, update_load_avg(v, e, me), q[2], me) /\ Updated(v, update_load_avg(v, e, me), e, me)
      BY UpdateMoves, UpdateFacts
    <2> QED BY <2>1, <2>2 DEF Updated
  <1> HIDE DEF w
  <1>5. w \in VType
    BY <1>4 DEF Moves
  <1>6. Moves(w, r, q[2], me)
    BY <1>2, <1>5, CurrMoves
  <1>7. r.curr = [w.curr EXCEPT ![q] = None] /\ r.avg = w.avg /\ r.counted = w.counted
    BY <1>2, <1>5, SetCurr
  <1> HIDE DEF r
  <1>8. Moves(v, r, q[2], me)
    BY <1>4, <1>6, MovesTrans
  <1> HIDE DEF q
  <1> QED BY <1>1, <1>3, <1>4, <1>7, <1>8 DEF q

\* set_next_entity.
LEMMA SetFacts ==
  ASSUME IInv, NEW v \in VType, NEW e \in Ses, NEW me \in Cpus
  PROVE  /\ Moves(v, set_next_entity(v, e, me), cfs_rq_of(e)[2], me)
         /\ set_next_entity(v, e, me).curr = [v.curr EXCEPT ![cfs_rq_of(e)] = e]
         /\ set_next_entity(v, e, me).avg = update_load_avg(v, e, me).avg
  <1> DEFINE w == update_load_avg(v, e, me)
             q == cfs_rq_of(e)
             r == [w EXCEPT !.curr[q] = e]
  <1>1. set_next_entity(v, e, me) = r
    BY DEF set_next_entity
  <1>2. q \in Rqs
    BY EntityRq
  <1>3. Moves(v, w, q[2], me) /\ w.curr = v.curr
    <2>1. Moves(v, w, q[2], me) /\ Updated(v, w, e, me)
      BY UpdateMoves, UpdateFacts
    <2> QED BY <2>1 DEF Updated
  <1>4. w = update_load_avg(v, e, me)
    OBVIOUS
  <1> HIDE DEF w
  <1>5. w \in VType
    BY <1>3 DEF Moves
  <1>6. Moves(w, r, q[2], me)
    BY <1>2, <1>5, CurrMoves
  <1>7. r.curr = [w.curr EXCEPT ![q] = e] /\ r.avg = w.avg
    BY <1>2, <1>5, SetCurr
  <1> HIDE DEF r
  <1>8. Moves(v, r, q[2], me)
    BY <1>3, <1>6, MovesTrans
  <1> HIDE DEF q
  <1> QED BY <1>1, <1>3, <1>4, <1>7, <1>8 DEF q

\* The path of a task lies on its CPU.
LEMMA PathFacts ==
  ASSUME NEW t \in Tasks
  PROVE  /\ t \in Ses /\ cfs_rq_of(t) \in Rqs /\ cfs_rq_of(t)[2] = CpuOf[t] /\ CpuOf[t] \in Cpus
         /\ RootRq(CpuOf[t]) \in Rqs /\ RootRq(CpuOf[t])[2] = CpuOf[t]
         /\ Grouped(t) => /\ cfs_rq_of(t) \in Ges /\ cfs_rq_of(t) \in Ses /\ cfs_rq_of(t) \notin Tasks
                          /\ cfs_rq_of(cfs_rq_of(t)) = RootRq(CpuOf[t])
                          /\ cfs_rq_of(t) # RootRq(CpuOf[t])
         /\ ~Grouped(t) => cfs_rq_of(t) = RootRq(CpuOf[t])
  BY RqFacts DEF Grouped

-----------------------------------------------------------------------------
(***************************************************************************)
(* Handlers.                                                               *)
(***************************************************************************)
\* The counters of me hold nothing, or cycles of t that the next update of t takes.
Due(v, t, me) == pemt => v.counted[me] = {} \/ (Samples(v, t) /\ v.counted[me] \subseteq {t})

\* The first update of the running task.
LEMMA UpdateRunner ==
  ASSUME IInv, NEW v \in VType, NEW t \in Tasks, NEW me \in Cpus, Linked(v), Clean(v), Due(v, t, me)
  PROVE  /\ Clean(update_load_avg(v, t, me)) /\ Fresh(update_load_avg(v, t, me), me)
         /\ Linked(update_load_avg(v, t, me))
  <1> DEFINE r == update_load_avg(v, t, me)
  <1>1. t \in Ses
    BY PathFacts
  <1>2. Clean(r)
    <2>1. Samples(v, t) => v.counted[me] \subseteq {t}
      BY DEF Due, Samples
    <2> QED BY <1>1, <2>1, UpdateClean
  <1>3. Updated(v, r, t, me) /\ Moves(v, r, cfs_rq_of(t)[2], me)
    BY <1>1, UpdateFacts, UpdateMoves
  <1> HIDE DEF r
  <1>4. Fresh(r, me)
    BY <1>3, VFields DEF Updated, Fresh, Due
  <1>5. Linked(r)
    BY <1>3 DEF Moves
  <1> QED BY <1>2, <1>4, <1>5 DEF r

\* The update of the path of a task leaves r of v.
PathUpdated(v, r, t, me) ==
  /\ Moves(v, r, CpuOf[t], me) /\ r.curr = v.curr
  /\ \A e \in Ses : e # t /\ (Grouped(t) => e # cfs_rq_of(t)) => r.avg.seTime[e] = v.avg.seTime[e]
  /\ r.avg.seTime[t] = Clock(t)
  /\ Grouped(t) => r.avg.seTime[cfs_rq_of(t)] = Clock(cfs_rq_of(t))
  /\ v.curr[cfs_rq_of(t)] # t => r.counted = v.counted
  /\ Linked(v) /\ Clean(v) /\ Due(v, t, me) => Clean(r) /\ Fresh(r, me)
  /\ Linked(v) /\ Clean(v) /\ v.curr[cfs_rq_of(t)] # t => Clean(r)

\* It is what UpdatePath computes.
LEMMA UpdatePathFacts ==
  ASSUME IInv, NEW v \in VType, NEW t \in Tasks, NEW me \in Cpus
  PROVE  PathUpdated(v, UpdatePath(v, t, me), t, me)
  <1> DEFINE w == update_load_avg(v, t, me)
             g == cfs_rq_of(t)
             x == update_load_avg(w, g, me)
             r == UpdatePath(v, t, me)
             c == CpuOf[t]
  <1>1. /\ t \in Ses /\ cfs_rq_of(t)[2] = c /\ c \in Cpus
        /\ Grouped(t) => g \in Ses /\ g \notin Tasks /\ cfs_rq_of(g)[2] = c
    BY PathFacts
  <1>2. Updated(v, w, t, me) /\ Moves(v, w, c, me)
    BY <1>1, UpdateFacts, UpdateMoves
  <1>3. /\ Linked(v) /\ Clean(v) /\ Due(v, t, me) => Clean(w) /\ Fresh(w, me)
        /\ Linked(v) /\ Clean(v) /\ v.curr[cfs_rq_of(t)] # t => Clean(w)
    <2>1. Samples(v, t) => v.curr[cfs_rq_of(t)] = t
      BY DEF Samples
    <2> QED BY <1>1, <2>1, UpdateRunner, UpdateClean
  <1>4. r = IF Grouped(t) THEN x ELSE w
    BY DEF UpdatePath
  <1> HIDE DEF w, r
  <1>5. w \in VType /\ (Linked(v) => Linked(w))
    BY <1>2 DEF Moves
  <1>6. CASE ~Grouped(t)
    <2>1. r = w
      BY <1>4, <1>6
    <2>2. /\ r.curr = v.curr /\ r.avg.seTime[t] = Clock(t)
          /\ \A e \in Ses : e # t => r.avg.seTime[e] = v.avg.seTime[e]
          /\ v.curr[cfs_rq_of(t)] # t => r.counted = v.counted
      BY <1>1, <1>2, <2>1, VFields DEF Updated, Samples
    <2> QED BY <1>2, <1>3, <1>6, <2>1, <2>2 DEF PathUpdated, r
  <1>7. CASE Grouped(t)
    <2>1. r = x /\ g \in Ses /\ g \notin Tasks /\ g # t
      BY <1>1, <1>4, <1>7
    <2>2. Updated(w, x, g, me) /\ Moves(w, x, c, me)
      BY <1>1, <1>5, <1>7, UpdateFacts, UpdateMoves
    <2>3. Linked(w) /\ Clean(w) => Clean(x)
      BY <1>1, <1>5, <1>7, UpdateClean
    <2> HIDE DEF x
    <2>4. Moves(v, x, c, me)
      BY <1>2, <2>2, MovesTrans
    <2>5. /\ x.curr = v.curr /\ x.counted = w.counted
          /\ x.avg.seTime = [w.avg.seTime EXCEPT ![g] = Clock(g)]
          /\ w.avg.seTime = [v.avg.seTime EXCEPT ![t] = Clock(t)]
          /\ v.curr[cfs_rq_of(t)] # t => w.counted = v.counted
      <3> HIDE DEF g
      <3> QED BY <1>2, <2>1, <2>2 DEF Updated, Samples
    <2>6. Fresh(w, me) => Fresh(x, me)
      BY <2>5 DEF Fresh
    <2> HIDE DEF g
    <2>7. /\ x.avg.seTime[t] = Clock(t) /\ x.avg.seTime[g] = Clock(g)
          /\ \A e \in Ses : e # t /\ e # g => x.avg.seTime[e] = v.avg.seTime[e]
      BY <1>1, <1>5, <2>1, <2>5, VFields
    <2> QED BY <1>3, <1>5, <1>7, <2>1, <2>3, <2>4, <2>5, <2>6, <2>7 DEF PathUpdated, r, g
  <1> QED BY <1>6, <1>7

\* The running task and its group are put.
LEMMA PutAllFacts ==
  ASSUME IInv, NEW v \in VType, NEW p \in Tasks, NEW me \in Cpus, Runs(v.curr, p)
  PROVE  LET r == PutAll(v, p, me)
         IN  /\ Moves(v, r, CpuOf[p], me) /\ Idles(r.curr, CpuOf[p])
             /\ Linked(v) /\ Clean(v) /\ (Fresh(v, me) \/ (on_rq(p) /\ Due(v, p, me))) => Clean(r)
  <1> DEFINE w == put_prev_entity(v, p, me)
             g == cfs_rq_of(p)
             x == put_prev_entity(w, g, me)
             r == PutAll(v, p, me)
             c == CpuOf[p]
  <1>1. /\ p \in Ses /\ g \in Rqs /\ g[2] = c /\ c \in Cpus /\ RootRq(c) \in Rqs
        /\ Grouped(p) => g \in Ses /\ cfs_rq_of(g) = RootRq(c)
        /\ ~Grouped(p) => g = RootRq(c)
        /\ RootRq(c)[2] = c
    BY PathFacts
  <1>2. /\ Moves(v, w, c, me) /\ w.curr = [v.curr EXCEPT ![g] = None]
        /\ on_rq(p) => w.avg = update_load_avg(v, p, me).avg /\ w.counted = update_load_avg(v, p, me).counted
    BY <1>1, PutFacts
  <1>3. r = IF Grouped(p) THEN x ELSE w
    BY DEF PutAll
  <1> HIDE DEF w, r
  <1>4. w \in VType /\ (Linked(v) => Linked(w))
    BY <1>2 DEF Moves
  <1>5. Linked(v) /\ Clean(v) /\ (Fresh(v, me) \/ (on_rq(p) /\ Due(v, p, me))) => Clean(w) /\ Fresh(w, me)
    <2>1. Linked(v) /\ Clean(v) /\ Fresh(v, me) => Clean(w) /\ Fresh(w, me)
      BY <1>2 DEF Moves, Fresh
    <2>2. Linked(v) /\ Clean(v) /\ Due(v, p, me) =>
            Clean(update_load_avg(v, p, me)) /\ Fresh(update_load_avg(v, p, me), me)
      BY UpdateRunner
    <2>3. Linked(v) /\ Clean(v) /\ on_rq(p) /\ Due(v, p, me) => Clean(w) /\ Fresh(w, me)
      BY <1>2, <2>2 DEF Clean, Fresh
    <2> QED BY <2>1, <2>3
  <1> HIDE DEF g
  <1>6. \A q \in Rqs : q[2] = c /\ q # g /\ q # RootRq(c) => v.curr[q] = None
    BY DEF Runs, On, g
  <1>7. CASE ~Grouped(p)
    <2>1. r = w /\ g = RootRq(c)
      BY <1>1, <1>3, <1>7
    <2>2. Idles(r.curr, c)
      BY <1>1, <1>2, <1>6, <2>1, VFields DEF Idles
    <2> QED BY <1>2, <1>5, <2>1, <2>2 DEF r
  <1>8. CASE Grouped(p)
    <2>1. r = x /\ g \in Ses /\ cfs_rq_of(g) = RootRq(c)
      BY <1>1, <1>3, <1>8
    <2>2. Moves(w, x, c, me) /\ x.curr = [w.curr EXCEPT ![RootRq(c)] = None]
      BY <1>1, <1>4, <2>1, PutFacts
    <2> HIDE DEF x
    <2>3. Moves(v, x, c, me)
      BY <1>1, <1>2, <2>2, MovesTrans
    <2>4. Idles(x.curr, c)
      BY <1>1, <1>2, <1>6, <2>2, VFields, <1>4 DEF Idles
    <2>5. Linked(w) /\ Clean(w) /\ Fresh(w, me) => Clean(x)
      BY <2>2 DEF Moves
    <2> QED BY <1>4, <1>5, <2>1, <2>3, <2>4, <2>5 DEF r
  <1> QED BY <1>7, <1>8

\* A task and its group are set.
LEMMA SetAllFacts ==
  ASSUME IInv, NEW v \in VType, NEW t \in Tasks, NEW me \in Cpus, Idles(v.curr, CpuOf[t])
  PROVE  LET r == SetAll(v, t, me)
         IN  Moves(v, r, CpuOf[t], me) /\ Runs(r.curr, t)
  <1> DEFINE g == cfs_rq_of(t)
             x == set_next_entity(v, g, me)
             w == IF Grouped(t) THEN x ELSE v
             r == SetAll(v, t, me)
             c == CpuOf[t]
  <1>1. /\ t \in Ses /\ g \in Rqs /\ g[2] = c /\ c \in Cpus /\ RootRq(c) \in Rqs
        /\ Grouped(t) => g \in Ses /\ cfs_rq_of(g) = RootRq(c)
        /\ ~Grouped(t) => g = RootRq(c)
        /\ RootRq(c)[2] = c
    BY PathFacts
  <1>2. r = set_next_entity(w, t, me)
    BY DEF SetAll
  <1> HIDE DEF r
  <1>3. /\ Moves(v, w, c, me)
        /\ ~Grouped(t) => w.curr = v.curr
        /\ Grouped(t) => w.curr = [v.curr EXCEPT ![RootRq(c)] = g]
    <2>1. CASE Grouped(t)
      <3>1. Moves(v, x, c, me) /\ x.curr = [v.curr EXCEPT ![RootRq(c)] = g]
        BY <1>1, <2>1, SetFacts
      <3> QED BY <2>1, <3>1
    <2>2. CASE ~Grouped(t)
      BY <2>2, MovesRefl
    <2> QED BY <2>1, <2>2
  <1> HIDE DEF w
  <1>4. w \in VType
    BY <1>3 DEF Moves
  <1>5. Moves(w, r, c, me) /\ r.curr = [w.curr EXCEPT ![g] = t]
    BY <1>1, <1>2, <1>4, SetFacts
  <1>6. Moves(v, r, c, me)
    BY <1>1, <1>3, <1>5, MovesTrans
  <1> HIDE DEF g
  <1>7. ASSUME NEW q \in Rqs, q[2] = c PROVE r.curr[q] = On(t, q)
    <2>1. v.curr[q] = None
      BY <1>7 DEF Idles
    <2>2. r.curr[q] = IF q = g THEN t ELSE IF Grouped(t) /\ q = RootRq(c) THEN g ELSE v.curr[q]
      BY <1>1, <1>3, <1>4, <1>5, VFields
    <2>3. On(t, q) = IF q = g THEN t ELSE IF q = RootRq(c) THEN g ELSE None
      BY DEF On, g
    <2> QED BY <1>1, <2>1, <2>2, <2>3
  <1> QED BY <1>6, <1>7 DEF Runs, r

\* The entity of a task that is in the top cfs_rq.
Top(t) == IF Grouped(t) THEN cfs_rq_of(t) ELSE t

\* It belongs to the top cfs_rq of the task's CPU.
LEMMA TopFacts ==
  ASSUME NEW t \in Tasks
  PROVE  Top(t) \in Ses /\ cfs_rq_of(Top(t)) = RootRq(CpuOf[t]) /\ Top(t) # None
  BY PathFacts, RqFacts DEF Top

\* One task takes the place of another.
LEMMA SwitchFacts ==
  ASSUME IInv, NEW v \in VType, NEW p \in Tasks, NEW t \in Tasks, NEW me \in Cpus,
         CpuOf[p] = CpuOf[t], Runs(v.curr, p)
  PROVE  LET r == Switch(v, p, t, me)
         IN  Moves(v, r, CpuOf[t], me) /\ Runs(r.curr, t)
  <1> DEFINE c == CpuOf[t]
             g == cfs_rq_of(p)
             h == cfs_rq_of(t)
             r == Switch(v, p, t, me)
  <1>1. /\ p \in Ses /\ t \in Ses /\ g \in Rqs /\ h \in Rqs /\ g[2] = c /\ h[2] = c /\ c \in Cpus
        /\ RootRq(c) \in Rqs /\ RootRq(c)[2] = c
        /\ Grouped(p) <=> g # RootRq(c)
        /\ Grouped(t) <=> h # RootRq(c)
    BY PathFacts
  <1>2. \A q \in Rqs : q[2] = c => v.curr[q] = IF q = g THEN p ELSE IF q = RootRq(c) THEN g ELSE None
    BY DEF Runs, On
  <1>3. SUFFICES Moves(v, r, c, me) /\ \A q \in Rqs : q[2] = c =>
                   r.curr[q] = IF q = h THEN t ELSE IF q = RootRq(c) THEN h ELSE None
    BY DEF Runs, On
  <1>4. CASE p = t
    <2>1. r = v
      BY <1>4 DEF Switch
    <2>2. Moves(v, r, c, me)
      BY <2>1, MovesRefl
    <2> QED BY <1>2, <1>4, <2>1, <2>2
  <1>5. CASE p # t /\ g = h
    <2> DEFINE w == put_prev_entity(v, p, me)
    <2>1. r = set_next_entity(w, t, me)
      BY <1>5 DEF Switch
    <2>2. Moves(v, w, c, me) /\ w.curr = [v.curr EXCEPT ![g] = None]
      BY <1>1, PutFacts
    <2> HIDE DEF w, r
    <2>3. w \in VType
      BY <2>2 DEF Moves
    <2>4. Moves(w, r, c, me) /\ r.curr = [w.curr EXCEPT ![h] = t]
      BY <1>1, <2>1, <2>3, SetFacts
    <2>5. Moves(v, r, c, me)
      BY <1>1, <2>2, <2>4, MovesTrans
    <2> HIDE DEF g, h
    <2>6. \A q \in Rqs : r.curr[q] = IF q = h THEN t ELSE v.curr[q]
      BY <1>1, <1>5, <2>2, <2>3, <2>4, VFields
    <2> QED BY <1>2, <1>5, <2>5, <2>6
  <1>6. CASE p # t /\ g # h
    <2> DEFINE below  == IF Grouped(p) THEN put_prev_entity(v, p, me) ELSE v
               placed == IF Grouped(t) THEN set_next_entity(below, t, me) ELSE below
               put    == put_prev_entity(placed, Top(p), me)
    <2>1. r = set_next_entity(put, Top(t), me)
      BY <1>6 DEF Switch, Top
    <2>2. /\ Top(p) \in Ses /\ cfs_rq_of(Top(p)) = RootRq(c) /\ Top(t) \in Ses /\ cfs_rq_of(Top(t)) = RootRq(c)
          /\ Top(t) = IF h = RootRq(c) THEN t ELSE h
      <3>1. Top(t) = IF Grouped(t) THEN h ELSE t
        BY DEF Top
      <3> QED BY <1>1, <3>1, TopFacts
    <2>3. /\ Moves(v, below, c, me)
          /\ Grouped(p) => below.curr = [v.curr EXCEPT ![g] = None]
          /\ ~Grouped(p) => below.curr = v.curr
      <3>1. Moves(v, v, c, me)
        BY MovesRefl
      <3>2. /\ Moves(v, put_prev_entity(v, p, me), c, me)
            /\ put_prev_entity(v, p, me).curr = [v.curr EXCEPT ![g] = None]
        BY <1>1, PutFacts
      <3> QED BY <3>1, <3>2
    <2> HIDE DEF below, r
    <2>4. below \in VType
      BY <2>3 DEF Moves
    <2>5. /\ Moves(below, placed, c, me)
          /\ Grouped(t) => placed.curr = [below.curr EXCEPT ![h] = t]
          /\ ~Grouped(t) => placed.curr = below.curr
      <3>1. Moves(below, below, c, me)
        BY <2>4, MovesRefl
      <3>2. /\ Moves(below, set_next_entity(below, t, me), c, me)
            /\ set_next_entity(below, t, me).curr = [below.curr EXCEPT ![h] = t]
        BY <1>1, <2>4, SetFacts
      <3> QED BY <3>1, <3>2
    <2> HIDE DEF placed
    <2>6. placed \in VType
      BY <2>5 DEF Moves
    <2>7. Moves(placed, put, c, me) /\ put.curr = [placed.curr EXCEPT ![RootRq(c)] = None]
      BY <1>1, <2>2, <2>6, PutFacts
    <2> HIDE DEF put
    <2>8. put \in VType
      BY <2>7 DEF Moves
    <2>9. Moves(put, r, c, me) /\ r.curr = [put.curr EXCEPT ![RootRq(c)] = Top(t)]
      BY <1>1, <2>1, <2>2, <2>8, SetFacts
    <2>10. Moves(v, r, c, me)
      <3>1. Moves(v, placed, c, me)
        BY <1>1, <2>3, <2>5, MovesTrans
      <3>2. Moves(v, put, c, me)
        BY <1>1, <2>7, <3>1, MovesTrans
      <3> QED BY <1>1, <2>9, <3>2, MovesTrans
    <2> HIDE DEF g, h, c
    <2>11. ASSUME NEW q \in Rqs, q[2] = c
           PROVE  r.curr[q] = IF q = h THEN t ELSE IF q = RootRq(c) THEN h ELSE None
      <3>1. CASE q = RootRq(c)
        BY <2>2, <2>8, <2>9, <3>1, VFields
      <3>2. CASE q # RootRq(c)
        <4>1. r.curr[q] = placed.curr[q]
          BY <2>6, <2>7, <2>8, <2>9, <3>2, VFields
        <4>2. placed.curr[q] = IF q = h THEN t ELSE below.curr[q]
          BY <1>1, <2>4, <2>5, <3>2, VFields
        <4>3. q = g \/ below.curr[q] = v.curr[q]
          BY <2>3, VFields
        <4>4. q = g => below.curr[q] = None
          BY <1>1, <2>3, <3>2, VFields
        <4> QED BY <1>2, <2>11, <3>2, <4>1, <4>2, <4>3, <4>4
      <3> QED BY <3>1, <3>2
    <2> QED BY <2>10, <2>11 DEF c, h
  <1> QED BY <1>4, <1>5, <1>6

-----------------------------------------------------------------------------
(***************************************************************************)
(* The state between two handlers.                                         *)
(***************************************************************************)
\* The task that the curr pointers of a CPU lead to.
RunningIn(f, c) == LET e == f[RootRq(c)] IN IF e \in Ges THEN f[e] ELSE e

\* A CPU runs the task its pointers are set to.
LEMMA RunsRunning ==
  ASSUME NEW f
  PROVE  /\ \A t \in Tasks : Runs(f, t) => RunningIn(f, CpuOf[t]) = t
         /\ \A c \in Cpus : Idles(f, c) => RunningIn(f, c) = None
         /\ \A t \in Tasks, q \in Rqs : Runs(f, t) /\ q[2] = CpuOf[t] =>
              (f[q] # None => f[q] \in Ses /\ cfs_rq_of(f[q]) = q) /\ (f[q] \in Tasks => f[q] = t)
         /\ \A t \in Tasks : Runs(f, t) => f[cfs_rq_of(t)] = t /\ (Grouped(t) => f[RootRq(CpuOf[t])] = cfs_rq_of(t))
         /\ \A c \in Cpus, t \in Tasks : CpuOf[t] = c /\ Runs(f, t) => ~Idles(f, c)
  <1>1. ASSUME NEW t \in Tasks, Runs(f, t)
        PROVE  f[cfs_rq_of(t)] = t /\ (Grouped(t) => f[RootRq(CpuOf[t])] = cfs_rq_of(t))
    <2>1. cfs_rq_of(t) \in Rqs /\ cfs_rq_of(t)[2] = CpuOf[t] /\ RootRq(CpuOf[t]) \in Rqs /\ RootRq(CpuOf[t])[2] = CpuOf[t]
      BY PathFacts
    <2>2. f[cfs_rq_of(t)] = On(t, cfs_rq_of(t)) /\ f[RootRq(CpuOf[t])] = On(t, RootRq(CpuOf[t]))
      BY <1>1, <2>1 DEF Runs
    <2>3. Grouped(t) => cfs_rq_of(t) # RootRq(CpuOf[t])
      BY PathFacts
    <2> QED BY <2>2, <2>3 DEF On
  <1>2. ASSUME NEW t \in Tasks, Runs(f, t) PROVE RunningIn(f, CpuOf[t]) = t
    <2>1. CASE Grouped(t)
      BY <1>1, <1>2, <2>1, PathFacts DEF RunningIn
    <2>2. CASE ~Grouped(t)
      BY <1>1, <1>2, <2>2, PathFacts, RqFacts DEF RunningIn
    <2> QED BY <2>1, <2>2
  <1>3. ASSUME NEW c \in Cpus, Idles(f, c) PROVE RunningIn(f, c) = None
    <2>1. f[RootRq(c)] = None
      BY <1>3, RqFacts DEF Idles
    <2> QED BY <2>1, RqFacts DEF RunningIn
  <1>4. ASSUME NEW t \in Tasks, NEW q \in Rqs, Runs(f, t), q[2] = CpuOf[t]
        PROVE  (f[q] # None => f[q] \in Ses /\ cfs_rq_of(f[q]) = q) /\ (f[q] \in Tasks => f[q] = t)
    <2>1. f[q] = On(t, q)
      BY <1>4 DEF Runs
    <2>2. CASE q = cfs_rq_of(t)
      BY <2>1, <2>2, PathFacts DEF On
    <2>3. CASE q # cfs_rq_of(t) /\ q = RootRq(CpuOf[t])
      <3>1. f[q] = cfs_rq_of(t) /\ Grouped(t)
        BY <2>1, <2>3, PathFacts DEF On
      <3> QED BY <2>3, <3>1, PathFacts
    <2>4. CASE q # cfs_rq_of(t) /\ q # RootRq(CpuOf[t])
      BY <2>1, <2>4, RqFacts DEF On
    <2> QED BY <2>2, <2>3, <2>4
  <1>5. ASSUME NEW c \in Cpus, NEW t \in Tasks, CpuOf[t] = c, Runs(f, t) PROVE ~Idles(f, c)
    BY <1>1, <1>5, PathFacts, RqFacts DEF Idles
  <1> QED BY <1>1, <1>2, <1>3, <1>4, <1>5

\* The running task of a CPU is one of its queued tasks.
LEMMA RunningFacts ==
  ASSUME IInv, NEW c \in Cpus
  PROVE  /\ Running(c) = RunningIn(curr, c)
         /\ Running(c) = None => Idles(curr, c)
         /\ Running(c) # None => /\ Running(c) \in Tasks /\ Running(c) \in queued
                                 /\ CpuOf[Running(c)] = c /\ Runs(curr, Running(c))
  <1>1. Running(c) = RunningIn(curr, c)
    BY DEF Running, RunningIn
  <1>2. CASE Idles(curr, c)
    BY <1>1, <1>2, RunsRunning
  <1>3. CASE ~Idles(curr, c)
    <2>1. PICK t \in queued : CpuOf[t] = c /\ Runs(curr, t)
      BY <1>3 DEF IInv, HierarchyInv
    <2>2. t \in Tasks /\ t # None
      BY RqFacts DEF IInv, TypeOK
    <2>3. Running(c) = t
      BY <1>1, <2>1, <2>2, RunsRunning
    <2> QED BY <1>1, <2>1, <2>2, <2>3
  <1> QED BY <1>2, <1>3

\* The invariant about foreign cycles is that of the record.
LEMMA CleanFacts ==
  ASSUME NEW v
  PROVE  Clean(v) <=> /\ \A t \in Tasks : v.avg.se[t] \subseteq {t}
                      /\ \A g \in Ges : v.avg.se[g] \cup v.avg.rq[g] \subseteq {t \in Tasks : cfs_rq_of(t) = g}
                      /\ \A c \in Cpus : v.avg.rq[RootRq(c)] \subseteq {t \in Tasks : CpuOf[t] = c}
  <1>1. \A t \in Tasks : t \in Ses /\ Own(t) = {t}
    BY RqFacts DEF Own
  <1>2. \A g \in Ges : /\ g \in Ses /\ g \in Rqs /\ Own(g) = {t \in Tasks : cfs_rq_of(t) = g}
                       /\ RqTasks(g) = Own(g)
    BY RqFacts DEF Own, RqTasks
  <1>3. \A c \in Cpus : RootRq(c) \in Rqs /\ RqTasks(RootRq(c)) = {t \in Tasks : CpuOf[t] = c}
    BY RqFacts DEF RqTasks
  <1>4. \A e \in Ses : e \in Tasks \/ e \in Ges
    BY RqFacts
  <1>5. \A q \in Rqs : q \in Ges \/ \E c \in Cpus : q = RootRq(c)
    BY RqFacts
  <1> HIDE DEF Own, RqTasks
  <1>6. (\A e \in Ses : v.avg.se[e] \subseteq Own(e)) <=>
          /\ \A t \in Tasks : v.avg.se[t] \subseteq Own(t)
          /\ \A g \in Ges : v.avg.se[g] \subseteq Own(g)
    BY <1>1, <1>2, <1>4
  <1>7. (\A q \in Rqs : v.avg.rq[q] \subseteq RqTasks(q)) <=>
          /\ \A g \in Ges : v.avg.rq[g] \subseteq RqTasks(g)
          /\ \A c \in Cpus : v.avg.rq[RootRq(c)] \subseteq RqTasks(RootRq(c))
    BY <1>2, <1>3, <1>5
  <1> QED BY <1>1, <1>2, <1>3, <1>6, <1>7 DEF Clean

\* The record of the current state.
LEMMA NowFacts ==
  ASSUME IInv
  PROVE  /\ Now \in VType /\ Now.curr = curr /\ Now.counted = counted /\ Now.prev = prev /\ Now.avg = avg
         /\ Now.exec = exec /\ Linked(Now) /\ (~remote => Clean(Now))
  <1>1. /\ Now \in VType /\ Now.curr = curr /\ Now.counted = counted /\ Now.prev = prev /\ Now.avg = avg
        /\ Now.exec = exec
    BY DEF IInv, TypeOK, Now, VType, Cycles
  <1> HIDE DEF Now
  <1>2. ASSUME NEW q \in Rqs, curr[q] # None PROVE cfs_rq_of(curr[q]) = q
    <2>1. q[2] \in Cpus
      BY RqFacts
    <2>2. ~Idles(curr, q[2])
      BY <1>2, <2>1 DEF Idles
    <2>3. PICK t \in queued : CpuOf[t] = q[2] /\ Runs(curr, t)
      BY <2>1, <2>2 DEF IInv, HierarchyInv
    <2>4. t \in Tasks
      BY DEF IInv, TypeOK
    <2> QED BY <1>2, <2>3, <2>4, RunsRunning
  <1>3. Linked(Now)
    BY <1>1, <1>2 DEF Linked
  <1>4. ~remote => Clean(Now)
    BY <1>1, CleanFacts DEF IInv, NoForeignCycles
  <1> QED BY <1>1, <1>3, <1>4

\* What the counters of a CPU hold is due to the task that runs there.
LEMMA RunnerDue ==
  ASSUME IInv, ~remote, NEW c \in Cpus, Running(c) # None
  PROVE  Due(Now, Running(c), c)
  <1> DEFINE t == Running(c)
  <1>1. t \in Tasks /\ Runs(curr, t) /\ CpuOf[t] = c
    BY RunningFacts
  <1>2. curr[cfs_rq_of(t)] = t
    BY <1>1, RunsRunning
  <1>3. pemt /\ counted[c] # {} => counted[c] = {t} /\ avg.seTime[t] < Clock(t)
    BY <1>1 DEF IInv, CountersInv, Clock
  <1>4. avg.seTime[t] \in Int /\ Clock(t) \in Int
    BY <1>1, RqFacts, ClockInt, NowFacts, VFields
  <1> HIDE DEF t
  <1>5. pemt /\ counted[c] # {} => Samples(Now, t) /\ counted[c] \subseteq {t}
    BY <1>2, <1>3, <1>4, NowFacts DEF Samples
  <1> QED BY <1>5, NowFacts DEF Due, t

\* A handler of the CPU c keeps the invariant.
LEMMA HandlerStep ==
  ASSUME IInv, NEW r, NEW c \in Cpus, NEW me \in Cpus, Becomes(r), Rest, Moves(Now, r, c, me),
         queued' \subseteq Tasks, \A t \in queued : CpuOf[t] # c => t \in queued',
         Idles(r.curr, c) \/ \E t \in queued' : CpuOf[t] = c /\ Runs(r.curr, t),
         remote' \in BOOLEAN,
         ~remote' => /\ ~remote /\ me = c /\ Clean(r)
                     /\ \A t \in Tasks : pemt /\ Runs(r.curr, t) /\ CpuOf[t] = c /\ r.counted[c] # {} =>
                          r.counted[c] = {t} /\ r.avg.seTime[t] < Clock(t)
  PROVE  IInv'
  <1>1. /\ curr' = r.curr /\ counted' = r.counted /\ prev' = r.prev /\ avg' = r.avg /\ exec' = r.exec
        /\ r \in VType
    BY DEF Becomes, Moves
  <1>2. /\ curr' \in [Rqs -> Ses \cup {None}] /\ counted' \in [Cpus -> Cycles] /\ prev' \in [Cpus -> BOOLEAN]
        /\ avg' \in AvgType /\ exec' \in ExecType
        /\ avg'.se \in [Ses -> Cycles] /\ avg'.rq \in [Rqs -> Cycles]
    BY <1>1, VFields
  <1>3. /\ clock' = clock /\ lag' = lag /\ pemt' = pemt /\ module' = module /\ cycle' = cycle
        /\ total' = total /\ governor' = governor /\ raced' = raced
    BY DEF Rest
  <1>4. TypeOK'
    BY <1>1, <1>2, <1>3 DEF IInv, TypeOK, Cycles, ExecType
  <1>5. clock' \in [Cpus -> Int]
    BY <1>3 DEF IInv
  <1>6. \A q \in Rqs : q[2] # c => curr'[q] = curr[q]
    BY <1>1, NowFacts DEF Moves
  <1>7. \A c2 \in Cpus : c2 # c => (Idles(curr', c2) <=> Idles(curr, c2))
    BY <1>6 DEF Idles
  <1>8. \A t \in Tasks : CpuOf[t] # c => (Runs(curr', t) <=> Runs(curr, t))
    BY <1>6 DEF Runs
  <1>9. HierarchyInv'
    <2> SUFFICES ASSUME NEW c2 \in Cpus
                 PROVE  Idles(curr', c2) \/ \E t \in queued' : CpuOf[t] = c2 /\ Runs(curr', t)
      BY DEF HierarchyInv, Idles, Runs, On, cfs_rq_of, RootRq
    <2>1. CASE c2 = c
      BY <1>1, <2>1
    <2>2. CASE c2 # c
      <3>1. CASE Idles(curr, c2)
        BY <1>7, <2>2, <3>1
      <3>2. CASE ~Idles(curr, c2)
        <4>1. PICK t \in queued : CpuOf[t] = c2 /\ Runs(curr, t)
          BY <3>2 DEF IInv, HierarchyInv
        <4>2. t \in Tasks /\ t \in queued'
          BY <2>2, <4>1 DEF IInv, TypeOK
        <4> QED BY <1>8, <2>2, <4>1, <4>2
      <3> QED BY <3>1, <3>2
    <2> QED BY <2>1, <2>2
  <1>10. ModuleInv'
    <2>1. pemt' <=> module'.pc = "in"
      BY <1>3 DEF IInv, ModuleInv
    <2>2. ~pemt => counted' = counted /\ prev' = prev
      BY <1>1, NowFacts DEF Moves
    <2> QED BY <1>3, <2>1, <2>2 DEF IInv, ModuleInv, Silent
  <1>11. \A e \in Ses : Clock(e)' = Clock(e) /\ cfs_rq_clock_task(cfs_rq_of(e))' = Clock(e)
    BY <1>3 DEF Clock, cfs_rq_clock_task, cfs_rq_of, CpuOfRq
  <1>12. ClockInv'
    <2> SUFFICES ASSUME NEW e \in Ses PROVE avg'.seTime[e] <= Clock(e)
      BY <1>11 DEF ClockInv
    <2>1. avg'.seTime[e] = avg.seTime[e] \/ avg'.seTime[e] = Clock(e)
      BY <1>1, NowFacts DEF Moves
    <2>2. avg.seTime[e] <= Clock(e) /\ Clock(e) \in Int
      BY ClockInt DEF IInv, ClockInv, Clock
    <2> QED BY <2>1, <2>2
  <1>13. \A c2 \in Cpus : Running(c2)' = RunningIn(curr', c2)
    BY DEF Running, RunningIn, RootRq
  <1>14. CountersInv'
    <2> SUFFICES ASSUME ~remote', pemt, NEW c2 \in Cpus, NEW t \in Tasks, RunningIn(curr', c2) = t, counted'[c2] # {}
                 PROVE  counted'[c2] = {t} /\ avg'.seTime[t] < Clock(t)
      <3>1. \A u \in Tasks : cfs_rq_clock_task(cfs_rq_of(u))' = Clock(u)
        BY <1>11, RqFacts
      <3> QED BY <1>3, <1>13, <3>1 DEF CountersInv
    <2>1. t # None
      BY RqFacts
    <2>2. PICK u \in queued' : CpuOf[u] = c2 /\ Runs(curr', u)
      <3>1. ~Idles(curr', c2)
        BY <2>1, RunsRunning
      <3>2. HierarchyInv' => Idles(curr', c2) \/ \E u \in queued' : CpuOf[u] = c2 /\ Runs(curr', u)
        BY DEF HierarchyInv, Idles, Runs, On, cfs_rq_of, RootRq
      <3> QED BY <1>9, <3>1, <3>2
    <2>3. u = t /\ CpuOf[t] = c2 /\ Runs(curr', t)
      BY <2>2, RunsRunning
    <2>4. CASE c2 = c
      BY <1>1, <2>3, <2>4
    <2>5. CASE c2 # c
      <3>1. Runs(curr, t)
        BY <1>8, <2>3, <2>5
      <3>2. Running(c2) = t
        BY <2>3, <3>1, RunsRunning, RunningFacts
      <3>3. counted'[c2] = counted[c2]
        BY <1>1, <2>5, NowFacts DEF Moves
      <3>4. avg'.seTime[t] = avg.seTime[t]
        <4>1. t \in Ses /\ cfs_rq_of(t)[2] = c2
          BY <2>3, PathFacts
        <4> QED BY <1>1, <2>5, <4>1, NowFacts DEF Moves
      <3>5. counted[c2] = {t} /\ avg.seTime[t] < Clock(t)
        BY <3>2, <3>3 DEF IInv, CountersInv, Clock
      <3> QED BY <3>3, <3>4, <3>5
    <2> QED BY <2>4, <2>5
  <1>15. NoForeignCycles'
    <2> SUFFICES ASSUME ~remote'
                 PROVE  /\ \A t \in Tasks : avg'.se[t] \subseteq {t}
                        /\ \A g \in Ges : avg'.se[g] \cup avg'.rq[g] \subseteq {t \in Tasks : cfs_rq_of(t) = g}
                        /\ \A d \in Cpus : avg'.rq[RootRq(d)] \subseteq {t \in Tasks : CpuOf[t] = d}
      BY DEF NoForeignCycles, cfs_rq_of, RootRq
    <2>1. Clean(r)
      OBVIOUS
    <2> QED BY <1>1, <2>1, CleanFacts
  <1> QED BY <1>2, <1>4, <1>5, <1>9, <1>10, <1>12, <1>14, <1>15 DEF IInv

\* The ticks of the running task.
LEMMA TickStep ==
  ASSUME IInv, NEW c \in Cpus, Tick(c)
  PROVE  IInv'
  <1> DEFINE t == Running(c)
             r == UpdatePath(Now, t, c)
  <1>1. Becomes(r) /\ Rest /\ queued' = queued /\ remote' = remote /\ t # None
    BY DEF Tick
  <1>2. t \in Tasks /\ t \in queued /\ CpuOf[t] = c /\ Runs(curr, t)
    BY <1>1, RunningFacts
  <1>3. ~remote => Due(Now, t, c)
    BY <1>1, RunnerDue
  <1> HIDE DEF t
  <1>4. PathUpdated(Now, r, t, c)
    BY <1>2, NowFacts, UpdatePathFacts
  <1> HIDE DEF r
  <1>5. Moves(Now, r, c, c) /\ r.curr = curr
    BY <1>2, <1>4, NowFacts DEF PathUpdated
  <1>6. ~remote => Clean(r) /\ Fresh(r, c)
    BY <1>3, <1>4, NowFacts DEF PathUpdated
  <1>7. queued' \subseteq Tasks /\ remote' \in BOOLEAN /\ \A u \in queued : u \in queued'
    BY <1>1 DEF IInv, TypeOK
  <1>8. \E u \in queued' : CpuOf[u] = c /\ Runs(r.curr, u)
    BY <1>1, <1>2, <1>5
  <1>9. ~remote' => ~remote /\ Clean(r) /\ \A u \in Tasks :
          pemt /\ Runs(r.curr, u) /\ CpuOf[u] = c /\ r.counted[c] # {} => r.counted[c] = {u} /\ r.avg.seTime[u] < Clock(u)
    BY <1>1, <1>6 DEF Fresh
  <1> QED BY <1>1, <1>5, <1>7, <1>8, <1>9, HandlerStep

\* A wakeup updates the path of a task that does not run.
LEMMA WakeStep ==
  ASSUME IInv, NEW t \in Tasks, Wake(t)
  PROVE  IInv'
  <1> DEFINE c == CpuOf[t]
             r == UpdatePath(Now, t, c)
  <1>1. Becomes(r) /\ Rest /\ queued' = queued \cup {t} /\ remote' = remote /\ t \notin queued /\ Running(c) # t
    BY DEF Wake
  <1>2. c \in Cpus /\ t # None
    BY PathFacts, RqFacts
  <1>3. PathUpdated(Now, r, t, c)
    BY <1>2, NowFacts, UpdatePathFacts
  <1> HIDE DEF r
  <1>4. Moves(Now, r, c, c) /\ r.curr = curr
    BY <1>3, NowFacts DEF PathUpdated
  <1>5. curr[cfs_rq_of(t)] # t
    <2>1. cfs_rq_of(t) \in Rqs /\ cfs_rq_of(t)[2] = c
      BY PathFacts
    <2>2. CASE Idles(curr, c)
      BY <1>2, <2>1, <2>2 DEF Idles
    <2>3. CASE ~Idles(curr, c)
      <3>1. Running(c) \in Tasks /\ CpuOf[Running(c)] = c /\ Runs(curr, Running(c))
        BY <1>2, <2>3, RunningFacts
      <3> QED BY <1>1, <2>1, <3>1, RunsRunning
    <2> QED BY <2>2, <2>3
  <1>6. ~remote => Clean(r)
    BY <1>3, <1>5, NowFacts DEF PathUpdated
  <1>7. queued' \subseteq Tasks /\ remote' \in BOOLEAN /\ \A u \in queued : u \in queued'
    BY <1>1 DEF IInv, TypeOK
  <1>8. Idles(r.curr, c) \/ \E u \in queued' : CpuOf[u] = c /\ Runs(r.curr, u)
    BY <1>2, <1>4, <1>7 DEF IInv, HierarchyInv
  <1>9. ASSUME ~remote, NEW u \in Tasks, pemt, Runs(r.curr, u), CpuOf[u] = c, r.counted[c] # {}
        PROVE  r.counted[c] = {u} /\ r.avg.seTime[u] < Clock(u)
    <2>1. Running(c) = u
      BY <1>2, <1>4, <1>9, RunsRunning, RunningFacts, SMTT(60)
    <2>2. u # t /\ (Grouped(t) => u # cfs_rq_of(t)) /\ u \in Ses
      BY <1>1, <2>1, RqFacts DEF Grouped
    <2>3. r.avg.seTime[u] = avg.seTime[u] /\ r.counted = counted
      BY <1>3, <1>5, <2>2, NowFacts DEF PathUpdated
    <2>4. counted[c] = {u} /\ avg.seTime[u] < Clock(u)
      BY <1>2, <1>9, <2>1, <2>3 DEF IInv, CountersInv, Clock
    <2> QED BY <2>3, <2>4
  <1>10. ~remote' => ~remote /\ Clean(r) /\ \A u \in Tasks :
           pemt /\ Runs(r.curr, u) /\ CpuOf[u] = c /\ r.counted[c] # {} => r.counted[c] = {u} /\ r.avg.seTime[u] < Clock(u)
    BY <1>1, <1>6, <1>9
  <1> HIDE DEF c
  <1> QED BY <1>1, <1>2, <1>4, <1>7, <1>8, <1>10, HandlerStep

\* Another CPU updates the path of a running task.
LEMMA RemoteStep ==
  ASSUME IInv, NEW t \in Tasks, NEW me \in Cpus, RemoteUpdate(me, t)
  PROVE  IInv'
  <1> DEFINE c == CpuOf[t]
             r == UpdatePath(Now, t, me)
  <1>1. Becomes(r) /\ Rest /\ queued' = queued /\ remote' = TRUE
    BY DEF RemoteUpdate
  <1>2. c \in Cpus
    BY PathFacts
  <1>3. PathUpdated(Now, r, t, me)
    BY NowFacts, UpdatePathFacts
  <1> HIDE DEF r
  <1>4. Moves(Now, r, c, me) /\ r.curr = curr
    BY <1>3, NowFacts DEF PathUpdated
  <1>5. queued' \subseteq Tasks /\ remote' \in BOOLEAN /\ \A u \in queued : u \in queued'
    BY <1>1 DEF IInv, TypeOK
  <1>6. Idles(r.curr, c) \/ \E u \in queued' : CpuOf[u] = c /\ Runs(r.curr, u)
    BY <1>1, <1>2, <1>4 DEF IInv, HierarchyInv
  <1> HIDE DEF c
  <1> QED BY <1>1, <1>2, <1>4, <1>5, <1>6, HandlerStep

\* What __schedule has done before the next task is picked.
LEMMA DeactivateFacts ==
  ASSUME IInv, NEW c \in Cpus, NEW sleeps \in BOOLEAN, Deactivate(c, sleeps)
  PROVE  LET v == Deactivated(c, sleeps)
         IN  /\ Moves(Now, v, c, c) /\ v.curr = curr /\ Linked(v)
             /\ ~remote => Clean(v) /\ (sleeps => Fresh(v, c)) /\ (Running(c) # None => Due(v, Running(c), c))
             /\ queued' \subseteq Tasks /\ (\A t \in queued : CpuOf[t] # c => t \in queued')
             /\ remote' = remote /\ remote \in BOOLEAN /\ Rest
             /\ ~sleeps => queued' = queued
  <1> DEFINE v == Deactivated(c, sleeps)
             p == Running(c)
             w == UpdatePath(Now, p, c)
  <1>1. /\ queued' = IF sleeps THEN queued \ {p} ELSE queued
        /\ remote' = remote /\ Rest /\ (sleeps => p # None)
    BY DEF Deactivate
  <1>2. v = IF sleeps THEN w ELSE Now
    BY DEF Deactivated
  <1>3. p # None => p \in Tasks /\ CpuOf[p] = c /\ Runs(curr, p)
    BY RunningFacts
  <1>4. p # None /\ ~remote => Due(Now, p, c)
    BY RunnerDue
  <1> HIDE DEF v, p
  <1>5. queued' \subseteq Tasks /\ (\A t \in queued : CpuOf[t] # c => t \in queued') /\ remote \in BOOLEAN
    BY <1>1, <1>3 DEF IInv, TypeOK
  <1>6. CASE sleeps
    <2>1. PathUpdated(Now, w, p, c)
      BY <1>1, <1>3, <1>6, NowFacts, UpdatePathFacts
    <2> HIDE DEF w
    <2>2. v = w
      BY <1>2, <1>6
    <2>3. Moves(Now, v, c, c) /\ v.curr = curr
      BY <1>1, <1>3, <1>6, <2>1, <2>2, NowFacts DEF PathUpdated
    <2>4. Linked(v)
      BY <2>3, NowFacts DEF Moves
    <2>5. ~remote => Clean(v) /\ Fresh(v, c)
      BY <1>1, <1>4, <1>6, <2>1, <2>2, NowFacts DEF PathUpdated
    <2>6. Fresh(v, c) => Due(v, p, c)
      BY DEF Fresh, Due
    <2> QED BY <1>1, <1>5, <1>6, <2>3, <2>4, <2>5, <2>6 DEF v, p
  <1>7. CASE ~sleeps
    <2>1. v = Now
      BY <1>2, <1>7
    <2>2. Moves(Now, v, c, c)
      BY <2>1, NowFacts, MovesRefl
    <2> HIDE DEF w
    <2> QED BY <1>1, <1>4, <1>5, <1>7, <2>1, <2>2, NowFacts DEF v, p
  <1> QED BY <1>6, <1>7

\* pkshin_pmu_update.
LEMMA RestartFacts ==
  ASSUME NEW v \in VType, NEW c, NEW me \in Cpus
  PROVE  LET r == pkshin_pmu_update(v, me)
         IN  Moves(v, r, c, me) /\ r.curr = v.curr /\ r.avg = v.avg /\ Fresh(r, me)
  <1> DEFINE w == [v EXCEPT !.counted[me] = {}, !.prev[me] = TRUE]
             r == pkshin_pmu_update(v, me)
  <1>1. r = IF pemt THEN w ELSE v
    BY DEF pkshin_pmu_update
  <1>2. /\ w \in VType /\ w.curr = v.curr /\ w.avg = v.avg
        /\ w.counted = [v.counted EXCEPT ![me] = {}]
    BY Restart
  <1> HIDE DEF w, r
  <1>3. w.counted[me] = {} /\ \A c2 \in Cpus : c2 # me => w.counted[c2] = v.counted[c2]
    BY <1>2, VFields
  <1>4. /\ r \in VType /\ r.curr = v.curr /\ r.avg = v.avg /\ (~pemt => r = v)
        /\ \A c2 \in Cpus : c2 # me => r.counted[c2] = v.counted[c2]
        /\ r.counted[me] = v.counted[me] \/ r.counted[me] = {}
        /\ pemt => r.counted[me] = {}
    BY <1>1, <1>2, <1>3
  <1>5. (Linked(v) => Linked(r)) /\ (Clean(v) => Clean(r))
    BY <1>4 DEF Linked, Clean
  <1> QED BY <1>4, <1>5 DEF Moves, Fresh, r

\* A fair task is picked.
LEMMA PickFairStep ==
  ASSUME IInv, NEW c \in Cpus, NEW sleeps \in BOOLEAN, NEW t \in Tasks, PickFair(c, sleeps, t)
  PROVE  IInv'
  <1> DEFINE p == Running(c)
             u == Deactivated(c, sleeps)
             v == pkshin_pmu_update(u, c)
             r == IF p = None THEN SetAll(v, t, c) ELSE Switch(v, p, t, c)
  <1>1. Deactivate(c, sleeps) /\ t \in queued' /\ CpuOf[t] = c /\ Becomes(r)
    BY DEF PickFair
  <1>2. /\ Moves(Now, u, c, c) /\ u.curr = curr /\ Linked(u)
        /\ ~remote => Clean(u)
        /\ queued' \subseteq Tasks /\ (\A x \in queued : CpuOf[x] # c => x \in queued')
        /\ remote' = remote /\ remote \in BOOLEAN /\ Rest
    BY <1>1, DeactivateFacts, Zenon
  <1>3. p = None => Idles(curr, c)
    BY RunningFacts
  <1>4. p # None => p \in Tasks /\ CpuOf[p] = c /\ Runs(curr, p)
    BY RunningFacts
  <1> HIDE DEF u, p
  <1>5. u \in VType
    BY <1>2 DEF Moves
  <1>6. Moves(u, v, c, c) /\ v.curr = curr /\ v.avg = u.avg /\ Fresh(v, c)
    BY <1>2, <1>5, RestartFacts
  <1> HIDE DEF v
  <1>7. v \in VType /\ Linked(v) /\ (~remote => Clean(v))
    BY <1>2, <1>6 DEF Moves, Clean
  <1>8. Moves(v, r, c, c) /\ Runs(r.curr, t)
    <2>1. CASE p = None
      <3>1. r = SetAll(v, t, c)
        BY <2>1
      <3> QED BY <1>1, <1>3, <1>6, <1>7, <2>1, <3>1, SetAllFacts
    <2>2. CASE p # None
      <3>1. r = Switch(v, p, t, c)
        BY <2>2
      <3> QED BY <1>1, <1>4, <1>6, <1>7, <2>2, <3>1, SwitchFacts
    <2> QED BY <2>1, <2>2
  <1> HIDE DEF r
  <1>9. Moves(Now, r, c, c)
    <2>1. Moves(Now, v, c, c)
      BY <1>2, <1>6, MovesTrans
    <2> QED BY <1>8, <2>1, MovesTrans
  <1>10. ~remote => Clean(r) /\ Fresh(r, c)
    BY <1>6, <1>7, <1>8 DEF Moves, Fresh
  <1>11. \E x \in queued' : CpuOf[x] = c /\ Runs(r.curr, x)
    BY <1>1, <1>8
  <1>12. ~remote' => ~remote /\ Clean(r) /\ \A x \in Tasks :
           pemt /\ Runs(r.curr, x) /\ CpuOf[x] = c /\ r.counted[c] # {} => r.counted[c] = {x} /\ r.avg.seTime[x] < Clock(x)
    BY <1>2, <1>10 DEF Fresh
  <1> QED BY <1>1, <1>2, <1>9, <1>11, <1>12, HandlerStep

\* No task of a CPU runs once its pointers are none.
LEMMA IdleCounts ==
  ASSUME NEW r, NEW c \in Cpus, Idles(r.curr, c)
  PROVE  \A x \in Tasks : ~(Runs(r.curr, x) /\ CpuOf[x] = c)
  BY RunsRunning

\* The idle task puts the task that ran.
LEMMA PickIdleStep ==
  ASSUME IInv, NEW c \in Cpus, NEW sleeps \in BOOLEAN, PickIdle(c, sleeps)
  PROVE  IInv'
  <1> DEFINE p == Running(c)
             u == Deactivated(c, sleeps)
             v == pkshin_pmu_update(u, c)
             r == PutAll(v, p, c)
  <1>1. Deactivate(c, sleeps) /\ p # None /\ Becomes(r)
    BY DEF PickIdle
  <1>2. /\ Moves(Now, u, c, c) /\ u.curr = curr /\ Linked(u)
        /\ ~remote => Clean(u)
        /\ queued' \subseteq Tasks /\ (\A x \in queued : CpuOf[x] # c => x \in queued')
        /\ remote' = remote /\ remote \in BOOLEAN /\ Rest
    BY <1>1, DeactivateFacts, Zenon
  <1>3. p \in Tasks /\ CpuOf[p] = c /\ Runs(curr, p)
    BY <1>1, RunningFacts
  <1> HIDE DEF u, p
  <1>4. u \in VType
    BY <1>2 DEF Moves
  <1>5. Moves(u, v, c, c) /\ v.curr = curr /\ v.avg = u.avg /\ Fresh(v, c)
    BY <1>2, <1>4, RestartFacts
  <1> HIDE DEF v
  <1>6. v \in VType /\ Linked(v) /\ (~remote => Clean(v))
    BY <1>2, <1>5 DEF Moves, Clean
  <1>7. Moves(v, r, c, c) /\ Idles(r.curr, c)
    BY <1>3, <1>5, <1>6, PutAllFacts
  <1> HIDE DEF r
  <1>8. Moves(Now, r, c, c)
    <2>1. Moves(Now, v, c, c)
      BY <1>2, <1>5, MovesTrans
    <2> QED BY <1>7, <2>1, MovesTrans
  <1>9. ~remote => Clean(r)
    BY <1>5, <1>6, <1>7 DEF Moves
  <1>10. ~remote' => ~remote /\ Clean(r) /\ \A x \in Tasks :
           pemt /\ Runs(r.curr, x) /\ CpuOf[x] = c /\ r.counted[c] # {} => r.counted[c] = {x} /\ r.avg.seTime[x] < Clock(x)
    BY <1>2, <1>7, <1>9, IdleCounts
  <1> QED BY <1>1, <1>2, <1>7, <1>8, <1>10, HandlerStep

\* A task of another class puts the task that ran, whose counters still run.
LEMMA PickOtherStep ==
  ASSUME IInv, NEW c \in Cpus, NEW sleeps \in BOOLEAN, PickOther(c, sleeps)
  PROVE  IInv'
  <1> DEFINE p == Running(c)
             v == Deactivated(c, sleeps)
             r == PutAll(v, p, c)
  <1>1. Deactivate(c, sleeps) /\ p # None /\ Becomes(r)
    BY DEF PickOther
  <1>2. /\ Moves(Now, v, c, c) /\ v.curr = curr /\ Linked(v)
        /\ ~remote => Clean(v) /\ (sleeps => Fresh(v, c)) /\ (p # None => Due(v, p, c))
        /\ queued' \subseteq Tasks /\ (\A x \in queued : CpuOf[x] # c => x \in queued')
        /\ remote' = remote /\ remote \in BOOLEAN /\ Rest
        /\ ~sleeps => queued' = queued
    BY <1>1, DeactivateFacts, Zenon
  <1>3. p \in Tasks /\ CpuOf[p] = c /\ Runs(curr, p) /\ p \in queued
    BY <1>1, RunningFacts
  <1>4. ~sleeps => on_rq(p)
    BY <1>2, <1>3 DEF on_rq
  <1> HIDE DEF v, p
  <1>5. v \in VType
    BY <1>2 DEF Moves
  <1>6. /\ Moves(v, r, c, c) /\ Idles(r.curr, c)
        /\ Linked(v) /\ Clean(v) /\ (Fresh(v, c) \/ (on_rq(p) /\ Due(v, p, c))) => Clean(r)
    BY <1>2, <1>3, <1>5, PutAllFacts
  <1> HIDE DEF r
  <1>7. Moves(Now, r, c, c)
    BY <1>2, <1>6, MovesTrans
  <1>8. ~remote => Clean(r)
    BY <1>1, <1>2, <1>4, <1>6
  <1>9. ~remote' => ~remote /\ Clean(r) /\ \A x \in Tasks :
          pemt /\ Runs(r.curr, x) /\ CpuOf[x] = c /\ r.counted[c] # {} => r.counted[c] = {x} /\ r.avg.seTime[x] < Clock(x)
    BY <1>2, <1>6, <1>8, IdleCounts
  <1> QED BY <1>1, <1>2, <1>6, <1>7, <1>9, HandlerStep

-----------------------------------------------------------------------------
(***************************************************************************)
(* Time, the governor and the modules.                                     *)
(***************************************************************************)
\* The curr pointers depend on no clock, counter or average.
LEMMA HierarchyKept ==
  ASSUME HierarchyInv, curr' = curr, queued' = queued
  PROVE  HierarchyInv'
  <1> SUFFICES ASSUME NEW c \in Cpus
               PROVE  Idles(curr', c) \/ \E t \in queued' : CpuOf[t] = c /\ Runs(curr', t)
    BY DEF HierarchyInv, Idles, Runs, On, cfs_rq_of, RootRq
  <1>1. Idles(curr, c) \/ \E t \in queued : CpuOf[t] = c /\ Runs(curr, t)
    BY DEF HierarchyInv
  <1> QED BY <1>1

\* Time passes: who runs is counted, and the clock of a throttled group stands still.
LEMMA RunStep ==
  ASSUME IInv, NEW c \in Cpus, Run(c)
  PROVE  IInv'
  <1> DEFINE t == Running(c)
  <1>1. /\ clock[c] < MaxTime[c] /\ clock' = [clock EXCEPT ![c] = @ + 1]
        /\ counted' = [counted EXCEPT ![c] = IF prev[c] THEN @ \cup {t} ELSE @]
        /\ UNCHANGED <<queued, curr, prev, avg, pemt, module, cycle, exec, total, governor, remote, raced>>
    BY DEF Run
  <1>2. PICK throttled \in SUBSET {g \in Ges : g[2] = c /\ curr[g] = None /\ lag[g] < MaxLag} :
          lag' = [g \in Ges |-> IF g \in throttled THEN lag[g] + 1 ELSE lag[g]]
    BY DEF Run
  <1>3. t = None \/ (t \in Tasks /\ CpuOf[t] = c /\ Runs(curr, t))
    BY RunningFacts
  <1> HIDE DEF t
  <1>4. /\ clock \in [Cpus -> Int] /\ lag \in [Ges -> 0 .. MaxLag] /\ MaxLag \in Nat
        /\ counted \in [Cpus -> Cycles] /\ (\A d \in Cpus : clock[d] \in 1 .. MaxTime[d])
        /\ MaxTime \in [Cpus -> Nat \ {0}]
    BY PemtAssumption DEF IInv, TypeOK, Cycles
  <1>5. lag' \in [Ges -> 0 .. MaxLag]
    BY <1>2, <1>4
  <1>6. clock' \in [Cpus -> Int] /\ \A d \in Cpus : clock'[d] \in 1 .. MaxTime[d]
    BY <1>1, <1>4
  <1>7. counted' \in [Cpus -> Cycles]
    <2>1. \A x \in Cycles : x \cup {t} \in Cycles
      BY <1>3 DEF Cycles
    <2> QED BY <1>1, <1>4, <2>1
  <1>8. TypeOK'
    BY <1>1, <1>5, <1>6, <1>7 DEF IInv, TypeOK, Cycles
  <1>9. HierarchyInv'
    BY <1>1, HierarchyKept DEF IInv
  <1>10. ModuleInv'
    <2>1. \A d \in Cpus : Silent(d) => Silent(d)'
      BY <1>1, <1>4 DEF Silent
    <2> QED BY <1>1, <2>1 DEF IInv, ModuleInv
  <1>11. ASSUME NEW q \in Rqs
         PROVE  /\ cfs_rq_clock_task(q)' \in Int /\ cfs_rq_clock_task(q)' >= cfs_rq_clock_task(q)
                /\ q[2] = c /\ curr[q] # None => cfs_rq_clock_task(q)' = cfs_rq_clock_task(q) + 1
    <2>1. q[2] \in Cpus
      BY RqFacts
    <2>2. /\ clock[q[2]] \in Int
          /\ clock'[q[2]] = IF q[2] = c THEN clock[q[2]] + 1 ELSE clock[q[2]]
      BY <1>1, <1>4, <2>1
    <2>3. CASE q \in Ges
      <3>1. lag[q] \in Int /\ (lag'[q] = lag[q] \/ (lag'[q] = lag[q] + 1 /\ q[2] = c /\ curr[q] = None))
        BY <1>2, <1>4, <2>3
      <3>2. /\ cfs_rq_clock_task(q) = clock[q[2]] - lag[q]
            /\ cfs_rq_clock_task(q)' = clock'[q[2]] - lag'[q]
        BY <2>3 DEF cfs_rq_clock_task, CpuOfRq
      <3> QED BY <2>2, <3>1, <3>2
    <2>4. CASE q \notin Ges
      <3>1. /\ cfs_rq_clock_task(q) = clock[q[2]]
            /\ cfs_rq_clock_task(q)' = clock'[q[2]]
        BY <2>2, <2>4 DEF cfs_rq_clock_task, CpuOfRq
      <3> QED BY <2>2, <3>1
    <2> QED BY <2>3, <2>4
  <1>12. \A e \in Ses : /\ cfs_rq_clock_task(cfs_rq_of(e))' >= Clock(e) /\ Clock(e) \in Int
                        /\ cfs_rq_clock_task(cfs_rq_of(e))' \in Int /\ avg.seTime[e] \in Int
                        /\ avg.seTime[e] <= Clock(e)
    <2>1. \A e \in Ses : cfs_rq_of(e) \in Rqs /\ Clock(e) \in Int
      BY EntityRq, ClockInt
    <2>2. \A e \in Ses : /\ cfs_rq_clock_task(cfs_rq_of(e))' >= Clock(e)
                         /\ cfs_rq_clock_task(cfs_rq_of(e))' \in Int
      BY <1>11, <2>1 DEF Clock, cfs_rq_of
    <2>3. \A e \in Ses : avg.seTime[e] \in Int /\ avg.seTime[e] <= Clock(e)
      BY NowFacts, VFields DEF IInv, ClockInv, Clock
    <2> QED BY <2>1, <2>2, <2>3
  <1>13. ClockInv'
    <2> SUFFICES ASSUME NEW e \in Ses PROVE avg.seTime[e] <= cfs_rq_clock_task(cfs_rq_of(e))'
      BY <1>1 DEF ClockInv
    <2> QED BY <1>12
  <1>14. CountersInv'
    <2> SUFFICES ASSUME ~remote, pemt, NEW d \in Cpus, NEW u \in Tasks, Running(d) = u, counted'[d] # {}
                 PROVE  counted'[d] = {u} /\ avg.seTime[u] < cfs_rq_clock_task(cfs_rq_of(u))'
      BY <1>1 DEF CountersInv, Running, RootRq
    <2>1. u # None /\ u \in Ses
      BY RqFacts
    <2>2. counted[d] # {} => counted[d] = {u} /\ avg.seTime[u] < Clock(u)
      BY DEF IInv, CountersInv, Clock
    <2>3. CASE counted'[d] = counted[d]
      BY <1>12, <2>1, <2>2, <2>3
    <2>4. CASE counted'[d] # counted[d]
      <3>1. d = c /\ counted'[d] = counted[d] \cup {t} /\ t = u
        BY <1>1, <1>4, <2>4 DEF t
      <3>2. counted'[d] = {u}
        BY <2>2, <3>1
      <3>3. cfs_rq_of(u) \in Rqs /\ cfs_rq_of(u)[2] = c /\ curr[cfs_rq_of(u)] = u
        BY <1>3, <2>1, <3>1, PathFacts, RunsRunning
      <3>4. cfs_rq_clock_task(cfs_rq_of(u))' = Clock(u) + 1
        BY <1>11, <2>1, <3>3 DEF Clock
      <3> QED BY <1>12, <2>1, <3>2, <3>4
    <2> QED BY <2>3, <2>4
  <1>15. NoForeignCycles'
    BY <1>1 DEF IInv, NoForeignCycles, cfs_rq_of, RootRq
  <1> QED BY <1>1, <1>6, <1>8, <1>9, <1>10, <1>13, <1>14, <1>15 DEF IInv

\* A step that leaves the averages and the counters alone.
LEMMA QuietStep ==
  ASSUME IInv, UNCHANGED <<clock, lag, queued, curr, counted, prev, avg, pemt, module, remote>>,
         TypeOK', exec' \in ExecType
  PROVE  IInv'
  <1>1. HierarchyInv'
    BY HierarchyKept DEF IInv
  <1>2. ModuleInv'
    BY DEF IInv, ModuleInv, Silent
  <1>3. \A e \in Ses : cfs_rq_clock_task(cfs_rq_of(e))' = cfs_rq_clock_task(cfs_rq_of(e))
    BY DEF cfs_rq_clock_task, cfs_rq_of, CpuOfRq
  <1>4. ClockInv'
    BY <1>3 DEF IInv, ClockInv
  <1>5. CountersInv'
    <2>1. \A t \in Tasks : t \in Ses
      BY RqFacts
    <2> QED BY <1>3, <2>1 DEF IInv, CountersInv, Running, RootRq
  <1>6. NoForeignCycles'
    BY DEF IInv, NoForeignCycles, cfs_rq_of, RootRq
  <1> QED BY <1>1, <1>2, <1>4, <1>5, <1>6 DEF IInv

\* The governor clears the execution time.
LEMMA ClearFacts ==
  ASSUME IInv, NEW now \in 0 .. MaxTime[WorkCore], Clear(now)
  PROVE  exec' \in ExecType /\ total' \in 0 .. TimeMod - 1
  <1>1. exec \in ExecType /\ total \in 0 .. TimeMod - 1 /\ TimeMod \in Nat \ {0}
    BY PemtAssumption DEF IInv, TypeOK
  <1>2. MaxTime[WorkCore] \in Nat /\ SpanMod \in Nat \ {0}
    BY PemtAssumption
  <1>3. exec.time \in Int /\ exec.clear \in Int /\ total \in Int
    BY <1>1, <1>2 DEF ExecType
  <1> DEFINE interval == (now - exec.clear) % SpanMod
             idle     == IF interval > exec.time THEN interval - exec.time ELSE 0
  <1>4. CASE interval = 0
    BY <1>1, <1>4 DEF Clear
  <1>5. CASE interval # 0
    <2>1. total' = (total + idle + exec.time) % TimeMod /\ exec' = [exec EXCEPT !.time = 0, !.clear = now]
      BY <1>5 DEF Clear
    <2>2. idle \in Int
      BY <1>1, <1>2, <1>3
    <2>3. total' \in 0 .. TimeMod - 1
      <3> HIDE DEF idle
      <3> QED BY <1>1, <1>3, <2>1, <2>2
    <2>4. exec' \in ExecType
      <3>1. 0 \in 0 .. TimeMod - 1
        BY <1>1
      <3> QED BY <1>1, <2>1, <3>1 DEF ExecType
    <2> QED BY <2>3, <2>4
  <1> QED BY <1>4, <1>5

\* The steps of the governor, of the sums and of the cycle module.
LEMMA GovernorStep ==
  ASSUME IInv, StoreExec \/ Govern \/ GovernRead \/ GovernClear \/ ClearSums \/ CycleModule
  PROVE  IInv'
  <1>1. UNCHANGED <<clock, lag, queued, curr, counted, prev, avg, pemt, module, remote>>
    BY DEF StoreExec, Govern, GovernRead, GovernClear, ClearSums, CycleModule, Unsampled
  <1>2. /\ exec \in ExecType /\ total \in 0 .. TimeMod - 1 /\ governor \in (1 .. MaxTime[WorkCore]) \cup {None}
        /\ cycle \in BOOLEAN /\ raced \in BOOLEAN /\ clock[WorkCore] \in 1 .. MaxTime[WorkCore]
        /\ MaxTime[WorkCore] \in Nat /\ TimeMod \in Nat \ {0}
    BY PemtAssumption DEF IInv, TypeOK
  <1>3. SUFFICES /\ exec' \in ExecType /\ total' \in 0 .. TimeMod - 1
                 /\ governor' \in (1 .. MaxTime[WorkCore]) \cup {None} /\ cycle' \in BOOLEAN /\ raced' \in BOOLEAN
    <2> SUFFICES TypeOK' /\ exec' \in ExecType
      BY <1>1, QuietStep
    <2> QED BY <1>1, <1>3 DEF IInv, TypeOK, ExecType
  <1>4. CASE StoreExec
    <2>1. /\ exec.store # -1 /\ exec' = [exec EXCEPT !.time = exec.store, !.store = -1]
          /\ raced' \in BOOLEAN /\ UNCHANGED <<cycle, total, governor>>
      BY <1>4 DEF StoreExec
    <2>2. exec.store \in 0 .. TimeMod - 1 /\ -1 \in -1 .. TimeMod - 1
      BY <1>2, <2>1 DEF ExecType
    <2> QED BY <1>2, <2>1, <2>2 DEF ExecType
  <1>5. CASE Govern
    <2>1. Clear(clock[WorkCore]) /\ UNCHANGED <<cycle, governor, raced>>
      BY <1>5 DEF Govern
    <2>2. clock[WorkCore] \in 0 .. MaxTime[WorkCore]
      BY <1>2
    <2> QED BY <1>2, <2>1, <2>2, ClearFacts
  <1>6. CASE GovernRead
    BY <1>2, <1>6 DEF GovernRead
  <1>7. CASE GovernClear
    <2>1. Clear(governor) /\ governor' = None /\ raced' \in BOOLEAN /\ UNCHANGED cycle /\ governor # None
      BY <1>7 DEF GovernClear
    <2>2. governor \in 0 .. MaxTime[WorkCore]
      BY <1>2, <2>1
    <2> QED BY <1>2, <2>1, <2>2, ClearFacts
  <1>8. CASE ClearSums
    <2>1. 0 \in 0 .. TimeMod - 1
      BY <1>2
    <2> QED BY <1>2, <1>8, <2>1 DEF ClearSums
  <1>9. CASE CycleModule
    BY <1>2, <1>9 DEF CycleModule
  <1> QED BY <1>4, <1>5, <1>6, <1>7, <1>8, <1>9

\* The steps of the pemt module.
LEMMA ModuleStep ==
  ASSUME IInv, pkshin_init \/ pkshin_exit \/ (\E c \in Cpus : Ipi(c)) \/ Loaded \/ Removed
  PROVE  IInv'
  <1>1. UNCHANGED <<clock, lag, queued, curr, avg, cycle, exec, total, governor, remote, raced>>
    BY DEF pkshin_init, pkshin_exit, Ipi, Loaded, Removed, Loader
  <1>2. /\ counted \in [Cpus -> Cycles] /\ prev \in [Cpus -> BOOLEAN] /\ pemt \in BOOLEAN
        /\ module \in [pc : {"out", "init", "in", "exit"}, ipi : SUBSET Cpus]
    BY DEF IInv, TypeOK, Cycles
  <1>3. /\ pemt <=> module.pc = "in"
        /\ module.pc \in {"out", "init"} => \A c \in Cpus : Silent(c)
        /\ module.pc = "exit" => \A c \in Cpus \ module.ipi : Silent(c)
    BY DEF IInv, ModuleInv
  <1>4. \A d \in Cpus : Running(d)' = Running(d)
    BY <1>1 DEF Running, RootRq
  <1>5. CountersInv
    BY DEF IInv
  <1>6. SUFFICES /\ counted' \in [Cpus -> Cycles] /\ prev' \in [Cpus -> BOOLEAN] /\ pemt' \in BOOLEAN
                 /\ module' \in [pc : {"out", "init", "in", "exit"}, ipi : SUBSET Cpus]
                 /\ pemt' <=> module'.pc = "in"
                 /\ module'.pc \in {"out", "init"} => \A c \in Cpus : ~prev'[c] /\ counted'[c] = {}
                 /\ module'.pc = "exit" => \A c \in Cpus \ module'.ipi : ~prev'[c] /\ counted'[c] = {}
                 /\ pemt' => \A c \in Cpus : counted'[c] = {} \/ (pemt /\ counted'[c] = counted[c])
    <2>1. TypeOK'
      BY <1>1, <1>6 DEF IInv, TypeOK, Cycles
    <2>2. ModuleInv'
      BY <1>6 DEF ModuleInv, Silent
    <2>3. HierarchyInv'
      BY <1>1, HierarchyKept DEF IInv
    <2>4. \A e \in Ses : cfs_rq_clock_task(cfs_rq_of(e))' = cfs_rq_clock_task(cfs_rq_of(e))
      BY <1>1 DEF cfs_rq_clock_task, cfs_rq_of, CpuOfRq
    <2>5. ClockInv'
      BY <1>1, <2>4 DEF IInv, ClockInv
    <2>6. CountersInv'
      <3> SUFFICES ASSUME ~remote, pemt', NEW d \in Cpus, NEW u \in Tasks, Running(d) = u, counted'[d] # {}
                   PROVE  counted'[d] = {u} /\ avg.seTime[u] < cfs_rq_clock_task(cfs_rq_of(u))'
        BY <1>1, <1>4 DEF CountersInv
      <3>1. pemt /\ counted'[d] = counted[d] /\ u \in Ses
        BY <1>6, RqFacts
      <3>2. counted[d] = {u} /\ avg.seTime[u] < cfs_rq_clock_task(cfs_rq_of(u))
        BY <1>5, <3>1 DEF CountersInv
      <3> QED BY <2>4, <3>1, <3>2
    <2>7. NoForeignCycles'
      BY <1>1 DEF IInv, NoForeignCycles, cfs_rq_of, RootRq
    <2> QED BY <1>1, <2>1, <2>2, <2>3, <2>5, <2>6, <2>7 DEF IInv
  <1>7. CASE pkshin_init
    BY <1>2, <1>3, <1>7 DEF pkshin_init, Loading, Silent
  <1>8. CASE pkshin_exit
    BY <1>2, <1>3, <1>8 DEF pkshin_exit, Loading, Silent
  <1>9. CASE \E c \in Cpus : Ipi(c)
    <2>1. PICK c \in Cpus : Ipi(c)
      BY <1>9
    <2>2. /\ module' = [pc |-> module.pc, ipi |-> module.ipi \ {c}] /\ pemt' = pemt
          /\ prev' = [prev EXCEPT ![c] = FALSE] /\ counted' = [counted EXCEPT ![c] = {}]
      BY <2>1 DEF Ipi, Loading
    <2>3. counted' \in [Cpus -> Cycles] /\ prev' \in [Cpus -> BOOLEAN]
      <3>1. {} \in Cycles
        BY DEF Cycles
      <3> QED BY <1>2, <2>2, <3>1
    <2>4. \A d \in Cpus : /\ d = c => ~prev'[d] /\ counted'[d] = {}
                          /\ d # c => prev'[d] = prev[d] /\ counted'[d] = counted[d]
      BY <1>2, <2>2
    <2> QED BY <1>2, <1>3, <2>2, <2>3, <2>4 DEF Silent
  <1>10. CASE Loaded
    BY <1>2, <1>3, <1>10 DEF Loaded, Loading, Silent
  <1>11. CASE Removed
    BY <1>2, <1>3, <1>11 DEF Removed, Loading, Silent
  <1> QED BY <1>7, <1>8, <1>9, <1>10, <1>11

-----------------------------------------------------------------------------
(***************************************************************************)
(* The invariant.                                                          *)
(***************************************************************************)
\* It holds when the model starts: nothing runs and nothing has been counted.
LEMMA InitIInv == Init => IInv
  <1> SUFFICES ASSUME Init PROVE IInv
    OBVIOUS
  <1>1. /\ TimeMod \in Nat \ {0} /\ MaxLag \in Nat /\ MaxTime \in [Cpus -> Nat \ {0}] /\ WorkCore \in Cpus
    BY PemtAssumption
  <1>2. {} \in Cycles /\ 0 \in 0 .. TimeMod - 1 /\ -1 \in -1 .. TimeMod - 1 /\ MaxTime[WorkCore] \in Nat
    BY <1>1 DEF Cycles
  <1>3. /\ clock = [c \in Cpus |-> 1] /\ lag = [g \in Ges |-> 0]
        /\ queued = Tasks /\ curr = [q \in Rqs |-> None]
        /\ pemt \in BOOLEAN /\ module = [pc |-> IF pemt THEN "in" ELSE "out", ipi |-> {}]
        /\ counted = [c \in Cpus |-> {}] /\ prev = [c \in Cpus |-> pemt]
        /\ avg = [se |-> [e \in Ses |-> {}], rq |-> [q \in Rqs |-> {}],
                  seTime |-> [e \in Ses |-> 1], rqTime |-> [q \in Rqs |-> 1]]
        /\ exec = [time |-> 0, clear |-> 0, store |-> -1]
    BY DEF Init
  <1>4. avg \in AvgType
    BY <1>2, <1>3 DEF AvgType
  <1>5. exec \in ExecType
    BY <1>2, <1>3 DEF ExecType
  <1>6. TypeOK
    <2>1. \A c \in Cpus : clock[c] \in 1 .. MaxTime[c]
      <3> SUFFICES ASSUME NEW c \in Cpus PROVE clock[c] \in 1 .. MaxTime[c]
        OBVIOUS
      <3>1. clock[c] = 1
        BY <1>3
      <3>2. MaxTime[c] \in Nat /\ MaxTime[c] # 0
        BY <1>1
      <3>3. 1 <= MaxTime[c]
        BY <3>2
      <3> QED BY <3>1, <3>2, <3>3
    <2>2. lag \in [Ges -> 0 .. MaxLag] /\ curr \in [Rqs -> Ses \cup {None}]
      BY <1>1, <1>3
    <2>3. counted \in [Cpus -> SUBSET (Tasks \cup {None})] /\ prev \in [Cpus -> BOOLEAN]
      BY <1>3
    <2>4. module \in [pc : {"out", "init", "in", "exit"}, ipi : SUBSET Cpus]
      BY <1>3
    <2>5. cycle \in BOOLEAN /\ total = 0 /\ governor = None /\ remote \in BOOLEAN /\ raced \in BOOLEAN
      BY DEF Init
    <2> QED BY <1>2, <1>3, <1>4, <1>5, <2>1, <2>2, <2>3, <2>4, <2>5 DEF TypeOK, AvgType, ExecType, Cycles
  <1>7. \A c \in Cpus : Idles(curr, c)
    BY <1>3 DEF Idles
  <1>8. HierarchyInv
    BY <1>7 DEF HierarchyInv
  <1>9. ModuleInv
    BY <1>3 DEF ModuleInv, Silent
  <1>10. ClockInv
    <2>1. ASSUME NEW e \in Ses PROVE avg.seTime[e] = 1 /\ cfs_rq_clock_task(cfs_rq_of(e)) = 1
      <3>1. CpuOfRq(cfs_rq_of(e)) \in Cpus
        BY EntityRq
      <3> QED BY <1>3, <3>1 DEF cfs_rq_clock_task
    <2> QED BY <2>1 DEF ClockInv
  <1>11. CountersInv
    BY <1>3 DEF CountersInv
  <1>12. NoForeignCycles
    <2>1. \A c \in Cpus : avg.rq[RootRq(c)] = {}
      BY <1>3, RqFacts
    <2>2. \A g \in Ges : avg.se[g] = {} /\ avg.rq[g] = {}
      BY <1>3, RqFacts
    <2>3. \A t \in Tasks : avg.se[t] = {}
      BY <1>3, RqFacts
    <2> QED BY <2>1, <2>2, <2>3 DEF NoForeignCycles
  <1>13. clock \in [Cpus -> Int]
    BY <1>3
  <1> QED BY <1>4, <1>5, <1>6, <1>8, <1>9, <1>10, <1>11, <1>12, <1>13 DEF IInv

\* Every step keeps it.
LEMMA NextIInv == IInv /\ [Next]_vars => IInv'
  <1> SUFFICES ASSUME IInv, [Next]_vars PROVE IInv'
    OBVIOUS
  <1>1. ASSUME NEW c \in Cpus, Run(c) PROVE IInv'
    BY <1>1, RunStep
  <1>2. ASSUME NEW c \in Cpus, Tick(c) PROVE IInv'
    BY <1>2, TickStep
  <1>3. CASE \E c \in Cpus : Ipi(c)
    BY <1>3, ModuleStep
  <1>4. ASSUME NEW c \in Cpus, NEW sleeps \in BOOLEAN, PickIdle(c, sleeps) PROVE IInv'
    BY <1>4, PickIdleStep
  <1>5. ASSUME NEW c \in Cpus, NEW sleeps \in BOOLEAN, PickOther(c, sleeps) PROVE IInv'
    BY <1>5, PickOtherStep
  <1>6. ASSUME NEW c \in Cpus, NEW sleeps \in BOOLEAN, NEW t \in Tasks, PickFair(c, sleeps, t) PROVE IInv'
    BY <1>6, PickFairStep
  <1>7. ASSUME NEW t \in Tasks, Wake(t) PROVE IInv'
    BY <1>7, WakeStep
  <1>8. ASSUME NEW t \in Tasks, NEW me \in Cpus, RemoteUpdate(me, t) PROVE IInv'
    BY <1>8, RemoteStep
  <1>9. CASE StoreExec \/ Govern \/ GovernRead \/ GovernClear \/ ClearSums \/ CycleModule
    BY <1>9, GovernorStep
  <1>10. CASE pkshin_init \/ pkshin_exit \/ Loaded \/ Removed
    BY <1>10, ModuleStep
  <1>11. CASE UNCHANGED vars
    <2>1. UNCHANGED <<clock, lag, queued, curr, counted, prev, avg, pemt, module, remote>>
      BY <1>11 DEF vars
    <2>2. TypeOK' /\ exec' \in ExecType
      BY <1>11 DEF vars, IInv, TypeOK
    <2> QED BY <2>1, <2>2, QuietStep
  <1> QED BY <1>1, <1>2, <1>3, <1>4, <1>5, <1>6, <1>7, <1>8, <1>9, <1>10, <1>11 DEF Next

\* The invariant of the sampling: a CPU's pointers lead to a queued task or to none, its
\* counters hold cycles of the task that runs there and only since its average was updated,
\* and are silent where the pemt module has not switched them on.
THEOREM PemtInvariant == Spec => []IInv
  <1>1. IInv /\ [Next]_vars => IInv'
    BY NextIInv
  <1> QED BY InitIInv, <1>1, PTL DEF Spec

\* No sample of __update_load_avg holds cycles of a task that it is not a sample of, for any
\* number of CPUs, tasks and groups, unless another CPU has updated a running task.
THEOREM SamplesAlwaysConsistent == Spec => []SamplesConsistent
  <1>1. IInv => SamplesConsistent
    BY DEF IInv, SamplesConsistent
  <1> QED BY PemtInvariant, <1>1, PTL

-----------------------------------------------------------------------------
(***************************************************************************)
(* A group follows the task that runs below it.                            *)
(***************************************************************************)
\* Between v and r the average of g is updated to that of p, or not at all.
Follows(v, r, g, p) == r.avg.seTime[g] # v.avg.seTime[g] => r.avg.se[g] = r.avg.se[p]

\* Once both are up to date nothing changes them any more.
LEMMA FollowsKept ==
  ASSUME NEW v, NEW w, NEW r, NEW c, NEW me, NEW g \in Ses, NEW p \in Ses, Follows(v, w, g, p),
         w.avg.seTime[g] = Clock(g), w.avg.seTime[p] = Clock(p), Moves(w, r, c, me)
  PROVE  Follows(v, r, g, p)
  <1>1. r.avg.seTime[g] = w.avg.seTime[g] /\ r.avg.se[g] = w.avg.se[g] /\ r.avg.se[p] = w.avg.se[p]
    BY DEF Moves
  <1> QED BY <1>1 DEF Follows

\* The update of the path of a task in the group of p, or in another.
LEMMA PathFollows ==
  ASSUME IInv, pemt, NEW v \in VType, NEW t \in Tasks, NEW me \in Cpus, NEW g \in Ges, NEW p \in Tasks,
         v.curr[g] = p, v.curr[RootRq(g[2])] = g
  PROVE  Follows(v, UpdatePath(v, t, me), g, p)
  <1> DEFINE w == update_load_avg(v, t, me)
             x == update_load_avg(w, g, me)
             r == UpdatePath(v, t, me)
  <1>1. t \in Ses /\ g \in Ses /\ p \in Ses /\ g # t /\ g # p /\ g \notin Tasks /\ p # None /\ cfs_rq_of(g) = RootRq(g[2])
    BY RqFacts
  <1>2. CASE cfs_rq_of(t) # g
    <2>1. PathUpdated(v, r, t, me)
      BY UpdatePathFacts
    <2> QED BY <1>1, <1>2, <2>1 DEF PathUpdated, Follows
  <1>3. CASE cfs_rq_of(t) = g
    <2>1. r = x
      BY <1>3 DEF UpdatePath, Grouped
    <2>2. Updated(v, w, t, me)
      BY <1>1, UpdateFacts
    <2> HIDE DEF w
    <2>3. w \in VType
      BY <2>2 DEF Updated
    <2>4. Updated(w, x, g, me)
      BY <1>1, <2>3, UpdateFacts
    <2> HIDE DEF x, r
    <2>5. w.curr = v.curr /\ w.avg.seTime[g] = v.avg.seTime[g]
      BY <1>1, <2>2, VFields DEF Updated
    <2>6. CASE w.avg.seTime[g] = Clock(g)
      <3>1. x.avg.seTime[g] = Clock(g)
        BY <1>1, <2>3, <2>4, VFields DEF Updated
      <3> QED BY <2>1, <2>5, <2>6, <3>1 DEF Follows, r
    <2>7. CASE w.avg.seTime[g] # Clock(g)
      <3>1. Samples(w, g)
        BY <1>1, <2>5, <2>7 DEF Samples
      <3>2. Sample(w, g, me) = w.avg.se[p]
        BY <1>1, <2>5 DEF Sample, GroupRatio
      <3>3. x.avg.se[g] = w.avg.se[p] /\ x.avg.se[p] = w.avg.se[p]
        BY <1>1, <2>3, <2>4, <3>1, <3>2, VFields DEF Updated
      <3> QED BY <2>1, <3>3 DEF Follows, r
    <2> QED BY <2>6, <2>7
  <1> QED BY <1>2, <1>3

\* The task that ran has been put and the cfs_rq of its group has its last sample.
Half(w, g, p) ==
  /\ w \in VType /\ w.curr[g] = None /\ w.curr[RootRq(g[2])] = g
  /\ w.avg.rq[g] = w.avg.se[p] /\ w.avg.seTime[p] = Clock(p)

\* A task that has run and is still queued is put.
LEMMA PutRunner ==
  ASSUME IInv, pemt, NEW v \in VType, NEW p \in Tasks, NEW me \in Cpus, Grouped(p), Runs(v.curr, p),
         p \in queued', v.avg.seTime[p] # Clock(p)
  PROVE  LET w == put_prev_entity(v, p, me)
         IN  Half(w, cfs_rq_of(p), p) /\ w.avg.seTime[cfs_rq_of(p)] = v.avg.seTime[cfs_rq_of(p)]
  <1> DEFINE g == cfs_rq_of(p)
             w == put_prev_entity(v, p, me)
             u == update_load_avg(v, p, me)
  <1>1. /\ p \in Ses /\ g \in Ges /\ g \in Ses /\ g # p /\ g \in Rqs
        /\ g[2] = CpuOf[p] /\ RootRq(g[2]) \in Rqs /\ RootRq(g[2]) # g
    BY PathFacts
  <1>2. v.curr[g] = p /\ v.curr[RootRq(g[2])] = g
    BY <1>1, RunsRunning
  <1>3. on_rq(p)
    BY DEF on_rq
  <1>4. Moves(v, w, g[2], me) /\ w.curr = [v.curr EXCEPT ![g] = None] /\ w.avg = u.avg
    BY <1>1, <1>3, PutFacts
  <1>5. Updated(v, u, p, me)
    BY <1>1, UpdateFacts
  <1>6. Samples(v, p)
    BY <1>2 DEF Samples
  <1> HIDE DEF w, u, g
  <1>7. /\ u.avg.seTime[p] = Clock(p) /\ u.avg.seTime[g] = v.avg.seTime[g]
        /\ u.avg.rq[g] = u.avg.se[p]
    BY <1>1, <1>5, <1>6, VFields DEF Updated, g
  <1>8. w.curr[g] = None /\ w.curr[RootRq(g[2])] = g /\ w \in VType
    BY <1>1, <1>2, <1>4, VFields DEF Moves
  <1> QED BY <1>4, <1>7, <1>8 DEF Half, w, g

\* Its group is put next.
LEMMA PutGroup ==
  ASSUME IInv, pemt, NEW w, NEW p \in Tasks, NEW g \in Ges, NEW me \in Cpus, Half(w, g, p), on_rq(g)
  PROVE  LET x == put_prev_entity(w, g, me)
         IN  Follows(w, x, g, p) /\ x.avg.seTime[g] = Clock(g) /\ x.avg.seTime[p] = Clock(p) /\ x \in VType
  <1> DEFINE x == put_prev_entity(w, g, me)
             u == update_load_avg(w, g, me)
  <1>1. g \in Ses /\ p \in Ses /\ g # p /\ g \notin Tasks /\ cfs_rq_of(g) = RootRq(g[2]) /\ g \in Rqs
    BY RqFacts
  <1>2. w \in VType
    BY DEF Half
  <1>3. Moves(w, x, cfs_rq_of(g)[2], me) /\ x.avg = u.avg
    BY <1>1, <1>2, PutFacts
  <1>4. Updated(w, u, g, me)
    BY <1>1, <1>2, UpdateFacts
  <1> HIDE DEF x, u
  <1>5. u.avg.seTime[g] = Clock(g) /\ u.avg.seTime[p] = Clock(p)
    BY <1>1, <1>2, <1>4, VFields DEF Updated, Half
  <1>6. CASE w.avg.seTime[g] = Clock(g)
    BY <1>3, <1>5, <1>6 DEF Follows, Moves, x
  <1>7. CASE w.avg.seTime[g] # Clock(g)
    <2>1. Samples(w, g)
      BY <1>1, <1>7 DEF Samples, Half
    <2>2. Sample(w, g, me) = w.avg.se[p]
      BY <1>1 DEF Sample, GroupRatio, Half
    <2>3. u.avg.se[g] = w.avg.se[p] /\ u.avg.se[p] = w.avg.se[p]
      BY <1>1, <1>2, <1>4, <2>1, <2>2, VFields DEF Updated
    <2> QED BY <1>3, <1>5, <2>3 DEF Follows, Moves, x
  <1> QED BY <1>6, <1>7

\* The running task and its group are put.
LEMMA PutAllFollows ==
  ASSUME IInv, pemt, NEW v \in VType, NEW p \in Tasks, NEW me \in Cpus, Grouped(p), Runs(v.curr, p),
         p \in queued', v.avg.seTime[p] # Clock(p)
  PROVE  Follows(v, PutAll(v, p, me), cfs_rq_of(p), p)
  <1> DEFINE g == cfs_rq_of(p)
             w == put_prev_entity(v, p, me)
             x == put_prev_entity(w, g, me)
  <1>1. PutAll(v, p, me) = x
    BY DEF PutAll
  <1>2. Half(w, g, p) /\ w.avg.seTime[g] = v.avg.seTime[g]
    BY PutRunner
  <1>3. g \in Ges /\ on_rq(g)
    BY DEF Grouped, on_rq
  <1> HIDE DEF w
  <1>4. Follows(w, x, g, p)
    BY <1>2, <1>3, PutGroup
  <1> HIDE DEF x
  <1> QED BY <1>1, <1>2, <1>4 DEF Follows

\* A task takes the place of p.
LEMMA SwitchFollows ==
  ASSUME IInv, pemt, NEW v \in VType, NEW p \in Tasks, NEW t \in Tasks, NEW me \in Cpus, Grouped(p),
         Runs(v.curr, p), CpuOf[p] = CpuOf[t], p \in queued', v.avg.seTime[p] # Clock(p)
  PROVE  Follows(v, Switch(v, p, t, me), cfs_rq_of(p), p)
  <1> DEFINE g == cfs_rq_of(p)
             h == cfs_rq_of(t)
             r == Switch(v, p, t, me)
             w == put_prev_entity(v, p, me)
  <1>1. /\ g \in Ges /\ g \in Ses /\ g \in Rqs /\ p \in Ses /\ t \in Ses /\ g # t /\ g # p /\ h \in Rqs
        /\ g[2] = CpuOf[t] /\ RootRq(g[2]) \in Rqs /\ RootRq(g[2]) # g
        /\ Grouped(t) => h # RootRq(g[2])
    BY PathFacts, RqFacts
  <1>2. Half(w, g, p) /\ w.avg.seTime[g] = v.avg.seTime[g]
    BY PutRunner
  <1>3. g \in Ges /\ on_rq(g)
    BY <1>1 DEF on_rq
  <1>4. CASE p = t
    BY <1>4 DEF Follows, Switch
  <1>5. CASE p # t /\ g = h
    <2>1. r = set_next_entity(w, t, me)
      BY <1>5 DEF Switch
    <2> HIDE DEF w, r
    <2>2. w \in VType
      BY <1>2 DEF Half
    <2>3. r.avg = update_load_avg(w, t, me).avg /\ Updated(w, update_load_avg(w, t, me), t, me)
      BY <1>1, <2>1, <2>2, SetFacts, UpdateFacts
    <2>4. r.avg.seTime[g] = w.avg.seTime[g]
      BY <1>1, <2>2, <2>3, VFields DEF Updated
    <2> QED BY <1>2, <2>4 DEF Follows, r
  <1>6. CASE p # t /\ g # h
    <2> DEFINE placed == IF Grouped(t) THEN set_next_entity(w, t, me) ELSE w
               put    == put_prev_entity(placed, g, me)
    <2>1. r = set_next_entity(put, Top(t), me) /\ Top(t) \in Ses
      BY <1>6, TopFacts DEF Switch, Top
    <2> HIDE DEF w, r
    <2>2. Half(placed, g, p) /\ placed.avg.seTime[g] = w.avg.seTime[g]
      <3>1. CASE ~Grouped(t)
        BY <1>2, <3>1
      <3>2. CASE Grouped(t)
        <4> DEFINE u == update_load_avg(w, t, me)
                   y == set_next_entity(w, t, me)
        <4>1. w \in VType
          BY <1>2 DEF Half
        <4>2. Moves(w, y, h[2], me) /\ y.curr = [w.curr EXCEPT ![h] = t] /\ y.avg = u.avg
          BY <1>1, <4>1, SetFacts
        <4>3. Updated(w, u, t, me)
          BY <1>1, <4>1, UpdateFacts
        <4> HIDE DEF u, y, h
        <4>4. y.curr[g] = None /\ y.curr[RootRq(g[2])] = g /\ y \in VType
          BY <1>1, <1>2, <1>6, <3>2, <4>1, <4>2, VFields DEF Half, Moves
        <4>5. u.avg.seTime[g] = w.avg.seTime[g] /\ u.avg.seTime[p] = Clock(p)
          BY <1>1, <1>2, <1>6, <4>1, <4>3, VFields DEF Half, Updated
        <4>6. u.avg.rq[g] = w.avg.rq[g]
          BY <1>1, <1>6, <4>3 DEF Updated, h
        <4>7. y.avg.se[p] = w.avg.se[p]
          BY <1>1, <1>2, <4>2 DEF Moves, Half
        <4>8. Half(y, g, p) /\ y.avg.seTime[g] = w.avg.seTime[g]
          BY <1>2, <4>2, <4>4, <4>5, <4>6, <4>7 DEF Half
        <4> QED BY <3>2, <4>8 DEF y
      <3> QED BY <3>1, <3>2
    <2> HIDE DEF placed
    <2>3. Follows(placed, put, g, p) /\ put.avg.seTime[g] = Clock(g) /\ put.avg.seTime[p] = Clock(p) /\ put \in VType
      BY <1>3, <2>2, PutGroup
    <2> HIDE DEF put
    <2>4. Moves(put, r, cfs_rq_of(Top(t))[2], me)
      BY <2>1, <2>3, SetFacts
    <2>5. Follows(v, put, g, p)
      BY <1>2, <2>2, <2>3 DEF Follows
    <2> HIDE DEF g
    <2>6. Follows(v, r, g, p)
      BY <1>1, <2>3, <2>4, <2>5, FollowsKept
    <2> QED BY <2>6 DEF r, g
  <1> QED BY <1>4, <1>5, <1>6

\* A pick on the CPU where g runs, after the running task has slept or not.
LEMMA PickFollows ==
  ASSUME IInv, pemt, NEW c \in Cpus, NEW sleeps \in BOOLEAN, Deactivate(c, sleeps), NEW p \in Tasks, Grouped(p),
         Running(c) = p, avg.seTime[p] # Clock(p), NEW v, NEW r, Moves(v, r, c, c),
         v.curr = curr, v.avg = Deactivated(c, sleeps).avg,
         ~sleeps => (p \in queued' /\ avg.seTime[p] # Clock(p) => Follows(v, r, cfs_rq_of(p), p))
  PROVE  Follows(Now, r, cfs_rq_of(p), p)
  <1> DEFINE g == cfs_rq_of(p)
  <1>1. Runs(curr, p) /\ p \in queued /\ CpuOf[p] = c
    BY RunningFacts, RqFacts
  <1>2. g \in Ges /\ g \in Ses /\ p \in Ses /\ g[2] = c
    BY <1>1, PathFacts
  <1>3. CASE sleeps
    <2> DEFINE w == UpdatePath(Now, p, c)
    <2>1. v.avg = w.avg
      BY <1>3 DEF Deactivated
    <2>2. PathUpdated(Now, w, p, c)
      BY NowFacts, UpdatePathFacts
    <2>3. curr[g] = p /\ curr[RootRq(g[2])] = g
      BY <1>1, <1>2, RunsRunning
    <2>4. Follows(Now, w, g, p)
      BY <1>2, <2>3, NowFacts, PathFollows
    <2> HIDE DEF w
    <2>5. v.avg.seTime[g] = Clock(g) /\ v.avg.seTime[p] = Clock(p)
      BY <2>1, <2>2 DEF PathUpdated
    <2>6. Follows(Now, v, g, p)
      BY <2>1, <2>4 DEF Follows
    <2> HIDE DEF g
    <2>7. Follows(Now, r, g, p)
      BY <1>2, <2>5, <2>6, FollowsKept
    <2> QED BY <2>7 DEF g
  <1>4. CASE ~sleeps
    <2>1. v.avg = avg /\ p \in queued'
      BY <1>1, <1>4, NowFacts DEF Deactivated, Deactivate
    <2> QED BY <1>4, <2>1, NowFacts DEF Follows
  <1> QED BY <1>3, <1>4

\* One step of the property.
LEMMA RatioStep ==
  ASSUME IInv, [Next]_vars, NEW g \in Ges, pemt, curr[RootRq(g[2])] = g, curr[g] # None,
         avg.seTime[curr[g]] # cfs_rq_clock_task(g), avg'.seTime[g] # avg.seTime[g]
  PROVE  avg'.se[g] = avg'.se[curr[g]]
  <1> DEFINE c == g[2]
             p == curr[g]
  <1>1. c \in Cpus /\ g \in Rqs /\ g \in Ses /\ cfs_rq_of(g) = RootRq(c) /\ RootRq(c)[2] = c
    BY RqFacts
  <1>2. p \in Tasks /\ CpuOf[p] = c /\ Runs(curr, p) /\ cfs_rq_of(p) = g /\ Running(c) = p
    <2>1. ~Idles(curr, c)
      BY <1>1 DEF Idles
    <2>2. Running(c) \in Tasks /\ CpuOf[Running(c)] = c /\ Runs(curr, Running(c))
      BY <1>1, <2>1, RunningFacts
    <2>3. curr[g] \in Ses /\ cfs_rq_of(curr[g]) = g
      BY <1>1, <2>2, RunsRunning
    <2>4. curr[g] \notin Ges
      BY <2>3, RqFacts
    <2>5. curr[g] \in Tasks
      BY <2>3, <2>4, RqFacts
    <2>6. curr[g] = Running(c)
      BY <1>1, <2>2, <2>5, RunsRunning
    <2> QED BY <2>2, <2>3, <2>6
  <1>3. Grouped(p) /\ avg.seTime[p] # Clock(p) /\ p # None
    BY <1>2, RqFacts DEF Grouped, Clock
  <1>4. /\ Now \in VType /\ Now.curr = curr /\ Now.avg = avg
        /\ Now.curr[g] = p /\ Now.curr[RootRq(g[2])] = g
    BY NowFacts
  <1>5. ASSUME NEW r, Becomes(r), Follows(Now, r, g, p) PROVE avg'.se[g] = avg'.se[p]
    BY <1>4, <1>5 DEF Becomes, Follows
  <1>6. ASSUME NEW r, NEW d \in Cpus, d # c, Becomes(r), Moves(Now, r, d, d) PROVE FALSE
    BY <1>1, <1>4, <1>6 DEF Becomes, Moves
  <1>7. ASSUME NEW t \in Tasks, NEW me \in Cpus, Becomes(UpdatePath(Now, t, me)) PROVE avg'.se[g] = avg'.se[p]
    <2>1. Follows(Now, UpdatePath(Now, t, me), g, p)
      BY <1>2, <1>4, PathFollows
    <2> QED BY <1>5, <1>7, <2>1
  <1> HIDE DEF c, p
  <1>8. ASSUME NEW d \in Cpus, Tick(d) PROVE avg'.se[g] = avg'.se[p]
    <2>1. Running(d) \in Tasks /\ Becomes(UpdatePath(Now, Running(d), d))
      BY <1>8, RunningFacts DEF Tick
    <2> QED BY <1>7, <2>1
  <1>9. ASSUME NEW t \in Tasks, Wake(t) PROVE avg'.se[g] = avg'.se[p]
    <2>1. CpuOf[t] \in Cpus /\ Becomes(UpdatePath(Now, t, CpuOf[t]))
      BY <1>9, PathFacts DEF Wake
    <2> QED BY <1>7, <2>1
  <1>10. ASSUME NEW t \in Tasks, NEW me \in Cpus, RemoteUpdate(me, t) PROVE avg'.se[g] = avg'.se[p]
    BY <1>7, <1>10 DEF RemoteUpdate
  <1>11. ASSUME NEW d \in Cpus, NEW sleeps \in BOOLEAN, NEW t \in Tasks, PickFair(d, sleeps, t)
         PROVE  avg'.se[g] = avg'.se[p]
    <2> DEFINE x == Running(d)
               u == Deactivated(d, sleeps)
               v == pkshin_pmu_update(u, d)
               r == IF x = None THEN SetAll(v, t, d) ELSE Switch(v, x, t, d)
    <2>1. Deactivate(d, sleeps) /\ t \in queued' /\ CpuOf[t] = d /\ Becomes(r)
      BY <1>11 DEF PickFair
    <2>2. Moves(Now, u, d, d) /\ u.curr = curr
      BY <2>1, DeactivateFacts, Zenon
    <2>3. /\ x = None => Idles(curr, d)
          /\ x # None => x \in Tasks /\ CpuOf[x] = d /\ Runs(curr, x)
      BY RunningFacts
    <2>4. x = Running(d) /\ u = Deactivated(d, sleeps)
      OBVIOUS
    <2> HIDE DEF u, x
    <2>5. u \in VType
      BY <2>2 DEF Moves
    <2>6. Moves(u, v, d, d) /\ v.curr = curr /\ v.avg = u.avg
      BY <2>2, <2>5, RestartFacts
    <2> HIDE DEF v
    <2>7. v \in VType
      BY <2>6 DEF Moves
    <2>8. Moves(v, r, d, d)
      <3>1. CASE x = None
        <4>1. r = SetAll(v, t, d)
          BY <3>1
        <4> QED BY <2>1, <2>3, <2>6, <2>7, <3>1, <4>1, SetAllFacts
      <3>2. CASE x # None
        <4>1. r = Switch(v, x, t, d)
          BY <3>2
        <4> QED BY <2>1, <2>3, <2>6, <2>7, <3>2, <4>1, SwitchFacts
      <3> QED BY <3>1, <3>2
    <2>9. x = p => r = Switch(v, p, t, d)
      BY <1>3
    <2> HIDE DEF r
    <2>10. CASE d # c
      <3>1. Moves(Now, v, d, d)
        BY <2>2, <2>6, MovesTrans
      <3>2. Moves(Now, r, d, d)
        BY <2>8, <3>1, MovesTrans
      <3> QED BY <1>6, <2>1, <2>10, <3>2
    <2>11. CASE d = c
      <3>1. x = p /\ CpuOf[p] = CpuOf[t] /\ Runs(v.curr, p)
        BY <1>2, <2>1, <2>4, <2>6, <2>11
      <3>2. ~sleeps => v.avg = avg
        BY <1>4, <2>4, <2>6 DEF Deactivated
      <3>3. ~sleeps => (p \in queued' /\ avg.seTime[p] # Clock(p) => Follows(v, r, cfs_rq_of(p), p))
        BY <1>2, <1>3, <2>7, <2>9, <3>1, <3>2, SwitchFollows
      <3>4. Follows(Now, r, cfs_rq_of(p), p)
        BY <1>2, <1>3, <2>1, <2>4, <2>6, <2>8, <2>11, <3>3, PickFollows
      <3> QED BY <1>2, <1>5, <2>1, <3>4
    <2> QED BY <2>10, <2>11
  <1>12. ASSUME NEW d \in Cpus, NEW sleeps \in BOOLEAN, Deactivate(d, sleeps), Running(d) # None,
                NEW v, Moves(Deactivated(d, sleeps), v, d, d), v.curr = curr, v.avg = Deactivated(d, sleeps).avg,
                Becomes(PutAll(v, Running(d), d))
         PROVE  avg'.se[g] = avg'.se[p]
    <2> DEFINE x == Running(d)
               u == Deactivated(d, sleeps)
               r == PutAll(v, x, d)
    <2>1. Moves(Now, u, d, d)
      BY <1>12, DeactivateFacts, Zenon
    <2>2. x \in Tasks /\ CpuOf[x] = d /\ Runs(curr, x)
      BY <1>12, RunningFacts
    <2>3. v \in VType
      BY <1>12 DEF Moves
    <2>4. Becomes(r) /\ Moves(u, v, d, d) /\ x = Running(d) /\ (x = p => r = PutAll(v, p, d))
      BY <1>12
    <2>5. Moves(v, r, d, d)
      BY <1>12, <2>2, <2>3, PutAllFacts
    <2> HIDE DEF r, x
    <2>6. CASE d # c
      <3> HIDE DEF u
      <3>1. Moves(Now, v, d, d)
        BY <2>1, <2>4, MovesTrans
      <3>2. Moves(Now, r, d, d)
        BY <2>5, <3>1, MovesTrans
      <3> QED BY <1>6, <2>4, <2>6, <3>2
    <2>7. CASE d = c
      <3>1. x = p /\ Runs(v.curr, p)
        BY <1>2, <1>12, <2>4, <2>7
      <3>2. ~sleeps => v.avg = avg
        BY <1>4, <1>12 DEF Deactivated
      <3>3. ~sleeps => (p \in queued' /\ avg.seTime[p] # Clock(p) => Follows(v, r, cfs_rq_of(p), p))
        BY <1>2, <1>3, <2>3, <2>4, <2>7, <3>1, <3>2, PutAllFollows
      <3>4. Follows(Now, r, cfs_rq_of(p), p)
        BY <1>2, <1>3, <1>12, <2>4, <2>5, <2>7, <3>3, PickFollows
      <3> QED BY <1>2, <1>5, <2>4, <3>4
    <2> QED BY <2>6, <2>7
  <1>13. ASSUME NEW d \in Cpus, NEW sleeps \in BOOLEAN, PickIdle(d, sleeps) PROVE avg'.se[g] = avg'.se[p]
    <2> DEFINE u == Deactivated(d, sleeps)
               v == pkshin_pmu_update(u, d)
    <2>1. Deactivate(d, sleeps) /\ Running(d) # None /\ Becomes(PutAll(v, Running(d), d))
      BY <1>13 DEF PickIdle
    <2>2. Moves(Now, u, d, d) /\ u.curr = curr
      BY <2>1, DeactivateFacts, Zenon
    <2>3. Moves(u, v, d, d) /\ v.curr = curr /\ v.avg = u.avg
      <3> HIDE DEF u
      <3>1. u \in VType
        BY <2>2 DEF Moves
      <3> QED BY <2>2, <3>1, RestartFacts
    <2> HIDE DEF v
    <2> QED BY <1>12, <2>1, <2>3
  <1>14. ASSUME NEW d \in Cpus, NEW sleeps \in BOOLEAN, PickOther(d, sleeps) PROVE avg'.se[g] = avg'.se[p]
    <2> DEFINE u == Deactivated(d, sleeps)
    <2>1. Deactivate(d, sleeps) /\ Running(d) # None /\ Becomes(PutAll(u, Running(d), d))
      BY <1>14 DEF PickOther
    <2>2. Moves(Now, u, d, d) /\ u.curr = curr
      BY <2>1, DeactivateFacts, Zenon
    <2>3. Moves(u, u, d, d)
      <3> HIDE DEF u
      <3>1. u \in VType
        BY <2>2 DEF Moves
      <3> QED BY <3>1, MovesRefl
    <2> QED BY <1>12, <2>1, <2>2, <2>3
  <1>15. ASSUME avg' = avg PROVE FALSE
    BY <1>15
  <1>16. ASSUME \/ \E d \in Cpus : Run(d) \/ Ipi(d)
                \/ StoreExec \/ Govern \/ GovernRead \/ GovernClear \/ ClearSums \/ CycleModule
                \/ pkshin_init \/ pkshin_exit \/ Loaded \/ Removed \/ UNCHANGED vars
         PROVE  FALSE
    BY <1>15, <1>16 DEF Run, Ipi, StoreExec, Govern, GovernRead, GovernClear, ClearSums, CycleModule, Unsampled,
                        pkshin_init, pkshin_exit, Loaded, Removed, Loader, vars
  <1>17. avg'.se[g] = avg'.se[p]
    BY <1>8, <1>9, <1>10, <1>11, <1>13, <1>14, <1>16 DEF Next
  <1> QED BY <1>17 DEF p

\* A group's average takes the ratio of the task that runs below it, for any number of CPUs,
\* tasks and groups and whatever handler updates it: a tick, a wakeup of another task of the
\* group, a switch that puts the task first, an update from another CPU.
THEOREM RatioAlwaysFollowsRunner == Spec => RatioFollowsRunner
  <1>1. IInv /\ [Next]_vars =>
          [\A g \in Ges :
             (/\ pemt /\ curr[RootRq(g[2])] = g /\ curr[g] # None
              /\ avg.seTime[curr[g]] # cfs_rq_clock_task(g) /\ avg'.seTime[g] # avg.seTime[g])
               => avg'.se[g] = avg'.se[curr[g]]]_vars
    BY RatioStep
  <1> QED BY PemtInvariant, <1>1, PTL DEF Spec, RatioFollowsRunner

-----------------------------------------------------------------------------
(***************************************************************************)
(* The execution time.  A word of exec_time stands for a number: Signed.   *)
(***************************************************************************)
\* The moduli: the words of exec_time and of the sums hold a whole number of spans.
LEMMA ModFacts ==
  /\ SpanMod \in Nat \ {0} /\ TimeMod \in Nat \ {0} /\ SpanMod <= TimeMod
  /\ \E c \in Nat : TimeMod = SpanMod * c
  <1>1. SpanMod \in Nat \ {0} /\ TimeMod \in Nat \ {0} /\ TimeMod % SpanMod = 0
    BY PemtAssumption
  <1> DEFINE c == TimeMod \div SpanMod
  <1>2. c \in Nat /\ TimeMod = SpanMod * c
    BY <1>1
  <1> HIDE DEF c
  <1>3. c # 0
    BY <1>1, <1>2
  <1>4. SpanMod <= SpanMod * c
    BY <1>1, <1>2, <1>3
  <1> QED BY <1>1, <1>2, <1>4

\* What is left of a number without the times it went around.
LEMMA SpanExact ==
  ASSUME NEW r \in 0 .. SpanMod - 1, NEW q \in Int
  PROVE  (r + SpanMod * q) % SpanMod = r
  BY ModFacts

\* Going around does not change what is left.
LEMMA SpanShift ==
  ASSUME NEW n \in Int, NEW q \in Int
  PROVE  (n + SpanMod * q) % SpanMod = n % SpanMod
  <1> DEFINE r == n % SpanMod
             k == n \div SpanMod
  <1>1. SpanMod \in Nat \ {0}
    BY ModFacts
  <1>2. r \in 0 .. SpanMod - 1 /\ k \in Int /\ n = SpanMod * k + r
    BY <1>1
  <1> HIDE DEF r, k
  <1>3. SpanMod * k + SpanMod * q = SpanMod * (k + q)
    BY <1>1, <1>2
  <1>4. SpanMod * k \in Int /\ SpanMod * q \in Int /\ SpanMod * (k + q) \in Int /\ k + q \in Int
    BY <1>1, <1>2
  <1>5. n + SpanMod * q = r + SpanMod * (k + q)
    BY <1>2, <1>3, <1>4
  <1> QED BY <1>2, <1>4, <1>5, SpanExact DEF r

\* Nor does taking a word of a number.
LEMMA WordSpan ==
  ASSUME NEW n \in Int
  PROVE  n % TimeMod \in 0 .. TimeMod - 1 /\ (n % TimeMod) % SpanMod = n % SpanMod
  <1>1. PICK c \in Nat : TimeMod = SpanMod * c
    BY ModFacts
  <1> DEFINE r == n % TimeMod
             k == n \div TimeMod
  <1>2. r \in 0 .. TimeMod - 1 /\ r \in Int /\ k \in Int /\ n = TimeMod * k + r
    BY ModFacts
  <1> HIDE DEF r, k
  <1>3. TimeMod * k = SpanMod * (c * k) /\ c * k \in Int /\ SpanMod \in Int
    BY <1>1, <1>2, ModFacts
  <1>4. n = r + SpanMod * (c * k)
    <2>1. TimeMod * k \in Int
      BY <1>2, ModFacts
    <2> QED BY <1>2, <1>3, <2>1
  <1>5. (r + SpanMod * (c * k)) % SpanMod = r % SpanMod
    <2> DEFINE q == c * k
    <2>1. q \in Int
      BY <1>3
    <2> HIDE DEF q
    <2>2. (r + SpanMod * q) % SpanMod = r % SpanMod
      BY <1>2, <2>1, SpanShift
    <2> QED BY <2>2 DEF q
  <1> QED BY <1>2, <1>4, <1>5 DEF r

\* A number of at most half the circle either way is the one it stands for.
LEMMA SignedExact ==
  ASSUME NEW n \in Int, -SpanMod <= 2 * n, 2 * n < SpanMod
  PROVE  Signed(n) = n
  <1>1. SpanMod \in Nat \ {0}
    BY ModFacts
  <1>2. CASE n >= 0
    <2>1. n \in 0 .. SpanMod - 1 /\ n + SpanMod * 0 = n
      BY <1>1, <1>2
    <2>2. n % SpanMod = n
      BY <2>1, SpanExact
    <2> QED BY <1>1, <2>1, <2>2 DEF Signed
  <1>3. CASE n < 0
    <2>1. n + SpanMod \in 0 .. SpanMod - 1 /\ (n + SpanMod) + SpanMod * (-1) = n
      BY <1>1, <1>3
    <2>2. n % SpanMod = n + SpanMod
      BY <2>1, SpanExact
    <2> QED BY <1>1, <1>3, <2>1, <2>2 DEF Signed
  <1> QED BY <1>2, <1>3

\* A number differs from the one it stands for by the times it went around.
LEMMA SignedWord ==
  ASSUME NEW x \in Int
  PROVE  Signed(x) \in Int /\ \E q \in Int : x = Signed(x) + SpanMod * q
  <1> DEFINE r == x % SpanMod
             k == x \div SpanMod
  <1>1. SpanMod \in Nat \ {0}
    BY ModFacts
  <1>2. r \in 0 .. SpanMod - 1 /\ k \in Int /\ x = SpanMod * k + r /\ k + 1 \in Int
    BY <1>1
  <1>3. Signed(x) = r \/ Signed(x) = r - SpanMod
    BY DEF Signed
  <1> HIDE DEF r, k
  <1>4. SpanMod * (k + 1) = SpanMod * k + SpanMod /\ SpanMod * k \in Int
    BY <1>1, <1>2
  <1>5. x = r + SpanMod * k /\ x = (r - SpanMod) + SpanMod * (k + 1)
    BY <1>1, <1>2, <1>4
  <1>6. CASE Signed(x) = r
    BY <1>2, <1>5, <1>6
  <1>7. CASE Signed(x) = r - SpanMod
    <2>1. x = Signed(x) + SpanMod * (k + 1) /\ Signed(x) \in Int
      BY <1>1, <1>2, <1>5, <1>7
    <2> QED BY <1>2, <2>1
  <1> QED BY <1>3, <1>6, <1>7

\* Adding d to a word adds it to what the word stands for, and so does adding what d
\* differs from by a whole number of spans.
LEMMA SignedAdd ==
  ASSUME NEW w \in Int, NEW d \in Int, NEW z \in Int, z = d \/ z = d % SpanMod,
         -SpanMod <= 2 * (Signed(w) + d), 2 * (Signed(w) + d) < SpanMod
  PROVE  (w + z) % TimeMod \in 0 .. TimeMod - 1 /\ Signed((w + z) % TimeMod) = Signed(w) + d
  <1> DEFINE n == Signed(w) + d
  <1>1. PICK p \in Int : w = Signed(w) + SpanMod * p
    BY SignedWord
  <1>2. PICK q \in Int : z = d + SpanMod * q
    <2> DEFINE r == d % SpanMod
               k == d \div SpanMod
    <2>1. SpanMod \in Nat \ {0}
      BY ModFacts
    <2>2. r \in Int /\ k \in Int /\ d = SpanMod * k + r
      BY <2>1
    <2>3. z = d \/ z = r
      OBVIOUS
    <2> HIDE DEF r, k
    <2>4. SpanMod * (-k) = -(SpanMod * k) /\ SpanMod * k \in Int /\ -k \in Int /\ SpanMod * 0 = 0
      BY <2>1, <2>2
    <2>5. z = d + SpanMod * 0 \/ z = d + SpanMod * (-k)
      BY <2>2, <2>3, <2>4
    <2> QED BY <2>4, <2>5
  <1>3. Signed(w) \in Int /\ n \in Int /\ SpanMod \in Int
    BY SignedWord, ModFacts
  <1>4. w + z = n + SpanMod * (p + q) /\ p + q \in Int /\ w + z \in Int
    <2> DEFINE x == SpanMod * p
               y == SpanMod * q
    <2>1. x \in Int /\ y \in Int /\ SpanMod * (p + q) = x + y
      BY <1>3
    <2>2. w = Signed(w) + x /\ z = d + y
      BY <1>1, <1>2
    <2> HIDE DEF x, y
    <2> QED BY <1>3, <2>1, <2>2
  <1>5. Signed(n) = n
    <2>1. -SpanMod <= 2 * n /\ 2 * n < SpanMod
      OBVIOUS
    <2> HIDE DEF n
    <2> QED BY <1>3, <2>1, SignedExact
  <1> HIDE DEF n
  <1>6. (w + z) % SpanMod = n % SpanMod
    <2>1. (n + SpanMod * (p + q)) % SpanMod = n % SpanMod
      BY <1>3, <1>4, SpanShift
    <2> QED BY <1>4, <2>1
  <1>7. (w + z) % TimeMod \in 0 .. TimeMod - 1 /\ ((w + z) % TimeMod) % SpanMod = n % SpanMod
    BY <1>4, <1>6, WordSpan
  <1>8. Signed((w + z) % TimeMod) = Signed(n)
    BY <1>7 DEF Signed
  <1> QED BY <1>5, <1>7, <1>8 DEF n

\* Adding a word to a word adds what it stands for.
LEMMA SignedSum ==
  ASSUME NEW w \in Int, NEW x \in Int,
         -SpanMod <= 2 * (Signed(w) + Signed(x)), 2 * (Signed(w) + Signed(x)) < SpanMod
  PROVE  Signed((w + x) % TimeMod) = Signed(w) + Signed(x)
  <1> DEFINE d == Signed(x)
  <1>1. PICK q \in Int : x = d + SpanMod * q
    BY SignedWord
  <1>2. d \in Int /\ SpanMod * q \in Int /\ w + d \in Int /\ w + x \in Int
    BY SignedWord, ModFacts
  <1>3. (w + d) % TimeMod \in 0 .. TimeMod - 1 /\ Signed((w + d) % TimeMod) = Signed(w) + d
    <2>1. -SpanMod <= 2 * (Signed(w) + d) /\ 2 * (Signed(w) + d) < SpanMod
      OBVIOUS
    <2> HIDE DEF d
    <2> QED BY <1>2, <2>1, SignedAdd
  <1> HIDE DEF d
  <1>4. ((w + x) % TimeMod) % SpanMod = ((w + d) % TimeMod) % SpanMod
    <2>1. w + x = (w + d) + SpanMod * q
      BY <1>1, <1>2
    <2>2. (w + x) % SpanMod = (w + d) % SpanMod
      BY <1>2, <2>1, SpanShift
    <2> QED BY <1>2, <2>2, WordSpan
  <1>5. Signed((w + x) % TimeMod) = Signed((w + d) % TimeMod)
    BY <1>4 DEF Signed
  <1> QED BY <1>3, <1>5 DEF d

\* A word that stands for itself does so still when d is added to it, if nothing wraps.
LEMMA ExactAdd ==
  ASSUME NEW w \in Nat, NEW d \in Nat, NEW z \in Int, z = d \/ z = d % SpanMod, 2 * (w + d) < SpanMod
  PROVE  (w + z) % TimeMod = w + d
  <1>1. SpanMod \in Nat \ {0} /\ TimeMod \in Nat \ {0} /\ SpanMod <= TimeMod
    BY ModFacts
  <1>2. z = d
    <2>1. d \in 0 .. SpanMod - 1 /\ d + SpanMod * 0 = d
      BY <1>1
    <2> QED BY <2>1, SpanExact
  <1>3. w + d \in 0 .. TimeMod - 1
    BY <1>1
  <1> QED BY <1>1, <1>2, <1>3

\* What the samples on lagging clocks may have taken when time l has passed.
Low(l) == MaxLag * l

\* It grows by MaxLag with every unit of time, and does not go around the circle.
LEMMA LowFacts ==
  /\ \A l \in Int : Low(l) \in Int
  /\ \A l, m \in Int : l <= m => Low(l) <= Low(m)
  /\ \A l, m \in Int : l < m => Low(l) + MaxLag <= Low(m)
  /\ \A l \in Int : 0 <= l => 0 <= Low(l)
  /\ \A l \in Int : l <= MaxTime[WorkCore] => 2 * Low(l) + 2 * MaxTime[WorkCore] < SpanMod
  /\ MaxLag \in Nat /\ MaxTime[WorkCore] \in Nat \ {0} /\ SpanMod \in Nat \ {0}
  <1>1. MaxLag \in Nat /\ MaxTime[WorkCore] \in Nat \ {0} /\ SpanMod \in Nat \ {0}
    BY PemtAssumption
  <1>2. \A l \in Int : MaxLag * l \in Int
    BY <1>1
  <1>3. ASSUME NEW n \in Nat PROVE 0 <= MaxLag * n /\ (0 < n => MaxLag <= MaxLag * n)
    BY <1>1
  <1>4. ASSUME NEW l \in Int, NEW m \in Int, l <= m
        PROVE  MaxLag * l <= MaxLag * m /\ (l < m => MaxLag * l + MaxLag <= MaxLag * m)
    <2>1. m - l \in Nat /\ MaxLag * m = MaxLag * l + MaxLag * (m - l)
      BY <1>1, <1>4
    <2>2. 0 <= MaxLag * (m - l) /\ (0 < m - l => MaxLag <= MaxLag * (m - l)) /\ MaxLag * (m - l) \in Int
      BY <1>1, <1>3, <2>1
    <2> QED BY <1>1, <1>2, <2>1, <2>2
  <1>5. 2 * (MaxLag * MaxTime[WorkCore]) + 2 * MaxTime[WorkCore] < SpanMod
    <2> DEFINE t == MaxTime[WorkCore]
    <2>1. t \in Nat
      BY <1>1
    <2>2. SpanMod > 2 * t * (MaxLag + 1)
      BY HorizonAssumption
    <2> HIDE DEF t
    <2>3. 2 * t * (MaxLag + 1) = 2 * (MaxLag * t) + 2 * t
      BY <1>1, <2>1
    <2>4. MaxLag * t \in Int
      BY <1>1, <2>1
    <2> QED BY <1>1, <2>1, <2>2, <2>3, <2>4 DEF t
  <1> DEFINE t == MaxTime[WorkCore]
  <1>6. ASSUME NEW l \in Int, l <= t PROVE 2 * Low(l) + 2 * t < SpanMod
    <2>1. t \in Int
      BY <1>1
    <2>2. 2 * (MaxLag * t) + 2 * t < SpanMod
      BY <1>5
    <2> HIDE DEF t
    <2>3. MaxLag * l <= MaxLag * t /\ MaxLag * l \in Int /\ MaxLag * t \in Int
      BY <1>2, <1>4, <1>6, <2>1
    <2> DEFINE x == MaxLag * l
               y == MaxLag * t
    <2>4. x \in Int /\ y \in Int /\ x <= y /\ 2 * y + 2 * t < SpanMod
      BY <2>2, <2>3
    <2> HIDE DEF x, y
    <2>5. 2 * x + 2 * t < SpanMod
      BY <1>1, <2>1, <2>4
    <2> QED BY <2>5 DEF x, Low
  <1> QED BY <1>1, <1>2, <1>3, <1>4, <1>6 DEF Low

\* What exec_time stands for, e, the value a CPU has still to store, s, and the sums, n,
\* when they were last brought up to date at l and cleared at clear, it is now and a
\* governor on another CPU has read gov.  Nothing is counted twice: what was counted since
\* the clear fits into the time since then, of a clock that a governor will clear at into the
\* time until then, and what was summed up fits into the time before.  Nothing takes more
\* than the samples on lagging clocks can.
InTime(e, s, n, clear, l, now, gov) ==
  /\ clear <= now /\ 0 <= l /\ l <= now /\ n <= clear
  /\ e <= l - clear \/ e <= 0
  /\ s <= l - clear \/ s <= 0
  /\ -Low(l) <= e /\ -Low(l) <= s /\ -Low(l) <= n /\ -Low(l) <= n + e /\ -Low(l) <= n + s
  /\ gov # None => clear <= gov /\ gov <= now /\ e <= gov - clear

\* When the execution time of WorkCore was last brought up to date: at the last update of
\* the task that runs there, by rq_clock_task, and just now if none runs.
At(f, times) == LET t == RunningIn(f, WorkCore)
                IN  IF t = None THEN clock[WorkCore] ELSE times[t] + (clock[WorkCore] - Clock(t))

\* The value that exec_time gets with the next store.
Pending == IF exec.store = -1 THEN exec.time ELSE exec.store

\* The words are the numbers they stand for: nothing has wrapped.
WordsExact == Signed(exec.time) = exec.time /\ Signed(Pending) = Pending /\ Signed(total) = total

\* The execution time counts the time that has passed, unless an update raced, and no
\* difference wraps before a group has been throttled.
ExecInv ==
  ~raced => /\ InTime(Signed(exec.time), Signed(Pending), Signed(total), exec.clear,
                      At(curr, avg.seTime), clock[WorkCore], governor)
            /\ ~Lagged => WordsExact

\* Time passes.
LEMMA InTimePasses ==
  ASSUME NEW e \in Int, NEW s \in Int, NEW n \in Int, NEW clear \in Int, NEW l \in Int, NEW now \in Int, NEW gov,
         NEW l2 \in Int, NEW now2 \in Int, gov # None => gov \in Int,
         InTime(e, s, n, clear, l, now, gov), l <= l2, l2 <= now2, now <= now2
  PROVE  InTime(e, s, n, clear, l2, now2, gov)
  <1>1. Low(l) <= Low(l2) /\ Low(l) \in Int /\ Low(l2) \in Int
    BY LowFacts
  <1> QED BY <1>1 DEF InTime

\* A sample of a clock that lags by k adds the time since the last update or since the clear.
LEMMA InTimeSampled ==
  ASSUME NEW e \in Int, NEW s \in Int, NEW n \in Int, NEW clear \in Nat, NEW l \in Int, NEW now \in Int, NEW gov,
         gov # None => gov \in Int, InTime(e, s, n, clear, l, now, gov),
         NEW k \in 0 .. MaxLag, NEW last \in Int, l = last + k, last # now - k
  PROVE  LET d == IF last > clear THEN (now - k) - last ELSE (now - k) - clear
         IN  InTime(e, e + d, n, clear, now, now, gov)
  <1> DEFINE d == IF last > clear THEN (now - k) - last ELSE (now - k) - clear
  <1>1. MaxLag \in Nat /\ k \in Nat /\ k <= MaxLag /\ d \in Int
    BY LowFacts
  <1>2. clear <= now /\ 0 <= l /\ l < now
    BY <1>1 DEF InTime
  <1>3. Low(l) + MaxLag <= Low(now) /\ Low(l) \in Int /\ Low(now) \in Int
    BY <1>2, LowFacts
  <1>4. d >= -MaxLag /\ e + d <= now - clear
    BY <1>1, <1>2 DEF InTime
  <1> HIDE DEF d
  <1>5. InTime(e, e + d, n, clear, now, now, gov)
    BY <1>1, <1>2, <1>3, <1>4 DEF InTime
  <1> QED BY <1>5 DEF d

\* The value is stored, with no governor on another CPU about.
LEMMA InTimeStored ==
  ASSUME NEW e, NEW s, NEW n, NEW clear, NEW l, NEW now, InTime(e, s, n, clear, l, now, None)
  PROVE  InTime(s, s, n, clear, l, now, None)
  BY DEF InTime

\* The governor adds the interval since the last clear to the sums, or what was counted.
LEMMA InTimeCleared ==
  ASSUME NEW e \in Int, NEW n \in Int, NEW clear \in Int, NEW l \in Int, NEW now \in Int, NEW gov,
         InTime(e, e, n, clear, l, now, gov), NEW at \in Int, clear <= at, at <= now, e <= at - clear,
         NEW add \in Int, add = e \/ add = at - clear
  PROVE  InTime(0, 0, n + add, at, l, now, None)
  <1>1. 0 <= Low(l) /\ Low(l) \in Int
    BY LowFacts DEF InTime
  <1> QED BY <1>1 DEF InTime

\* The sums are cleared.
LEMMA InTimeZero ==
  ASSUME NEW e \in Int, NEW s \in Int, NEW n \in Int, NEW clear \in Nat, NEW l \in Int, NEW now, NEW gov,
         InTime(e, s, n, clear, l, now, gov)
  PROVE  InTime(e, s, 0, clear, l, now, gov)
  <1>1. 0 <= Low(l) /\ Low(l) \in Int
    BY LowFacts DEF InTime
  <1> QED BY <1>1 DEF InTime

\* What is in time does not go around the circle.
LEMMA InTimeRange ==
  ASSUME NEW e \in Int, NEW s \in Int, NEW n \in Int, NEW clear \in Nat, NEW l \in Int,
         NEW now \in 0 .. MaxTime[WorkCore], NEW gov, InTime(e, s, n, clear, l, now, gov)
  PROVE  \A x \in {e, s, n} : -SpanMod <= 2 * x /\ 2 * x < SpanMod /\ 2 * x > 2 * MaxTime[WorkCore] - SpanMod
  <1>1. MaxTime[WorkCore] \in Nat /\ SpanMod \in Nat
    BY LowFacts
  <1>2. 2 * Low(l) + 2 * MaxTime[WorkCore] < SpanMod /\ Low(l) \in Int /\ 0 <= Low(l)
    BY <1>1, LowFacts DEF InTime
  <1> QED BY <1>1, <1>2 DEF InTime

-----------------------------------------------------------------------------
(***************************************************************************)
(* What the handlers do to the execution time.                             *)
(***************************************************************************)
\* An update sampled the time of e, which has run on WorkCore.
Sampled(v, r, e) ==
  /\ CpuOf[e] = WorkCore /\ v.curr[cfs_rq_of(e)] = e
  /\ v.avg.seTime[e] # Clock(e) /\ r.avg.seTime[e] = Clock(e)
  /\ r.exec.store = (exec.time + ExecDelta(v.avg.seTime[e], Clock(e))) % TimeMod

\* r comes from v by updates, puts and sets: nothing but a sample gives a new value to
\* store, and an entity that becomes curr is up to date.
Timed(v, r) ==
  /\ r.exec.time = v.exec.time /\ r.exec.clear = v.exec.clear
  /\ \A e \in Ses : r.avg.seTime[e] = v.avg.seTime[e] \/ r.avg.seTime[e] = Clock(e)
  /\ \A e \in Ses : r.curr[cfs_rq_of(e)] = e => v.curr[cfs_rq_of(e)] = e \/ r.avg.seTime[e] = Clock(e)
  /\ r.exec.store = v.exec.store \/ \E e \in Tasks : Sampled(v, r, e)

\* An assignment that leaves time and curr alone is such a step ...
LEMMA TimedSame ==
  ASSUME NEW v, NEW r, r.exec = v.exec, r.curr = v.curr, r.avg.seTime = v.avg.seTime
  PROVE  Timed(v, r)
  BY DEF Timed

\* ... and so are two of them one after the other: a second sample of the same task finds
\* its clock unchanged.
LEMMA TimedTrans ==
  ASSUME NEW v, NEW w, NEW r, Timed(v, w), Timed(w, r)
  PROVE  Timed(v, r)
  <1>1. r.exec.time = v.exec.time /\ r.exec.clear = v.exec.clear
    BY DEF Timed
  <1>2. \A e \in Ses : r.avg.seTime[e] = v.avg.seTime[e] \/ r.avg.seTime[e] = Clock(e)
    BY DEF Timed
  <1>3. ASSUME NEW e \in Ses, r.curr[cfs_rq_of(e)] = e
        PROVE  v.curr[cfs_rq_of(e)] = e \/ r.avg.seTime[e] = Clock(e)
    BY <1>3 DEF Timed
  <1>4. CASE r.exec.store = w.exec.store
    <2>1. CASE w.exec.store = v.exec.store
      BY <1>1, <1>2, <1>3, <1>4, <2>1 DEF Timed
    <2>2. CASE w.exec.store # v.exec.store
      <3>1. PICK e \in Tasks : Sampled(v, w, e)
        BY <2>2 DEF Timed
      <3>2. e \in Ses
        BY PathFacts
      <3>3. Sampled(v, r, e)
        BY <1>4, <3>1, <3>2 DEF Timed, Sampled
      <3> QED BY <1>1, <1>2, <1>3, <3>3 DEF Timed
    <2> QED BY <2>1, <2>2
  <1>5. CASE r.exec.store # w.exec.store
    <2>1. PICK e \in Tasks : Sampled(w, r, e)
      BY <1>5 DEF Timed
    <2>2. e \in Ses
      BY PathFacts
    <2>3. w.avg.seTime[e] = v.avg.seTime[e] /\ v.curr[cfs_rq_of(e)] = e
      BY <2>1, <2>2 DEF Timed, Sampled
    <2>4. Sampled(v, r, e)
      BY <2>1, <2>3 DEF Sampled
    <2> QED BY <1>1, <1>2, <1>3, <2>4 DEF Timed
  <1> QED BY <1>4, <1>5

\* The value to store is set, and nothing else of the execution time.
LEMMA StoreFields ==
  ASSUME NEW v \in VType, NEW n \in 0 .. TimeMod - 1
  PROVE  LET r == [v EXCEPT !.exec.store = n]
         IN  /\ r.exec.time = v.exec.time /\ r.exec.clear = v.exec.clear /\ r.exec.store = n
             /\ r.curr = v.curr /\ r.avg = v.avg
  <1> DEFINE x == [v.exec EXCEPT !.store = n]
  <1>1. x.time = v.exec.time /\ x.clear = v.exec.clear /\ x.store = n
    BY VFields DEF ExecType
  <1>2. [v EXCEPT !.exec.store = n] = [v EXCEPT !.exec = x]
    OBVIOUS
  <1> HIDE DEF x
  <1>3. [v EXCEPT !.exec = x].exec = x /\ [v EXCEPT !.exec = x].curr = v.curr /\ [v EXCEPT !.exec = x].avg = v.avg
    BY DEF VType
  <1> QED BY <1>1, <1>2, <1>3

\* __update_load_avg of an entity.
LEMMA UpdateSeTimed ==
  ASSUME IInv, NEW v \in VType, NEW e \in Ses, NEW me \in Cpus
  PROVE  Timed(v, UpdateSe(v, e, me))
  <1> DEFINE q     == cfs_rq_of(e)
             n     == Clock(e)
             last  == v.avg.seTime[e]
             s     == Sample(v, e, me)
             m     == (exec.time + ExecDelta(last, n)) % TimeMod
             timed == [v EXCEPT !.avg.seTime[e] = n]
             rated1 == [timed EXCEPT !.avg.se[e] = s]
             rated2 == [rated1 EXCEPT !.avg.rq[q] = s]
             rated3 == [rated2 EXCEPT !.counted[me] = {}, !.prev[me] = TRUE]
             rated == IF ~(pemt /\ v.curr[q] = e) THEN timed ELSE IF e \in Ges THEN rated1 ELSE rated3
             r     == UpdateSe(v, e, me)
  <1>1. n \in Int /\ last \in Int /\ q \in Rqs /\ s \in Cycles /\ m \in 0 .. TimeMod - 1
    BY ClockInt, VFields, EntityRq, SampleType, StoreRange
  <1>2. /\ n = last => r = v
        /\ n # last /\ ~(v.curr[q] = e /\ e \in Tasks /\ CpuOf[e] = WorkCore) => r = rated
        /\ n # last => r = rated \/ r = [rated EXCEPT !.exec.store = m]
    BY DEF UpdateSe, Clock, Sample
  <1>3. r \in VType /\ r.curr = v.curr /\ r.avg.seTime = [v.avg.seTime EXCEPT ![e] = n]
    <2> HIDE DEF r
    <2>1. SeUpdated(v, r, e, me)
      BY UpdateSeFacts DEF r
    <2> QED BY <2>1 DEF SeUpdated
  <1> HIDE DEF r, n, last, s, m
  <1>4. timed \in VType /\ timed.exec = v.exec
    BY <1>1, SetSeTime
  <1> HIDE DEF timed
  <1>5. rated1 \in VType /\ rated1.exec = v.exec
    BY <1>1, <1>4, SetSe
  <1> HIDE DEF rated1
  <1>6. rated2 \in VType /\ rated2.exec = v.exec
    BY <1>1, <1>5, SetRq
  <1> HIDE DEF rated2
  <1>7. rated3 \in VType /\ rated3.exec = v.exec
    <2>1. rated3 \in VType /\ rated3.exec = rated2.exec
      BY <1>6, Restart
    <2> HIDE DEF rated3
    <2> QED BY <1>6, <2>1
  <1> HIDE DEF rated3
  <1>8. rated \in VType /\ rated.exec = v.exec
    BY <1>4, <1>5, <1>7
  <1> HIDE DEF rated
  <1>9. r.avg.seTime[e] = n /\ \A x \in Ses : x # e => r.avg.seTime[x] = v.avg.seTime[x]
    BY <1>3, VFields
  <1>10. /\ \A x \in Ses : r.avg.seTime[x] = v.avg.seTime[x] \/ r.avg.seTime[x] = Clock(x)
         /\ \A x \in Ses : r.curr[cfs_rq_of(x)] = x => v.curr[cfs_rq_of(x)] = x \/ r.avg.seTime[x] = Clock(x)
    BY <1>3, <1>9 DEF n
  <1>11. CASE r = v \/ r = rated
    <2>1. r.exec = v.exec
      BY <1>8, <1>11
    <2> QED BY <1>10, <2>1 DEF Timed, r
  <1>12. CASE ~(r = v \/ r = rated)
    <2>1. n # last /\ v.curr[q] = e /\ e \in Tasks /\ CpuOf[e] = WorkCore /\ r = [rated EXCEPT !.exec.store = m]
      BY <1>2, <1>12
    <2>2. r.exec.time = v.exec.time /\ r.exec.clear = v.exec.clear /\ r.exec.store = m
      BY <1>1, <1>8, <2>1, StoreFields
    <2>3. Sampled(v, r, e)
      BY <1>9, <2>1, <2>2 DEF Sampled, n, last, m, q
    <2> QED BY <1>10, <2>1, <2>2, <2>3 DEF Timed, r
  <1> QED BY <1>11, <1>12

\* __update_load_avg of a cfs_rq.
LEMMA UpdateRqTimed ==
  ASSUME IInv, NEW v \in VType, NEW q \in Rqs
  PROVE  Timed(v, UpdateRq(v, q))
  <1> DEFINE n     == cfs_rq_clock_task(q)
             timed == [v EXCEPT !.avg.rqTime[q] = n]
             s     == v.avg.se[v.curr[q]]
             rated == [timed EXCEPT !.avg.rq[q] = s]
             r     == UpdateRq(v, q)
  <1>1. n \in Int /\ (v.curr[q] # None => s \in Cycles)
    BY ClockInt, VFields
  <1>2. r = v \/ r = timed \/ (v.curr[q] # None /\ r = rated)
    BY DEF UpdateRq
  <1>3. r.curr = v.curr /\ r.avg.seTime = v.avg.seTime
    BY UpdateRqFacts
  <1> HIDE DEF r, n, s
  <1>4. timed \in VType /\ timed.exec = v.exec
    BY <1>1, SetRqTime
  <1> HIDE DEF timed
  <1>5. v.curr[q] # None => rated.exec = v.exec
    BY <1>1, <1>4, SetRq
  <1> HIDE DEF rated
  <1>6. r.exec = v.exec
    BY <1>2, <1>4, <1>5
  <1> QED BY <1>3, <1>6, TimedSame DEF r

\* update_load_avg.
LEMMA UpdateTimed ==
  ASSUME IInv, NEW v \in VType, NEW e \in Ses, NEW me \in Cpus
  PROVE  LET r == update_load_avg(v, e, me)
         IN  r \in VType /\ Timed(v, r) /\ r.avg.seTime[e] = Clock(e) /\ r.curr = v.curr
  <1> DEFINE w == UpdateSe(v, e, me)
             r == update_load_avg(v, e, me)
  <1>1. r = UpdateRq(w, cfs_rq_of(e)) /\ cfs_rq_of(e) \in Rqs
    BY EntityRq DEF update_load_avg
  <1>2. w \in VType /\ Timed(v, w)
    BY UpdateSeFacts, UpdateSeTimed DEF SeUpdated
  <1>3. Updated(v, r, e, me)
    BY UpdateFacts
  <1> HIDE DEF w, r
  <1>4. Timed(w, r)
    BY <1>1, <1>2, UpdateRqTimed
  <1>5. r \in VType /\ r.avg.seTime[e] = Clock(e) /\ r.curr = v.curr
    BY <1>3, VFields DEF Updated
  <1> QED BY <1>2, <1>4, <1>5, TimedTrans DEF r

\* put_prev_entity.
LEMMA PutTimed ==
  ASSUME IInv, NEW v \in VType, NEW e \in Ses, NEW me \in Cpus
  PROVE  put_prev_entity(v, e, me) \in VType /\ Timed(v, put_prev_entity(v, e, me))
  <1> DEFINE w == IF on_rq(e) THEN update_load_avg(v, e, me) ELSE v
             q == cfs_rq_of(e)
             r == [w EXCEPT !.curr[q] = None]
  <1>1. put_prev_entity(v, e, me) = r
    BY DEF put_prev_entity
  <1>2. q \in Rqs /\ None \notin Ses
    BY EntityRq, RqFacts
  <1>3. w \in VType /\ Timed(v, w)
    BY UpdateTimed, TimedSame
  <1> HIDE DEF w, q
  <1>4. r \in VType /\ r.curr = [w.curr EXCEPT ![q] = None] /\ r.avg = w.avg /\ r.exec = w.exec
    BY <1>2, <1>3, SetCurr
  <1> HIDE DEF r
  <1>5. \A x \in Ses : r.curr[cfs_rq_of(x)] = x => w.curr[cfs_rq_of(x)] = x
    BY <1>2, <1>3, <1>4, VFields, EntityRq
  <1>6. Timed(w, r)
    BY <1>4, <1>5 DEF Timed
  <1> QED BY <1>1, <1>3, <1>4, <1>6, TimedTrans

\* set_next_entity.
LEMMA SetTimed ==
  ASSUME IInv, NEW v \in VType, NEW e \in Ses, NEW me \in Cpus
  PROVE  set_next_entity(v, e, me) \in VType /\ Timed(v, set_next_entity(v, e, me))
  <1> DEFINE w == update_load_avg(v, e, me)
             q == cfs_rq_of(e)
             r == [w EXCEPT !.curr[q] = e]
  <1>1. set_next_entity(v, e, me) = r
    BY DEF set_next_entity
  <1>2. q \in Rqs
    BY EntityRq
  <1>3. w \in VType /\ Timed(v, w) /\ w.avg.seTime[e] = Clock(e)
    BY UpdateTimed
  <1> HIDE DEF w, q
  <1>4. r \in VType /\ r.curr = [w.curr EXCEPT ![q] = e] /\ r.avg = w.avg /\ r.exec = w.exec
    BY <1>2, <1>3, SetCurr
  <1> HIDE DEF r
  <1>5. \A x \in Ses : r.curr[cfs_rq_of(x)] = x => w.curr[cfs_rq_of(x)] = x \/ r.avg.seTime[x] = Clock(x)
    BY <1>2, <1>3, <1>4, VFields, EntityRq
  <1>6. Timed(w, r)
    BY <1>4, <1>5 DEF Timed
  <1> QED BY <1>1, <1>3, <1>4, <1>6, TimedTrans

\* The update of the path of a task.
LEMMA PathTimed ==
  ASSUME IInv, NEW v \in VType, NEW t \in Tasks, NEW me \in Cpus
  PROVE  UpdatePath(v, t, me) \in VType /\ Timed(v, UpdatePath(v, t, me))
  <1> DEFINE w == update_load_avg(v, t, me)
             g == cfs_rq_of(t)
             x == update_load_avg(w, g, me)
  <1>1. t \in Ses /\ (Grouped(t) => g \in Ses)
    BY PathFacts
  <1>2. w \in VType /\ Timed(v, w)
    BY <1>1, UpdateTimed
  <1>3. UpdatePath(v, t, me) = IF Grouped(t) THEN x ELSE w
    BY DEF UpdatePath
  <1> HIDE DEF w
  <1>4. Grouped(t) => x \in VType /\ Timed(w, x)
    BY <1>1, <1>2, UpdateTimed
  <1> HIDE DEF x
  <1> QED BY <1>2, <1>3, <1>4, TimedTrans

\* The running task and its group are put.
LEMMA PutAllTimed ==
  ASSUME IInv, NEW v \in VType, NEW p \in Tasks, NEW me \in Cpus
  PROVE  Timed(v, PutAll(v, p, me))
  <1> DEFINE w == put_prev_entity(v, p, me)
             g == cfs_rq_of(p)
             x == put_prev_entity(w, g, me)
  <1>1. p \in Ses /\ (Grouped(p) => g \in Ses)
    BY PathFacts
  <1>2. w \in VType /\ Timed(v, w)
    BY <1>1, PutTimed
  <1>3. PutAll(v, p, me) = IF Grouped(p) THEN x ELSE w
    BY DEF PutAll
  <1> HIDE DEF w
  <1>4. Grouped(p) => Timed(w, x)
    BY <1>1, <1>2, PutTimed
  <1> HIDE DEF x
  <1> QED BY <1>2, <1>3, <1>4, TimedTrans

\* A task and its group are set.
LEMMA SetAllTimed ==
  ASSUME IInv, NEW v \in VType, NEW t \in Tasks, NEW me \in Cpus
  PROVE  Timed(v, SetAll(v, t, me))
  <1> DEFINE g == cfs_rq_of(t)
             x == set_next_entity(v, g, me)
             w == IF Grouped(t) THEN x ELSE v
             r == set_next_entity(w, t, me)
  <1>1. t \in Ses /\ (Grouped(t) => g \in Ses)
    BY PathFacts
  <1>2. Grouped(t) => x \in VType /\ Timed(v, x)
    BY <1>1, SetTimed
  <1>3. SetAll(v, t, me) = r
    BY DEF SetAll
  <1> HIDE DEF x
  <1>4. w \in VType /\ Timed(v, w)
    BY <1>2, TimedSame
  <1> HIDE DEF w
  <1>5. Timed(w, r)
    BY <1>1, <1>4, SetTimed
  <1> HIDE DEF r
  <1> QED BY <1>3, <1>4, <1>5, TimedTrans

\* One task takes the place of another.
LEMMA SwitchTimed ==
  ASSUME IInv, NEW v \in VType, NEW p \in Tasks, NEW t \in Tasks, NEW me \in Cpus
  PROVE  Timed(v, Switch(v, p, t, me))
  <1>1. p \in Ses /\ t \in Ses /\ Top(p) \in Ses /\ Top(t) \in Ses
    BY PathFacts, TopFacts
  <1>2. CASE p = t
    BY <1>2, TimedSame DEF Switch
  <1>3. CASE p # t /\ cfs_rq_of(p) = cfs_rq_of(t)
    <2> DEFINE w == put_prev_entity(v, p, me)
               r == set_next_entity(w, t, me)
    <2>1. Switch(v, p, t, me) = r
      BY <1>3 DEF Switch
    <2>2. w \in VType /\ Timed(v, w)
      BY <1>1, PutTimed
    <2> HIDE DEF w
    <2>3. Timed(w, r)
      BY <1>1, <2>2, SetTimed
    <2> HIDE DEF r
    <2> QED BY <2>1, <2>2, <2>3, TimedTrans
  <1>4. CASE p # t /\ cfs_rq_of(p) # cfs_rq_of(t)
    <2> DEFINE below == IF Grouped(p) THEN put_prev_entity(v, p, me) ELSE v
               placed == IF Grouped(t) THEN set_next_entity(below, t, me) ELSE below
               w == put_prev_entity(placed, Top(p), me)
               r == set_next_entity(w, Top(t), me)
    <2>1. Switch(v, p, t, me) = r
      BY <1>4 DEF Switch, Top
    <2>2. below \in VType /\ Timed(v, below)
      BY <1>1, PutTimed, TimedSame
    <2> HIDE DEF below
    <2>3. placed \in VType /\ Timed(below, placed)
      BY <1>1, <2>2, SetTimed, TimedSame
    <2> HIDE DEF placed
    <2>4. w \in VType /\ Timed(placed, w)
      BY <1>1, <2>3, PutTimed
    <2> HIDE DEF w
    <2>5. Timed(w, r)
      BY <1>1, <2>4, SetTimed
    <2> HIDE DEF r
    <2>6. Timed(v, w)
      BY <2>2, <2>3, <2>4, TimedTrans
    <2> QED BY <2>1, <2>5, <2>6, TimedTrans
  <1> QED BY <1>2, <1>3, <1>4

\* pkshin_pmu_update.
LEMMA RestartTimed ==
  ASSUME NEW v \in VType, NEW me \in Cpus
  PROVE  pkshin_pmu_update(v, me) \in VType /\ Timed(v, pkshin_pmu_update(v, me))
  <1> DEFINE w == [v EXCEPT !.counted[me] = {}, !.prev[me] = TRUE]
  <1>1. pkshin_pmu_update(v, me) = IF pemt THEN w ELSE v
    BY DEF pkshin_pmu_update
  <1>2. w \in VType /\ w.curr = v.curr /\ w.avg = v.avg /\ w.exec = v.exec
    BY Restart
  <1> HIDE DEF w
  <1> QED BY <1>1, <1>2, TimedSame

\* What __schedule has done before the next task is picked.
LEMMA DeactivatedTimed ==
  ASSUME IInv, NEW c \in Cpus, NEW sleeps \in BOOLEAN, sleeps => Running(c) # None
  PROVE  Deactivated(c, sleeps) \in VType /\ Timed(Now, Deactivated(c, sleeps))
  <1>1. Now \in VType /\ Timed(Now, Now)
    BY NowFacts, TimedSame
  <1>2. sleeps => Running(c) \in Tasks
    BY RunningFacts
  <1> HIDE DEF Now
  <1>3. sleeps => UpdatePath(Now, Running(c), c) \in VType /\ Timed(Now, UpdatePath(Now, Running(c), c))
    BY <1>1, <1>2, PathTimed
  <1> QED BY <1>1, <1>3 DEF Deactivated

-----------------------------------------------------------------------------
(***************************************************************************)
(* Steps.                                                                  *)
(***************************************************************************)
\* The execution time, the clock and the sums are numbers; a clock lags by at most MaxLag.
LEMMA ExecTypes ==
  ASSUME IInv
  PROVE  /\ exec.time \in 0 .. TimeMod - 1 /\ exec.clear \in Nat /\ exec.store \in -1 .. TimeMod - 1
         /\ Pending \in 0 .. TimeMod - 1 /\ total \in 0 .. TimeMod - 1
         /\ clock[WorkCore] \in 1 .. MaxTime[WorkCore] /\ clock[WorkCore] \in Nat
         /\ governor # None => governor \in 1 .. MaxTime[WorkCore]
         /\ Signed(exec.time) \in Int /\ Signed(Pending) \in Int /\ Signed(total) \in Int
         /\ \A t \in Tasks : CpuOf[t] = WorkCore =>
              /\ clock[WorkCore] - Clock(t) \in 0 .. MaxLag /\ Clock(t) \in Int
              /\ avg.seTime[t] \in Int /\ avg.seTime[t] <= Clock(t)
              /\ ~Lagged => Clock(t) = clock[WorkCore]
  <1>1. /\ WorkCore \in Cpus /\ MaxLag \in Nat /\ TimeMod \in Nat \ {0} /\ MaxTime[WorkCore] \in Nat
    BY PemtAssumption
  <1>2. /\ exec.time \in 0 .. TimeMod - 1 /\ exec.clear \in 0 .. MaxTime[WorkCore]
        /\ exec.store \in -1 .. TimeMod - 1 /\ total \in 0 .. TimeMod - 1
        /\ clock[WorkCore] \in 1 .. MaxTime[WorkCore]
        /\ governor \in (1 .. MaxTime[WorkCore]) \cup {None}
    BY <1>1 DEF IInv, TypeOK
  <1>3. Pending \in 0 .. TimeMod - 1
    BY <1>1, <1>2 DEF Pending
  <1>4. ASSUME NEW t \in Tasks, CpuOf[t] = WorkCore
        PROVE  /\ clock[WorkCore] - Clock(t) \in 0 .. MaxLag /\ Clock(t) \in Int
               /\ avg.seTime[t] \in Int /\ avg.seTime[t] <= Clock(t)
               /\ ~Lagged => Clock(t) = clock[WorkCore]
    <2>1. cfs_rq_of(t) \in Rqs /\ cfs_rq_of(t)[2] = WorkCore /\ t \in Ses
      BY <1>4, PathFacts
    <2>2. Clock(t) = clock[WorkCore] - (IF cfs_rq_of(t) \in Ges THEN lag[cfs_rq_of(t)] ELSE 0)
      BY <2>1 DEF Clock, cfs_rq_clock_task, CpuOfRq
    <2>3. cfs_rq_of(t) \in Ges => lag[cfs_rq_of(t)] \in 0 .. MaxLag
      BY DEF IInv, TypeOK
    <2>4. clock[WorkCore] - Clock(t) \in 0 .. MaxLag /\ Clock(t) \in Int
      BY <1>1, <1>2, <2>2, <2>3
    <2>5. avg.seTime[t] \in Int
      BY <2>1, NowFacts, VFields
    <2>6. avg.seTime[t] <= Clock(t)
      BY <2>1 DEF IInv, ClockInv, Clock
    <2>7. ~Lagged => Clock(t) = clock[WorkCore]
      BY <1>2, <2>1, <2>2 DEF Lagged, CpuOfRq
    <2> QED BY <2>4, <2>5, <2>6, <2>7
  <1>5. exec.clear \in Nat /\ clock[WorkCore] \in Nat
    BY <1>1, <1>2
  <1>6. exec.time \in Int /\ Pending \in Int /\ total \in Int
    BY <1>1, <1>2, <1>3
  <1> QED BY <1>1, <1>2, <1>3, <1>4, <1>5, <1>6, SignedWord

\* The task that runs on WorkCore is the one that curr leads to.
LEMMA WorkRunner ==
  ASSUME IInv
  PROVE  LET p == RunningIn(curr, WorkCore)
         IN  /\ p # None => p \in Tasks /\ CpuOf[p] = WorkCore /\ curr[cfs_rq_of(p)] = p
             /\ \A t \in Tasks : CpuOf[t] = WorkCore /\ curr[cfs_rq_of(t)] = t => t = p /\ p # None
  <1> DEFINE p == RunningIn(curr, WorkCore)
  <1>1. WorkCore \in Cpus
    BY PemtAssumption
  <1>2. /\ p = None => Idles(curr, WorkCore)
        /\ p # None => p \in Tasks /\ CpuOf[p] = WorkCore /\ Runs(curr, p)
    <2>1. p = Running(WorkCore)
      BY <1>1, RunningFacts
    <2> HIDE DEF p
    <2> QED BY <1>1, <2>1, RunningFacts
  <1> HIDE DEF p
  <1>3. p # None => curr[cfs_rq_of(p)] = p
    BY <1>2, RunsRunning
  <1>4. ASSUME NEW t \in Tasks, CpuOf[t] = WorkCore, curr[cfs_rq_of(t)] = t PROVE t = p /\ p # None
    <2>1. cfs_rq_of(t) \in Rqs /\ cfs_rq_of(t)[2] = WorkCore /\ t # None
      BY <1>4, PathFacts, RqFacts
    <2>2. p # None
      BY <1>2, <1>4, <2>1 DEF Idles
    <2> QED BY <1>2, <1>4, <2>1, <2>2, RunsRunning
  <1> QED BY <1>2, <1>3, <1>4 DEF p

\* When the execution time was brought up to date is not later than now.
LEMMA AtFacts ==
  ASSUME IInv
  PROVE  At(curr, avg.seTime) \in Int /\ At(curr, avg.seTime) <= clock[WorkCore]
  <1> DEFINE p == RunningIn(curr, WorkCore)
  <1>1. p # None => p \in Tasks /\ CpuOf[p] = WorkCore
    BY WorkRunner
  <1>2. At(curr, avg.seTime) = IF p = None THEN clock[WorkCore] ELSE avg.seTime[p] + (clock[WorkCore] - Clock(p))
    BY DEF At
  <1> HIDE DEF p
  <1> QED BY <1>1, <1>2, ExecTypes

\* A handler brings it forward, and to the present if it takes a sample.
LEMMA HandlerAt ==
  ASSUME IInv, IInv', NEW r, Becomes(r), Rest, Timed(Now, r)
  PROVE  LET l  == At(curr, avg.seTime)
             l2 == At(curr, avg.seTime)'
         IN  /\ l2 \in Int /\ l <= l2 /\ l2 <= clock[WorkCore]
             /\ \A t \in Tasks : Sampled(Now, r, t) => l2 = clock[WorkCore]
  <1> DEFINE l  == At(curr, avg.seTime)
             p  == RunningIn(curr, WorkCore)
             p2 == RunningIn(curr', WorkCore)
             l2 == IF p2 = None THEN clock[WorkCore] ELSE avg'.seTime[p2] + (clock[WorkCore] - Clock(p2))
  <1>1. /\ curr' = r.curr /\ avg' = r.avg /\ clock' = clock /\ lag' = lag
        /\ Now.curr = curr /\ Now.avg = avg /\ WorkCore \in Cpus
    BY NowFacts, PemtAssumption DEF Becomes, Rest
  <1>2. At(curr, avg.seTime)' = l2
    BY <1>1 DEF At, RunningIn, RootRq, Clock, cfs_rq_clock_task, cfs_rq_of, CpuOfRq
  <1>3. l = IF p = None THEN clock[WorkCore] ELSE avg.seTime[p] + (clock[WorkCore] - Clock(p))
    BY DEF At
  <1>4. l \in Int /\ l <= clock[WorkCore]
    BY AtFacts
  <1>5. p2 # None => p2 \in Tasks /\ CpuOf[p2] = WorkCore /\ curr'[cfs_rq_of(p2)] = p2
    <2>1. Idles(curr', WorkCore) \/ \E t \in queued' : CpuOf[t] = WorkCore /\ Runs(curr', t)
      BY <1>1 DEF IInv, HierarchyInv, Idles, Runs, On, RootRq, cfs_rq_of
    <2>2. queued' \subseteq Tasks
      BY DEF IInv, TypeOK
    <2>3. CASE Idles(curr', WorkCore)
      BY <1>1, <2>3, RunsRunning
    <2>4. CASE \E t \in queued' : CpuOf[t] = WorkCore /\ Runs(curr', t)
      <3>1. PICK t \in Tasks : CpuOf[t] = WorkCore /\ Runs(curr', t)
        BY <2>2, <2>4
      <3>2. p2 = t /\ curr'[cfs_rq_of(t)] = t
        BY <3>1, RunsRunning
      <3> QED BY <3>1, <3>2
    <2> QED BY <2>1, <2>3, <2>4
  <1>6. \A t \in Tasks : CpuOf[t] = WorkCore /\ curr[cfs_rq_of(t)] = t => t = p /\ p # None
    BY WorkRunner
  <1> HIDE DEF p, p2, l
  <1>7. clock[WorkCore] \in Int
    BY ExecTypes
  <1>8. l2 = clock[WorkCore] \/ (p2 # None /\ p2 = p /\ l2 = l /\ avg'.seTime[p2] # Clock(p2))
    <2>1. CASE p2 = None
      BY <2>1
    <2>2. CASE p2 # None /\ avg'.seTime[p2] = Clock(p2)
      <3>1. Clock(p2) \in Int
        BY <1>5, <2>2, ExecTypes
      <3> QED BY <1>7, <2>2, <3>1
    <2>3. CASE p2 # None /\ avg'.seTime[p2] # Clock(p2)
      <3>1. p2 \in Ses
        BY <1>5, <2>3, PathFacts
      <3>2. curr[cfs_rq_of(p2)] = p2 /\ avg'.seTime[p2] = avg.seTime[p2]
        BY <1>1, <1>5, <2>3, <3>1 DEF Timed
      <3>3. p2 = p
        BY <1>5, <1>6, <2>3, <3>2
      <3> QED BY <1>3, <2>3, <3>2, <3>3
    <2> QED BY <2>1, <2>2, <2>3
  <1>9. l2 \in Int /\ l <= l2 /\ l2 <= clock[WorkCore]
    <2> HIDE DEF l2
    <2> QED BY <1>4, <1>7, <1>8
  <1>10. ASSUME NEW t \in Tasks, Sampled(Now, r, t) PROVE l2 = clock[WorkCore]
    <2>1. t = p /\ avg'.seTime[t] = Clock(t)
      BY <1>1, <1>6, <1>10 DEF Sampled
    <2> HIDE DEF l2
    <2> QED BY <1>8, <2>1
  <1> HIDE DEF l2
  <1> QED BY <1>2, <1>9, <1>10 DEF l

\* A handler keeps the execution time.
LEMMA HandlerExec ==
  ASSUME IInv, IInv', ExecInv, NEW r, Becomes(r), Rest, Timed(Now, r)
  PROVE  ExecInv'
  <1> DEFINE e  == Signed(exec.time)
             s  == Signed(Pending)
             n  == Signed(total)
             l  == At(curr, avg.seTime)
             l2 == At(curr, avg.seTime)'
             s2 == Signed(Pending')
             now == clock[WorkCore]
  <1>1. /\ exec' = r.exec /\ avg' = r.avg /\ clock' = clock /\ lag' = lag /\ total' = total
        /\ governor' = governor /\ raced' = raced
        /\ Now.curr = curr /\ Now.avg = avg /\ Now.exec = exec
    BY NowFacts DEF Becomes, Rest
  <1>2. exec'.time = exec.time /\ exec'.clear = exec.clear
    BY <1>1 DEF Timed
  <1>3. SUFFICES ASSUME ~raced
                 PROVE  /\ InTime(e, s2, n, exec.clear, l2, now, governor)
                        /\ ~Lagged => s2 = Pending'
    <2>1. Lagged' = Lagged /\ Signed(exec'.time) = e /\ Signed(total') = n
      BY <1>1, <1>2 DEF Lagged, Signed
    <2>2. ~raced /\ ~Lagged => WordsExact
      BY DEF ExecInv
    <2> QED BY <1>1, <1>2, <1>3, <2>1, <2>2 DEF ExecInv, WordsExact, InTime, Low
  <1>4. InTime(e, s, n, exec.clear, l, now, governor) /\ (~Lagged => WordsExact)
    BY <1>3 DEF ExecInv
  <1>5. /\ l2 \in Int /\ l <= l2 /\ l2 <= now
        /\ \A t \in Tasks : Sampled(Now, r, t) => l2 = now
    BY HandlerAt
  <1>6. l \in Int /\ e \in Int /\ s \in Int /\ n \in Int /\ exec.clear \in Nat /\ now \in Nat
        /\ now \in 0 .. MaxTime[WorkCore] /\ (governor # None => governor \in Int)
    BY AtFacts, ExecTypes
  <1> HIDE DEF l, l2
  <1>7. CASE exec'.store = exec.store
    <2>1. s2 = s /\ (~Lagged => s2 = Pending')
      BY <1>2, <1>4, <1>7 DEF Pending, Signed, WordsExact
    <2> HIDE DEF e, s, n, s2, now
    <2> QED BY <1>4, <1>5, <1>6, <2>1, InTimePasses
  <1>8. CASE exec'.store # exec.store
    <2>1. PICK t \in Tasks : Sampled(Now, r, t)
      BY <1>1, <1>8 DEF Timed
    <2> DEFINE last == avg.seTime[t]
               k    == now - Clock(t)
               d    == IF last > exec.clear THEN (now - k) - last ELSE (now - k) - exec.clear
    <2>2. /\ CpuOf[t] = WorkCore /\ curr[cfs_rq_of(t)] = t /\ last # Clock(t)
          /\ exec'.store = (exec.time + ExecDelta(last, Clock(t))) % TimeMod
      BY <1>1, <2>1 DEF Sampled
    <2>3. k \in 0 .. MaxLag /\ Clock(t) \in Int /\ last \in Int /\ MaxLag \in Nat
      BY <2>2, ExecTypes, LowFacts
    <2>4. l = last + k
      <3>1. t = RunningIn(curr, WorkCore) /\ t # None
        BY <2>2, WorkRunner, RqFacts
      <3> QED BY <3>1 DEF l, At
    <2>5. l2 = now
      BY <1>5, <2>1
    <2>6. now - k = Clock(t) /\ k \in Int
      BY <1>6, <2>3
    <2>7. /\ d \in Int /\ ExecDelta(last, Clock(t)) \in Int
          /\ ExecDelta(last, Clock(t)) = d \/ ExecDelta(last, Clock(t)) = d % SpanMod
      <3>1. d % SpanMod \in Int /\ d \in Int
        BY <1>6, <2>3, <2>6, ModFacts
      <3> QED BY <2>6, <3>1 DEF ExecDelta
    <2>8. InTime(e, e + d, n, exec.clear, now, now, governor)
      <3> HIDE DEF e, s, n, k, last, now
      <3>1. now \in Int /\ last # now - k
        BY <1>6, <2>2, <2>6
      <3>2. LET x == IF last > exec.clear THEN (now - k) - last ELSE (now - k) - exec.clear
            IN  InTime(e, e + x, n, exec.clear, now, now, governor)
        BY <1>4, <1>6, <2>3, <2>4, <3>1, InTimeSampled
      <3> QED BY <3>2
    <2>9. -SpanMod <= 2 * (e + d) /\ 2 * (e + d) < SpanMod
      <3> HIDE DEF e, n, d, now
      <3>1. e + d \in Int /\ now \in Int
        BY <1>6, <2>7
      <3> QED BY <1>6, <2>8, <3>1, InTimeRange
    <2>10. exec.time \in 0 .. TimeMod - 1 /\ exec.time \in Nat
      BY ExecTypes, ModFacts
    <2>11. exec'.store \in 0 .. TimeMod - 1 /\ Signed(exec'.store) = e + d
      <3> HIDE DEF d, last
      <3> QED BY <2>2, <2>7, <2>9, <2>10, SignedAdd
    <2>12. s2 = e + d /\ Pending' = exec'.store
      <3>1. exec'.store # -1
        BY <2>11, ModFacts
      <3> HIDE DEF d
      <3> QED BY <2>11, <3>1 DEF Pending
    <2>13. ASSUME ~Lagged PROVE exec'.store = e + d
      <3>1. k = 0 /\ last <= now /\ exec.clear <= now /\ e = exec.time
        BY <1>4, <1>6, <2>2, <2>13, ExecTypes DEF InTime, WordsExact
      <3>2. d \in Nat
        <4>1. d = IF last > exec.clear THEN now - last ELSE now - exec.clear
          BY <1>6, <3>1
        <4> HIDE DEF d, k, last, now
        <4> QED BY <1>6, <2>3, <3>1, <4>1
      <3> DEFINE z == ExecDelta(last, Clock(t))
      <3>3. z \in Int /\ (z = d \/ z = d % SpanMod) /\ exec'.store = (exec.time + z) % TimeMod
        BY <2>2, <2>7
      <3> HIDE DEF d, z, e
      <3>4. 2 * (exec.time + d) < SpanMod
        BY <2>9, <3>1
      <3>5. (exec.time + z) % TimeMod = exec.time + d
        BY <2>10, <3>2, <3>3, <3>4, ExactAdd
      <3> QED BY <3>1, <3>3, <3>5
    <2> HIDE DEF e, d, n, now, s2
    <2> QED BY <2>5, <2>8, <2>12, <2>13
  <1> QED BY <1>7, <1>8

\* A step that changes neither the time nor the averages of WorkCore's task keeps At.
LEMMA AtKept ==
  ASSUME UNCHANGED <<clock, lag, curr, avg>>
  PROVE  At(curr, avg.seTime)' = At(curr, avg.seTime)
  BY DEF At, RunningIn, RootRq, Clock, cfs_rq_clock_task, cfs_rq_of, CpuOfRq

\* Nothing happens to the execution time.
LEMMA QuietExec ==
  ASSUME ExecInv, UNCHANGED <<clock, lag, curr, avg, exec, total, governor, raced>>
  PROVE  ExecInv'
  BY AtKept DEF ExecInv, InTime, Low, Signed, Pending, WordsExact, Lagged

\* Time passes: the group above the running task is not throttled.
LEMMA RunExec ==
  ASSUME IInv, IInv', ExecInv, NEW c \in Cpus, Run(c)
  PROVE  ExecInv'
  <1> DEFINE l  == At(curr, avg.seTime)
             l2 == At(curr, avg.seTime)'
             e  == Signed(exec.time)
             s  == Signed(Pending)
             n  == Signed(total)
             now  == clock[WorkCore]
             now2 == clock'[WorkCore]
  <1>1. /\ UNCHANGED <<curr, avg, exec, total, governor, raced>>
        /\ clock' = [clock EXCEPT ![c] = @ + 1]
        /\ \E throttled \in SUBSET {g \in Ges : g[2] = c /\ curr[g] = None /\ lag[g] < MaxLag} :
             lag' = [g \in Ges |-> IF g \in throttled THEN lag[g] + 1 ELSE lag[g]]
    BY DEF Run
  <1>2. \A g \in Ges : curr[g] # None => lag'[g] = lag[g]
    BY <1>1
  <1>3. now2 \in Nat /\ now \in Nat /\ now <= now2
    <2>1. clock \in [Cpus -> Int] /\ WorkCore \in Cpus
      BY PemtAssumption DEF IInv
    <2>2. clock'[WorkCore] = clock[WorkCore] \/ clock'[WorkCore] = clock[WorkCore] + 1
      BY <1>1, <2>1
    <2> QED BY <2>2, ExecTypes
  <1>4. PICK p : p = RunningIn(curr, WorkCore)
    OBVIOUS
  <1>5. /\ l = IF p = None THEN now ELSE avg.seTime[p] + (now - Clock(p))
        /\ l2 = IF p = None THEN now2 ELSE avg.seTime[p] + (now2 - Clock(p)')
    BY <1>1, <1>4 DEF At, RunningIn, RootRq, Clock, cfs_rq_clock_task, cfs_rq_of, CpuOfRq
  <1>6. p # None => p \in Tasks /\ CpuOf[p] = WorkCore /\ curr[cfs_rq_of(p)] = p
    BY <1>4, WorkRunner
  <1>7. p # None => now2 - Clock(p)' = now - Clock(p)
    <2> DEFINE y == IF cfs_rq_of(p) \in Ges THEN lag[cfs_rq_of(p)] ELSE 0
    <2>1. p # None => cfs_rq_of(p)[2] = WorkCore
      BY <1>6, PathFacts
    <2>2. p # None => Clock(p) = now - y
      BY <2>1 DEF Clock, cfs_rq_clock_task, CpuOfRq
    <2>3. p # None => Clock(p)' = now2 - y
      BY <1>2, <1>6, <2>1 DEF Clock, cfs_rq_clock_task, CpuOfRq, cfs_rq_of
    <2>4. y \in Int
      BY PemtAssumption DEF IInv, TypeOK
    <2> HIDE DEF y, now, now2
    <2> QED BY <1>3, <2>2, <2>3, <2>4
  <1>8. l \in Int /\ l <= now
    BY AtFacts
  <1>9. l2 \in Int /\ l <= l2 /\ l2 <= now2
    <2>1. p = None \/ l2 = l
      BY <1>5, <1>7
    <2>2. p = None => l2 = now2
      BY <1>5
    <2> HIDE DEF l, l2, now, now2
    <2> QED BY <1>3, <1>8, <2>1, <2>2
  <1>10. SUFFICES ASSUME ~raced PROVE InTime(e, s, n, exec.clear, l2, now2, governor)
    <2>1. Lagged => Lagged'
      <3>1. \A g \in Ges : lag[g] \in Nat
        BY PemtAssumption DEF IInv, TypeOK
      <3>2. \A g \in Ges : lag'[g] = lag[g] \/ lag'[g] = lag[g] + 1
        BY <1>1
      <3> QED BY <3>1, <3>2 DEF Lagged
    <2>2. WordsExact' = WordsExact
      BY <1>1 DEF WordsExact, Signed, Pending
    <2> QED BY <1>1, <2>1, <2>2 DEF ExecInv, InTime, Low, Signed, Pending
  <1>11. InTime(e, s, n, exec.clear, l, now, governor)
    BY <1>10 DEF ExecInv
  <1>12. e \in Int /\ s \in Int /\ n \in Int /\ exec.clear \in Int /\ (governor # None => governor \in Int)
    BY ExecTypes
  <1> HIDE DEF e, s, n, l, l2, now, now2
  <1>13. now \in Int /\ now2 \in Int
    BY <1>3
  <1> QED BY <1>3, <1>8, <1>9, <1>11, <1>12, <1>13, InTimePasses

\* The governor clears the execution time, up to which no update is pending.
LEMMA ClearExec ==
  ASSUME IInv, ~raced, ExecInv, NEW at \in 0 .. MaxTime[WorkCore], Clear(at), exec.store = -1,
         exec.clear <= at, at <= clock[WorkCore], Signed(exec.time) <= at - exec.clear
  PROVE  /\ exec'.store = -1
         /\ InTime(Signed(exec'.time), Signed(exec'.time), Signed(total'), exec'.clear,
                   At(curr, avg.seTime), clock[WorkCore], None)
         /\ ~Lagged => Signed(exec'.time) = exec'.time /\ Signed(total') = total'
  <1> DEFINE e   == Signed(exec.time)
             n   == Signed(total)
             l   == At(curr, avg.seTime)
             now == clock[WorkCore]
             interval == (at - exec.clear) % SpanMod
             idle     == IF interval > exec.time THEN interval - exec.time ELSE 0
             add      == IF interval > exec.time THEN at - exec.clear ELSE e
  <1>1. /\ exec.time \in Nat /\ exec.clear \in Nat /\ total \in Nat
        /\ now \in 1 .. MaxTime[WorkCore] /\ e \in Int /\ n \in Int /\ l \in Int /\ exec \in ExecType
        /\ SpanMod \in Nat \ {0} /\ MaxTime[WorkCore] \in Nat
    BY ExecTypes, AtFacts, LowFacts, ModFacts DEF IInv
  <1>2. InTime(e, e, n, exec.clear, l, now, governor) /\ (~Lagged => e = exec.time /\ n = total)
    BY DEF ExecInv, Pending, WordsExact
  <1>3. at \in Int /\ at - exec.clear \in Nat /\ at - exec.clear <= MaxTime[WorkCore]
        /\ 2 * MaxTime[WorkCore] < SpanMod
    <2>1. 2 * Low(0) + 2 * MaxTime[WorkCore] < SpanMod /\ Low(0) = 0
      BY <1>1, LowFacts DEF Low
    <2> QED BY <1>1, <2>1
  <1>4. interval = at - exec.clear
    <2>1. at - exec.clear \in 0 .. SpanMod - 1 /\ (at - exec.clear) + SpanMod * 0 = at - exec.clear
      BY <1>1, <1>3
    <2> QED BY <2>1, SpanExact
  <1>5. interval > exec.time => e = exec.time
    <2>1. interval > exec.time => -SpanMod <= 2 * exec.time /\ 2 * exec.time < SpanMod
      <3> HIDE DEF interval
      <3> QED BY <1>1, <1>3, <1>4
    <2> QED BY <1>1, <2>1, SignedExact
  <1> HIDE DEF interval
  <1>6. add \in Int /\ idle \in Int /\ n + add \in Int /\ (add = e \/ add = at - exec.clear)
    BY <1>1, <1>3, <1>4
  <1>7. InTime(0, 0, n + add, at, l, now, None)
    <2> HIDE DEF e, n, l, add
    <2>1. now \in Int /\ exec.clear \in Int
      BY <1>1
    <2> HIDE DEF now
    <2>2. exec.clear <= at /\ at <= now /\ e <= at - exec.clear
      BY DEF now, e
    <2> QED BY <1>1, <1>2, <1>3, <1>6, <2>1, <2>2, InTimeCleared
  <1>8. CASE interval = 0
    <2>1. exec' = exec /\ total' = total /\ at = exec.clear
      BY <1>1, <1>3, <1>4, <1>8 DEF Clear, interval
    <2>2. InTime(e, e, n, exec.clear, l, now, None)
      BY <1>2 DEF InTime
    <2> QED BY <1>2, <2>1, <2>2
  <1>9. CASE interval # 0
    <2>1. total' = (total + idle + exec.time) % TimeMod /\ exec' = [exec EXCEPT !.time = 0, !.clear = at]
      BY <1>9 DEF Clear, interval
    <2>2. exec'.time = 0 /\ exec'.clear = at /\ exec'.store = -1 /\ Signed(0) = 0
      BY <1>1, <2>1, SignedExact DEF ExecType
    <2>3. -SpanMod <= 2 * (n + add) /\ 2 * (n + add) < SpanMod
      <3>1. 0 \in Int /\ at \in Nat /\ now \in 0 .. MaxTime[WorkCore]
        BY <1>1, <1>3
      <3> HIDE DEF n, add, l, now
      <3> QED BY <1>1, <1>6, <1>7, <3>1, InTimeRange
    <2>4. /\ idle + exec.time \in Int
          /\ idle + exec.time = add \/ (add = e /\ idle + exec.time = exec.time)
      <3> HIDE DEF e
      <3> QED BY <1>1, <1>3, <1>4, <1>5
    <2>5. Signed(total') = n + add
      <3>1. CASE idle + exec.time = add
        <4>1. total' = (total + add) % TimeMod
          <5> HIDE DEF add, idle
          <5> QED BY <1>1, <1>6, <2>1, <3>1
        <4> HIDE DEF add
        <4> QED BY <1>1, <1>6, <2>3, <4>1, SignedAdd
      <3>2. CASE add = e /\ idle + exec.time = exec.time
        <4>1. total' = (total + exec.time) % TimeMod
          <5> HIDE DEF idle
          <5> QED BY <1>1, <1>6, <2>1, <3>2
        <4>2. Signed((total + exec.time) % TimeMod) = n + e
          <5>1. -SpanMod <= 2 * (n + e) /\ 2 * (n + e) < SpanMod
            BY <2>3, <3>2
          <5> QED BY <1>1, <5>1, SignedSum
        <4> QED BY <3>2, <4>1, <4>2
      <3> QED BY <2>4, <3>1, <3>2
    <2>6. ASSUME ~Lagged PROVE total' = n + add
      <3>1. e = exec.time /\ n = total /\ idle + exec.time = add /\ add \in Nat
        <4>1. e = exec.time /\ n = total
          BY <1>2, <2>6
        <4> HIDE DEF e, n
        <4> QED BY <1>1, <1>3, <1>4, <2>4, <4>1
      <3>2. total' = (total + add) % TimeMod
        <4> HIDE DEF add, idle
        <4> QED BY <1>1, <1>6, <2>1, <3>1
      <3> HIDE DEF add, idle, n
      <3> QED BY <1>1, <2>3, <3>1, <3>2, ExactAdd
    <2> HIDE DEF n, add, l, now
    <2> QED BY <1>7, <2>2, <2>5, <2>6 DEF l, now
  <1> QED BY <1>8, <1>9

\* The steps of the governor, of the sums and of the cycle module.
LEMMA GovernorExec ==
  ASSUME IInv, ExecInv, StoreExec \/ Govern \/ GovernRead \/ GovernClear \/ ClearSums \/ CycleModule
  PROVE  ExecInv'
  <1> DEFINE e   == Signed(exec.time)
             s   == Signed(Pending)
             n   == Signed(total)
             l   == At(curr, avg.seTime)
             now == clock[WorkCore]
  <1>1. /\ UNCHANGED <<clock, lag, curr, avg>> /\ (~raced' => ~raced)
        /\ At(curr, avg.seTime)' = l
    <2>1. UNCHANGED <<clock, lag, curr, avg>>
      BY DEF StoreExec, Govern, GovernRead, GovernClear, ClearSums, CycleModule, Unsampled
    <2>2. ~raced' => ~raced
      BY Zenon DEF StoreExec, Govern, GovernRead, GovernClear, ClearSums, CycleModule
    <2> QED BY <2>1, <2>2, AtKept
  <1>2. SUFFICES ASSUME ~raced, ~raced'
                 PROVE  /\ InTime(Signed(exec'.time), Signed(Pending'), Signed(total'), exec'.clear, l, now, governor')
                        /\ ~Lagged => WordsExact'
    BY <1>1 DEF ExecInv, InTime, Low, Signed, Lagged
  <1>3. InTime(e, s, n, exec.clear, l, now, governor) /\ (~Lagged => e = exec.time /\ s = Pending /\ n = total)
    BY <1>2 DEF ExecInv, WordsExact
  <1>4. /\ e \in Int /\ s \in Int /\ n \in Int /\ l \in Int /\ now \in Nat /\ exec.clear \in Nat /\ exec \in ExecType
        /\ governor # None => governor \in 1 .. MaxTime[WorkCore]
        /\ now \in 1 .. MaxTime[WorkCore] /\ MaxTime[WorkCore] \in Nat
    BY ExecTypes, AtFacts, LowFacts DEF IInv
  <1>5. /\ Pending' = IF exec'.store = -1 THEN exec'.time ELSE exec'.store
        /\ WordsExact' <=> Signed(exec'.time) = exec'.time /\ Signed(Pending') = Pending' /\ Signed(total') = total'
    BY DEF Pending, WordsExact, Signed
  <1>6. CASE StoreExec
    <2>1. /\ exec.store # -1 /\ exec' = [exec EXCEPT !.time = exec.store, !.store = -1]
          /\ governor = None /\ UNCHANGED <<total, governor>>
      BY <1>2, <1>6 DEF StoreExec
    <2>2. /\ exec'.time = exec.store /\ exec'.store = -1 /\ exec'.clear = exec.clear
          /\ Pending = exec.store
      BY <1>4, <2>1 DEF ExecType, Pending
    <2>3. InTime(s, s, n, exec.clear, l, now, None)
      <3> HIDE DEF e, s, n, l, now
      <3> QED BY <1>3, <2>1, InTimeStored
    <2> QED BY <1>3, <1>5, <2>1, <2>2, <2>3
  <1>7. CASE Govern
    <2>1. Clear(now) /\ exec.store = -1 /\ governor = None /\ UNCHANGED <<governor, raced>>
      BY <1>7 DEF Govern
    <2>2. exec.clear <= now /\ now <= now /\ e <= now - exec.clear
      <3> HIDE DEF e, s, n, l, now
      <3> QED BY <1>3, <1>4 DEF InTime
    <2>3. now \in 0 .. MaxTime[WorkCore]
      BY <1>4
    <2> QED BY <1>2, <1>5, <2>1, <2>2, <2>3, ClearExec
  <1>8. CASE GovernRead
    <2>1. governor = None /\ governor' = now /\ UNCHANGED <<exec, total>>
      BY <1>8 DEF GovernRead
    <2>2. exec.clear <= now /\ e <= now - exec.clear
      <3> HIDE DEF e, s, n, l, now
      <3> QED BY <1>3, <1>4 DEF InTime
    <2>3. InTime(e, s, n, exec.clear, l, now, now)
      BY <1>3, <1>4, <2>2 DEF InTime
    <2> QED BY <1>3, <1>5, <2>1, <2>3 DEF Pending
  <1>9. CASE GovernClear
    <2>1. governor # None /\ Clear(governor) /\ governor' = None /\ exec.store = -1
      BY <1>2, <1>9 DEF GovernClear
    <2>2. exec.clear <= governor /\ governor <= now /\ e <= governor - exec.clear
      BY <1>3, <2>1 DEF InTime
    <2>3. governor \in 0 .. MaxTime[WorkCore]
      BY <1>4, <2>1
    <2> QED BY <1>2, <1>5, <2>1, <2>2, <2>3, ClearExec
  <1>10. CASE ClearSums
    <2>1. total' = 0 /\ UNCHANGED <<exec, governor>> /\ Signed(0) = 0
      BY <1>10, ModFacts, SignedExact DEF ClearSums
    <2>2. InTime(e, s, 0, exec.clear, l, now, governor)
      <3> HIDE DEF e, s, n, l, now
      <3> QED BY <1>3, <1>4, InTimeZero
    <2> QED BY <1>3, <1>5, <2>1, <2>2 DEF Pending
  <1>11. CASE CycleModule
    <2>1. UNCHANGED <<exec, total, governor>>
      BY <1>11 DEF CycleModule
    <2> QED BY <1>3, <1>5, <2>1 DEF Pending
  <1> QED BY <1>6, <1>7, <1>8, <1>9, <1>10, <1>11 DEF StoreExec

\* A tick and the updates of wakeups and of other CPUs keep the execution time.
LEMMA UpdateExec ==
  ASSUME IInv, IInv', ExecInv, NEW t \in Tasks, NEW me \in Cpus, Becomes(UpdatePath(Now, t, me)), Rest
  PROVE  ExecInv'
  <1>1. Timed(Now, UpdatePath(Now, t, me))
    BY NowFacts, PathTimed
  <1> QED BY <1>1, HandlerExec

\* So does whatever __schedule picks.
LEMMA ScheduleExec ==
  ASSUME IInv, IInv', ExecInv, NEW c \in Cpus, NEW sleeps \in BOOLEAN,
         \/ PickIdle(c, sleeps) \/ PickOther(c, sleeps) \/ \E t \in Tasks : PickFair(c, sleeps, t)
  PROVE  ExecInv'
  <1> DEFINE p == Running(c)
             u == Deactivated(c, sleeps)
             v == pkshin_pmu_update(u, c)
  <1>1. Deactivate(c, sleeps)
    BY DEF PickIdle, PickOther, PickFair
  <1>2. Rest /\ (sleeps => p # None)
    BY <1>1 DEF Deactivate
  <1>3. p # None => p \in Tasks
    BY RunningFacts
  <1>4. u \in VType /\ Timed(Now, u)
    BY <1>2, DeactivatedTimed
  <1> HIDE DEF u
  <1>5. v \in VType /\ Timed(u, v)
    BY <1>4, RestartTimed
  <1> HIDE DEF v
  <1>6. Timed(Now, v)
    BY <1>4, <1>5, TimedTrans
  <1>7. CASE PickIdle(c, sleeps)
    <2>1. Becomes(PutAll(v, p, c)) /\ p # None
      BY <1>7 DEF PickIdle, u, v
    <2> HIDE DEF p
    <2>2. Timed(Now, PutAll(v, p, c))
      BY <1>3, <1>5, <1>6, <2>1, PutAllTimed, TimedTrans
    <2> QED BY <1>2, <2>1, <2>2, HandlerExec
  <1>8. CASE PickOther(c, sleeps)
    <2>1. Becomes(PutAll(u, p, c)) /\ p # None
      BY <1>8 DEF PickOther, u
    <2> HIDE DEF p
    <2>2. Timed(Now, PutAll(u, p, c))
      BY <1>3, <1>4, <2>1, PutAllTimed, TimedTrans
    <2> QED BY <1>2, <2>1, <2>2, HandlerExec
  <1>9. ASSUME NEW t \in Tasks, PickFair(c, sleeps, t) PROVE ExecInv'
    <2>1. CASE p = None
      <3>1. Becomes(SetAll(v, t, c))
        BY <1>9, <2>1 DEF PickFair, u, v
      <3>2. Timed(Now, SetAll(v, t, c))
        BY <1>5, <1>6, SetAllTimed, TimedTrans
      <3> QED BY <1>2, <3>1, <3>2, HandlerExec
    <2>2. CASE p # None
      <3>1. Becomes(Switch(v, p, t, c))
        BY <1>9, <2>2 DEF PickFair, u, v
      <3> HIDE DEF p
      <3>2. Timed(Now, Switch(v, p, t, c))
        BY <1>3, <1>5, <1>6, <2>2, SwitchTimed, TimedTrans
      <3> QED BY <1>2, <3>1, <3>2, HandlerExec
    <2> QED BY <2>1, <2>2
  <1> QED BY <1>7, <1>8, <1>9

\* Nothing has been counted at first.
LEMMA InitExec == Init => ExecInv
  <1> SUFFICES ASSUME Init PROVE ExecInv
    OBVIOUS
  <1>1. /\ clock[WorkCore] = 1 /\ exec = [time |-> 0, clear |-> 0, store |-> -1] /\ total = 0 /\ governor = None
        /\ curr = [q \in Rqs |-> None]
    BY PemtAssumption DEF Init
  <1>2. RunningIn(curr, WorkCore) = None
    <2>1. WorkCore \in Cpus
      BY PemtAssumption
    <2>2. RootRq(WorkCore) \in Rqs
      BY <2>1, RqFacts
    <2> QED BY <1>1, <2>2, RqFacts DEF RunningIn
  <1>3. At(curr, avg.seTime) = 1
    BY <1>1, <1>2 DEF At
  <1>4. Signed(0) = 0 /\ Pending = 0 /\ exec.time = 0 /\ exec.clear = 0
    BY <1>1, ModFacts, SignedExact DEF Pending
  <1>5. Low(1) \in Int /\ 0 <= Low(1)
    BY LowFacts
  <1>6. InTime(0, 0, 0, 0, 1, 1, None)
    BY <1>5 DEF InTime
  <1> QED BY <1>1, <1>3, <1>4, <1>6 DEF ExecInv, WordsExact

\* Every step keeps the execution time.
LEMMA NextExec == IInv /\ IInv' /\ ExecInv /\ [Next]_vars => ExecInv'
  <1> SUFFICES ASSUME IInv, IInv', ExecInv, [Next]_vars PROVE ExecInv'
    OBVIOUS
  <1>1. ASSUME NEW c \in Cpus, Run(c) PROVE ExecInv'
    BY <1>1, RunExec
  <1>2. ASSUME NEW c \in Cpus, Tick(c) PROVE ExecInv'
    <2>1. Running(c) \in Tasks
      BY <1>2, RunningFacts DEF Tick
    <2> QED BY <1>2, <2>1, UpdateExec DEF Tick
  <1>3. ASSUME NEW t \in Tasks, Wake(t) PROVE ExecInv'
    BY <1>3, UpdateExec, PathFacts DEF Wake
  <1>4. ASSUME NEW t \in Tasks, NEW me \in Cpus, RemoteUpdate(me, t) PROVE ExecInv'
    BY <1>4, UpdateExec DEF RemoteUpdate
  <1>5. ASSUME NEW c \in Cpus, NEW sleeps \in BOOLEAN,
               \/ PickIdle(c, sleeps) \/ PickOther(c, sleeps) \/ \E t \in Tasks : PickFair(c, sleeps, t)
        PROVE  ExecInv'
    BY <1>5, ScheduleExec
  <1>6. ASSUME StoreExec \/ Govern \/ GovernRead \/ GovernClear \/ ClearSums \/ CycleModule PROVE ExecInv'
    BY <1>6, GovernorExec
  <1>7. ASSUME \/ \E c \in Cpus : Ipi(c)
               \/ pkshin_init \/ pkshin_exit \/ Loaded \/ Removed \/ UNCHANGED vars
        PROVE  ExecInv'
    <2>1. UNCHANGED <<clock, lag, curr, avg, exec, total, governor, raced>>
      BY <1>7 DEF Ipi, pkshin_init, pkshin_exit, Loaded, Removed, Loader, vars
    <2> QED BY <2>1, QuietExec
  <1> QED BY <1>1, <1>2, <1>3, <1>4, <1>5, <1>6, <1>7 DEF Next

\* For any number of CPUs, tasks and groups, any throttling and any governor on any CPU:
\* until an update of exec_time races with a governor, the governor never reads more
\* execution time than has passed since it last cleared it, and the sums never exceed the
\* time up to that clear.  Once a group has been throttled this is so up to the differences
\* that wrapped (Signed), as long as what samples on lagging clocks take does not go
\* around (HorizonAssumption).
THEOREM ExecTimeAlwaysFits == Spec => []ExecTimeFits
  <1>1. Init => ExecInv
    BY InitExec
  <1>2. IInv /\ IInv' /\ ExecInv /\ [Next]_vars => ExecInv'
    BY NextExec
  <1>3. IInv /\ ExecInv => ExecTimeFits
    <2> SUFFICES ASSUME IInv, ExecInv, ~raced
                 PROVE  /\ Signed(exec.time) <= clock[WorkCore] - exec.clear /\ Signed(total) <= exec.clear
                        /\ ~Lagged => exec.time <= clock[WorkCore] - exec.clear /\ total <= exec.clear
      BY DEF ExecTimeFits
    <2> DEFINE e == Signed(exec.time)
               s == Signed(Pending)
               n == Signed(total)
               l == At(curr, avg.seTime)
    <2>1. /\ InTime(e, s, n, exec.clear, l, clock[WorkCore], governor)
          /\ ~Lagged => e = exec.time /\ n = total
      BY DEF ExecInv, WordsExact
    <2>2. e \in Int /\ l \in Int /\ exec.clear \in Nat /\ clock[WorkCore] \in Nat
      BY ExecTypes, AtFacts
    <2> HIDE DEF e, s, n, l
    <2>3. e <= clock[WorkCore] - exec.clear /\ n <= exec.clear
      BY <2>1, <2>2 DEF InTime
    <2> QED BY <2>1, <2>3 DEF e, n
  <1> QED BY PemtInvariant, <1>1, <1>2, <1>3, PTL DEF Spec
=============================================================================
