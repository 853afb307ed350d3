\* Two CPUs, near the wrap-around of vruntime; the third task may be forked later.
CONSTANTS
  c0 = c0
  c1 = c1
  t1 = t1
  t2 = t2
  t3 = t3
  None = None
  Cpus = {c0, c1}
  Tasks = {t1, t2, t3}
  VMod = 1024
  InitMin <- NearWrap
  InitCpus = {c0}
  WordBits = 12
  NICE_0_LOAD = 2
  Weights = {2, 1}
  sysctl_sched_latency = 4
  sysctl_sched_min_granularity = 2
  sysctl_sched_wakeup_granularity = 1
  Features = {"GENTLE_FAIR_SLEEPERS", "START_DEBIT", "LAST_BUDDY", "WAKEUP_PREEMPTION"}
  child_runs_first = TRUE
  MaxTime = 2
  MaxMoves = 1
SPECIFICATION Spec
INVARIANTS TimelineConsistent NoExtraCredit
PROPERTIES ImplementsPlacement MinVruntimeMonotone PickNotUnfair
SYMMETRY Symmetry
CHECK_DEADLOCK FALSE
