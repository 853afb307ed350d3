\* Scales of 12 and 16, load averages on tables of 64 units.
CONSTANTS
  Scale = 12
  UIntMod = 64
  MaxRt = 3
  Unit = 64
  InvScale = 4096
  SubUnit = 2
  Slow <- SlowTable
  Fast <- FastTable
  MaxUpdates = 3
  Tolerance = 4
  CapScale = 16
  capacity_margin = 20
  capacity_down_margin = 27
  MaxTasks = 3
  WordBits = 14
  NICE_0_LOAD = 16
  sysctl_sched_latency = 30
  sysctl_sched_min_granularity = 11
SPECIFICATION Spec
CHECK_DEADLOCK FALSE
INVARIANTS RequestIsLeast LoadAveragesExact CpuLoadExact PullsImprove SharesExact WakesWhereAllowed IdleCpuNotOverlooked EnergyChoiceSound EffectiveLoadIsShareShift
