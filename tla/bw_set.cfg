\* Two CPUs; the quota changes while the group runs, running tasks are moved in.
CONSTANTS
  c1 = c1
  c2 = c2
  Cpus = {c1, c2}
  InitQuota = 2
  Quotas <- NewQuotas
  Period = 2
  Slice = 1
  TickNsec = 1
  MinRuntime = 0
  MinExpiration = 1
  SlackPeriod = 1
  Moves = TRUE
  MaxTasks = 1
  MaxWakeups = 1
  MaxSets = 1
  MaxHotplug = 0
  HotplugUntil = 0
  MaxTime = 2
SPECIFICATION Spec
INVARIANTS ThrottlingConsistent OverrunIsNoticed
SYMMETRY Symmetry
VIEW WithoutHistory
CHECK_DEADLOCK FALSE
