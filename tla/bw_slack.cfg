\* Both timers distribute, and a CPU goes offline and comes back.
CONSTANTS
  c1 = c1
  c2 = c2
  Cpus = {c1, c2}
  InitQuota = 2
  Quotas = {}
  Period = 2
  Slice = 1
  TickNsec = 1
  MinRuntime = 0
  MinExpiration = 1
  SlackPeriod = 1
  Moves = FALSE
  MaxTasks = 1
  MaxWakeups = 1
  MaxSets = 0
  MaxHotplug = 1
  HotplugUntil = 2
  MaxTime = 4
SPECIFICATION Spec
INVARIANTS ThrottledHasTimer RuntimeAccounted OveruseBounded
SYMMETRY Symmetry
CHECK_DEADLOCK FALSE
