\* The period timer under fairness.  A distribution may outlast the period, which is too
\* short for the slack timer.
CONSTANTS
  c1 = c1
  c2 = c2
  Cpus = {c1, c2}
  InitQuota = 2
  Quotas = {}
  Period = 1
  Slice = 1
  TickNsec = 1
  MinRuntime = 0
  MinExpiration = 1
  SlackPeriod = 5
  Moves = FALSE
  MaxTasks = 1
  MaxWakeups = 1
  MaxSets = 0
  MaxHotplug = 0
  HotplugUntil = 0
  MaxTime = 2
SPECIFICATION FairSpec
PROPERTIES RefillDistributed
CHECK_DEADLOCK FALSE
