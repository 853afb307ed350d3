\* A shared policy of CPUs 2 and 3: work_core is 3, so sugov_start installs CPU 2's
\* hook before the work core is set up.  The oops that may follow stops the system.
CONSTANTS
  Scale = 4
  UIntMod = 16
  Cpus = {2, 3}
  WorkCore = 3
  FreqTable <- TwoFreqs
  MaxFreq = 2
  MaxCap = 4
  TickNs = 1
  FreqInvariant = TRUE
  UpRate = 1
  DownRate = 2
  Margin = 1
  Averages <- LowHigh
  CallFlags <- Plain
  Rates = {}
  Boosts = {}
  Margins = {}
  Limits <- TwoLimits
  Modules = {}
  Restarts = TRUE
  BootTime = 2
  MaxTime = 3
SPECIFICATION FairSpec
INVARIANTS OneTransition StopQuiesces HookSeesPolicy LimitsHold
PROPERTIES UpdateTimeMonotone TransitionEnds LimitsChangeNoticed
CHECK_DEADLOCK FALSE
