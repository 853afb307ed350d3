\* A policy with one CPU: no update_lock, the busy check, stores of all tunables, two modules and restarts.
CONSTANTS
  Scale = 4
  UIntMod = 16
  Cpus = {3}
  WorkCore = 3
  FreqTable <- TwoFreqs
  MaxFreq = 2
  MaxCap = 4
  TickNs = 1
  FreqInvariant = FALSE
  UpRate = 1
  DownRate = 0
  Margin = 1
  Averages <- IdleBusy
  CallFlags <- AllFlags
  Rates = {1}
  Boosts = {0}
  Margins = {1}
  Limits <- FullRange
  Modules = {"pemt", "freq"}
  Restarts = TRUE
  BootTime = 1
  MaxTime = 2
SPECIFICATION Spec
INVARIANTS WorkerTargetsTableFreq MinRateIsMinimum
