CONSTANTS
  c0 = c0
  c1 = c1
  a = a
  b = b
  g = g
  Root = Root
  None = None
  Cpus = {c0, c1}
  WorkCore = c0
  Tasks = {a, b}
  CpuOf <- MCCpuOf
  GroupOf <- MCGroupOf
  MaxTime <- MCMaxTime
  MaxLag = 1
  SpanMod = 16
  TimeMod = 32
CONSTRAINT OneTracker
SPECIFICATION Spec
INVARIANTS SamplesConsistent ExecTimeFits
PROPERTIES RatioFollowsRunner
CHECK_DEADLOCK FALSE
