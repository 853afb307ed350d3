\* CPU 0 balances for itself and for CPU 1, under fairness.
CONSTANTS
  Cpus = {0, 1, 2}
  Tasks = {t1, t2}
  Idle = Idle
  Stopper = Stopper
  Domains <- DieDomain
  Load <- UnitLoad
  Masks <- Crossed
  Preempt = TRUE
  NrMigrateBreak = 2
  NrMigrate = 3
  Balancers <- OwnAndNohz
  NewIdlers = {0}
  Imbalances = {0, 2}
  MaxAffine = 0
SPECIFICATION FairSpec
PROPERTIES LoadBalanceEnds
