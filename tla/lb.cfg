\* CPU 0 balances periodically, CPU 2 before it goes idle; a mask changes.
CONSTANTS
  Cpus = {0, 1, 2}
  Tasks = {t1, t2}
  Idle = Idle
  Stopper = Stopper
  Domains <- DieDomain
  Load <- UnitLoad
  Masks <- AllOrBigger
  Preempt = FALSE
  NrMigrateBreak = 2
  NrMigrate = 2
  Balancers <- Own
  NewIdlers = {2}
  Imbalances = {2}
  MaxAffine = 1
SPECIFICATION Spec
INVARIANTS TasksConsistent AffinityKept LockOrder ActiveBalanceOnce
PROPERTIES ImplementsPlacement
SYMMETRY Symmetry
