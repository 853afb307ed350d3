\* Two tasks, two CPUs and two groups; tasks change class and group while attached.
CONSTANTS
  Tasks = {t1, t2}
  Cpus = {c1, c2}
  Groups = {g1, g2}
  Unattached = FALSE
  MaxChanges = 2
  MaxToggles = 1
SPECIFICATION Spec
INVARIANTS DirectSum CoreDirectSum
SYMMETRY Symmetry
CHECK_DEADLOCK FALSE
