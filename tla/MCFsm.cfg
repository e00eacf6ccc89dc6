SPECIFICATION Spec
CONSTANTS
  s1 = s1
  s2 = s2
  s3 = s3
  MaxEdges = 3
  MaxDisagreements = 1
  NoState = NoState
  Machines <- MCMachines
INVARIANTS TypeOK WalkExact OkIsConvergent LifecycleConverges
PROPERTY Terminates
CHECK_DEADLOCK FALSE
