SPECIFICATION Spec
CONSTANTS
  Recorders = {r1, r2}
  MaxEvents = 2
  MaxFailures = 2
  MaxDrains = 2
  Nobody = Nobody
INVARIANTS KeptInOrder LinesNotInterleaved FailureSpoilsTwo LatestOutputKept
CHECK_DEADLOCK FALSE
