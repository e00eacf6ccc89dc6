SPECIFICATION Spec
CONSTANTS
  Units = {1, 2, 3, 4}
  ClassOf <- MCClass
  Slots = 1
  Weights <- MCWeights
  MaxStaleness <- MCStaleness
  MaxDrift <- MCDrift
  MaxBacklog = 3
  MaxDeficit = 5
  U64Max = 100
INVARIANT BoundedWait
