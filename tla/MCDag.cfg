SPECIFICATION Spec
CONSTANTS
  Ids = {a, b, c}
  MaxEdges = 4
SYMMETRY Symmetry
INVARIANTS TypeOK WavesLayered ValidateExact
PROPERTIES WavesDetermined EdgesOnlyDelay
