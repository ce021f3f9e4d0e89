SPECIFICATION Spec
CONSTANTS
  Size = 2
  NoiseUnit = 4
  NoiseFields <- MCNoiseFields
  HeightFields <- MCHeightFields
INVARIANTS
  LogTellsVertexCount
CHECK_DEADLOCK FALSE
