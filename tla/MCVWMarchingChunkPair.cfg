SPECIFICATION Spec
CONSTANTS
  Size = 2
  NoiseUnit = 2
  Grain = 12
  SurfaceLevels <- PairLevels
  NoiseFields <- PairFields
  HeightFields <- RidgeHeights
INVARIANTS
  NoCracks
  NoOverhang
CHECK_DEADLOCK FALSE
