SPECIFICATION Spec
CONSTANTS
  Size = 3
  NoiseUnit = 4
  NoiseFields <- LayerFields
  HeightFields <- TerraceFields
INVARIANTS
  QuadsAreMaximal
  NoFaceTwice
  MaskIndexFollowsScan
CHECK_DEADLOCK FALSE
