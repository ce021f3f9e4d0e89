SPECIFICATION Spec
CONSTANTS
  Size = 2
  NoiseUnit = 4
  NoiseFields <- MCNoiseFields
  HeightFields <- MCHeightFields
INVARIANTS
  EveryBlockIsSet
  NormalsFaceViewer
PROPERTY
  ShowsTheSurface
CHECK_DEADLOCK FALSE
