SPECIFICATION Spec
CONSTANTS
  Size = 1
  NoiseUnit = 2
  Grain = 12
  SurfaceLevels <- CubeLevels
  NoiseFields <- CubeFields
  HeightFields <- CubeHeights
INVARIANTS
  CornersAreCuts
  NormalsFaceViewer
CHECK_DEADLOCK FALSE
