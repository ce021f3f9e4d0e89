SPECIFICATION PartSpec
CONSTANTS
  DrawDistance = 1
  ChunkSize = 2
  DefaultSize = 4
  NoiseUnit = 1
  Noises <- MCNoises
  GetNoise <- MCGetNoise
INVARIANTS
  ChunksTileTheWorld
  TerrainHasNoSeam
  WorldShowsItsSurface
  SameInEveryCell
  NoiseBounded
CHECK_DEADLOCK FALSE
