SPECIFICATION Spec
CONSTANTS
  MaxFiles = 7
  MaxBroken = 1
  MaxSeconds = 1
  MaxRuns = 1
  Settings <- MCSettings
INVARIANTS
  NeighboursShareAChunk
  EachFileHasOneTurn
  PanoramaIsOfThisRun
