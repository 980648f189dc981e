SPECIFICATION CallSpec
CONSTANTS
  Interval = 5
  Fine = 72
  Region <- MCRegion
  Obstacles <- MCObstacles
  InBounds <- MCInBounds
  Outside <- MCOutside
  MaxPath = 11
  Zones <- MCZones
  MaxRadius = 3
  Sides = {5, 6, 7, 8, 9, 11, 12, 16}
  Halves = {2, 3}
INVARIANTS
  ExcursionsAreSeen
  SweepsCoverZone
  HoverCoversZone
  OptionReachesGoal
