SPECIFICATION Spec
CONSTANTS
  Files <- MCFiles
  Readings <- MCReadings
  TargetChars = 6
  OverlapChars = 1
  NoiseLength = 4
  TitleLength = 2
  HeadingMax = 5
  CoverLength = 5
  ScannedBelow = 3
  Queries <- MCQueries
  TopKs = {1, 2}
  TopKMax = 3
  Similarities = {200000, 430000, 700000}
  MaxSearched = 2
CHECK_DEADLOCK FALSE
INVARIANTS
  TextSound
  HitsSound
