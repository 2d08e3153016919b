CONSTANTS
  LevelCount = 3
  RawLevelCount = 1
  RestartInterval = 2
  RawRankInterval = 2
  BlocksPerGroup = 2
  MaxCodeLength = 3
  MaxLengthWidth = 4
  MaxChildWidth = 3
  MaxU24 = 100
  Fanout = 2
  RootFaceCount = 3
  Databases <- MCDatabases
  QueryCells <- MCQueryCells
SPECIFICATION LookupFairSpec
INVARIANTS IndexesExact LevelsLinked VerifiedAcceptsValidated MaskAndRankExact NodeInBounds
PROPERTIES CallsReturn ImplementsIndex
