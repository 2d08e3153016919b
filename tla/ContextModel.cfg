CONSTANTS
  LevelCount = 3
  RawLevelCount = 1
  RestartInterval = 2
  RawRankInterval = 2
  BlocksPerGroup = 2
  MaxCodeLength = 3
  MaxLengthWidth = 4
  MaxChildWidth = 3
  MaxU24 = 100
  Fanout = 2
  RootFaceCount = 3
  MaxCount = 4
SPECIFICATION ModelSpec
INVARIANTS ReaderAcceptsModel SymbolsRoundTrip LengthsOptimal ValidTablesDecode
