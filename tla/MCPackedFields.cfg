CONSTANTS
  LevelCount = 12
  RawLevelCount = 7
  RestartInterval = 208
  RawRankInterval = 20
  BlocksPerGroup = 16
  MaxCodeLength = 15
  MaxLengthWidth = 12
  MaxChildWidth = 10
  MaxU24 = 16777215
  Fanout = 4
  RootFaceCount = 6
  ByteBits = 8
  WindowBytes = 4
  ChunkBytes = 8
  Inputs <- MCInputs
SPECIFICATION FieldsSpec
INVARIANTS WrittenReadBack RanksCounted ContentDecidesBytes
CHECK_DEADLOCK FALSE
