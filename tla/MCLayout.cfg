CONSTANTS
  LevelCount = 4
  RawLevelCount = 2
  RestartInterval = 2
  RawRankInterval = 3
  BlocksPerGroup = 2
  MaxCodeLength = 2
  MaxLengthWidth = 3
  MaxChildWidth = 3
  MaxU24 = 4095
  Fanout = 2
  RootFaceCount = 2
  ByteBits = 4
  ByteBase = 16
  Magic = 4660
  Version = 1
  MaxDatabaseLevel = 4
  ContextSize = 2
  MaxUsize = 65535
  Directories <- MCDirectories
  Files <- MCFiles
SPECIFICATION Spec
INVARIANTS SectionsTile LocatedAsEncoded
CHECK_DEADLOCK FALSE
