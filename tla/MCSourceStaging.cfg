CONSTANTS
  First = h
  Second = t
  Builders = {b1, b2}
  Buffers = {h, t}
  MaxLength = 2
  Digest <- MCDigest
  Pinned <- MCPinned
  Metadata <- MCMetadata
  Required = "required"
  Files = {f1, f2}
  Directories = {d1, d2, d3, d4}
  MaxEdits = 1
  MaxLosses = 1
  None = None
SYMMETRY Symmetry
SPECIFICATION Spec
INVARIANTS DecodesPinnedSource DirectoriesOwned
PROPERTY SnapshotsSealed
