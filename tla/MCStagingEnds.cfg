CONSTANTS
  First = h
  Second = t
  Builders = {b1}
  Buffers = {h, t}
  MaxLength = 2
  Digest <- MCDigest
  Pinned <- MCPinned
  Metadata <- MCMetadata
  Required = "required"
  Files = {f1, f2}
  Directories = {d1, d2}
  MaxEdits = 2
  MaxLosses = 0
  None = None
SPECIFICATION FairSpec
PROPERTY RunsEnd
