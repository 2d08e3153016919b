CONSTANTS
  b1 = b1
  b2 = b2
  b3 = b3
  First = h
  Second = t
  Builders = {b1, b2, b3}
  Buffers = {h, t}
  MaxLength = 1
  Digest <- MCDigest
  Pinned <- MCPinned
  Metadata <- MCMetadata
  Required = "required"
  Files = {f1}
  Directories = {d1, d2, d3, d4}
  MaxEdits = 1
  MaxLosses = 1
  MaxDisturbances = 1
  Derive <- MCDerive
  Readers = {r1}
  None = None
  Torn = Torn
SYMMETRY Symmetry
SPECIFICATION PipelineSpec
INVARIANTS ServedFromPinned MismatchesOfOtherReleases KeptUntilOvertaken
