CONSTANTS
  Builders = {b1, b2}
  Dataset <- MCDataset
  Readers = {r1}
  Inodes = {i1, i2, i3}
  Chunks = 2
  MaxFaults = 1
  None = None
SYMMETRY Symmetry
SPECIFICATION Spec
INVARIANTS PathComplete MappingsImmutable SnapshotsWhole MismatchesExplained NoStrayTemporaries
PROPERTY ImplementsPublication
