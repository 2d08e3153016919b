CONSTANTS
  FaceCount = 2
  BitsPerLevel = 2
  MaxLevel = 2
  QuickPaths = 4
  Reports <- MCReports
SPECIFICATION Spec
INVARIANTS CorrectEnginesPass FaultsFound
\* The tool exits with its verdict.
CHECK_DEADLOCK FALSE
