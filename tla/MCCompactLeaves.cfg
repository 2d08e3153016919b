CONSTANTS
  MaxS2Level = 3
  MaxDatabaseLevel = 2
  NumRootFaces = 2
  FaceBits = 2
  MaxLeaves = 3
  Queries <- MCQueries
  RandomValues <- MCRandomValues
SPECIFICATION Spec
INVARIANTS LeavesValidatedExactly AnswersExact OracleAnswersExact
CHECK_DEADLOCK FALSE
