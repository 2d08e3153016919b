CONSTANTS
  Faces <- MCFaces
  Fanout = 2
  Depth = 2
  Threshold = 3
  PopulationLimit = 9
  Aggregates <- MCAggregates
SPECIFICATION TreeSpec
INVARIANTS StopsForCause LeavesEncodable AnswersHoldThreshold
\* The build ends with its leaves or with an error.
CHECK_DEADLOCK FALSE
