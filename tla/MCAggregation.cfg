CONSTANTS
  Cells = {1, 2}
  NoData <- MCNoData
  Grain = 4
  MaxPopulation = 5
  PixelCount <- MCPixelCount
  RowStarts <- MCRowStarts
  Sources <- MCSources
  ValueAt <- MCValueAt
  CellAt <- MCCellAt
SPECIFICATION Spec
INVARIANTS MapsExact ScheduleIndependent
\* The program goes on with the result, or exits with the error.
CHECK_DEADLOCK FALSE
