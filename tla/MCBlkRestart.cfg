CONSTANTS
  NumCols = 2
  MaxCount = 2
  MaxRows = 2
  FailingCalls <- MCFailingRestart
  ContractOnly = TRUE
SPECIFICATION Spec
PROPERTIES
  RowsSentOnlyDuringCopy
