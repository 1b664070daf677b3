CONSTANTS
  NumCols = 2
  MaxCount = 2
  MaxRows = 2
  FailingCalls <- MCNoFailures
  ContractOnly = FALSE
SPECIFICATION Spec
INVARIANTS
  NoNullDereference
