CONSTANTS
  NumCols = 2
  MaxCount = 2
  MaxRows = 2
  FailingCalls <- MCFailingNoRestart
  ContractOnly = TRUE
  SetupFailures <- MCSetupFailures
SPECIFICATION CtSpec
INVARIANTS
  TypeOK
  NoNullDereference
  BoundColumnsHaveRowCount
  LocaleOwned
  LoginReady
PROPERTIES
  RowsSentOnlyDuringCopy
