CONSTANTS
  RowLens <- MCRowLens
  MaxCols = 3
  TDS_ALIGN_SIZE = 4
  FailingAllocs <- MCAllAllocs
  a1 = a1  a2 = a2
  CompAddrs <- MCCompAddrs
  Garbage = Garbage
  ParamValues <- MCParamValues
SPECIFICATION Spec
INVARIANTS
  TypeOK
  ParamInfoOwned
  RowLayoutMatchesReference
  CompInfoOwned
  ParamDataOwned
