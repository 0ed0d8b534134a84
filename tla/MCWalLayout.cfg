SPECIFICATION Spec
CONSTANTS
  Word = 256
  HeaderSize = 56
  Alignment = 8
  PayloadSize <- SizesAroundTheWord
  MaxRecords = 3
INVARIANTS FittingRecordsRead
PROPERTIES ReopenLosesNothing
