SPECIFICATION DataSpec
CONSTANTS
  SeqNumbers <- MCSeqNumbers
  Range = 8
  Window = 3
  MaxSeq = 8
  MaxEpoch = 1
  Drift = 4
INVARIANTS
  DataTypeOK
  WideningExact
  DeliveredOnce
  WindowIsMemory
  VerdictIsRight
PROPERTIES
  ImplementsFilter
CHECK_DEADLOCK FALSE
