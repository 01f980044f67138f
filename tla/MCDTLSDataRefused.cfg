SPECIFICATION DataSpec
CONSTANTS
  SeqNumbers <- MCSeqNumbers
  Range = 8
  Window = 2
  MaxSeq = 9
  MaxEpoch = 1
  Drift = 4
INVARIANTS
  RefusedAreDuplicates
CHECK_DEADLOCK FALSE
