SPECIFICATION RTMSpec
CONSTANTS
  t1 = t1
  t2 = t2
  t3 = t3
  Tasks <- MCTasks
  RawTasks <- MCRaw
  Nobody = Nobody
  MaxConnects = 1
INVARIANT PumpReturns
CHECK_DEADLOCK FALSE
