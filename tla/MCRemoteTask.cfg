SPECIFICATION RTMFairSpec
CONSTANTS
  t1 = t1
  t2 = t2
  t3 = t3
  Tasks <- MCTasks
  RawTasks <- MCRaw
  Nobody = Nobody
  MaxConnects = 2
INVARIANTS RTMTypeOK RepliesAligned OwnAnswer NoResultMissed
PROPERTIES FinalStays TasksAnswered
CHECK_DEADLOCK FALSE
