SPECIFICATION FairSpec
CONSTANTS
  MaxRequests = 5
  MaxParallel = 2
  Capacity = 2
CHECK_DEADLOCK FALSE
INVARIANTS UnfinishedIsExact AnswerIsTruth NoLostWakeup NothingLeftBehind
PROPERTIES IsJobPool Answered AcceptedRuns StopEnds
