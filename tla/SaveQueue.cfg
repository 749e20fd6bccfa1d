SPECIFICATION FairSpec
CONSTANTS
  NumShards = 2
  MaxTasks = 3
  MaxBatch = 2
  MaxFailures = 2
CHECK_DEADLOCK FALSE
INVARIANTS NoTaskLost InOrder SavedBeforeStop
PROPERTIES StopsIfConnected TaskRuns
