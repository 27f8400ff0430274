SPECIFICATION SyncSpec
CONSTANTS
  None = None
  t1 = t1
  t2 = t2
  Tasks <- TwoTasks
  Place <- MCPlace
  Traverses <- MCTraverses
  Files <- MCFiles
  Geo <- MCGeo
  Configs <- MCConfigs
  First <- Single
  MaxAttempts = 2
  MaxStamp = 3
  MaxSession = 2
  MaxUpdates = 1
  MaxAsks = 1
  MaxFaults = 1
INVARIANTS
  OneSourcePerCache
  TemporaryFilesGo
PROPERTIES
  
  RequestsAreServed
CHECK_DEADLOCK FALSE
