CONSTANTS
  DataShards = 2
  ParityShards = 1

SPECIFICATION FairSpec
CHECK_DEADLOCK FALSE
PROPERTY DownloadsTerminate
