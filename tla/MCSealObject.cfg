CONSTANTS
  MaxRetry = 1
  MaxListenSealRetry = 2
  SealTimeoutHeight = 2
  RejectRetry = 3
  RejectTimeoutHeight = 2

SPECIFICATION FairSpec
CHECK_DEADLOCK FALSE

INVARIANT SealReportedOnlyIfSealed
INVARIANT ReceiveSealedOnlyIfSealed
PROPERTY SealTaskResolves
