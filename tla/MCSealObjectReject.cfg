CONSTANTS
  MaxRetry = 1
  MaxListenSealRetry = 2
  SealTimeoutHeight = 2
  RejectRetry = 3
  RejectTimeoutHeight = 2

SPECIFICATION Spec
CHECK_DEADLOCK FALSE

INVARIANT RejectReportedOnlyIfRejected
