CONSTANTS
  DataShards = 2
  ParityShards = 1

SPECIFICATION Spec
CHECK_DEADLOCK FALSE
INVARIANT NoStoreDuringDecode
