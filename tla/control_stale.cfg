SPECIFICATION Spec
CONSTANTS
  LbufCap = 2
  HostSends <- Any
  MaxReceived = 2
  MaxReplies = 1
INVARIANT OnlySetupDataIsParsed
CHECK_DEADLOCK FALSE
