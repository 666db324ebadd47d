SPECIFICATION FairSpec
CONSTANTS
  LbufCap = 2
  HostSends <- Standard
  MaxReceived = 2
  MaxReplies = 1
INVARIANTS TypeOK TakenOnce OnlyRepliesAreSent
PROPERTIES DeafAfterAbort UploadsAreTaken
CHECK_DEADLOCK FALSE
