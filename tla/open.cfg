SPECIFICATION Spec
CONSTANTS
  NumPipes = 3
  MaxUploads = 2
INVARIANTS TypeOK UploadsSurviveOpening PacketsDoNotSleep OnlyLastLinkIsBroken HandlerMissingInOneWindow DeafUnlessDeviceInit
CHECK_DEADLOCK FALSE
