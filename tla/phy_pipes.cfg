SPECIFICATION Spec
CONSTANTS
  Kinds <- FewKinds
  PktSizes <- TwoSizes
  MaxOpens = 2
  MaxUploads = 2
INVARIANTS TypeOK OnlyBulkInIsServed UploadsWereReceived OnePacketPerOpen CountIsRightWhileIndexStands
PROPERTY OnlyLatestUploads
CHECK_DEADLOCK FALSE
