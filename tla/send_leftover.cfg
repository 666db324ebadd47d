SPECIFICATION Spec
CONSTANTS
  MaxPkt = 2
  Sizes <- WholeSizes
  LbufCap = 3
  AllocMayFail = TRUE
  Serial = TRUE
  Retries = TRUE
  MaxTransfers = 3
INVARIANT StartsOwnTransfer
CHECK_DEADLOCK FALSE
