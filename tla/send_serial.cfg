SPECIFICATION FairSpec
CONSTANTS
  MaxPkt = 2
  Sizes <- AnySizes
  LbufCap = 3
  AllocMayFail = TRUE
  Serial = TRUE
  Retries = FALSE
  MaxTransfers = 3
INVARIANTS TypeOK PacketsConserved OneEventPerTransfer CompletionIsSound
PROPERTIES TransferIsReported RefinesTransfers
CHECK_DEADLOCK FALSE
