SPECIFICATION FairSpec
CONSTANTS
  NumPipes = 3
  OutPipes <- MCOutPipes
  LbufCap = 2
  MaxArrivals = 3
  ResumeLatched = TRUE
INVARIANTS TypeOK NoLostWakeup Conservation InArrivalOrder
PROPERTY RefinesPacketQueue
CHECK_DEADLOCK FALSE
