SPECIFICATION FairSpec
CONSTANTS
  CSR0 = CSR0
  INTRTX1 = INTRTX1
  Addr <- Registers
  Value = {0, 1}
  MaxAccess = 2
INVARIANTS TypeOK UndisturbedReadIsRight UndisturbedWriteIsDone
PROPERTY AccessEnds
CHECK_DEADLOCK FALSE
