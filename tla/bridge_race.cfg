SPECIFICATION Spec
CONSTANTS
  CSR0 = CSR0
  INTRTX1 = INTRTX1
  Addr <- Registers
  Value = {0, 1}
  MaxAccess = 2
SYMMETRY Symmetry
INVARIANT FetchesItsOwn
CHECK_DEADLOCK FALSE
