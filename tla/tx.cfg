SPECIFICATION Spec
CONSTANTS
  Endpoint = {0, 1, 2}
  Sizes = {8, 64}
  Strings <- ThreeStrings
  AnyByte = {0, 255}
  MaxSends = 3
INVARIANTS TypeOK WireIsWhole NothingIsDropped StringsAreTheOnesAskedFor
PROPERTY ControlIsShutOut
CHECK_DEADLOCK FALSE
