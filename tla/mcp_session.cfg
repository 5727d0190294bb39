SPECIFICATION FairSpec
CONSTANTS
  Call = {c1, c2}
  None = none
  MaxAttempts = 2
  MaxWires = 3
INVARIANTS
  ReaderOnCurrent
  CloseWakes
PROPERTIES
  KeepsSessionContract
  CallReturns
CHECK_DEADLOCK FALSE
