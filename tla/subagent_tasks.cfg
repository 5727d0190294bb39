SPECIFICATION FairSpec
CONSTANTS
  Task = {t1, t2}
  Fork = {t2}
  Stopper = {s1}
INVARIANTS
  Answered
  StopReaches
  LastWord
PROPERTIES
  KeepsContract
  SubmitReturns
CHECK_DEADLOCK FALSE
