\* Every answer of up to three calls, reading, writing or unknown.
SPECIFICATION FairSpec
CONSTANT N = 3
CHECK_DEADLOCK FALSE
INVARIANTS
  OverlapOnlyIfAbandoned
PROPERTIES
  KeepsBatchContract
  BatchReturns
