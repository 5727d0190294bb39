\* Two turns of at most two rounds with up to two parallel calls.
SPECIFICATION FairSpec
CONSTANTS
  MaxIter = 2
  MaxUses = 2
  MaxTurns = 2
CHECK_DEADLOCK FALSE
INVARIANTS
  Paired
  ReplyGiven
  StopHonoured
PROPERTIES
  KeepsTurnContract
  TurnEnds
