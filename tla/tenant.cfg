SPECIFICATION FairSpec
CONSTANTS
  Conn = {c1, c2}
  Server = {m1}
  MaxRuntimes = 2
  Watched = 1
  MaxEdits = 2
  Broken = {2}
INVARIANTS
  OnlyCurrentLive
  ServedIsNotLeft
  EditsReachMessages
PROPERTY ServersStop
CHECK_DEADLOCK FALSE
