\* Session commands arrive while a stream is running, as the handler allows.
SPECIFICATION FairSpec
CONSTANTS
  Sessions = {s1, s2}
  Turns = {t1, t2}
  Conns = {c1}
  MaxMsgs = 4
  MaxCommands = 1
  MaxCrossed = 3
  MaxCompact = 1
  MaxTasks = 1
  MaxFail = 0
  MaxCrash = 1
CHECK_DEADLOCK FALSE
INVARIANTS
  StreamExclusive
PROPERTY StreamReleased
