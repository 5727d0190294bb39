\* One compaction, no other trouble: is the history on disk when the stream ends?
SPECIFICATION Spec
CONSTANTS
  Sessions = {s1, s2}
  Turns = {t1, t2}
  Conns = {c1}
  MaxMsgs = 7
  MaxCommands = 0
  MaxCrossed = 0
  MaxCompact = 1
  MaxTasks = 0
  MaxFail = 0
  MaxCrash = 0
CHECK_DEADLOCK FALSE
INVARIANT HistoryOnDisk
