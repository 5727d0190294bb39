\* What the files hold, with compaction, a failing write, a restart and a command
\* that crosses a stream at one session or two of three.
SPECIFICATION Spec
CONSTANTS
  Sessions = {s1, s2, s3}
  Turns = {t1, t2}
  Conns = {c1}
  MaxMsgs = 4
  MaxCommands = 2
  MaxCrossed = 1
  MaxCompact = 1
  MaxTasks = 0
  MaxFail = 1
  MaxCrash = 1
SYMMETRY Symmetry
CHECK_DEADLOCK FALSE
INVARIANTS
  HomeOnly
  FileIsHistory
  CountedIsStored
PROPERTY KeepsTranscript
