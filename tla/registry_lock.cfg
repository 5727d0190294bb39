\* Two turns ask for their tools while the tools of a server register.
SPECIFICATION FairSpec
CONSTANTS
  Turn = {t1, t2}
  Local = {bash}
  Remote = {m1, m2}
  Enabled = {}
CHECK_DEADLOCK FALSE
PROPERTY SpecsReturn
