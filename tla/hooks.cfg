SPECIFICATION Spec
CONSTANTS
  t1 = t1
  t2 = t2
  ml = ml
  Call = {t1, t2}
  Message = ml
  NumHooks = 3
  OnTool = {1, 2}
  Once = {1}
  Async = {3}
  Prompt = {2, 3}
  Blank = {t2}
  MaxRounds = 2
INVARIANTS OnceInOneBatch LostWithRequest TextOfTheRound
CHECK_DEADLOCK FALSE
