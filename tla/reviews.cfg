SPECIFICATION Spec
CONSTANTS
  Review = {r1, r2}
  Session = {s1, s2}
  Slug = {g1, g2}
  MaxDecisions = 2
  MaxStores = 2
  NoFile = NoFile
  Nobody = Nobody
CHECK_DEADLOCK FALSE
INVARIANTS IndexedHasFile WholeUnlessShared WrittenIsIndexed
