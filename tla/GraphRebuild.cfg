SPECIFICATION GraphSpec
CONSTANTS
  Memories = {m1, m2}
  Categories = {c1}
  Titles = {t1, t2}
  Bodies = {b1, b2}
  Keywords = {w1}
  RelationTypes = {related}
  RelatedTo = related
  AutoLimit = 3
  NoText = NoText
  NoState = NoState
  MaxRevision = 3
  MaxCalls = 1
SYMMETRY Symmetry
INVARIANTS CleanGraphIsCurrent
CHECK_DEADLOCK FALSE
