SPECIFICATION Spec
CONSTANTS
  Memories = {m1, m2}
  Categories = {c1}
  Titles = {t1, t2}
  Bodies = {b1, b2}
  Keywords = {w1}
  RelationTypes = {related, cites}
  RelatedTo = related
  AutoLimit = 3
  NoText = NoText
  NoState = NoState
  MaxRevision = 5
  MaxCalls = 1
SYMMETRY Symmetry
INVARIANTS RejectionPossible
CHECK_DEADLOCK FALSE
