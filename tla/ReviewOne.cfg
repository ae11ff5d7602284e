\* One memory, every field free to change, and two clients at a time: edits of
\* fields and of keywords race with each other, with deletions and with the
\* reviewer on one row.
SPECIFICATION Spec
CONSTANTS
  Memories = {m1}
  Categories = {c1, c2}
  Titles = {t1, t2}
  Bodies = {b1, b2}
  Keywords = {w1, w2}
  RelationTypes = {related, cites}
  RelatedTo = related
  AutoLimit = 3
  NoText = NoText
  NoState = NoState
  MaxRevision = 5
  MaxCalls = 2
SYMMETRY Symmetry
INVARIANTS RevisionIdentifiesText
PROPERTIES ImplementsLedger
CHECK_DEADLOCK FALSE
