\* Two memories, two titles, two bodies: duplicates meet, a title is taken over
\* while its owner is in the trash, relations cross two reviews, and a client
\* acts on a revision that other transactions have moved on.
SPECIFICATION Spec
CONSTANTS
  Memories = {m1, m2}
  Categories = {c1}
  Titles = {t1, t2}
  Bodies = {b1, b2}
  Keywords = {w1}
  RelationTypes = {related, cites}
  RelatedTo = related
  AutoLimit = 3
  NoText = NoText
  NoState = NoState
  MaxRevision = 5
  MaxCalls = 1
SYMMETRY Symmetry
INVARIANTS TypeOK ReviewMatchesStatus AfterShowsWorkingText SearchIndexCurrent
PROPERTIES VisibleChangeMarksDirty ActivationIsReviewed  ImplementsRows
CHECK_DEADLOCK FALSE
