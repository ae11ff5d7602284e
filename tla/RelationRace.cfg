\* Two memories: what a relation transaction read grows
\* stale under deletions, restores, approvals and rejections of both ends.
SPECIFICATION RaceSpec
CONSTANTS
  Memories = {m1, m2}
  Categories = {c1}
  Titles = {t1, t2}
  Bodies = {b1, b2}
  Keywords = {w1}
  RelationTypes = {related, cites}
  RelatedTo = related
  AutoLimit = 3
  NoText = NoText
  NoState = NoState
  MaxRevision = 4
  MaxCalls = 1
SYMMETRY Symmetry
INVARIANTS ReviewMatchesStatus RelationsJoinAccepted
CHECK_DEADLOCK FALSE
