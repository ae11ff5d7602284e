SPECIFICATION FairSpec
CONSTANTS
  Memories = {1}
  Texts = {t1, t2}
  NoText = NoText
  Refreshers = {r1}
  Backfill = backfill
  Unembeddable = {}
  Dimensions = {512}
  FirstDimension = 512
  NoTask = NoTask
  NoVector = NoVector
  NoTarget = NoTarget
  MaxRevision = 3
PROPERTIES VectorsCatchUp
CHECK_DEADLOCK FALSE
