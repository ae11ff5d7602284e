SPECIFICATION FairSpec
CONSTANTS
  Memories = {1, 2}
  Texts = {t1, t2}
  NoText = NoText
  Refreshers = {r1}
  Backfill = backfill
  Unembeddable = {2}
  Dimensions = {512}
  FirstDimension = 512
  NoTask = NoTask
  NoVector = NoVector
  NoTarget = NoTarget
  MaxRevision = 3
INVARIANTS PublishTypeOK VectorsOfTheirRevision
PROPERTIES VectorsNeverGoBack 
CHECK_DEADLOCK FALSE
