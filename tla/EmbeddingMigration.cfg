SPECIFICATION MigrationSpec
CONSTANTS
  Memories = {1, 2}
  Texts = {t1}
  NoText = NoText
  Refreshers = {r1}
  Backfill = backfill
  Unembeddable = {}
  Dimensions = {512, 1024}
  FirstDimension = 512
  NoTask = NoTask
  NoVector = NoVector
  NoTarget = NoTarget
  MaxRevision = 3
  MaxTables = 2
INVARIANTS TableOfOneDimension
PROPERTIES SwapIsComplete
CONSTRAINT OneTask
CHECK_DEADLOCK FALSE
