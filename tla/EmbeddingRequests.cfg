SPECIFICATION RequestsSpec
CONSTANTS
  Documents <- MCDocuments
  Budget = 4
  Rpm = 2
  Tpm = 3
  Window = 3
  Delays <- MCDelays
  Concurrency = 2
  Permits = 1
  Searches = {s1}
  None = None
INVARIANTS RequestsTypeOK AdmittedWithinLimits SentNearLimits ContentCovered TitledByItsSection ReturnedInOrder
PROPERTIES WaitIsLeast GenerationEnds
