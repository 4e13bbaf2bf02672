SPECIFICATION FairCuration
CONSTANTS
  p = p
  none = none
  a = a
  b = b
  c = c
  Arrival <- MCArrival
  Project = {p}
  NoProject = none
  Fingerprint <- MCFingerprint
  BatchSize = 2
  MinOrganized = 2
  MinProject = 2
  MinMerge = 2
  TopProjects = 1
  MaxRows = 6
  MaxFaults = 1
  PerTick = 2
  EnrichBatchSize = 2
INVARIANTS ConsumedIsMerged
PROPERTIES NothingRemoved AllEnriched BacklogShrinks
CHECK_DEADLOCK FALSE
