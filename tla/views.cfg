SPECIFICATION FairSpec
CONSTANTS
  s1 = s1
  s2 = s2
  s3 = s3
  Memory = {1, 2, 3, 4}
  Session = {s1, s2, s3}
  SessionOf <- MCThree
  Proc = {d, c}
  Limit = 2
  Window = 1
  Poison = {s1}
  MaxDeletes = 1
  MaxFaults = 1
  Verdict = {"accept", "reject"}
  Domain = {"x", "y"}
  Arriving <- MCArriving
  Text = {"t", "u"}
  MaxSignals = 2
  MaxClock = 2
  MaxChanges = 1
INVARIANTS ConsumedHasView OneVoice
PROPERTIES  HealthyAreDigested
CHECK_DEADLOCK FALSE
