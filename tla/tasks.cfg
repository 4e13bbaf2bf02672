CONSTANTS
  p = p
  hi = hi
  a = a
  b = b
  heading = heading
  s = s
  go = go
  sql = sql
  None = None
  Id = {i1, i2}
  Daemon = {d1}
  Prefix <- MCPrefix
  Horizon = 2
  MaxClock = 3
  MaxKills = 1
  MaxErrors = 1
  Given = {p, hi}
  Noise = {hi}
  Answer = {a, b}
  NoText = NoText
  Entry = {1, 2}
  Parent <- MCParent
  PromptId <- MCPromptId
  Section <- MCSection
  Bare = {heading}
  Reader = {"daemon", "command"}
  MaxTurns = 2
  Row = {1, 2, 3}
  Entity = {go, sql}
  Kind = {"concept", "technology"}
  classifyEntity <- MCclassify
  Named <- MCNamed
  Silent = {1, 2}
  PerTick <- MCPerTick
  BatchSize = 1
  MaxFaults = 1
SPECIFICATION FairSpec
CHECK_DEADLOCK FALSE
INVARIANTS RepeatedOnlyOnErrors PromptsOnce ExtractedIsLinked
PROPERTIES AnnouncedIsListed DueIsAnnounced EverythingIsKept BacklogDrains
