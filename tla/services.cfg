CONSTANTS
  ent = ent
  pre = pre
  word = word
  quoted = quoted
  Pattern = {ent, pre, word, quoted}
  Long = {ent, word, quoted}
  Term <- MCTerm
  Quoted = quoted
  PrefixesOf <- MCPrefixesOf
  Idf <- MCIdf
  Shape <- MCShape
  Query <- MCQuery
  Filters <- MCFilters
  Strategy = {"idf", "bm25", "hybrid"}
  MaxMemories = 3
  Question <- MCQuestion
  Aggregates = {"evidence-task"}
  Share <- MCShare
  Few = 2
  MaxAsked = 1
  Now <- MCNow
  FirstWeekday = 3
  Reminder <- MCReminder
  Asking <- MCAsking
  Proc = {"p", "q"}
  Prompt = {"x", "y"}
  Function = {"Extract", "Chat"}
  Text <- MCText
  DupWindow = 1
  MaxCalls = 2
  MaxClock = 2
  MaxFaults = 1
  Tool = {"memory_write", "memory_delete", "memory_read", "memory_timeline", "memory_remind", "memory_state_get", "memory_state_set", "memory_graduate", "memory_unknown"}
  Content = {word}
  NoContent = quoted
  MaxRequests = 3
  MaxKills = 1
  r1 = r1
  r2 = r2
  r3 = r3
  Simplified <- MCSimplified
  DayOf <- MCDayOf
  Most <- MCMost
  Cited = 2
  MaxSteps = 2
  MaxKnown = 2
  Viewer = {"v", "w"}
  Slots = 2
  Processors = 1
  MaxRuns = 2
  Project = {r1, r2}
  Writer = {"p", "q"}
  MaxReports = 2
  MaxGrads = 1
  Page = {r1, r2, r3}
  Noise = {r3}
  Wiki <- MCWiki
  Entry = {r1, r2}
  Labelled = {r1}
  Origin = {"s", "t"}
  SchemaColumns <- MCSchemaColumns
  Columns <- MCColumns
  Vintage <- MCVintage
  MaxStarts = 3
  MaxWrites = 2
SPECIFICATION Spec
CHECK_DEADLOCK FALSE
INVARIANTS SearchFinds AskGrounded TimesAsSaid CallsAreTrue AnsweredInOrder EventsArrive BoardIsCurrent RebuildRestores UpgradeKeeps
