SPECIFICATION MCSpec
CONSTANTS
  Previous = previous
  Candidate = candidate
  Other = other
  MaxAttempts = 3
  Programs <- ScriptPrograms
  Objects <- ScriptObjects
  Pointers <- ScriptPointers
  Inputs = {"input"}
  Envs = {"env1", "env2"}
  Runs = {r1, r2}
  MaxStarts = 3
  MaxCrashes = 2
  Members = {1, 2, 3}
  OfOther = {2}
  Malformed = {3}
  Workers = 2
  FlushEvery = 2
  MaxLaunches = 3
  MaxKills = 1
  Last = 4
  ExpansionStages = {3, 4}
  Usable = {1, 2, 3}
  Flaky = {1}
  PoolSize = 2
  Cap = 2
  Spend = 3
  MaxRuns = 3
INVARIANT TornLineIsDiscarded
CHECK_DEADLOCK FALSE
