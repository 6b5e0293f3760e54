\* One task, one name that is spawned twice, failures, a shutdown and a crash.
CONSTANTS
  dev = dev
  src = src
  spawn1 = spawn1
  spawn2 = spawn2
  stop1 = stop1
  t1 = t1
  t2 = t2
  Names = {dev}
  Callers = {stop1}
  Agents = {spawn1, spawn2}
  NoAgent = NoAgent
  Tasks = {t1}
  Spawns = {spawn1, spawn2}
  Terminates = {stop1}
  NameIn <- MCNameIn
  DirOf <- MCDirOf
  Questions = {q1}
  TaskOf <- MCTaskOf
  QueueSize = 2
  AskSize = 1
  MaxRounds = 1
  MaxFailures = 1
  MaxCrashes = 1
SPECIFICATION FairSpec
CHECK_DEADLOCK FALSE
INVARIANTS SessionMatches
PROPERTIES TerminateCleansUp TerminatingEnds TakenIsReported
