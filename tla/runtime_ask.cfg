\* A question about a task that may have ended when it is asked.
CONSTANTS
  dev = dev
  src = src
  spawn1 = spawn1
  spawn2 = spawn2
  stop1 = stop1
  t1 = t1
  t2 = t2
  Names = {dev}
  Callers = {}
  Agents = {}
  NoAgent = NoAgent
  Tasks = {t1}
  Spawns = {}
  Terminates = {}
  NameIn <- MCNameIn
  DirOf <- MCDirOf
  Questions = {q1}
  TaskOf <- MCTaskOf
  QueueSize = 2
  AskSize = 1
  MaxRounds = 1
  MaxFailures = 1
  MaxCrashes = 0
SPECIFICATION FairSpec
CHECK_DEADLOCK FALSE
PROPERTY QuestionIsAnswered
