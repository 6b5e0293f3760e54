\* An operator, the scheduler and the bots on one task, through a restart.
CONSTANTS
  Clients = {c1}
  Requests = {"create", "schedule", "run", "requeue", "delete"}
  Outcomes = {"succeeded"}
  MaxTasks = 1
  MaxRuns = 2
  MaxRequests = 3
  MaxTime = 1
  MaxRestarts = 1
  NoTask = NoTask
  NoTime = NoTime
SPECIFICATION FairSpec
INVARIANT RunningWasSent
PROPERTIES OneShotNotEarly DueTaskIsClaimed
