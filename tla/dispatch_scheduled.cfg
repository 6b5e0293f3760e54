\* One task created for a later date, and nothing else.
CONSTANTS
  Clients = {c1}
  Requests = {"schedule"}
  Outcomes = {"succeeded"}
  MaxTasks = 1
  MaxRuns = 1
  MaxRequests = 1
  MaxTime = 1
  MaxRestarts = 0
  NoTask = NoTask
  NoTime = NoTime
SPECIFICATION FairSpec
PROPERTY DueTaskIsSent
