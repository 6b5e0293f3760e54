\* Two operators start items at the same time.
CONSTANTS
  Items = {1, 2}
  bot = bot
  Bots = {bot}
  NoBot = NoBot
  Clients = {c1, c2}
  Patches <- StartPatches
  Keep = Keep
  Loaded <- BacklogBoards
  MaxConcurrent = 1
  MaxTasks = 2
  MaxRequests = 2
  MaxTime = 0
  NoTask = NoTask
  NoItem = NoItem
  NoTime = NoTime
SPECIFICATION Spec
INVARIANT CapacityRespected
