\* The runner and the bots alone on a board whose items are all queued.
CONSTANTS
  Items = {1, 2, 3}
  bot = bot
  Bots = {bot}
  NoBot = NoBot
  Clients = {}
  Patches <- NoPatches
  Keep = Keep
  Loaded <- QueuedBoards
  MaxConcurrent = 1
  MaxTasks = 3
  MaxRequests = 0
  MaxTime = 1
  NoTask = NoTask
  NoItem = NoItem
  NoTime = NoTime
SPECIFICATION FairSpec
INVARIANTS CapacityRespected DispatchedOnce
PROPERTIES StartsInOrder ReadyItemStarts
