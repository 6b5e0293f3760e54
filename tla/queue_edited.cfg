\* One request edits the board at any moment, while the runner and the bots work.
CONSTANTS
  Items = {1, 2, 3}
  bot = bot
  Bots = {bot}
  NoBot = NoBot
  Clients = {c1}
  Patches <- EditPatches
  Keep = Keep
  Loaded <- EditBoards
  MaxConcurrent = 1
  MaxTasks = 2
  MaxRequests = 1
  MaxTime = 0
  NoTask = NoTask
  NoItem = NoItem
  NoTime = NoTime
SPECIFICATION FairSpec
INVARIANT ActiveTaskIsOwn
PROPERTIES DeletedStaysDeleted LinkedItemSettles
