\* A bot answers before its task is stored on its item.
CONSTANTS
  Items = {1, 2}
  bot = bot
  Bots = {bot}
  NoBot = NoBot
  Clients = {}
  Patches <- NoPatches
  Keep = Keep
  Loaded <- OneQueued
  MaxConcurrent = 1
  MaxTasks = 1
  MaxRequests = 0
  MaxTime = 0
  NoTask = NoTask
  NoItem = NoItem
  NoTime = NoTime
SPECIFICATION FairSpec
PROPERTY ResultReachesItem
