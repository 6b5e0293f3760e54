\* A relay channel with replays and a double subscription, and the chat page.
CONSTANTS
  channel = channel
  page = page
  r1 = r1
  r2 = r2
  say = say
  ask = ask
  yes = yes
  no = no
  Readers = {r1, r2}
  Threads = {channel, page}
  Events = {say, ask, yes, no}
  Relayed = {channel}
  In <- MCIn
  Says <- MCSays
  Mentions = {say, ask}
  Serves <- MCServes
  MaxDeliveries <- MCDeliveries
  MaxFailures = 1
  MayDelete = {say}
  MaxDeletions = 1
  MayExpire = {ask}
  NoEvent = NoEvent
SPECIFICATION FairSpec
CHECK_DEADLOCK FALSE
INVARIANTS OneTaskPerEvent NothingSwallowed RequestEndsOnce
PROPERTIES VisibleTaskSettles
