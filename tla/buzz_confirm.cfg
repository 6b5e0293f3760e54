\* A confirmation on the relay, which the monitor hands over wrapped.
CONSTANTS
  channel = channel
  page = page
  r1 = r1
  r2 = r2
  say = say
  ask = ask
  yes = yes
  no = no
  Readers = {r1, r2}
  Threads = {channel, page}
  Events = {say, ask, yes, no}
  Relayed = {channel, page}
  In <- MCIn
  Says <- MCSays
  Mentions = {say, ask}
  Serves <- MCServes
  MaxDeliveries <- MCDeliveries
  MaxFailures = 1
  MayDelete = {say}
  MaxDeletions = 1
  MayExpire = {ask}
  NoEvent = NoEvent
SPECIFICATION Spec
CHECK_DEADLOCK FALSE
PROPERTIES ConfirmationIsTaken
