\* One message to the bot, one of another bot, and tasks from the web page.
CONSTANTS
  Events = {e1, e2}
  Ignored = {e2}
  MaxTasks = 3
  Room = 2
  MaxLost = 1
  None = None
SPECIFICATION Spec
CHECK_DEADLOCK FALSE
PROPERTY ResultIsPosted
