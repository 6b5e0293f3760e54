\* Two prompts on one session, evicted by a second one; one failing call, one end of the process.
CONSTANTS
  a = a
  b = b
  p1 = p1
  p2 = p2
  p3 = p3
  Sessions = {a, b}
  Prompts = {p1, p2}
  SessionOf <- MCSessionOf
  NoPrompt = NoPrompt
  MaxSessions = 1
  MaxThoughts = 1
  MaxFailures = 1
  MaxCrashes = 1
SPECIFICATION FairSpec
CHECK_DEADLOCK FALSE
INVARIANTS CancelIsCurrent RecordsAgree
PROPERTIES QuietAfterAnswer EveryPromptIsAnswered
