CONSTANTS
  a = a
  b = b
  q = q
  r = r
  None = None
  session = session
  runner = runner
  Tasks = {a, b}
  Drafts <- AskAndAnswer
  Hosted = b
  Servers = {session, runner}
  Waiting = {b}
  Debates <- AllScenes
SPECIFICATION FairDebateSpec
INVARIANTS DebateInv AnswersReachTheAsker
PROPERTIES DebateIsHeard
CHECK_DEADLOCK FALSE
