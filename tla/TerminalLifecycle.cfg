SPECIFICATION Spec
CONSTANTS
  None = None
  s1 = s1
  s2 = s2
  c1 = c1
  c2 = c2
  Session = {s1}
  Conn = {c1, c2}
  Request = {"r1"}
  Sweeper = {"janitor"}
  User = {"u"}
  MaxPerUser = 2
  MaxTotal = 2
  Pipe = 1
  BufferLimit = 1
  MaxInput = 2
INVARIANT TerminalTypeOK
INVARIANT ScrollbackShownOnce
INVARIANT ShellsAreRegistered
PROPERTY SuccessorKeepsSession
PROPERTY ExitClosesSession
CHECK_DEADLOCK FALSE
