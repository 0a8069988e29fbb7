CONSTANTS
  Client = {c1}
  MAXBUFFERSIZE = 1
  MaxLines = 0
  MaxReplies = 0
  MaxStarts = 1
SPECIFICATION Spec
CHECK_DEADLOCK FALSE
INVARIANT StoppedIsClosed
