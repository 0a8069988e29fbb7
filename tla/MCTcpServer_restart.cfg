CONSTANTS
  Client = {c1}
  MAXBUFFERSIZE = 2
  MaxLines = 3
  MaxReplies = 0
  MaxStarts = 2
SPECIFICATION PoliteSpec
CHECK_DEADLOCK FALSE
INVARIANTS LinesInOrder LostOnlyToNewer ListenerReleased
PROPERTIES StopReturns LinesAreRead
