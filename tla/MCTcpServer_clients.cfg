CONSTANTS
  Client = {c1, c2}
  MAXBUFFERSIZE = 1
  MaxLines = 0
  MaxReplies = 2
  MaxStarts = 1
SPECIFICATION Spec
SYMMETRY Symmetry
CHECK_DEADLOCK FALSE
INVARIANTS TypeOK  WriteReachesEveryClient NoLeakedConnection NeverStuck
