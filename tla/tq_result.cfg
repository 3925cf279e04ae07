SPECIFICATION FairSpec
CONSTANTS
  Worker = {w1, w2}
  BufferSize = 1
  MaxTasks = 4
INVARIANTS StrictOrder NewestWins PopSucceeds
PROPERTIES AllReturn
