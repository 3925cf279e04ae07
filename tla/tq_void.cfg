SPECIFICATION FairSpec
CONSTANTS
  Worker = {w1, w2}
  BufferSize = 2
  MaxTasks = 4
INVARIANTS CounterBacked DestroyRunsAll
PROPERTIES AllReturn
