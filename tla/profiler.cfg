CONSTANTS
  c1 = c1
  c2 = c2
  p1 = p1
  p2 = p2
  r1 = r1
  r2 = r2
  kNumSlots = 2
  Session <- MCSession
  Producer = {p1, p2}
  Programs <- MCPrograms
  TrackedThread = {k1, k2}
  Address = {1, 2}
  TrackedSizes = {1, 2}
  TrackerCalls = 2
  TrackerControls = 2
  Overlap = {FALSE}
  RFThread = {r1, r2}
  RecordScope = {"fun", "user"}
  RFUses <- MCRFUses
  MaxTries = 2
  IntMax = 2
  EventTimes = {1, 2, 3}
  TraceUses <- MCTraceUses
SPECIFICATION MCSpec
CHECK_DEADLOCK FALSE
INVARIANTS QueuesSafe NothingLost SessionsApart TrackerAgrees ObserversSound TreeIsRight
PROPERTIES StopReturns
