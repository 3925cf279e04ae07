CONSTANTS
  s0 = s0
  s1 = s1
  s2 = s2
  t1 = t1
  t2 = t2
  Stream <- MCStream
  NullStream = s0
  kMinBlockSize = 2
  kSmallSize = 2
  kSmallBuffer = 6
  kMinLargeAlloc = 6
  kLargeBuffer = 10
  kRoundLarge = 6
  MaxBlocks = 10
  Thread <- MCThread
  Clients <- MCClients
  DeviceMemory = 30
  Granularity = 4
  MetalSizes = {1, 3}
  MetalCaps = {3, 100}
  MetalLimits = {10, 100}
  MetalMemory = 30
  kSmallHeapBytes = 12
  kLargeHeapBytes = 20
  MetalCalls = 4
  Pointer = {q1, q2, q3}
  x1 = x1
  x2 = x2
  x3 = x3
  x4 = x4
  x5 = x5
  y1 = y1
  y2 = y2
  ha = ha
  hb = hb
  HashTable = {ha, hb}
  HashKey = {x1, x2, x3, x4, x5}
  HashVal = {y1, y2}
  NoKey = NoKey
  HashBits = 5
  min_lookups = 3
  HashUses <- MCHashUses
  LogThread = {l1, l2}
  LogPath = {"a", "b"}
  CallbackId = {"x"}
  ScopeId = {"s", "t"}
  LogUses <- MCLogUses
  NoThread = NoThread
  l1 = l1
  l2 = l2
SPECIFICATION MCSpec
INVARIANTS CacheSound NoEarlyReuse SegmentsKept PointersSound TableIsMap LogSound
PROPERTIES MetalSound
