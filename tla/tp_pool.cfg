SPECIFICATION FairSpec
CONSTANTS
  NULL = NULL
  o = o u = u p1 = p1 p2 = p2 p3 = p3 p4 = p4 a = a b = b g = g x = x y = y z = z
  N = 3
  Client = {o, u}
  Proxy = {p1, p2, p3, p4}
  Job = {a, b, g, x, y, z}
  Scripts <- PoolScripts
CHECK_DEADLOCK FALSE
INVARIANTS JobsRunOnce JobsFinish WaitsUpwards
PROPERTIES CallsReturn
