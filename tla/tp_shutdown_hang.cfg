SPECIFICATION FairSpec
CONSTANTS
  NULL = NULL
  o = o u = u p1 = p1 p2 = p2 p3 = p3 p4 = p4 a = a b = b g = g x = x y = y z = z
  N = 2
  Client = {o}
  Proxy = {p1}
  Job = {a, b}
  Scripts <- ShutdownScripts
PROPERTIES DestroyReturns
CHECK_DEADLOCK FALSE
