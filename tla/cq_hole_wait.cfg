SPECIFICATION FairSpec
CONSTANTS
  NULL = NULL
  o = o p = p a = a b = b g = g x = x y = y hx = hx hy = hy v = v
  w1 = w1 w2 = w2 k0 = k0 k1 = k1 k2 = k2 k3 = k3
  Owner = o
  Client = {o}
  Worker = {t1}
  Invoker = {a, b, g, x, w1, w2, k0}
  NonVoid = {}
  Scripts <- HoleScripts
PROPERTIES WaitReturns
CHECK_DEADLOCK FALSE
