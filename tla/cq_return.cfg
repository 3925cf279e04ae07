SPECIFICATION FairSpec
CONSTANTS
  NULL = NULL
  o = o p = p a = a b = b g = g x = x y = y hx = hx hy = hy v = v
  w1 = w1 w2 = w2 k0 = k0 k1 = k1 k2 = k2 k3 = k3
  Owner = o
  Client = {o}
  Worker = {t1, t2}
  Invoker = {a, b, v, x, hx, w1, w2, k0, k1, k2}
  NonVoid = {v}
  Scripts <- ReturnScripts
INVARIANTS DequeSound WaitMeansReady
PROPERTIES QueueReturns
