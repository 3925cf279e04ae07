CONSTANTS
  u1 = u1
  u2 = u2
  m1 = m1
  m2 = m2
  f1 = f1
  f2 = f2
  f3 = f3
  f4 = f4
  f5 = f5
  K1 = K1
  K2 = K2
  K3 = K3
  K4 = K4
  Caller = {u1, u2}
  Member = {m1, m2}
  Calls <- MCCalls
  ForPrograms <- MCForPrograms
  SizeLimit = 16
  Hardware = 4
  ThreadCounts = {0, 1, 3, 6}
  Environments <- MCEnvironments
  ConfigDepth = 2
  ConfigCalls = 3
  Agent = {a1, a2}
  MaxSlots = 2
  SpawnCalls = 2
  GlobalMaxima = {0, 1}
  Serials = {TRUE, FALSE}
  GraphUses <- SharedUses
SPECIFICATION GSpec
INVARIANTS InputsAreNeeds
CHECK_DEADLOCK FALSE
