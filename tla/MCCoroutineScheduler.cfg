\* Two handlers that make one request each, on two workers.
CONSTANTS
  Tasks = {c1, c2}
  Workers = {w1, w2}
  Resumers = {r1}
  MaxReq = 1
  None = None
SPECIFICATION Spec
INVARIANT NoLostTask
PROPERTY YieldReturns
CHECK_DEADLOCK FALSE
