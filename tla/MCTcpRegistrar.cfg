\* Two instances; a connects up to two times and may end, b connects once; up to two
\* mishaps.
CONSTANTS
  a = a
  b = b
  Ids = {a, b}
  MaxConn <- Connections
  Mortal = {a}
  MaxMishaps = 2
  None = None
SPECIFICATION Spec
INVARIANT DeltasComplete
PROPERTY Forgotten
CHECK_DEADLOCK FALSE
