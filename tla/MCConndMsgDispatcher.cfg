\* Two users; two TCP connections and one WebSocket connection.
CONSTANTS
  tcp = tcp
  ws = ws
  kcp = kcp
  t1 = t1
  t2 = t2
  w1 = w1
  k1 = k1
  Conns = {t1, t2, w1}
  Users = {u1, u2}
  Listeners = {tcp, ws}
  Ws = ws
  Kcp = kcp
  Listener <- ByName
  MaxBatch = 1
  Anonymous = Anonymous
  None = None
SPECIFICATION Spec
INVARIANTS TypeOK OneSession NoStaleMapping
PROPERTIES OpenKeepsSession ClosedForgotten
CHECK_DEADLOCK FALSE
