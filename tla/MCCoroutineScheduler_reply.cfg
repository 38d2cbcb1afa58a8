\* One handler that makes two requests: the second can return the first reply.
CONSTANTS
  Tasks = {c1}
  Workers = {w1, w2}
  Resumers = {r1}
  MaxReq = 2
  None = None
SPECIFICATION Spec
INVARIANT OwnReply
CHECK_DEADLOCK FALSE
