SPECIFICATION Spec
CONSTANTS
    Fds = {1, 2}
    MaxConns = 2
    MaxCalls = 1
    MaxNews = 2
    MaxOthers = 1
INVARIANT MapsAgree
PROPERTY Served
CHECK_DEADLOCK FALSE
