SPECIFICATION SocketsSpec
CONSTANTS
    Senders = {"loop", "app"}
    Length <- Lengths
    HeaderLen = 2
    SocketCap = 3
    RingCap = 5
    ReadMax = 2
    Fds = {1, 2}
    MaxConns = 2
    WsCalls = 1
    MaxOthers = 1
    Script <- Scripts
    Convs = {7, 8}
    MaxSessions = 2
    MaxMessages = 2
    KcpCalls = 2
    Replies = TRUE
INVARIANTS Delivered Listed
PROPERTIES Arrives ListenersServe
CHECK_DEADLOCK FALSE
