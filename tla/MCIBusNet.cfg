SPECIFICATION FairSpec
CONSTANTS
    Callbacks = {"heartbeat", "status"}
    Idle = "idle"
    MaxTasks = 5
    MaxInFlight = 1
    MaxLosses = 2
    Others = {o}
    o = o
    MaxMoves = 2
    Callers = {}
    NoTable = NoTable
PROPERTIES Rejoins Discovered
CHECK_DEADLOCK FALSE
