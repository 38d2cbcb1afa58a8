SPECIFICATION PartsSpec
CONSTANTS
    Ids = {a, b}
    Weights = {0, 2, 3}
    Metrics = {0, 1, 2}
    Hash <- Hashes
    MaxChanges = 2
    Cycle = 60
    Args = {"help", "terminal", "config"}
    Shorts <- MCShorts
    Defaults <- MCDefaults
    NoValue = "none"
    Words <- MCWords
    MaxWords = 4
    MaxAccountLen = 2
    Accounts <- MCAccounts
    AccountKey = 1
    Keys = {0, 1, 2}
    Ttl = 1
    MaxTime = 2
    MaxRequests = 4
    MaxConnects = 2
    Clients = {"c1", "c2"}
    Telnet = TRUE
    Callbacks = {"heartbeat", "status"}
    Idle = "idle"
    MaxTasks = 3
    MaxInFlight = 1
    MaxLosses = 2
    Others = {"o", "p"}
    MaxMoves = 2
    Callers = {"s"}
    NoTable = NoTable
INVARIANTS Shares Parsed  StopWaits NodeTypeOK
PROPERTY SetGet
CHECK_DEADLOCK FALSE
