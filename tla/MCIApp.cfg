SPECIFICATION AppSpec
CONSTANTS
    QueueSize = 1
    MaxEvents = 3
INVARIANTS
    TimerOutlives
PROPERTIES
    StopEnds
    ReloadsHappen
CHECK_DEADLOCK FALSE
