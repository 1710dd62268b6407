SPECIFICATION RouterSpec
CONSTANTS
    Messages = {1, 2, 3}
    Urgent = {2}
    Unrouted = {3}
    NoMark = NoMark
    MaxAttempts = 2
    MaxStops = 1
    MaxLogFaults = 1
CHECK_DEADLOCK FALSE
INVARIANTS NeverDropped
PROPERTIES BacklogEnds
