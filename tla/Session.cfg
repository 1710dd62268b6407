CONSTANTS
    Slots = {1, 2, 3}
    Nodes = {old, new}
    Kinds = {"tcp", "matip", "server"}
    Holder = new
    nodeOf <- mcNodeOf
    RequireToken = FALSE
    House = 2
    MaxFrames = 1
    MaxFaults = 3
SPECIFICATION Spec
INVARIANTS NewestRegistered
PROPERTIES HandoverSettles
CHECK_DEADLOCK FALSE
