SPECIFICATION Spec
CONSTANTS
    m1 = m1
    m2 = m2
    Messages = {m1, m2}
    Dialled = {}
    Ids <- MCIds
    None = None
    MaxEntries = 2
    MaxFaults = 2
INVARIANTS AcceptedSafe InOrder
PROPERTIES HandoffSpec EveryMessageKept
