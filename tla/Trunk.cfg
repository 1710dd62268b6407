SPECIFICATION LinkSpec
CONSTANTS
    a = a
    b = b
    Ends = {a, b}
    NoKind = NoKind
    Depth = 1
    Window = 1
    Relays = {}
    MaxOrigin = 2
    MaxCloses = 1
CHECK_DEADLOCK FALSE
PROPERTIES NextRead EveryFrameRead
