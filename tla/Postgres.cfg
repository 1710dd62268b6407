CONSTANTS
    a = a
    b = b
    c = c
    Ids = {a, b, c}
    locOf <- mcLocOf
    First = a
    Writers = {w1, w2}
    None = None
    Days = {1, 2}
    Cutoffs = {3, 4}
    MaxWrites = 2
    MaxRetires = 1
    MaxItems = 1
    MaxFaults = 1
SPECIFICATION Spec
INVARIANTS EventsInOrder
PROPERTIES BookSpec OnlyTheDue
SYMMETRY Symm
CHECK_DEADLOCK FALSE
