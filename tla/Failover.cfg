SPECIFICATION Spec
CONSTANTS
    a = a
    b = b
    x = x
    y = y
    z = z
    Nodes = {a, b}
    Accepts = {x, z}
    Matip = {z}
    Dials = {}
    Configured = {x}
    None = None
    TTL = 3
    DrainTicks = 4
    MaxMisses = 2
    MaxFaults = 1
INVARIANTS OneWriter OneSession
PROPERTIES SystemServed
