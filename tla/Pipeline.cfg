SPECIFICATION Spec
CONSTANTS
    sell = sell
    amend = amend
    junk = junk
    b1 = b1
    test = test
    file = file
    w1 = w1
    w2 = w2
    Workers = {w1, w2}
    Wires = {sell, amend, junk, test, file}
    Sells = {sell}
    Junk = {junk}
    Tests = {test}
    Filed = {file}
    Bookings = {b1}
    booking <- MCBooking
    None = None
    MaxAttempts = 2
    MaxRows = 3
    MaxRecords = 3
    MaxLocal = 1
    MaxFaults = 1
CHECK_DEADLOCK FALSE
INVARIANTS NoLostUpdate StatusHonest AppliedOnce
PROPERTIES EveryRowSettles
