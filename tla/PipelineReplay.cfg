SPECIFICATION Spec
CONSTANTS
    sell = sell
    amend = amend
    junk = junk
    b1 = b1
    test = test
    file = file
    w1 = w1
    w2 = w2
    Workers = {w1}
    Wires = {sell, amend}
    Sells = {sell}
    Junk = {}
    Tests = {}
    Filed = {}
    Bookings = {b1}
    booking <- MCBooking
    None = None
    MaxAttempts = 2
    MaxRows = 3
    MaxRecords = 3
    MaxLocal = 0
    MaxFaults = 0
CHECK_DEADLOCK FALSE
INVARIANTS DuplicateMeansDone
