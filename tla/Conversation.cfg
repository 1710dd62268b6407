SPECIFICATION Spec
CONSTANTS
    f1 = f1
    f2 = f2
    tty = tty
    edi = edi
    Flights = {f1, f2}
    Carriers = {tty, edi}
    carrierOf <- mcCarrierOf
    Edifact = {edi}
    capacity <- mcCapacity
    waitlist <- mcWaitlist
    Controlled = {f2}
    Requests <- mcRequests
    alternatives <- mcAlternatives
    AskCarriers = TRUE
    Agents = {a1}
    Readers = {w1, w2}
    None = None
    MaxSales = 2
    MaxEvents = 2
INVARIANTS Agreed SeatsAccounted MovedIsHeld
PROPERTIES StaysDead EveryRequestAnswered
CHECK_DEADLOCK FALSE
