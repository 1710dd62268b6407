SPECIFICATION Spec
CONSTANTS
    A = A
    B = B
    agent = agent
    link = link
    Passengers = 1
    Operator <- MCOperator
    Booked = 2
    MaxCoupons = 2
    MaxConjunction = 2
    Requests <- MCRequests
    Callers = {agent, link}
    Sweeper = Sweeper
    AutoCancel = TRUE
    Flaky = {B}
    None = None
    MaxAttempts = 2
    MaxCalls = 2
    MaxFaults = 1
CHECK_DEADLOCK FALSE
INVARIANTS OneLiveCoupon AdvisedOrQueued
PROPERTIES LiftedWithFlight LimitEnforced
