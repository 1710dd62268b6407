CONSTANTS
    Layouts <- Fleet
    Equipment = "big"
    NameLists <- Lists
    GoShows <- Shows
    ThroughCalls <- Calls
    SeatWishes = {"2A", NoSeat}
    NoSeat = NoSeat
    None = None
    MaxPax = 3
    MaxBags = 1
    MaxEvents = 2
SPECIFICATION Spec
INVARIANTS SeatsAgree ClosureAddsUp
CHECK_DEADLOCK FALSE
