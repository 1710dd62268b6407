CONSTANTS
    AmountField = 10000
    TotalField = 100000
    Stems <- mcStems
    Symbols <- mcSymbols
    MaxSymbols <- mcMaxSymbols
    Options <- mcOptions
    Sample <- mcSample
    MaxSent = 10
    MaxSegments = 2
    MaxLines = 2
    MaxBytes = 90
    SequenceWrap = 7
    Interchanges <- mcInterchanges
    Filed <- mcFiled
    Levies <- mcLevies
    Flights <- mcFlights
    Party <- mcParty
    MaxTrip = 3
    Purchases <- mcPurchases
    Distances <- mcDistances
    Templates <- mcTemplates
    MaxSales = 4
    Cumulative <- mcCumulative
    Rest = 10
    FreeTime = 12
    FreeWindow = 40
    Extension = 2
    Shapes <- mcShapes
    Gaps <- mcGaps
    MaxDuties = 4
    Booking <- mcBooking
    Format <- mcFormat
    Aircraft <- mcAircraft
    Weights <- mcWeights
    MaxItems = 4
SPECIFICATION Spec
INVARIANTS
    FixedPoint
    
    PriceOfParts
    FileBalances
    CrewWithinLimits
    ServicesFollow
    LoadAccounted
CHECK_DEADLOCK FALSE
