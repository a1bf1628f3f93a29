CONSTANTS
    Procs = {p1, p2}
    ElecPlates = {}
    FuelPlates = {F1, F2}
    NoPlate = NoPlate
    NumElec = 0
    NumFuel = 2
    PayStations = 1
    Grace = 0
    Period = 9
    RateElec = 3
    RateFuel = 2
    StartTime = 1
    MaxTime = 2
    CashWidth = 1
    Hangups = TRUE
SYMMETRY Symmetry
SPECIFICATION Spec
INVARIANTS
    IInv
    MutexExact
    PermitsExact
    SlotsAgree
    SpaceLeftExact
PROPERTIES
    GuidedToNearest
    ImplementsLot
CHECK_DEADLOCK FALSE
