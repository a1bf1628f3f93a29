CONSTANTS
    Procs = {p1, p2}
    ElecPlates = {E1, E2}
    FuelPlates = {}
    NoPlate = NoPlate
    NoProc = NoProc
    NumElec = 1
    NumFuel = 0
    PayStations = 2
    Grace = 0
    Period = 3
    RateElec = 3
    RateFuel = 2
    StartTime = 1
    MaxTime = 1
    CashWidth = 2
    Hangups = FALSE
    Cameras = {1, 3}
    MaxPayers = 1
SPECIFICATION FairSysSpec
INVARIANT
    CashExact
PROPERTIES
    CamerasAnswered
    PaymentsBooked
