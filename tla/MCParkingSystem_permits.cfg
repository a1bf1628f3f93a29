CONSTANTS
    Procs = {p1, p2}
    ElecPlates = {E1, E2}
    FuelPlates = {}
    NoPlate = NoPlate
    NoProc = NoProc
    NumElec = 1
    NumFuel = 0
    PayStations = 2
    Grace = 0
    Period = 3
    RateElec = 3
    RateFuel = 2
    StartTime = 1
    MaxTime = 2
    CashWidth = 5
    Hangups = TRUE
    Cameras = {1, 3}
    MaxPayers = 1
SPECIFICATION SysSpec
INVARIANT
    PermitsReleased
