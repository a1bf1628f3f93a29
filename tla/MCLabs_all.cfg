CONSTANTS
    MaxNumber = 7
    MaxStarts = 2
    Letters = {A, B}
    Size = 4
    MaxLetters = 4
    Trains = {t1, t2, t3}
    Drivers = {"order", "led", "lot"}
    Terminals = {u1, u2}
    Kilometres = {1, 3}
    MaxOrders = 2
    Numbers <- OrderNumbers
    MaxMessages = 3
SPECIFICATION LabsSpec
INVARIANTS
    LabsTypeOK
    
    OnlyLettersShown
    LettersInOrder
    OwnTrackOnly
    AllOrNothing
    DarkWhenIdle
    BillIsBasket
PROPERTIES
    HalvesInterval
    SearchEnds
    MarqueeDrains
    TrainsCollected
    CustomerTold
CHECK_DEADLOCK FALSE
