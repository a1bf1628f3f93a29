CONSTANTS
    c1 = c1
    c2 = c2
    c3 = c3
    Clients = {c1, c2}
    Amount <- TwoAmounts
    Times <- TwoRounds
SPECIFICATION Spec
INVARIANT
    BalanceExact
CHECK_DEADLOCK FALSE
