CONSTANTS
    c1 = c1
    c2 = c2
    c3 = c3
    Clients = {c1, c2, c3}
    Amount <- Amounts
    Times <- Rounds
SPECIFICATION Spec
INVARIANTS
    BalanceBounded
    
CHECK_DEADLOCK FALSE
