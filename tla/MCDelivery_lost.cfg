CONSTANTS
    Clients = {c1, c2}
    near = near
    far = far
    Shops = {near, far}
    Distance <- Distances
    Cost <- Costs
    Threshold = 3
    Quantities = {0, 1}
    MaxDishes = 1
SPECIFICATION Spec
INVARIANTS
    NoBookingLost
