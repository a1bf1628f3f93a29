----------------------------- MODULE MCDelivery -----------------------------
(* Instances of Delivery for TLC.                                          *)
EXTENDS Delivery, TLC

CONSTANTS near, far

\* Distances 1 and 2 against a threshold of 3 stand for 3, 5, 8 against 30.
Distances == near :> 1 @@ far :> 2
Costs == near :> 1 @@ far :> 1

=============================================================================
