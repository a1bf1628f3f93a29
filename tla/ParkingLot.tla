----------------------------- MODULE ParkingLot -----------------------------
(***************************************************************************)
(* What FinalProject/server.c promises about the lot, without processes:   *)
(* a car is put into a free slot of the row for its kind, one car at a     *)
(* time, and stays there until its slot is cleared.  No car is driven onto *)
(* another, moved, or taken out together with another.                     *)
(***************************************************************************)
EXTENDS Integers

CONSTANTS ElecPlates, FuelPlates, NoPlate, NumElec, NumFuel

VARIABLE lot        \* the plate in each slot

RowFor(c) == IF c \in ElecPlates THEN 0 .. NumElec - 1
                                 ELSE NumElec .. NumElec + NumFuel - 1

Init == lot = [i \in 0 .. NumElec + NumFuel - 1 |-> NoPlate]

Park(c, i) ==
    /\ lot[i] = NoPlate
    /\ i \in RowFor(c)
    /\ lot' = [lot EXCEPT ![i] = c]

Leave(i) ==
    /\ lot[i] # NoPlate
    /\ lot' = [lot EXCEPT ![i] = NoPlate]

Next == \E i \in 0 .. NumElec + NumFuel - 1 :
            Leave(i) \/ \E c \in ElecPlates \cup FuelPlates : Park(c, i)

Spec == Init /\ [][Next]_lot

=============================================================================
