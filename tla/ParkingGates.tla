---------------------------- MODULE ParkingGates ----------------------------
(***************************************************************************)
(* What server.c and client.py promise together: the lot of ParkingLot     *)
(* with its gates.  Every car goes through the same four steps, one after  *)
(* the other: a slot is reserved for it, the entry gate opens, its slot is *)
(* vacated, the exit gate opens.  So the entry opens only to a car that    *)
(* has a slot, the exit only to one that has left its own, and a car has   *)
(* one slot at most.                                                       *)
(***************************************************************************)
EXTENDS ParkingLot

VARIABLE inside     \* the cars between an entry and an exit

HasSlot(c) == \E i \in 0 .. NumElec + NumFuel - 1 : lot[i] = c

GatesInit == Init /\ inside = {}

Reserve(c, i) ==
    /\ c \notin inside /\ ~HasSlot(c)
    /\ Park(c, i)
    /\ UNCHANGED inside

LetIn(c) ==
    /\ c \notin inside /\ HasSlot(c)
    /\ inside' = inside \cup {c}
    /\ UNCHANGED lot

Vacate(i) ==
    /\ lot[i] \in inside
    /\ Leave(i)
    /\ UNCHANGED inside

LetOut(c) ==
    /\ c \in inside /\ ~HasSlot(c)
    /\ inside' = inside \ {c}
    /\ UNCHANGED lot

GatesNext ==
    \/ \E i \in 0 .. NumElec + NumFuel - 1 :
          Vacate(i) \/ \E c \in ElecPlates \cup FuelPlates : Reserve(c, i)
    \/ \E c \in ElecPlates \cup FuelPlates : LetIn(c) \/ LetOut(c)

GatesSpec == GatesInit /\ [][GatesNext]_<<lot, inside>>

=============================================================================
