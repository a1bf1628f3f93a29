--------------------------- MODULE MCParkingServer ---------------------------
(* Instances of ParkingServer for TLC.                                     *)
EXTENDS ParkingServer, TLC

\* Children are interchangeable, and so are the plates of one kind.
Symmetry == Permutations(Procs) \cup Permutations(FuelPlates)

=============================================================================
