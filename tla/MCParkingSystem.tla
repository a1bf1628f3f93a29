--------------------------- MODULE MCParkingSystem ---------------------------
(* Instances of ParkingSystem for TLC.                                     *)
EXTENDS ParkingSystem, TLC

\* Children are interchangeable, and so are the plates of one kind.
Symmetry == Permutations(Procs) \cup Permutations(ElecPlates)

=============================================================================
