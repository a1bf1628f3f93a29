------------------------- MODULE MCParkingLifecycle -------------------------
(* Instances of ParkingLifecycle for TLC.                                  *)
EXTENDS ParkingLifecycle, TLC

\* Children are interchangeable.
ChildrenSymmetry == Permutations(Children)

=============================================================================
