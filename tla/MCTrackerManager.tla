-------------------------- MODULE MCTrackerManager --------------------------
(* Small instances of TrackerManager for TLC. *)
EXTENDS TrackerManager

\* Four spokes: 3 -> 0 is a revolution, half of it is not.
FourSpokes == [r \in Radars |-> 4]
EitherSideOfNorth == [r \in Radars |-> {0, 3}]
=============================================================================
