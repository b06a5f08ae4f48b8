------------------------------- MODULE Circle -------------------------------
(* The spokes of a revolution. *)
EXTENDS Integers

CONSTANT SpokesPerRevolution

ASSUME CircleAssumption == SpokesPerRevolution \in Nat \ {0}

Spokes == 0 .. SpokesPerRevolution - 1
=============================================================================
