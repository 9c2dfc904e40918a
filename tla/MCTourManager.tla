---------------------------- MODULE MCTourManager ----------------------------
(* TourManager for TLC: the second and the third PoI share a location.     *)
EXTENDS TourManager

TwoStops == [p \in PoIs |-> p]
ThreeStops == [p \in PoIs |-> IF p = 1 THEN 1 ELSE 2]
==============================================================================
