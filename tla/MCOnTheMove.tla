----------------------------- MODULE MCOnTheMove -----------------------------
(* OnTheMove for TLC: two people look at the robot, or one is there and    *)
(* does not; robotNotLost runs without the programs of the neck, as it is  *)
(* in another application, and the robot moves and stops as it likes.      *)
EXTENDS OnTheMove

Person(who, looking, depth) == [who |-> who, looking |-> looking, depth |-> depth]
Passers == {<<Person("ann", TRUE, 10), Person("bob", TRUE, 11)>>, <<Person("ann", FALSE, 10)>>}
Applications == {{"robotNotLost"}, {"headObstaclesScanner", "eyeContactManager"}}
==============================================================================
