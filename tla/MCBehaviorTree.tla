--------------------------- MODULE MCBehaviorTree ---------------------------
(* BehaviorTree for TLC: PoIs at places of their own; the wheels in the    *)
(* same mode, or one of them idle.                                         *)
EXTENDS BehaviorTree

Apart == [p \in PoIs |-> p]
Wheels(l, r, joints) == [left |-> l, right |-> r, leftArm |-> joints, rightArm |-> {}]
MotorReadings ==
  [w \in Watchdogs |-> {Wheels("velocity", "velocity", {}), Wheels("idle", "velocity", {})}]
==============================================================================
