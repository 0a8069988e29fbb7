----------------------------- MODULE MCProtocol -----------------------------
(* Instances of Protocol for TLC: a circle of 8 positions, elevations 2..6 *)
(* around 4, two positions per tick at full speed.                         *)
EXTENDS Protocol

MCMaxSpeed == [a \in Axis |-> 6]
MCSyncedOnInit == [a \in Axis |-> FALSE]

(* Targets: one reachable, one only after it is normalised or clamped.     *)
MCAzimuthPositions == {-3, 3}
MCElevationPositions == {5, 9}
(* Speeds: either way within the maximum, and INT_MIN, which nothing cuts. *)
MCSpeeds == {-1, 2, -64}
=============================================================================
