------------------------------ MODULE MCEngine ------------------------------
(* Instances of Engine for TLC: a circle of 8 positions, elevations 2..6   *)
(* around 4, two engine units per vel, three ticks per second, an int of   *)
(* seven bits.                                                             *)
EXTENDS Engine

MCMaxSpeed == [a \in Axis |-> 6]           \* 2 positions per tick, 3 vel

Only(a, commands) == [b \in Axis |-> IF b = a THEN commands ELSE {}]

(* Azimuth: an order across zero, one exactly half a turn away from it,    *)
(* one above a full turn; speeds of both signs, one that the clamp cuts,   *)
(* one whose product with the maximum overflows the int, and INT_MIN, at   *)
(* which the azimuth goes 22 positions back in a tick.                     *)
MCAzimuthPositions == Only("azimuth", {-3, 0, 12})
MCAzimuthSpeeds == Only("azimuth", {-1, 0, 4, 30, -64})

(* Elevation: a target below and one inside the travel, speeds that reach  *)
(* both ends; the cfg's limits 4 and 6 are taken, 7 is beyond the travel.  *)
MCElevationPositions == Only("elevation", {-9, 5})
MCElevationSpeeds == Only("elevation", {-1, 0, 4, -64})
=============================================================================
