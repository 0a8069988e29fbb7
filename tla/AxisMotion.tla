----------------------------- MODULE AxisMotion -----------------------------
(***************************************************************************)
(* How far an axis goes in one tick of the engine (engine.cpp).  Shared by *)
(* Engine, where a tick is many accesses to atomics, and by Protocol.      *)
(***************************************************************************)
EXTENDS MsoUnits

CONSTANTS
  MAX_SPEED,          (* [Axis -> int], MAX_*_SPEED_PER_SECOND             *)
  TICKS_PER_SECOND    (* 1000 / CONFIG::ENGINE::TICK_MS                    *)

Axis == {"azimuth", "elevation"}
Bound == {"min", "max"}

ASSUME AxisAssumption ==
  /\ MAX_SPEED \in [Axis -> 0 .. IntHalf - 1]
  /\ \A a \in Axis : Mso_EpsToVel(MAX_SPEED[a]) < IntHalf
  /\ TICKS_PER_SECOND \in Nat \ {0}

MaxStep(a) == MAX_SPEED[a] \div TICKS_PER_SECOND
MaxVel(a)  == Mso_EpsToVel(MAX_SPEED[a])

(* Mutant: the other way round only from a whole turn on.                  *)
NextPosition_LongWay(a, c, t) ==
  LET dir == Sign(t - c)
  IN [dir |-> dir,
      pos |-> IF dir > 0 THEN Lesser(c + MaxStep(a), t)
                         ELSE Greater(c - MaxStep(a), t)]

(* The direction and the next position from c to t: an azimuth more than   *)
(* half a turn away is reached the other way round, by unrolling t or c.   *)
NextPosition(a, c, t) ==
  LET far == a = "azimuth" /\ Abs(t - c) > MAX_AZIMUTH \div 2
      dir == IF far THEN -Sign(t - c) ELSE Sign(t - c)
      to   == IF far /\ dir > 0 THEN t + MAX_AZIMUTH ELSE t
      from == IF far /\ dir < 0 THEN c + MAX_AZIMUTH ELSE c
  IN [dir |-> dir,
      pos |-> IF dir > 0 THEN Lesser(from + MaxStep(a), to)
                         ELSE Greater(from - MaxStep(a), to)]

(* MoveAxisBySpeed: what one tick at speed vel adds to the position.       *)
SpeedStep(vel) == AwayDiv(Mso_VelToEps(vel), TICKS_PER_SECOND)
=============================================================================
