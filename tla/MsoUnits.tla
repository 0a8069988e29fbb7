------------------------------ MODULE MsoUnits ------------------------------
(***************************************************************************)
(* Units and conversions of the emulator (utils.cpp, config.cpp): azimuth  *)
(* positions are taken modulo one turn, elevation positions are clamped to *)
(* the travel limits, speeds are exchanged in "vel" and used in engine     *)
(* units per second ("eps").  Pure operators; C++ int arithmetic keeps its *)
(* width where it can overflow.                                            *)
(***************************************************************************)
EXTENDS Integers

CONSTANTS
  MAX_AZIMUTH,      (* engine units of one full turn (62832 in the code)   *)
  ZERO_ELEVATION,   (* elevation that means "horizontal"                   *)
  VEL_NUM, VEL_DEN, (* VEL_TO_EPS_COEFFICIENT as a fraction (16/1000)      *)
  IntHalf           (* 2^(w-1) for an int of w bits                        *)

ASSUME UnitsAssumption ==
  /\ MAX_AZIMUTH \in Nat \ {0}
  /\ ZERO_ELEVATION \in Int
  /\ VEL_NUM \in Nat \ {0}
  /\ VEL_DEN \in Nat \ {0}
  /\ IntHalf \in Nat \ {0}

Abs(x)  == IF x < 0 THEN -x ELSE x
Sign(x) == IF x > 0 THEN 1 ELSE IF x < 0 THEN -1 ELSE 0
Lesser(x, y)  == IF x < y THEN x ELSE y
Greater(x, y) == IF x > y THEN x ELSE y

(* C++ integer division and static_cast<int>(double): toward zero.  b > 0. *)
TruncDiv(a, b) == IF a >= 0 THEN a \div b ELSE -((-a) \div b)
(* ceil of a positive and floor of a negative quotient: away from zero.    *)
AwayDiv(a, b) == IF a >= 0 THEN (a + b - 1) \div b ELSE -((-a + b - 1) \div b)

(* A product kept in an int: what the two's complement build computes.     *)
WrapInt(x) == ((x + IntHalf) % (2 * IntHalf)) - IntHalf
INT_MIN == -IntHalf
(* The only int whose abs() is not its size but, wrapping, INT_MIN again.  *)
IntAbs(x) == IF x = INT_MIN THEN x ELSE Abs(x)
(* static_cast<int> of a whole double: what does not fit gives INT_MIN.    *)
CastInt(x) == IF x \in INT_MIN .. IntHalf - 1 THEN x ELSE INT_MIN

(* Elevation can never be ordered outside these (config.cpp).              *)
HARD_LIMIT_MIN_ELEVATION == ZERO_ELEVATION - (MAX_AZIMUTH \div 4)
HARD_LIMIT_MAX_ELEVATION == ZERO_ELEVATION + (MAX_AZIMUTH \div 4)

Mso_Azimuth(val) == val % MAX_AZIMUTH

(* The two tests are made one after the other, as in the code.             *)
Mso_Elevation(val, lo, hi) == Lesser(Greater(val, lo), hi)

(* A commanded vel in engine units may not fit an int; a maximum, the only *)
(* speed that is converted the other way, does (AxisAssumption).           *)
Mso_VelToEps(val) == CastInt(TruncDiv(val * VEL_DEN, VEL_NUM))
Mso_EpsToVel(val) == TruncDiv(val * VEL_NUM, VEL_DEN)

(* Mutant: the maximum is left in engine units.                            *)
ClampSpeed_WrongUnit(val, maxEps) ==
  IF IntAbs(val) > maxEps THEN maxEps * Sign(val) ELSE val

(* Engine::SetAxisSpeed's clamp of a commanded speed to an axis' maximum   *)
(* maxEps: max * val is computed in int before the division by |val|.      *)
(* INT_MIN passes as it is: its abs() is below every maximum.              *)
ClampSpeed(val, maxEps) ==
  LET maxVel == Mso_EpsToVel(maxEps) IN
  IF IntAbs(val) > maxVel
  THEN TruncDiv(WrapInt(maxVel * val), IntAbs(val))
  ELSE val

(* Not code: the length of the shorter arc between two azimuths.           *)
ArcDistance(a, b) ==
  LET d == Abs(a - b) IN Lesser(d, MAX_AZIMUTH - d)
=============================================================================
