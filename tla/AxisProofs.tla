----------------------------- MODULE AxisProofs -----------------------------
(***************************************************************************)
(* Facts about the units and the steps of an axis, for every value of the  *)
(* constants.                                                              *)
(***************************************************************************)
EXTENDS AxisMotion, TLAPS

-----------------------------------------------------------------------------
(* Arithmetic of the units.                                                *)

LEMMA TruncDivInt ==
  ASSUME NEW a \in Int, NEW b \in Nat \ {0}
  PROVE  TruncDiv(a, b) \in Int
BY DEF TruncDiv

LEMMA AwayDivInt ==
  ASSUME NEW a \in Int, NEW b \in Nat \ {0}
  PROVE  AwayDiv(a, b) \in Int
BY DEF AwayDiv

LEMMA MsoAzimuthInTurn ==
  ASSUME NEW v \in Int
  PROVE  Mso_Azimuth(v) \in 0 .. MAX_AZIMUTH - 1
BY UnitsAssumption DEF Mso_Azimuth

LEMMA VelConversionsInt ==
  ASSUME NEW v \in Int
  PROVE  Mso_VelToEps(v) \in Int /\ Mso_EpsToVel(v) \in Int
<1>1. v * VEL_DEN \in Int /\ v * VEL_NUM \in Int
  BY UnitsAssumption
<1>2. TruncDiv(v * VEL_DEN, VEL_NUM) \in Int /\ Mso_EpsToVel(v) \in Int
  BY <1>1, TruncDivInt, UnitsAssumption DEF Mso_EpsToVel
<1> QED BY <1>2, UnitsAssumption DEF Mso_VelToEps, CastInt, INT_MIN

LEMMA SpeedStepInt ==
  ASSUME NEW v \in Int
  PROVE  SpeedStep(v) \in Int
BY VelConversionsInt, AwayDivInt, AxisAssumption DEF SpeedStep

LEMMA MaxStepNat ==
  ASSUME NEW a \in Axis
  PROVE  MaxStep(a) \in Nat
BY AxisAssumption DEF MaxStep

LEMMA NextPositionInt ==
  ASSUME NEW a \in Axis, NEW c \in Int, NEW t \in Int
  PROVE  /\ NextPosition(a, c, t).dir \in {-1, 0, 1}
         /\ NextPosition(a, c, t).pos \in Int
<1> DEFINE far == a = "azimuth" /\ Abs(t - c) > MAX_AZIMUTH \div 2
           dir == IF far THEN -Sign(t - c) ELSE Sign(t - c)
           to   == IF far /\ dir > 0 THEN t + MAX_AZIMUTH ELSE t
           from == IF far /\ dir < 0 THEN c + MAX_AZIMUTH ELSE c
           pos  == IF dir > 0 THEN Lesser(from + MaxStep(a), to)
                              ELSE Greater(from - MaxStep(a), to)
<1>1. NextPosition(a, c, t) = [dir |-> dir, pos |-> pos]
  BY DEF NextPosition
<1>2. dir \in {-1, 0, 1}
  <2> HIDE DEF far
  <2>1. PICK s \in {-1, 0, 1} : s = Sign(t - c)
    BY DEF Sign
  <2>2. dir = s \/ dir = -s
    BY <2>1
  <2> QED BY <2>2
<1>3. to \in Int /\ from \in Int
  <2> HIDE DEF far, dir
  <2> QED BY UnitsAssumption
<1>4. pos \in Int
  <2> HIDE DEF far, dir, to, from
  <2> QED BY <1>2, <1>3, MaxStepNat DEF Lesser, Greater
<1> HIDE DEF far, dir, to, from, pos
<1> QED BY <1>1, <1>2, <1>4

-----------------------------------------------------------------------------
(* The product of the clamp may wrap, but wrapping never makes a number    *)
(* larger in size, so the quotient stays within the maximum.               *)

LEMMA WrapShrinks ==
  ASSUME NEW x \in Int
  PROVE  WrapInt(x) \in Int /\ Abs(WrapInt(x)) <= Abs(x)
<1>1. PICK h \in Nat \ {0} : h = IntHalf
  BY UnitsAssumption
<1>2. (x + h) % (2 * h) \in 0 .. 2 * h - 1
  BY <1>1
<1>3. CASE x + h >= 0 /\ x + h < 2 * h
  <2>1. (x + h) % (2 * h) = x + h
    BY <1>1, <1>3
  <2> QED BY <2>1, <1>1 DEF WrapInt, Abs
<1>4. CASE ~(x + h >= 0 /\ x + h < 2 * h)
  BY <1>1, <1>2, <1>4 DEF WrapInt, Abs
<1> QED BY <1>3, <1>4

LEMMA DivBound ==
  ASSUME NEW y \in Nat, NEW b \in Nat \ {0}, NEW m \in Nat, y <= m * b
  PROVE  y \div b \in Nat /\ y \div b <= m
OBVIOUS

LEMMA TruncDivBound ==
  ASSUME NEW x \in Int, NEW b \in Nat \ {0}, NEW m \in Nat, Abs(x) <= m * b
  PROVE  TruncDiv(x, b) \in Int /\ Abs(TruncDiv(x, b)) <= m
<1>1. CASE x >= 0
  <2>1. x \div b \in Nat /\ x \div b <= m
    BY <1>1, DivBound DEF Abs
  <2> QED BY <2>1, <1>1 DEF TruncDiv, Abs
<1>2. CASE x < 0
  <2>1. -x \in Nat /\ -x <= m * b
    BY <1>2 DEF Abs
  <2>2. (-x) \div b \in Nat /\ (-x) \div b <= m
    BY <2>1, DivBound
  <2> QED BY <2>2, <1>2 DEF TruncDiv, Abs
<1> QED BY <1>1, <1>2

LEMMA EpsToVelNat ==
  ASSUME NEW m \in Nat
  PROVE  Mso_EpsToVel(m) \in Nat
BY UnitsAssumption DEF Mso_EpsToVel, TruncDiv

LEMMA EpsToVelDirection ==
  ASSUME NEW m \in Nat, NEW d \in {-1, 0, 1}
  PROVE  /\ Mso_EpsToVel(m * d) \in Int
         /\ Abs(Mso_EpsToVel(m * d)) <= Mso_EpsToVel(m)
<1> DEFINE v == Mso_EpsToVel(m)
<1>1. v \in Nat
  BY EpsToVelNat
<1>2. Mso_EpsToVel(0) = 0
  BY UnitsAssumption DEF Mso_EpsToVel, TruncDiv
<1>3. Mso_EpsToVel(-m) = -v
  <2>1. m * VEL_NUM \in Nat /\ (-m) * VEL_NUM = -(m * VEL_NUM)
    BY UnitsAssumption
  <2>2. ASSUME NEW x \in Nat PROVE TruncDiv(-x, VEL_DEN) = -TruncDiv(x, VEL_DEN)
    BY UnitsAssumption DEF TruncDiv
  <2> QED BY <2>1, <2>2 DEF Mso_EpsToVel
<1>4. m * d = m \/ m * d = 0 \/ m * d = -m
  OBVIOUS
<1> HIDE DEF v
<1>5. /\ Abs(v) = v /\ Abs(-v) = v /\ Abs(0) <= v
      /\ -v \in Int
  BY <1>1 DEF Abs
<1>6. CASE m * d = m
  BY <1>6, <1>5, <1>1 DEF v
<1>7. CASE m * d = 0
  BY <1>7, <1>5, <1>2, <1>1 DEF v
<1>8. CASE m * d = -m
  BY <1>8, <1>5, <1>3, <1>1 DEF v
<1> QED BY <1>4, <1>6, <1>7, <1>8

LEMMA ClampSpeedBound ==
  ASSUME NEW val \in INT_MIN + 1 .. IntHalf - 1, NEW m \in Nat
  PROVE  /\ ClampSpeed(val, m) \in Int
         /\ Abs(ClampSpeed(val, m)) <= Mso_EpsToVel(m)
<1> DEFINE v == Mso_EpsToVel(m)
<1>1. v \in Nat
  BY EpsToVelNat
<1>2. /\ val \in Int /\ Abs(val) \in Nat
      /\ IntAbs(val) = Abs(val)
  BY UnitsAssumption DEF Abs, IntAbs, INT_MIN
<1>3. ClampSpeed(val, m) = IF Abs(val) > v
                           THEN TruncDiv(WrapInt(v * val), Abs(val)) ELSE val
  BY <1>2 DEF ClampSpeed
<1> HIDE DEF v
<1>4. CASE Abs(val) > v
  <2>1. Abs(val) \in Nat \ {0}
    BY <1>4, <1>2, <1>1
  <2>2. v * val \in Int /\ Abs(v * val) = v * Abs(val)
    <3>1. CASE val >= 0
      <4>1. v * val >= 0
        BY <1>1, <1>2, <3>1
      <4> QED BY <4>1, <3>1, <1>1, <1>2 DEF Abs
    <3>2. CASE val < 0
      <4>1. v * val <= 0 /\ v * (-val) = -(v * val)
        BY <1>1, <1>2, <3>2
      <4> QED BY <4>1, <3>2, <1>1, <1>2 DEF Abs
    <3> QED BY <3>1, <3>2, <1>2
  <2>3. WrapInt(v * val) \in Int /\ Abs(WrapInt(v * val)) <= v * Abs(val)
    BY <2>2, WrapShrinks
  <2>4. /\ TruncDiv(WrapInt(v * val), Abs(val)) \in Int
        /\ Abs(TruncDiv(WrapInt(v * val), Abs(val))) <= v
    BY <2>1, <2>3, <1>1, TruncDivBound
  <2> QED BY <2>4, <1>3, <1>4 DEF v
<1>5. CASE ~(Abs(val) > v)
  BY <1>5, <1>1, <1>2, <1>3 DEF v
<1> QED BY <1>4, <1>5

(* The one order that the clamp does not cut.                              *)
LEMMA ClampKeepsIntMin ==
  ASSUME NEW m \in Nat
  PROVE  ClampSpeed(INT_MIN, m) = INT_MIN
<1>1. Mso_EpsToVel(m) \in Nat
  BY EpsToVelNat
<1>2. IntAbs(INT_MIN) = INT_MIN /\ ~(INT_MIN > Mso_EpsToVel(m))
  BY <1>1, UnitsAssumption DEF IntAbs, INT_MIN
<1> QED BY <1>2 DEF ClampSpeed

LEMMA ClampSpeedInt ==
  ASSUME NEW val \in INT_MIN .. IntHalf - 1, NEW m \in Nat
  PROVE  /\ ClampSpeed(val, m) \in Int
         /\ \/ Abs(ClampSpeed(val, m)) <= Mso_EpsToVel(m)
            \/ ClampSpeed(val, m) = INT_MIN /\ val = INT_MIN
<1>1. INT_MIN \in Int
  BY UnitsAssumption DEF INT_MIN
<1>2. CASE val = INT_MIN
  BY <1>1, <1>2, ClampKeepsIntMin
<1>3. CASE val # INT_MIN
  <2>1. val \in INT_MIN + 1 .. IntHalf - 1
    BY <1>1, <1>3, UnitsAssumption
  <2> QED BY <2>1, ClampSpeedBound
<1> QED BY <1>2, <1>3

LEMMA MaxVelNat == ASSUME NEW a \in Axis PROVE MaxVel(a) \in Nat
BY EpsToVelNat, AxisAssumption DEF MaxVel

-----------------------------------------------------------------------------
(* How far and which way one tick goes.                                    *)

LEMMA WholeTurn ==
  ASSUME NEW x \in -MAX_AZIMUTH .. MAX_AZIMUTH - 1
  PROVE  Mso_Azimuth(x + MAX_AZIMUTH) = Mso_Azimuth(x)
<1>1. PICK m \in Nat \ {0} : m = MAX_AZIMUTH
  BY UnitsAssumption
<1>2. CASE x < 0
  <2>1. x % m = x + m /\ (x + m) % m = x + m
    BY <1>1, <1>2
  <2> QED BY <1>1, <2>1 DEF Mso_Azimuth
<1>3. CASE x >= 0
  <2>1. x % m = x
    BY <1>1, <1>3
  <2>2. x + m \in m .. 2 * m - 1
    BY <1>1, <1>3
  <2>3. (x + m) % m = (x + m) - m
    BY <2>2
  <2> QED BY <1>1, <2>1, <2>3 DEF Mso_Azimuth
<1> QED BY <1>1, <1>2, <1>3

LEMMA EpsToVelSign ==
  ASSUME NEW m \in Nat, NEW d \in {-1, 0, 1}, Mso_EpsToVel(m) > 0
  PROVE  Sign(Mso_EpsToVel(m * d)) = d
<1> DEFINE v == Mso_EpsToVel(m)
<1>1. v \in Nat
  BY EpsToVelNat
<1>2. Mso_EpsToVel(0) = 0
  BY UnitsAssumption DEF Mso_EpsToVel, TruncDiv
<1>3. Mso_EpsToVel(-m) = -v
  <2>1. m * VEL_NUM \in Nat /\ (-m) * VEL_NUM = -(m * VEL_NUM)
    BY UnitsAssumption
  <2>2. ASSUME NEW x \in Nat PROVE TruncDiv(-x, VEL_DEN) = -TruncDiv(x, VEL_DEN)
    BY UnitsAssumption DEF TruncDiv
  <2> QED BY <2>1, <2>2 DEF Mso_EpsToVel
<1>4. v > 0
  OBVIOUS
<1> HIDE DEF v
<1>5. Sign(v) = 1 /\ Sign(-v) = -1 /\ Sign(0) = 0
  BY <1>1, <1>4 DEF Sign
<1>6. CASE d = 1
  <2>1. m * d = m
    BY <1>6
  <2> QED BY <2>1, <1>5, <1>6 DEF v
<1>7. CASE d = 0
  <2>1. m * d = 0
    BY <1>7
  <2> QED BY <2>1, <1>2, <1>5, <1>7
<1>8. CASE d = -1
  <2>1. m * d = -m
    BY <1>8
  <2> QED BY <2>1, <1>3, <1>5, <1>8
<1> QED BY <1>6, <1>7, <1>8

(* A speed within the maximum goes at most one rounded tick its own way.   *)
LEMMA SpeedStepBound ==
  ASSUME NEW a \in Axis, NEW v \in Int, Abs(v) <= MaxVel(a)
  PROVE  \E k \in 0 .. MaxStep(a) + 1 : SpeedStep(v) = k * Sign(v)
<1>1. PICK m \in Nat : m = MAX_SPEED[a] /\ m < IntHalf
  BY AxisAssumption, UnitsAssumption
<1>2. PICK t \in Nat \ {0} : t = TICKS_PER_SECOND
  BY AxisAssumption
<1>3. PICK n \in Nat \ {0} : n = VEL_NUM
  BY UnitsAssumption
<1>4. PICK e \in Nat \ {0} : e = VEL_DEN
  BY UnitsAssumption
<1>5. MaxVel(a) = (m * n) \div e
  BY <1>1, <1>3, <1>4 DEF MaxVel, Mso_EpsToVel, TruncDiv
<1>6. ASSUME NEW w \in Nat, w <= (m * n) \div e
      PROVE  /\ (w * e) \div n \in 0 .. m
             /\ ((w * e) \div n + t - 1) \div t \in 0 .. m \div t + 1
  <2>1. m * n \in Nat
    OBVIOUS
  <2>2. ASSUME NEW x \in Nat, w <= x \div e PROVE w * e <= x
    BY <2>2
  <2>3. w * e <= m * n /\ w * e \in Nat
    BY <1>6, <2>1, <2>2
  <2>4. (w * e) \div n \in 0 .. m
    BY <2>3, DivBound
  <2>5. PICK y \in 0 .. m : y = (w * e) \div n
    BY <2>4
  <2>6. (y + t - 1) \div t \in 0 .. m \div t + 1
    OBVIOUS
  <2> QED BY <2>4, <2>5, <2>6
<1>7. MaxStep(a) = m \div t
  BY <1>1, <1>2 DEF MaxStep
<1>10. ASSUME NEW x \in 0 .. m PROVE CastInt(x) = x /\ CastInt(-x) = -x
  BY <1>1, <1>10, UnitsAssumption DEF CastInt, INT_MIN
<1>8. CASE v >= 0
  <2>1. v * e >= 0
    BY <1>8
  <2>2. SpeedStep(v) = ((v * e) \div n + t - 1) \div t
    <3>3. v \in Nat /\ v <= (m * n) \div e
      BY <1>5, <1>8 DEF Abs
    <3>2. (v * e) \div n \in 0 .. m
      BY <1>6, <3>3
    <3>1. Mso_VelToEps(v) = (v * e) \div n
      BY <1>3, <1>4, <1>10, <2>1, <3>2 DEF Mso_VelToEps, TruncDiv
    <3> QED BY <1>2, <3>1, <3>2 DEF SpeedStep, AwayDiv
  <2>3. PICK k \in 0 .. m \div t + 1 : k = ((v * e) \div n + t - 1) \div t
    <3>1. v \in Nat /\ v <= (m * n) \div e
      BY <1>5, <1>8 DEF Abs
    <3> QED BY <1>6, <3>1
  <2>4. CASE v > 0
    BY <1>7, <2>2, <2>3, <2>4 DEF Sign
  <2>5. CASE v = 0
    <3>1. v * e = 0 /\ (v * e) \div n = 0
      BY <2>5
    <3>2. SpeedStep(v) = 0
      BY <2>2, <3>1
    <3>3. 0 \in 0 .. MaxStep(a) + 1 /\ Sign(v) = 0
      BY <2>5, MaxStepNat DEF Sign
    <3> QED BY <3>2, <3>3
  <2> QED BY <1>8, <2>4, <2>5
<1>9. CASE v < 0
  <2>1. PICK w \in Nat : w = -v /\ w > 0
    BY <1>9
  <2>2. v * e = -(w * e) /\ w * e > 0 /\ w * e \in Nat
    BY <2>1
  <2>3. PICK x \in 0 .. m : x = (w * e) \div n
    BY <1>5, <1>6, <1>9, <2>1 DEF Abs
  <2>4. SpeedStep(v) = -((x + t - 1) \div t)
    <3>1. Mso_VelToEps(v) = -x
      BY <1>3, <1>4, <1>10, <2>2, <2>3 DEF Mso_VelToEps, TruncDiv
    <3>2. CASE x = 0
      <4>1. (x + t - 1) \div t = 0 /\ AwayDiv(0, t) = 0
        BY <3>2 DEF AwayDiv
      <4> QED BY <1>2, <3>1, <3>2, <4>1 DEF SpeedStep
    <3>3. CASE x > 0
      BY <1>2, <3>1, <3>3 DEF SpeedStep, AwayDiv
    <3> QED BY <3>2, <3>3
  <2>5. PICK k \in 0 .. m \div t + 1 : k = (x + t - 1) \div t
    BY <1>5, <1>6, <1>9, <2>1, <2>3 DEF Abs
  <2> QED BY <1>7, <1>9, <2>4, <2>5 DEF Sign
<1> QED BY <1>8, <1>9

(* A step towards a target goes at most one tick, and where it says.       *)
LEMMA NextPositionBound ==
  ASSUME NEW a \in Axis, NEW c \in Int, NEW t \in Int, c # t,
         a = "azimuth" => /\ c \in 0 .. MAX_AZIMUTH - 1
                          /\ t \in 0 .. MAX_AZIMUTH - 1
  PROVE  LET next == NextPosition(a, c, t)
         IN \E k \in 0 .. MaxStep(a) + 1 :
              \/ next.pos = c + k * next.dir
              \/ a = "azimuth"
                 /\ Mso_Azimuth(next.pos) = Mso_Azimuth(c + k * next.dir)
<1>1. PICK m \in Nat \ {0} : m = MAX_AZIMUTH
  BY UnitsAssumption
<1>2. PICK s \in Nat : s = MaxStep(a)
  BY MaxStepNat
<1>3. PICK h \in Nat : h = m \div 2
  BY <1>1
<1> DEFINE next == NextPosition(a, c, t)
<1>4. CASE c < t /\ ~(a = "azimuth" /\ t - c > h)
  <2>1. next.dir = 1 /\ next.pos = Lesser(c + s, t)
    BY <1>1, <1>2, <1>3, <1>4 DEF NextPosition, Sign, Abs
  <2>2. PICK k \in 0 .. s + 1 : Lesser(c + s, t) = c + k
    <3>1. Lesser(c + s, t) - c \in 0 .. s + 1
      BY <1>4 DEF Lesser
    <3> QED BY <3>1 DEF Lesser
  <2> QED BY <1>2, <2>1, <2>2
<1>5. CASE t < c /\ ~(a = "azimuth" /\ c - t > h)
  <2>1. next.dir = -1 /\ next.pos = Greater(c - s, t)
    BY <1>1, <1>2, <1>3, <1>5 DEF NextPosition, Sign, Abs
  <2>2. PICK k \in 0 .. s + 1 : Greater(c - s, t) = c - k
    <3>1. c - Greater(c - s, t) \in 0 .. s + 1
      BY <1>5 DEF Greater
    <3> QED BY <3>1 DEF Greater
  <2> QED BY <1>2, <2>1, <2>2
<1>6. CASE c < t /\ a = "azimuth" /\ t - c > h
  <2>1. next.dir = -1 /\ next.pos = Greater(c + m - s, t)
    BY <1>1, <1>2, <1>3, <1>6 DEF NextPosition, Sign, Abs
  <2>2. PICK k \in 0 .. s + 1 : Greater(c + m - s, t) = c - k + m
    <3>1. c + m - Greater(c + m - s, t) \in 0 .. s + 1
      BY <1>1, <1>6 DEF Greater
    <3> QED BY <3>1 DEF Greater
  <2>3. c - k \in -m .. m - 1
    <3>1. Greater(c + m - s, t) >= 0
      BY <1>1, <1>6 DEF Greater
    <3> QED BY <1>1, <1>6, <2>2, <3>1
  <2>4. Mso_Azimuth(c - k + m) = Mso_Azimuth(c - k)
    BY <1>1, <2>3, WholeTurn
  <2> QED BY <1>2, <1>6, <2>1, <2>2, <2>4
<1>7. CASE t < c /\ a = "azimuth" /\ c - t > h
  <2>1. Sign(t - c) = -1 /\ Abs(t - c) > MAX_AZIMUTH \div 2
    BY <1>1, <1>3, <1>7 DEF Sign, Abs
  <2>3. next.dir = 1 /\ next.pos = Lesser(c + s, t + m)
    BY <1>1, <1>2, <1>7, <2>1 DEF NextPosition
  <2>2. PICK k \in 0 .. s + 1 : Lesser(c + s, t + m) = c + k
    <3>1. Lesser(c + s, t + m) - c \in 0 .. s + 1
      BY <1>1, <1>7 DEF Lesser
    <3> QED BY <3>1 DEF Lesser
  <2> QED BY <1>2, <2>2, <2>3
<1> QED BY <1>4, <1>5, <1>6, <1>7

(* A step of the elevation towards a target stays between the two and      *)
(* takes off a whole step or what is left (engine.cpp:143-169).            *)
LEMMA ElevationShrinks ==
  ASSUME NEW c \in Int, NEW t \in Int, c # t
  PROVE  LET p == NextPosition("elevation", c, t).pos
         IN /\ Abs(t - p) = Greater(0, Abs(t - c) - MaxStep("elevation"))
            /\ (c <= p /\ p <= t) \/ (t <= p /\ p <= c)
<1>1. PICK s \in Nat : s = MaxStep("elevation")
  BY MaxStepNat DEF Axis
<1> DEFINE next == NextPosition("elevation", c, t)
<1>2. CASE c < t
  <2>1. next.pos = Lesser(c + s, t)
    BY <1>1, <1>2 DEF NextPosition, Sign
  <2> QED BY <1>1, <1>2, <2>1 DEF Lesser, Greater, Abs
<1>3. CASE t < c
  <2>1. next.pos = Greater(c - s, t)
    BY <1>1, <1>3 DEF NextPosition, Sign
  <2> QED BY <1>1, <1>3, <2>1 DEF Greater, Abs
<1> QED BY <1>2, <1>3

(* Where a vel is at least an engine unit per second, rounding away from   *)
(* zero lets no speed order starve (engine.cpp:182-190).                   *)
LEMMA SpeedStepMoves ==
  ASSUME VEL_NUM <= VEL_DEN, NEW v \in Int, v # 0
  PROVE  SpeedStep(v) # 0
<1>1. PICK t \in Nat \ {0} : t = TICKS_PER_SECOND
  BY AxisAssumption
<1>2. PICK n \in Nat \ {0} : n = VEL_NUM
  BY UnitsAssumption
<1>3. PICK e \in Nat \ {0} : e = VEL_DEN
  BY UnitsAssumption
<1>4. ASSUME NEW w \in Nat \ {0}
      PROVE  /\ (w * e) \div n \in Nat \ {0}
             /\ ((w * e) \div n + t - 1) \div t \in Nat \ {0}
  <2>1. w * e \in Nat /\ w * e >= n
    <3>1. w * e >= e
      OBVIOUS
    <3> QED BY <1>2, <1>3, <3>1
  <2>2. PICK x \in Nat : x = w * e /\ x >= n
    BY <2>1
  <2>3. x \div n \in Nat \ {0}
    BY <2>2
  <2>4. PICK y \in Nat \ {0} : y = x \div n
    BY <2>3
  <2>5. (y + t - 1) \div t \in Nat \ {0}
    OBVIOUS
  <2> QED BY <2>2, <2>3, <2>4, <2>5
<1>7. PICK h \in Nat \ {0} : h = IntHalf
  BY UnitsAssumption
<1>8. ASSUME Mso_VelToEps(v) = INT_MIN
      PROVE  SpeedStep(v) # 0
  <2>1. PICK z \in Nat \ {0} : z = (h + t - 1) \div t
    OBVIOUS
  <2>2. SpeedStep(v) = -z
    BY <1>1, <1>7, <1>8, <2>1 DEF SpeedStep, AwayDiv, INT_MIN
  <2> QED BY <2>2
<1>5. CASE v > 0 /\ Mso_VelToEps(v) # INT_MIN
  <2>1. PICK y \in Nat \ {0} : y = (v * e) \div n
    BY <1>4, <1>5
  <2>2. v * e >= 0
    BY <1>5
  <2>3. Mso_VelToEps(v) = y
    BY <1>2, <1>3, <1>5, <2>1, <2>2 DEF Mso_VelToEps, CastInt, TruncDiv
  <2>4. (y + t - 1) \div t \in Nat \ {0}
    BY <1>4, <1>5, <2>1
  <2> QED BY <1>1, <2>3, <2>4 DEF SpeedStep, AwayDiv
<1>6. CASE v < 0 /\ Mso_VelToEps(v) # INT_MIN
  <2>1. PICK w \in Nat \ {0} : w = -v
    BY <1>6
  <2>2. PICK y \in Nat \ {0} : y = (w * e) \div n
    BY <1>4
  <2>3. v * e = -(w * e) /\ w * e > 0
    BY <2>1
  <2>4. Mso_VelToEps(v) = -y
    BY <1>2, <1>3, <1>6, <2>2, <2>3 DEF Mso_VelToEps, CastInt, TruncDiv
  <2>5. PICK z \in Nat \ {0} : z = (y + t - 1) \div t
    BY <1>4, <2>2
  <2>6. SpeedStep(v) = -z
    BY <1>1, <2>4, <2>5 DEF SpeedStep, AwayDiv
  <2> QED BY <2>6
<1> QED BY <1>5, <1>6, <1>8

(* Less than a turn away is somewhere else.                                *)
LEMMA TurnApart ==
  ASSUME NEW c \in 0 .. MAX_AZIMUTH - 1, NEW k \in 1 .. MAX_AZIMUTH - 1,
         NEW d \in {-1, 1}
  PROVE  Mso_Azimuth(c + k * d) # c
<1>1. PICK m \in Nat \ {0} : m = MAX_AZIMUTH
  BY UnitsAssumption
<1>2. CASE d = 1
  <2>1. (c + k) % m = IF c + k < m THEN c + k ELSE c + k - m
    <3>1. CASE c + k < m
      BY <1>1, <3>1
    <3>2. CASE c + k >= m
      <4>1. PICK x \in 0 .. m - 1 : x = c + k - m
        BY <1>1, <3>2
      <4>2. x % m = x /\ (x + m) % m = x % m
        BY <4>1
      <4> QED BY <3>2, <4>1, <4>2
    <3> QED BY <1>1, <3>1, <3>2
  <2> QED BY <1>1, <1>2, <2>1 DEF Mso_Azimuth
<1>3. CASE d = -1
  <2>1. (c - k) % m = IF c - k >= 0 THEN c - k ELSE c - k + m
    BY <1>1
  <2> QED BY <1>1, <1>3, <2>1 DEF Mso_Azimuth
<1> QED BY <1>2, <1>3

-----------------------------------------------------------------------------
(* The clamp of an ordered speed (engine.cpp:252-255): as long as the      *)
(* product of the maximum and the order fits an int, the order is cut to   *)
(* the maximum and keeps its direction.                                    *)
THEOREM ClampIsExact ==
  ASSUME NEW val \in INT_MIN + 1 .. IntHalf - 1, NEW m \in Nat,
         Mso_EpsToVel(m) * Abs(val) < IntHalf
  PROVE  ClampSpeed(val, m) = Sign(val) * Lesser(Abs(val), Mso_EpsToVel(m))
<1> DEFINE v == Mso_EpsToVel(m)
<1>1. v \in Nat
  BY EpsToVelNat
<1>2. PICK h \in Nat \ {0} : h = IntHalf
  BY UnitsAssumption
<1>3. /\ val \in Int /\ Abs(val) \in Nat
      /\ IntAbs(val) = Abs(val)
  BY UnitsAssumption DEF Abs, IntAbs, INT_MIN
<1>4. ClampSpeed(val, m) = IF Abs(val) > v
                           THEN TruncDiv(WrapInt(v * val), Abs(val)) ELSE val
  BY <1>3 DEF ClampSpeed
<1>5. v * Abs(val) < h
  BY <1>2
<1> HIDE DEF v
<1>6. ASSUME NEW x \in Int, -h <= x, x < h
      PROVE  WrapInt(x) = x
  <2>1. (x + h) % (2 * h) = x + h
    BY <1>6
  <2> QED BY <1>2, <2>1 DEF WrapInt
<1>7. CASE Abs(val) > v /\ val > 0
  <2>1. val \in Nat \ {0} /\ Abs(val) = val
    BY <1>3, <1>7 DEF Abs
  <2>2. v * val < h
    BY <1>5, <2>1
  <2>3. v * val \in Nat
    BY <1>1, <2>1
  <2>4. WrapInt(v * val) = v * val
    BY <1>2, <1>6, <2>2, <2>3
  <2>5. (v * val) \div val = v
    BY <1>1, <2>1
  <2>6. ClampSpeed(val, m) = v
    BY <1>4, <1>7, <2>1, <2>3, <2>4, <2>5 DEF TruncDiv
  <2> QED BY <1>1, <1>7, <2>1, <2>6 DEF v, Sign, Lesser
<1>8. CASE Abs(val) > v /\ val < 0
  <2>1. PICK w \in Nat \ {0} : val = -w /\ w = Abs(val)
    BY <1>3, <1>8 DEF Abs
  <2>2. v * w \in Nat /\ v * w < h /\ v * val = -(v * w)
    BY <1>1, <1>5, <2>1
  <2>3. WrapInt(v * val) = -(v * w)
    BY <1>6, <2>2
  <2>4. (v * w) \div w = v /\ 0 \div w = 0
    BY <1>1, <2>1
  <2>5. TruncDiv(-(v * w), w) = -v
    <3>1. CASE v * w = 0
      <4>1. v = 0
        BY <2>4, <3>1
      <4> QED BY <2>4, <3>1, <4>1 DEF TruncDiv
    <3>2. CASE v * w > 0
      BY <2>2, <2>4, <3>2 DEF TruncDiv
    <3> QED BY <2>2, <3>1, <3>2
  <2>6. ClampSpeed(val, m) = -v
    BY <1>4, <1>8, <2>1, <2>3, <2>5
  <2> QED BY <1>1, <1>8, <2>1, <2>6 DEF v, Sign, Lesser
<1>9. CASE ~(Abs(val) > v)
  BY <1>1, <1>3, <1>4, <1>9 DEF v, Abs, Sign, Lesser
<1>10. Abs(val) > v => val > 0 \/ val < 0
  BY <1>1, <1>3 DEF Abs
<1> QED BY <1>7, <1>8, <1>9, <1>10
=============================================================================
