--------------------------- MODULE ProtocolProofs ---------------------------
(***************************************************************************)
(* Theorems about Protocol for every value of its constants.               *)
(***************************************************************************)
EXTENDS Protocol, AxisProofs

-----------------------------------------------------------------------------
(* Type correctness.  The bound on passes needs to know that an engine in  *)
(* the middle of a pass began it below the bound.                          *)

SkewInv ==
  eaxis = "elevation" \/ update # NoUpdate => skew < PassesPerTick
TypeInv == TypeOK /\ SkewInv

LEMMA ValidatorInt ==
  ASSUME limit \in [Bound -> Int], NEW a \in Axis, NEW v \in Int
  PROVE  PositionValueValidator(a, v) \in Int
<1>1. Mso_Azimuth(v) \in Int
  BY MsoAzimuthInTurn, UnitsAssumption
<1>2. Mso_Elevation(v, limit["min"], limit["max"]) \in Int
  BY DEF Mso_Elevation, Lesser, Greater, Bound
<1> QED BY <1>1, <1>2 DEF PositionValueValidator

LEMMA InitType == Init => TypeInv
<1> SUFFICES ASSUME Init PROVE TypeInv
  OBVIOUS
<1>1. \A a \in Axis : Zero(a) \in Int
  BY UnitsAssumption DEF Zero
<1>2. /\ HARD_LIMIT_MIN_ELEVATION \in Int
      /\ HARD_LIMIT_MAX_ELEVATION \in Int
  BY UnitsAssumption DEF HARD_LIMIT_MIN_ELEVATION, HARD_LIMIT_MAX_ELEVATION
<1>3. skew \in -TicksPerPass .. PassesPerTick /\ SkewInv
  BY ProtocolAssumption DEF Init, SkewInv, NoUpdate
<1>4. /\ zero_speed_counter \in 0 .. ZERO_SPEED_LIMIT - 1
      /\ commands \in 0 .. MaxCommands
  BY ProtocolAssumption DEF Init, ZERO_SPEED_LIMIT
<1>5. EngineTypeOK
  BY <1>1, <1>2, <1>3 DEF Init, EngineTypeOK, NoUpdate, Axis, Bound
<1>6. ControllerTypeOK
  <2>1. sampled \in [Axis -> Int] /\ positioning_target \in [Axis -> Int]
    BY <1>1 DEF Init
  <2>2. /\ synced \in [Axis -> BOOLEAN] /\ syncing \in [Axis -> BOOLEAN]
        /\ positioning \in [Axis -> BOOLEAN]
    BY ProtocolAssumption DEF Init
  <2>3. fast \in BOOLEAN /\ return_to_zero \in BOOLEAN
    BY ProtocolAssumption DEF Init
  <2>4. /\ sent \subseteq Axis \X {"syn ok", "err 2", "end"}
        /\ touched \subseteq Bound /\ disturbed \in BOOLEAN
    BY DEF Init
  <2>5. previous_position \in Int /\ got \in Int /\ direction \in {-1, 1}
    BY DEF Init
  <2>6. pc = "sleep"
    BY DEF Init
  <2> QED BY <1>4, <2>1, <2>2, <2>3, <2>4, <2>5, <2>6 DEF ControllerTypeOK
<1> QED BY <1>3, <1>5, <1>6 DEF TypeInv, TypeOK

(* The values a pass is planned with are integers.                         *)
LEMMA PositionUpdateType ==
  ASSUME EngineTypeOK, NEW a \in Axis
  PROVE  PositionUpdate(a) \in [kind : {"arrive", "move"},
                                pos : Int, vel : Int]
<1> DEFINE c == current_position[a]
           t == target_position[a]
           next == NextPosition(a, c, t)
<1>1. c \in Int /\ t \in Int /\ current_speed[a] \in Int
  BY DEF EngineTypeOK
<1>2. limit \in [Bound -> Int]
  BY DEF EngineTypeOK
<1> HIDE DEF c, t
<1>3. next.pos \in Int /\ next.dir \in {-1, 0, 1}
  BY <1>1, NextPositionInt
<1> HIDE DEF next
<1>4. PositionValueValidator(a, next.pos) \in Int
  BY <1>2, <1>3, ValidatorInt
<1>5. MAX_SPEED[a] * next.dir \in Int
  BY <1>3, AxisAssumption
<1>6. Mso_EpsToVel(MAX_SPEED[a] * next.dir) \in Int
  BY <1>5, VelConversionsInt
<1>7. PositionUpdate(a) =
        IF c = t
        THEN [kind |-> "arrive", pos |-> c, vel |-> current_speed[a]]
        ELSE [kind |-> "move", pos |-> PositionValueValidator(a, next.pos),
              vel |-> Mso_EpsToVel(MAX_SPEED[a] * next.dir)]
  BY DEF PositionUpdate, next, c, t
<1> QED BY <1>1, <1>4, <1>6, <1>7

LEMMA SpeedUpdateType ==
  ASSUME EngineTypeOK, NEW a \in Axis
  PROVE  SpeedUpdate(a) \in [kind : Bound \cup {"move"}, pos : Int, vel : Int]
<1> DEFINE v == target_speed[a]
           next == current_position[a] + SpeedStep(v)
           pos == PositionValueValidator(a, next)
<1>1. v \in Int /\ current_position[a] \in Int
  BY DEF EngineTypeOK
<1>2. limit \in [Bound -> Int]
  BY DEF EngineTypeOK
<1> HIDE DEF v
<1>3. SpeedStep(v) \in Int
  BY <1>1, SpeedStepInt
<1>4. next \in Int
  BY <1>1, <1>3
<1> HIDE DEF next
<1>5. pos \in Int
  BY <1>2, <1>4, ValidatorInt
<1> HIDE DEF pos
<1>6. SpeedUpdate(a) =
        IF a = "elevation" /\ next # pos
        THEN [kind |-> IF next < limit["min"] THEN "min" ELSE "max",
              pos |-> pos, vel |-> 0]
        ELSE [kind |-> "move", pos |-> pos, vel |-> v]
  BY DEF SpeedUpdate, next, pos, v
<1> QED BY <1>1, <1>5, <1>6 DEF Bound

LEMMA EngineType == TypeInv /\ EngineNext => TypeInv'
<1> SUFFICES ASSUME TypeInv, EngineNext PROVE TypeInv'
  OBVIOUS
<1>0. EngineTypeOK /\ ControllerTypeOK /\ SkewInv
  BY DEF TypeInv, TypeOK
<1>1. CASE PlanUpdate
  <2>1. ControllerTypeOK'
    BY <1>0, <1>1
       DEF PlanUpdate, ControllerTypeOK, flagVars, searchVars, historyVars
  <2>2. update' \in [kind : Bound \cup {"none", "rest", "arrive", "move"},
                     pos : Int, vel : Int]
    <3> DEFINE rest == [kind |-> "rest", pos |-> current_position[eaxis],
                        vel |-> 0]
    <3>1. /\ PositionUpdate(eaxis) \in [kind : {"arrive", "move"},
                                        pos : Int, vel : Int]
          /\ SpeedUpdate(eaxis) \in [kind : Bound \cup {"move"},
                                     pos : Int, vel : Int]
      BY <1>0, PositionUpdateType, SpeedUpdateType DEF EngineTypeOK
    <3>2. rest \in [kind : {"rest"}, pos : Int, vel : Int]
      BY <1>0 DEF EngineTypeOK
    <3>3. \/ update' = PositionUpdate(eaxis)
          \/ update' = SpeedUpdate(eaxis)
          \/ update' = rest
      BY <1>1 DEF PlanUpdate
    <3> HIDE DEF rest
    <3> QED BY <3>1, <3>2, <3>3
  <2>3. EngineTypeOK'
    BY <1>0, <1>1, <2>2 DEF PlanUpdate, EngineTypeOK
  <2>4. SkewInv'
    BY <1>0, <1>1 DEF PlanUpdate, SkewInv, EngineTypeOK, Axis
  <2> QED BY <2>1, <2>3, <2>4 DEF TypeInv, TypeOK
<1>2. CASE StoreUpdate
  <2>1. /\ skew' \in -TicksPerPass .. PassesPerTick
        /\ SkewInv'
    BY <1>0, <1>2, ProtocolAssumption
       DEF StoreUpdate, Greater, Axis, EngineTypeOK, SkewInv
  <2>2. disturbed' \in BOOLEAN
    BY <1>0, <1>2 DEF StoreUpdate, TakesBackTurn, ControllerTypeOK
  <2>3. ControllerTypeOK'
    BY <1>0, <1>2, <2>2
       DEF StoreUpdate, ControllerTypeOK, flagVars, searchVars
  <2>4. /\ current_position' \in [Axis -> Int]
        /\ current_speed' \in [Axis -> Int]
    BY <1>0, <1>2 DEF StoreUpdate, EngineTypeOK
  <2>5. order' \in [Axis -> {"none", "position", "speed"}]
    BY <1>0, <1>2 DEF StoreUpdate, EngineTypeOK
  <2>6. eaxis' \in Axis
    BY <1>2 DEF StoreUpdate, Axis
  <2>7. EngineTypeOK'
    BY <1>0, <1>2, <2>1, <2>4, <2>5, <2>6
       DEF StoreUpdate, EngineTypeOK, NoUpdate
  <2> QED BY <2>1, <2>3, <2>7 DEF TypeInv, TypeOK
<1> QED BY <1>1, <1>2 DEF EngineNext

LEMMA SetPositionType ==
  ASSUME EngineTypeOK, NEW a \in Axis, NEW v \in Int, SetPosition(a, v),
         limit' = limit, skew' \in -TicksPerPass .. PassesPerTick
  PROVE  EngineTypeOK'
<1>1. PositionValueValidator(a, v) \in Int
  BY ValidatorInt DEF EngineTypeOK
<1>2. /\ target_position' \in [Axis -> Int]
      /\ order' \in [Axis -> {"none", "position", "speed"}]
  BY <1>1 DEF SetPosition, EngineTypeOK
<1> QED BY <1>2 DEF SetPosition, EngineTypeOK

LEMMA SetSpeedType ==
  ASSUME EngineTypeOK, NEW a \in Axis, NEW v,
         ClampSpeed(v, MAX_SPEED[a]) \in Int, SetSpeed(a, v),
         limit' = limit, skew' \in -TicksPerPass .. PassesPerTick
  PROVE  EngineTypeOK'
<1>1. /\ target_speed' \in [Axis -> Int]
      /\ order' \in [Axis -> {"none", "position", "speed"}]
  BY DEF SetSpeed, EngineTypeOK
<1> QED BY <1>1 DEF SetSpeed, EngineTypeOK

(* The clamp leaves the order of a search as it is.                        *)
LEMMA SearchSpeedKept ==
  ASSUME NEW a \in Axis, NEW d \in {-1, 1}
  PROVE  /\ MaxVel(a) * d \in Int
         /\ ClampSpeed(MaxVel(a) * d, MAX_SPEED[a]) = MaxVel(a) * d
<1> DEFINE v == MaxVel(a)
<1>1. v \in Nat
  BY MaxVelNat
<1>2. ClampSpeed(v * d, MAX_SPEED[a]) =
        IF IntAbs(v * d) > v
        THEN TruncDiv(WrapInt(v * (v * d)), IntAbs(v * d)) ELSE v * d
  BY DEF ClampSpeed, MaxVel
<1> HIDE DEF v
<1>3. v * d = v \/ v * d = -v
  BY <1>1
<1>4. IntAbs(v * d) <= v
  BY <1>1, <1>3, UnitsAssumption DEF IntAbs, Abs
<1>5. v * d \in Int /\ IntAbs(v * d) \in Int
  BY <1>1, <1>3, UnitsAssumption DEF IntAbs, Abs
<1>6. ~(IntAbs(v * d) > v)
  BY <1>1, <1>4, <1>5
<1> QED BY <1>2, <1>5, <1>6 DEF v

LEMMA SkewKept ==
  ASSUME SkewInv, UNCHANGED <<eaxis, update, skew>>
  PROVE  SkewInv'
BY DEF SkewInv

LEMMA SetKeepsSkew ==
  ASSUME SkewInv, skew' = skew, NEW a, NEW v,
         SetPosition(a, v) \/ SetSpeed(a, v)
  PROVE  SkewInv'
BY DEF SkewInv, SetPosition, SetSpeed

LEMMA AnswerType ==
  ASSUME NEW a \in Axis, NEW m \in {"syn ok", "err 2", "end"}
  PROVE  <<a, m>> \in Axis \X {"syn ok", "err 2", "end"}
OBVIOUS

LEMMA ProtocolType == TypeInv /\ ProtocolNext => TypeInv'
<1> SUFFICES ASSUME TypeInv, ProtocolNext PROVE TypeInv'
  OBVIOUS
<1>0. EngineTypeOK /\ ControllerTypeOK /\ SkewInv
  BY DEF TypeInv, TypeOK
<1> USE DEF flagVars, searchVars, historyVars, SyncFrame
<1>1. CASE Sample
  <2>1. EngineTypeOK' /\ SkewInv'
    <3>1. skew' \in -TicksPerPass .. PassesPerTick /\ skew' < PassesPerTick
      BY <1>0, <1>1, ProtocolAssumption DEF Sample, Lesser, EngineTypeOK
    <3> QED BY <1>0, <1>1, <3>1 DEF Sample, EngineTypeOK, SkewInv, engineVars
  <2>2. ControllerTypeOK'
    BY <1>0, <1>1 DEF Sample, EngineTypeOK, ControllerTypeOK
  <2> QED BY <2>1, <2>2 DEF TypeInv, TypeOK
<1>2. CASE NoCommand
  BY <1>0, <1>2
     DEF NoCommand, Stage, EngineTypeOK, ControllerTypeOK, SkewInv,
         engineVars, TypeInv, TypeOK
<1>3. CASE FinishTick
  <2>1. Arrived \subseteq Axis
    BY DEF Arrived
  <2>2. /\ sent' \subseteq Axis \X {"syn ok", "err 2", "end"}
        /\ positioning' \in [Axis -> BOOLEAN]
    <3>1. sent' = {<<a, "end">> : a \in Arrived}
      BY <1>3 DEF FinishTick
    <3>2. sent' \subseteq Axis \X {"syn ok", "err 2", "end"}
      <4>1. \A a \in Arrived : <<a, "end">> \in Axis \X {"syn ok", "err 2", "end"}
        BY <2>1, AnswerType
      <4> QED BY <3>1, <4>1
    <3>3. positioning' = [a \in Axis |-> positioning[a] /\ a \notin Arrived]
      BY <1>3 DEF FinishTick
    <3>4. \A a \in Axis : (positioning[a] /\ a \notin Arrived) \in BOOLEAN
      OBVIOUS
    <3> QED BY <3>2, <3>3, <3>4
  <2>3. ControllerTypeOK'
    BY <1>0, <1>3, <2>2 DEF FinishTick, ControllerTypeOK
  <2>4. EngineTypeOK' /\ SkewInv'
    BY <1>0, <1>3 DEF FinishTick, EngineTypeOK, SkewInv, engineVars
  <2> QED BY <2>3, <2>4 DEF TypeInv, TypeOK
<1>4. CASE Command
  <2>0. ASSUME Executing PROVE commands' \in 0 .. MaxCommands
    <3>1. commands \in 0 .. MaxCommands
      BY <1>0 DEF ControllerTypeOK
    <3>2. commands' = commands + 1 /\ commands < MaxCommands
      BY <2>0 DEF Executing
    <3> QED BY <3>1, <3>2, ProtocolAssumption
  <2>1. ASSUME NEW a \in Axis, Cmd_syn(a) PROVE TypeInv'
    <3>1. syncing' \in [Axis -> BOOLEAN] /\ touched' \subseteq Bound
      BY <1>0, <2>1 DEF Cmd_syn, ControllerTypeOK
    <3>2. ControllerTypeOK'
      BY <1>0, <2>0, <2>1, <3>1
         DEF Cmd_syn, Executing, Stage, ControllerTypeOK
    <3>3. EngineTypeOK' /\ SkewInv'
      BY <1>0, <2>1 DEF Cmd_syn, EngineTypeOK, SkewInv, engineVars
    <3> QED BY <3>2, <3>3 DEF TypeInv, TypeOK
  <2>2. ASSUME NEW a \in Axis, Refuse(a) PROVE TypeInv'
    <3>1. sent' \subseteq Axis \X {"syn ok", "err 2", "end"}
      BY <2>2, AnswerType DEF Refuse
    <3>2. ControllerTypeOK'
      BY <1>0, <2>2, <3>1 DEF Refuse, Stage, ControllerTypeOK
    <3>3. EngineTypeOK' /\ SkewInv'
      BY <1>0, <2>2 DEF Refuse, EngineTypeOK, SkewInv, engineVars
    <3> QED BY <3>2, <3>3 DEF TypeInv, TypeOK
  <2>3. ASSUME NEW a \in Axis, NEW v \in Positions, Cmd_pos(a, v)
        PROVE  TypeInv'
    <3>1. v \in Int
      BY ProtocolAssumption
    <3>2. EngineTypeOK' /\ SkewInv'
      <4>1. SetPosition(a, v) /\ skew' = skew /\ limit' = limit
        BY <2>3 DEF Cmd_pos
      <4>2. skew' \in -TicksPerPass .. PassesPerTick
        BY <1>0, <4>1 DEF EngineTypeOK
      <4> QED BY <1>0, <3>1, <4>1, <4>2, SetPositionType, SetKeepsSkew
    <3>3. /\ positioning' \in [Axis -> BOOLEAN]
          /\ positioning_target' \in [Axis -> Int]
      BY <1>0, <2>3, <3>1 DEF Cmd_pos, ControllerTypeOK
    <3>4. ControllerTypeOK'
      BY <1>0, <2>0, <2>3, <3>3
         DEF Cmd_pos, Executing, Stage, ControllerTypeOK
    <3> QED BY <3>2, <3>4 DEF TypeInv, TypeOK
  <2>4. ASSUME NEW a \in Axis, NEW v \in Speeds, Cmd_vel(a, v)
        PROVE  TypeInv'
    <3>1. ClampSpeed(v, MAX_SPEED[a]) \in Int
      BY ProtocolAssumption, AxisAssumption, ClampSpeedInt
    <3>2. EngineTypeOK' /\ SkewInv'
      <4>1. SetSpeed(a, v) /\ skew' = skew /\ limit' = limit
        BY <2>4 DEF Cmd_vel
      <4>2. skew' \in -TicksPerPass .. PassesPerTick
        BY <1>0, <4>1 DEF EngineTypeOK
      <4> QED BY <1>0, <3>1, <4>1, <4>2, SetSpeedType, SetKeepsSkew
    <3>3. positioning' \in [Axis -> BOOLEAN]
      BY <1>0, <2>4 DEF Cmd_vel, ControllerTypeOK
    <3>4. ControllerTypeOK'
      BY <1>0, <2>0, <2>4, <3>3
         DEF Cmd_vel, Executing, Stage, ControllerTypeOK
    <3> QED BY <3>2, <3>4 DEF TypeInv, TypeOK
  <2>5. ASSUME NEW b \in Bound, NEW v \in Limits, Cmd_limit(b, v)
        PROVE  TypeInv'
    <3>1. limit' \in [Bound -> Int]
      BY <1>0, <2>5, ProtocolAssumption DEF Cmd_limit, EngineTypeOK
    <3>2. EngineTypeOK' /\ SkewInv'
      BY <1>0, <2>5, <3>1 DEF Cmd_limit, EngineTypeOK, SkewInv, engineVars
    <3>3. ControllerTypeOK'
      BY <1>0, <2>0, <2>5
         DEF Cmd_limit, Executing, Stage, ControllerTypeOK
    <3> QED BY <3>2, <3>3 DEF TypeInv, TypeOK
  <2>6. CASE Cmd_reset
    <3>1. EngineTypeOK' /\ SkewInv'
      BY <1>0, <2>6, ProtocolAssumption
         DEF Cmd_reset, EngineTypeOK, SkewInv, Axis
    <3>2. /\ synced' \in [Axis -> BOOLEAN] /\ syncing' \in [Axis -> BOOLEAN]
          /\ positioning' \in [Axis -> BOOLEAN] /\ disturbed' \in BOOLEAN
      BY <1>0, <2>6, ProtocolAssumption DEF Cmd_reset, ControllerTypeOK
    <3>3. ControllerTypeOK'
      BY <1>0, <2>0, <2>6, <3>2
         DEF Cmd_reset, Executing, Stage, ControllerTypeOK
    <3> QED BY <3>1, <3>3 DEF TypeInv, TypeOK
  <2> QED BY <1>4, <2>1, <2>2, <2>3, <2>4, <2>5, <2>6, ProtocolAssumption
       DEF Command
<1>5. CASE Synchronize
  <2>0. skew' = skew /\ limit' = limit
    BY <1>5
       DEF Synchronize, AzimuthDone, AzimuthBegin, AzimuthTest, ElevationDone,
           ElevationBegin, ElevationAtZero, ElevationSearch
  <2>1. skew' \in -TicksPerPass .. PassesPerTick
    BY <1>0, <2>0 DEF EngineTypeOK
  <2>2. ASSUME NEW a \in Axis, NEW v \in Int, SetPosition(a, v)
        PROVE  EngineTypeOK' /\ SkewInv'
    BY <1>0, <2>0, <2>1, <2>2, SetPositionType, SetKeepsSkew
  <2>3. ASSUME NEW a \in Axis, NEW d \in {-1, 1}, SetSpeed(a, MaxVel(a) * d)
        PROVE  EngineTypeOK' /\ SkewInv'
    <3>1. ClampSpeed(MaxVel(a) * d, MAX_SPEED[a]) \in Int
      BY SearchSpeedKept
    <3> QED BY <1>0, <2>0, <2>1, <2>3, <3>1, SetSpeedType, SetKeepsSkew
  <2>4. ASSUME UNCHANGED engineVars
        PROVE  EngineTypeOK' /\ SkewInv'
    BY <1>0, <2>0, <2>4 DEF EngineTypeOK, SkewInv, engineVars
  <2>5. 0 \in Int /\ ZERO_ELEVATION \in Int
    BY UnitsAssumption
  <2>6. EngineTypeOK' /\ SkewInv'
    <3>1. CASE AzimuthDone \/ ElevationDone \/ ElevationAtZero \/ ElevationSearch
      BY <2>4, <3>1 DEF AzimuthDone, ElevationDone, ElevationAtZero,
                        ElevationSearch, Synchronized
    <3>2. CASE AzimuthBegin
      BY <2>2, <2>4, <2>5, <3>2 DEF AzimuthBegin, Axis
    <3>3. CASE AzimuthTest
      <4>1. MaxVel("azimuth") * 1 = MaxVel("azimuth")
        BY MaxVelNat DEF Axis
      <4>2. \/ SetPosition("azimuth", 0)
            \/ SetSpeed("azimuth", MaxVel("azimuth") * 1)
            \/ UNCHANGED engineVars
        BY <3>3, <4>1 DEF AzimuthTest
      <4>3. "azimuth" \in Axis /\ 1 \in {-1, 1}
        BY DEF Axis
      <4> QED BY <2>2, <2>3, <2>4, <2>5, <4>2, <4>3
    <3>4. CASE ElevationBegin
      <4>1. "elevation" \in Axis /\ direction \in {-1, 1}
        BY <1>0 DEF Axis, ControllerTypeOK
      <4>2. \/ SetPosition("elevation", ZERO_ELEVATION)
            \/ SetSpeed("elevation", MaxVel("elevation") * direction)
        BY <3>4 DEF ElevationBegin
      <4> QED BY <2>2, <2>3, <2>5, <4>1, <4>2
    <3> QED BY <1>5, <3>1, <3>2, <3>3, <3>4 DEF Synchronize
  <2>7. ControllerTypeOK'
    <3> USE DEF ControllerTypeOK, AfterAzimuth, Becomes, Synchronized
    <3>1. CASE AzimuthDone
      <4>1. /\ sent' \subseteq Axis \X {"syn ok", "err 2", "end"}
            /\ syncing' \in [Axis -> BOOLEAN]
        BY <1>0, <3>1, AnswerType DEF AzimuthDone, Axis
      <4>2. previous_position' \in Int
        <5>1. previous_position' = 0
          BY <3>1 DEF AzimuthDone
        <5> QED BY <5>1
      <4>3. pc' \in {"elevation_sync", "ends"}
        BY <3>1 DEF AzimuthDone
      <4>4. UNCHANGED <<synced, got, searchVars>> /\ SyncFrame
        BY <3>1 DEF AzimuthDone
      <4> QED BY <1>0, <4>1, <4>2, <4>3, <4>4
    <3>2. CASE AzimuthBegin
      <4>1. got' \in Int
        BY <1>0, <3>2 DEF AzimuthBegin, EngineTypeOK, Axis
      <4> QED BY <1>0, <3>2, <4>1 DEF AzimuthBegin
    <3>3. CASE AzimuthTest
      <4>1. previous_position' \in Int
        BY <1>0, <3>3 DEF AzimuthTest
      <4>2. synced' \in [Axis -> BOOLEAN]
        BY <1>0, <3>3 DEF AzimuthTest
      <4>3. got' \in Int
        BY <3>3 DEF AzimuthTest
      <4>4. pc' \in {"elevation_sync", "ends"}
        BY <3>3 DEF AzimuthTest
      <4>5. UNCHANGED <<syncing, searchVars, sent>> /\ SyncFrame
        BY <3>3 DEF AzimuthTest
      <4> QED BY <1>0, <4>1, <4>2, <4>3, <4>4, <4>5
    <3>4. CASE ElevationDone
      <4>1. /\ sent' \subseteq Axis \X {"syn ok", "err 2", "end"}
            /\ syncing' \in [Axis -> BOOLEAN]
        BY <1>0, <3>4, AnswerType DEF ElevationDone, Axis
      <4>2. zero_speed_counter' \in 0 .. ZERO_SPEED_LIMIT - 1
        <5>1. zero_speed_counter' = 0
          BY <3>4 DEF ElevationDone
        <5> QED BY <5>1 DEF ZERO_SPEED_LIMIT
      <4> QED BY <1>0, <3>4, <4>1, <4>2 DEF ElevationDone
    <3>5. CASE ElevationBegin
      BY <1>0, <3>5 DEF ElevationBegin
    <3>6. CASE ElevationAtZero
      BY <1>0, <3>6 DEF ElevationAtZero
    <3>7. CASE ElevationSearch
      <4>1. zero_speed_counter' \in 0 .. ZERO_SPEED_LIMIT - 1
        <5>1. zero_speed_counter \in 0 .. 2
          <6>1. zero_speed_counter \in 0 .. ZERO_SPEED_LIMIT - 1
            BY <1>0
          <6> QED BY <6>1 DEF ZERO_SPEED_LIMIT
        <5>2. \/ zero_speed_counter' = 0
              \/ /\ zero_speed_counter' = zero_speed_counter + 1
                 /\ ~(zero_speed_counter + 1 >= 3)
          BY <3>7, <5>1 DEF ElevationSearch, ZERO_SPEED_LIMIT
        <5> QED BY <5>1, <5>2 DEF ZERO_SPEED_LIMIT
      <4>2. direction' \in {-1, 1} /\ return_to_zero' \in BOOLEAN
        BY <1>0, <3>7 DEF ElevationSearch
      <4> QED BY <1>0, <3>7, <4>1, <4>2 DEF ElevationSearch
    <3> QED BY <1>5, <3>1, <3>2, <3>3, <3>4, <3>5, <3>6, <3>7 DEF Synchronize
  <2> QED BY <2>6, <2>7 DEF TypeInv, TypeOK
<1> QED BY <1>1, <1>2, <1>3, <1>4, <1>5 DEF ProtocolNext

LEMMA StutterType == TypeInv /\ UNCHANGED vars => TypeInv'
<1> SUFFICES ASSUME TypeInv, UNCHANGED vars PROVE TypeInv'
  OBVIOUS
<1>1. EngineTypeOK' /\ SkewInv'
  BY DEF TypeInv, TypeOK, EngineTypeOK, SkewInv, vars, engineVars
<1>2. ControllerTypeOK'
  BY DEF TypeInv, TypeOK, ControllerTypeOK, vars, flagVars, searchVars,
         historyVars
<1> QED BY <1>1, <1>2 DEF TypeInv, TypeOK

LEMMA TypeInvariant == Spec => []TypeInv
<1>1. TypeInv /\ [Next]_vars => TypeInv'
  BY EngineType, ProtocolType, StutterType DEF Next
<1> QED BY <1>1, InitType, PTL DEF Spec

(* Every variable keeps its type, the count of zero readings stays below   *)
(* its limit (protocol_mso2.cpp:491-541).                                  *)
THEOREM TypeCorrect == Spec => []TypeOK
<1>1. TypeInv => TypeOK
  BY DEF TypeInv
<1> QED BY <1>1, TypeInvariant, PTL

-----------------------------------------------------------------------------
(* Orders and synchronization.  The inductive invariant adds where the     *)
(* tick is: a synchronization is tested only while it is going on, and one *)
(* that is on its way back to zero has an order to go there.               *)

StageInv ==
  /\ pc = "azimuth_sync" => syncing["azimuth"]
  /\ pc = "azimuth_test" => syncing["azimuth"] /\ ~synced["azimuth"]
  /\ pc = "elevation_sync" => syncing["elevation"]
  /\ pc = "elevation_test" => syncing["elevation"] /\ ~synced["elevation"]

HeadsFor(a, val) ==
  \/ order[a] = "none"
  \/ order[a] = "position" /\ target_position[a] = val

ReturnInv ==
  /\ limit["min"] <= ZERO_ELEVATION /\ ZERO_ELEVATION <= limit["max"]
  /\ pc = "azimuth_test" /\ fast => HeadsFor("azimuth", 0)
  /\ pc = "elevation_test" /\ (fast \/ return_to_zero) =>
       HeadsFor("elevation", ZERO_ELEVATION)

OrderInv ==
  TypeInv /\ StageInv /\ ReturnInv /\ UnsyncedStaysPut /\ OpenOrderOwnsAxis

LEMMA InitOrder == Init => OrderInv
<1> SUFFICES ASSUME Init PROVE OrderInv
  OBVIOUS
<1>1. TypeInv
  BY InitType
<1>2. StageInv
  BY DEF Init, StageInv
<1>3. ReturnInv
  BY UnitsAssumption
     DEF Init, ReturnInv, HARD_LIMIT_MIN_ELEVATION, HARD_LIMIT_MAX_ELEVATION,
         Bound
<1>4. UnsyncedStaysPut
  BY DEF Init, UnsyncedStaysPut, NoUpdate
<1>5. OpenOrderOwnsAxis
  BY DEF Init, OpenOrderOwnsAxis
<1> QED BY <1>1, <1>2, <1>3, <1>4, <1>5 DEF OrderInv

(* Where the tick is.                                                      *)
LEMMA StageStep ==
  ASSUME TypeInv, StageInv, [Next]_vars
  PROVE  StageInv'
<1>0. /\ synced \in [Axis -> BOOLEAN]
      /\ syncing \in [Axis -> BOOLEAN]
      /\ "azimuth" \in Axis /\ "elevation" \in Axis
  BY DEF TypeInv, TypeOK, ControllerTypeOK, Axis
<1> USE DEF StageInv, flagVars
<1>1. CASE EngineNext
  BY <1>1 DEF EngineNext, PlanUpdate, StoreUpdate
<1>2. CASE UNCHANGED vars
  BY <1>2 DEF vars
<1>3. CASE Sample \/ FinishTick
  BY <1>3 DEF Sample, FinishTick
<1>4. CASE NoCommand
  BY <1>4 DEF NoCommand, Stage
<1>5. CASE Command
  <2>1. CASE pc' = Stage'
    BY <2>1 DEF Stage
  <2>2. CASE pc' = Stage /\ syncing' = syncing
    BY <2>2 DEF Stage
  <2>3. ASSUME NEW a \in CommandedAxes, NEW v,
               Refuse(a) \/ Cmd_pos(a, v) \/ Cmd_vel(a, v)
        PROVE  pc' = Stage /\ syncing' = syncing
    BY <2>3 DEF Refuse, Cmd_pos, Cmd_vel
  <2>4. ASSUME NEW b \in Bound, NEW v, Cmd_limit(b, v)
        PROVE  pc' = Stage /\ syncing' = syncing
    BY <2>4 DEF Cmd_limit
  <2>5. ASSUME NEW a \in CommandedAxes, Cmd_syn(a) PROVE pc' = Stage'
    BY <2>5 DEF Cmd_syn
  <2>6. ASSUME Cmd_reset PROVE pc' = Stage'
    BY <2>6 DEF Cmd_reset
  <2> QED BY <1>5, <2>1, <2>2, <2>3, <2>4, <2>5, <2>6 DEF Command
<1>6. CASE Synchronize
  <2>1. CASE AzimuthDone
    BY <1>0, <2>1 DEF AzimuthDone, Synchronized, AfterAzimuth
  <2>2. CASE AzimuthBegin
    BY <2>2 DEF AzimuthBegin
  <2>3. CASE AzimuthTest
    BY <2>3 DEF AzimuthTest, AfterAzimuth
  <2>4. CASE ElevationBegin
    BY <2>4 DEF ElevationBegin
  <2>5. CASE ElevationDone \/ ElevationAtZero \/ ElevationSearch
    BY <2>5 DEF ElevationDone, ElevationAtZero, ElevationSearch
  <2> QED BY <1>6, <2>1, <2>2, <2>3, <2>4, <2>5 DEF Synchronize
<1> QED BY <1>1, <1>2, <1>3, <1>4, <1>5, <1>6 DEF Next, ProtocolNext

(* The order to return is given as zero whatever the limits are, and the   *)
(* engine only ever takes it back.                                         *)
LEMMA ReturnStep ==
  ASSUME TypeInv, StageInv, ReturnInv, [Next]_vars
  PROVE  ReturnInv'
<1>0. /\ order \in [Axis -> {"none", "position", "speed"}]
      /\ target_position \in [Axis -> Int]
      /\ limit \in [Bound -> Int]
      /\ "azimuth" \in Axis /\ "elevation" \in Axis
      /\ "min" \in Bound /\ "max" \in Bound
      /\ eaxis \in Axis
  BY DEF TypeInv, TypeOK, EngineTypeOK, Axis, Bound
<1>1. /\ limit'["min"] <= ZERO_ELEVATION /\ ZERO_ELEVATION <= limit'["max"]
  <2>1. CASE limit' = limit
    BY <2>1 DEF ReturnInv
  <2>2. ASSUME NEW b \in Bound, NEW v \in Limits, Cmd_limit(b, v)
        PROVE  limit'["min"] <= ZERO_ELEVATION /\ ZERO_ELEVATION <= limit'["max"]
    <3>1. /\ limit' = [limit EXCEPT ![b] = v]
          /\ b = "min" => v \in HARD_LIMIT_MIN_ELEVATION .. ZERO_ELEVATION
          /\ b # "min" => v \in ZERO_ELEVATION .. HARD_LIMIT_MAX_ELEVATION
      BY <2>2 DEF Cmd_limit
    <3>2. b = "min" => v <= ZERO_ELEVATION
      BY <3>1
    <3>3. b = "max" => ZERO_ELEVATION <= v
      BY <3>1
    <3> QED BY <1>0, <3>1, <3>2, <3>3 DEF ReturnInv, Bound
  <2>3. \/ limit' = limit
        \/ \E b \in Bound, v \in Limits : Cmd_limit(b, v)
    BY DEF Next, EngineNext, PlanUpdate, StoreUpdate, ProtocolNext, Sample,
           NoCommand, Command, Cmd_syn, Refuse, Cmd_pos, Cmd_vel, Cmd_reset,
           Synchronize, AzimuthDone, AzimuthBegin, AzimuthTest, ElevationDone,
           ElevationBegin, ElevationAtZero, ElevationSearch, SyncFrame,
           FinishTick, vars
  <2> QED BY <2>1, <2>2, <2>3
<1>2. ASSUME pc' = "azimuth_test", fast'
      PROVE  HeadsFor("azimuth", 0)'
  <2>1. Mso_Azimuth(0) = 0
    BY UnitsAssumption DEF Mso_Azimuth
  <2>2. CASE AzimuthBegin
    BY <1>0, <1>2, <2>1, <2>2
       DEF AzimuthBegin, SyncFrame, SetPosition, PositionValueValidator,
           HeadsFor
  <2>3. CASE StoreUpdate
    <3>1. HeadsFor("azimuth", 0)
      BY <1>2, <2>3 DEF StoreUpdate, ReturnInv
    <3> QED BY <1>0, <2>3, <3>1 DEF StoreUpdate, HeadsFor
  <2>4. CASE PlanUpdate \/ UNCHANGED vars
    <3>1. UNCHANGED <<pc, fast, order, target_position>>
      BY <2>4 DEF PlanUpdate, vars, engineVars
    <3> QED BY <1>2, <3>1 DEF ReturnInv, HeadsFor
  <2> QED BY <1>2, <2>2, <2>3, <2>4
       DEF Next, EngineNext, ProtocolNext, Sample, NoCommand, Command,
           Cmd_syn, Refuse, Cmd_pos, Cmd_vel, Cmd_limit, Cmd_reset, Stage,
           Synchronize, AzimuthDone, AzimuthTest, AfterAzimuth, ElevationDone,
           ElevationBegin, ElevationAtZero, ElevationSearch, FinishTick
<1>3. ASSUME pc' = "elevation_test", fast' \/ return_to_zero'
      PROVE  HeadsFor("elevation", ZERO_ELEVATION)'
  <2>1. Mso_Elevation(ZERO_ELEVATION, limit["min"], limit["max"])
          = ZERO_ELEVATION
    BY <1>0, UnitsAssumption DEF Mso_Elevation, Lesser, Greater, ReturnInv
  <2>2. CASE ElevationBegin
    BY <1>0, <1>3, <2>1, <2>2
       DEF ElevationBegin, SyncFrame, searchVars, SetPosition,
           PositionValueValidator, HeadsFor
  <2>3. CASE StoreUpdate
    <3>1. HeadsFor("elevation", ZERO_ELEVATION)
      BY <1>3, <2>3 DEF StoreUpdate, searchVars, ReturnInv
    <3> QED BY <1>0, <2>3, <3>1 DEF StoreUpdate, HeadsFor
  <2>4. CASE PlanUpdate \/ UNCHANGED vars
    <3>1. UNCHANGED <<pc, fast, return_to_zero, order, target_position>>
      BY <2>4 DEF PlanUpdate, vars, engineVars, searchVars
    <3> QED BY <1>3, <3>1 DEF ReturnInv, HeadsFor
  <2> QED BY <1>3, <2>2, <2>3, <2>4
       DEF Next, EngineNext, ProtocolNext, Sample, NoCommand, Command,
           Cmd_syn, Refuse, Cmd_pos, Cmd_vel, Cmd_limit, Cmd_reset, Stage,
           Synchronize, AzimuthDone, AzimuthBegin, AzimuthTest, AfterAzimuth,
           ElevationDone, ElevationAtZero, ElevationSearch, FinishTick
<1> QED BY <1>1, <1>2, <1>3 DEF ReturnInv

(* What the engine's two steps do to the axis whose turn it is.            *)
LEMMA UnsyncedStep ==
  ASSUME TypeInv, StageInv, UnsyncedStaysPut, [Next]_vars
  PROVE  UnsyncedStaysPut'
<1>0. /\ order \in [Axis -> {"none", "position", "speed"}]
      /\ current_position \in [Axis -> Int]
      /\ target_position \in [Axis -> Int]
      /\ synced \in [Axis -> BOOLEAN] /\ syncing \in [Axis -> BOOLEAN]
      /\ eaxis \in Axis
  BY DEF TypeInv, TypeOK, EngineTypeOK, ControllerTypeOK
<1> SUFFICES ASSUME NEW a \in Axis, ~synced'[a], ~syncing'[a]
    PROVE  /\ \/ order'[a] = "none"
              \/ /\ order'[a] = "position"
                 /\ target_position'[a] = current_position'[a]
           /\ eaxis' = a /\ update' # NoUpdate =>
                update'.pos = current_position'[a]
  BY DEF UnsyncedStaysPut
<1> DEFINE AtRest ==
      /\ \/ order[a] = "none"
         \/ order[a] = "position" /\ target_position[a] = current_position[a]
      /\ eaxis = a /\ update # NoUpdate => update.pos = current_position[a]
<1>1. synced[a] = synced'[a] /\ syncing[a] = syncing'[a] => AtRest
  BY DEF UnsyncedStaysPut
<1>2. CASE PlanUpdate
  <2>1. AtRest
    BY <1>1, <1>2 DEF PlanUpdate, flagVars
  <2>2. eaxis = a => update'.pos = current_position[a]
    <3>1. CASE order[a] = "none"
      BY <1>2, <3>1 DEF PlanUpdate
    <3>2. CASE order[a] = "position" /\ target_position[a] = current_position[a]
      BY <1>2, <3>2 DEF PlanUpdate, PositionUpdate
    <3> QED BY <2>1, <3>1, <3>2
  <2> QED BY <1>2, <2>1, <2>2 DEF PlanUpdate
<1>3. CASE StoreUpdate
  <2>1. AtRest
    BY <1>1, <1>3 DEF StoreUpdate, flagVars
  <2>2. current_position'[a] = current_position[a]
    BY <1>0, <1>3, <2>1 DEF StoreUpdate
  <2>3. order'[a] = order[a] \/ order'[a] = "none"
    BY <1>0, <1>3 DEF StoreUpdate
  <2>4. target_position' = target_position /\ update' = NoUpdate
    BY <1>3 DEF StoreUpdate
  <2> QED BY <2>1, <2>2, <2>3, <2>4
<1>4. CASE /\ UNCHANGED <<order, target_position, current_position, eaxis,
                         update>>
           /\ synced[a] = synced'[a] /\ syncing[a] = syncing'[a]
  BY <1>1, <1>4
<1>5. CASE Sample \/ NoCommand \/ FinishTick \/ UNCHANGED vars
  BY <1>4, <1>5 DEF Sample, NoCommand, FinishTick, vars, engineVars, flagVars
<1>6. CASE Command
  <2>1. ASSUME NEW b \in Axis, Cmd_syn(b) PROVE AtRest /\ UNCHANGED engineVars
    BY <1>0, <1>1, <2>1 DEF Cmd_syn
  <2>2. ASSUME NEW b \in Axis, Refuse(b) PROVE AtRest /\ UNCHANGED engineVars
    BY <1>1, <2>2 DEF Refuse, flagVars
  <2>3. ASSUME NEW b \in Axis, NEW v, Cmd_pos(b, v) \/ Cmd_vel(b, v)
        PROVE  /\ AtRest
               /\ UNCHANGED <<current_position, eaxis, update>>
               /\ order'[a] = order[a]
               /\ target_position'[a] = target_position[a]
    <3>1. synced' = synced /\ syncing' = syncing /\ synced[b]
      BY <2>3 DEF Cmd_pos, Cmd_vel
    <3>2. b # a
      BY <3>1
    <3>3. UNCHANGED <<current_position, eaxis, update>>
      BY <2>3 DEF Cmd_pos, Cmd_vel, SetPosition, SetSpeed
    <3>4. /\ order'[a] = order[a]
          /\ target_position'[a] = target_position[a]
      BY <1>0, <2>3, <3>2 DEF Cmd_pos, Cmd_vel, SetPosition, SetSpeed
    <3> QED BY <1>1, <3>1, <3>3, <3>4
  <2>4. ASSUME NEW b \in Bound, NEW v, Cmd_limit(b, v)
        PROVE  AtRest /\ UNCHANGED engineVars
    BY <1>1, <2>4 DEF Cmd_limit, flagVars
  <2>5. CASE Cmd_reset
    BY <2>5 DEF Cmd_reset
  <2>6. CASE AtRest /\ UNCHANGED engineVars
    BY <2>6 DEF engineVars
  <2> HIDE DEF AtRest
  <2>7. \/ AtRest /\ UNCHANGED engineVars
        \/ Cmd_reset
        \/ \E b \in Axis, v \in Positions \cup Speeds :
              Cmd_pos(b, v) \/ Cmd_vel(b, v)
    BY <1>6, <2>1, <2>2, <2>4, ProtocolAssumption DEF Command
  <2>8. ASSUME NEW b \in Axis, NEW v, Cmd_pos(b, v) \/ Cmd_vel(b, v)
        PROVE  /\ \/ order'[a] = "none"
                  \/ /\ order'[a] = "position"
                     /\ target_position'[a] = current_position'[a]
               /\ eaxis' = a /\ update' # NoUpdate =>
                    update'.pos = current_position'[a]
    BY <2>3, <2>8 DEF AtRest
  <2> QED BY <2>5, <2>6, <2>7, <2>8
<1>7. CASE Synchronize
  <2>1. ASSUME NEW b \in Axis, syncing[b], ~synced[b], syncing' = syncing,
               \E v : SetPosition(b, v) \/ SetSpeed(b, v)
        PROVE  /\ UNCHANGED <<current_position, eaxis, update>>
               /\ order'[a] = order[a]
               /\ target_position'[a] = target_position[a]
    <3>1. b # a
      BY <2>1
    <3> QED BY <1>0, <2>1, <3>1 DEF SetPosition, SetSpeed
  <2>2. synced[a] = synced'[a] /\ syncing[a] = syncing'[a]
    <3>1. CASE AzimuthDone
      BY <1>0, <3>1 DEF AzimuthDone, Synchronized, Axis
    <3>2. CASE ElevationDone
      BY <1>0, <3>2 DEF ElevationDone, Synchronized, Axis
    <3>3. CASE AzimuthBegin \/ ElevationBegin \/ ElevationSearch
      BY <3>3 DEF AzimuthBegin, ElevationBegin, ElevationSearch
    <3>4. CASE AzimuthTest
      <4>1. syncing' = syncing /\ syncing["azimuth"]
        BY <3>4 DEF AzimuthTest, StageInv
      <4>2. a # "azimuth"
        BY <4>1
      <4>3. \/ synced' = synced
            \/ synced' = [synced EXCEPT !["azimuth"] = TRUE]
        BY <3>4 DEF AzimuthTest, Becomes
      <4> QED BY <1>0, <4>1, <4>2, <4>3
    <3>5. CASE ElevationAtZero
      <4>1. syncing' = syncing /\ syncing["elevation"]
        BY <3>5 DEF ElevationAtZero, StageInv
      <4>2. a # "elevation"
        BY <4>1
      <4>3. \/ synced' = synced
            \/ synced' = [synced EXCEPT !["elevation"] = TRUE]
        BY <3>5 DEF ElevationAtZero, Becomes
      <4> QED BY <1>0, <4>1, <4>2, <4>3
    <3> QED BY <1>7, <3>1, <3>2, <3>3, <3>4, <3>5 DEF Synchronize
  <2>3. /\ UNCHANGED <<current_position, eaxis, update>>
        /\ order'[a] = order[a]
        /\ target_position'[a] = target_position[a]
    <3>1. CASE UNCHANGED engineVars
      BY <3>1 DEF engineVars
    <3>2. CASE AzimuthBegin \/ AzimuthTest
      <4>1. /\ syncing["azimuth"] /\ ~synced["azimuth"]
            /\ syncing' = syncing
        BY <3>2 DEF AzimuthBegin, AzimuthTest, StageInv
      <4>2. \/ UNCHANGED engineVars
            \/ \E v : SetPosition("azimuth", v) \/ SetSpeed("azimuth", v)
        BY <3>2 DEF AzimuthBegin, AzimuthTest
      <4> QED BY <2>1, <3>1, <4>1, <4>2 DEF Axis
    <3>3. CASE ElevationBegin
      <4>1. /\ syncing["elevation"] /\ ~synced["elevation"]
            /\ syncing' = syncing
        BY <3>3 DEF ElevationBegin, StageInv
      <4>2. \E v : SetPosition("elevation", v) \/ SetSpeed("elevation", v)
        BY <3>3 DEF ElevationBegin
      <4> QED BY <2>1, <4>1, <4>2 DEF Axis
    <3>4. CASE AzimuthDone \/ ElevationDone \/ ElevationAtZero \/ ElevationSearch
      BY <3>1, <3>4 DEF AzimuthDone, ElevationDone, ElevationAtZero,
                        ElevationSearch, Synchronized
    <3> QED BY <1>7, <3>2, <3>3, <3>4 DEF Synchronize
  <2> QED BY <1>1, <2>2, <2>3
<1> QED BY <1>2, <1>3, <1>5, <1>6, <1>7 DEF Next, EngineNext, ProtocolNext

(* An open order survives only the steps that leave the axis its target.   *)
LEMMA OpenStep ==
  ASSUME TypeInv, StageInv, OpenOrderOwnsAxis, [Next]_vars
  PROVE  OpenOrderOwnsAxis'
<1>0. /\ order \in [Axis -> {"none", "position", "speed"}]
      /\ target_position \in [Axis -> Int]
      /\ positioning \in [Axis -> BOOLEAN]
      /\ positioning_target \in [Axis -> Int]
      /\ synced \in [Axis -> BOOLEAN]
      /\ eaxis \in Axis /\ "azimuth" \in Axis /\ "elevation" \in Axis
  BY DEF TypeInv, TypeOK, EngineTypeOK, ControllerTypeOK, Axis
<1> SUFFICES ASSUME NEW a \in Axis, positioning'[a]
    PROVE  /\ synced'[a] /\ order'[a] # "speed"
           /\ a = "azimuth" =>
                target_position'[a] = Mso_Azimuth(positioning_target'[a])
  BY DEF OpenOrderOwnsAxis
<1> DEFINE Owns == /\ synced[a] /\ order[a] # "speed"
                   /\ a = "azimuth" =>
                        target_position[a] = Mso_Azimuth(positioning_target[a])
<1>1. positioning[a] => Owns
  BY DEF OpenOrderOwnsAxis
<1>2. CASE /\ positioning[a] /\ synced'[a]
           /\ order'[a] \in {order[a], "none"}
           /\ target_position'[a] = target_position[a]
           /\ positioning_target'[a] = positioning_target[a]
  BY <1>1, <1>2
<1>3. CASE EngineNext
  <2>1. UNCHANGED <<flagVars, target_position>>
    BY <1>3 DEF EngineNext, PlanUpdate, StoreUpdate
  <2>2. positioning[a] /\ synced'[a]
    BY <1>1, <2>1 DEF flagVars
  <2>3. order'[a] \in {order[a], "none"}
    BY <1>0, <1>3 DEF EngineNext, PlanUpdate, StoreUpdate
  <2> QED BY <1>2, <2>1, <2>2, <2>3 DEF flagVars
<1>4. CASE Sample \/ NoCommand \/ UNCHANGED vars
  BY <1>1, <1>4 DEF Sample, NoCommand, vars, engineVars, flagVars
<1>5. CASE FinishTick
  <2>1. positioning[a]
    BY <1>0, <1>5 DEF FinishTick
  <2> QED BY <1>1, <1>5, <2>1 DEF FinishTick, engineVars
<1>6. CASE Command
  <2>1. ASSUME NEW b \in Axis, Cmd_syn(b) \/ Refuse(b)
        PROVE  UNCHANGED <<engineVars, synced, positioning, positioning_target>>
    BY <2>1 DEF Cmd_syn, Refuse, flagVars
  <2>2. ASSUME NEW b \in Bound, NEW v, Cmd_limit(b, v)
        PROVE  UNCHANGED <<engineVars, synced, positioning, positioning_target>>
    BY <2>2 DEF Cmd_limit, flagVars
  <2>3. CASE UNCHANGED <<engineVars, synced, positioning, positioning_target>>
    BY <1>1, <2>3 DEF engineVars
  <2>4. ~Cmd_reset
    BY DEF Cmd_reset
  <2>5. ASSUME NEW b \in Axis, NEW v, Cmd_pos(b, v)
        PROVE  /\ synced'[a] /\ order'[a] # "speed"
               /\ a = "azimuth" =>
                    target_position'[a] = Mso_Azimuth(positioning_target'[a])
    <3>1. /\ synced' = synced /\ synced[b]
          /\ order' = [order EXCEPT ![b] = "position"]
          /\ target_position' = [target_position EXCEPT
                                  ![b] = PositionValueValidator(b, v)]
          /\ positioning' = [positioning EXCEPT ![b] = TRUE]
          /\ positioning_target' = [positioning_target EXCEPT ![b] = v]
      BY <2>5 DEF Cmd_pos, SetPosition
    <3>2. CASE b = a
      BY <1>0, <3>1, <3>2 DEF PositionValueValidator
    <3>3. CASE b # a
      <4>1. /\ positioning[a] /\ order'[a] = order[a]
            /\ target_position'[a] = target_position[a]
            /\ positioning_target'[a] = positioning_target[a]
        BY <1>0, <3>1, <3>3
      <4> QED BY <1>1, <3>1, <4>1
    <3> QED BY <3>2, <3>3
  <2>6. ASSUME NEW b \in Axis, NEW v, Cmd_vel(b, v)
        PROVE  /\ synced'[a] /\ order'[a] # "speed"
               /\ a = "azimuth" =>
                    target_position'[a] = Mso_Azimuth(positioning_target'[a])
    <3>1. /\ UNCHANGED <<synced, target_position, positioning_target>>
          /\ order' = [order EXCEPT ![b] = "speed"]
          /\ positioning' = [positioning EXCEPT ![b] = FALSE]
      BY <2>6 DEF Cmd_vel, SetSpeed
    <3>2. b # a /\ positioning[a] /\ order'[a] = order[a]
      BY <1>0, <3>1
    <3> QED BY <1>1, <3>1, <3>2
  <2> QED BY <1>6, <2>1, <2>2, <2>3, <2>4, <2>5, <2>6, ProtocolAssumption
       DEF Command
<1>7. CASE Synchronize
  <2>1. UNCHANGED <<positioning, positioning_target>>
    BY <1>7
       DEF Synchronize, AzimuthDone, AzimuthBegin, AzimuthTest, ElevationDone,
           ElevationBegin, ElevationAtZero, ElevationSearch, SyncFrame
  <2>2. Owns
    BY <1>1, <2>1
  <2>3. synced'[a]
    BY <1>0, <1>7, <2>2
       DEF Synchronize, AzimuthDone, AzimuthBegin, AzimuthTest, ElevationDone,
           ElevationBegin, ElevationAtZero, ElevationSearch, Synchronized,
           Becomes
  <2>4. order'[a] = order[a] /\ target_position'[a] = target_position[a]
    <3>1. ASSUME NEW b \in Axis, ~synced[b],
                 \E v : SetPosition(b, v) \/ SetSpeed(b, v)
          PROVE  order'[a] = order[a] /\ target_position'[a] = target_position[a]
      <4>1. b # a
        BY <2>2, <3>1
      <4> QED BY <1>0, <3>1, <4>1 DEF SetPosition, SetSpeed
    <3>2. CASE UNCHANGED engineVars
      BY <3>2 DEF engineVars
    <3>3. CASE AzimuthBegin \/ AzimuthTest
      <4>1. ~synced["azimuth"]
        BY <3>3 DEF AzimuthBegin, AzimuthTest, StageInv
      <4>2. \/ UNCHANGED engineVars
            \/ \E v : SetPosition("azimuth", v) \/ SetSpeed("azimuth", v)
        BY <3>3 DEF AzimuthBegin, AzimuthTest
      <4> QED BY <1>0, <3>1, <3>2, <4>1, <4>2
    <3>4. CASE ElevationBegin
      <4>1. ~synced["elevation"]
        BY <3>4 DEF ElevationBegin
      <4>2. \E v : SetPosition("elevation", v) \/ SetSpeed("elevation", v)
        BY <3>4 DEF ElevationBegin
      <4> QED BY <1>0, <3>1, <4>1, <4>2
    <3>5. CASE AzimuthDone \/ ElevationDone \/ ElevationAtZero \/ ElevationSearch
      BY <3>2, <3>5 DEF AzimuthDone, ElevationDone, ElevationAtZero,
                        ElevationSearch, Synchronized
    <3> QED BY <1>7, <3>3, <3>4, <3>5 DEF Synchronize
  <2> QED BY <2>1, <2>2, <2>3, <2>4
<1> QED BY <1>3, <1>4, <1>5, <1>6, <1>7 DEF Next, ProtocolNext

LEMMA OrderInvariant == Spec => []OrderInv
<1>1. OrderInv /\ [Next]_vars => OrderInv'
  <2> SUFFICES ASSUME OrderInv, [Next]_vars PROVE OrderInv'
    OBVIOUS
  <2>0. /\ TypeInv /\ StageInv /\ ReturnInv
        /\ UnsyncedStaysPut /\ OpenOrderOwnsAxis
    BY DEF OrderInv
  <2>1. TypeInv'
    BY <2>0, EngineType, ProtocolType, StutterType DEF Next
  <2>2. StageInv'
    BY <2>0, StageStep
  <2>3. ReturnInv'
    BY <2>0, ReturnStep
  <2>4. UnsyncedStaysPut'
    BY <2>0, UnsyncedStep
  <2>5. OpenOrderOwnsAxis'
    BY <2>0, OpenStep
  <2> QED BY <2>1, <2>2, <2>3, <2>4, <2>5 DEF OrderInv
<1> QED BY <1>1, InitOrder, PTL DEF Spec

(* However commands, synchronizations, resets and passes of the engine     *)
(* interleave, an axis that is neither synchronized nor synchronizing      *)
(* stays where it is (protocol_mso2.cpp:558-606, 754-782).                 *)
THEOREM UnsyncedAxisStaysPut == Spec => []UnsyncedStaysPut
<1>1. OrderInv => UnsyncedStaysPut
  BY DEF OrderInv
<1> QED BY <1>1, OrderInvariant, PTL

(* An open order to a position is the engine's order for a synchronized    *)
(* axis (protocol_mso2.cpp:564-568, 618-619).                              *)
THEOREM OpenOrderIsTheEngines == Spec => []OpenOrderOwnsAxis
<1>1. OrderInv => OpenOrderOwnsAxis
  BY DEF OrderInv
<1> QED BY <1>1, OrderInvariant, PTL

(* The step that declares the elevation, or a fast azimuth, synchronized   *)
(* finds it at zero with nothing to take it away, for any timing of the    *)
(* two threads and any limits (protocol_mso2.cpp:457-459, 499-513).        *)
THEOREM SynchronizedAtZero == Spec => SyncedAtZero
<1> DEFINE Step == \A a \in Axis :
       synced'[a] /\ ~synced[a] /\ syncing'[a] /\ (a = "elevation" \/ fast) =>
         /\ current_position'[a] = Zero(a)
         /\ \/ order'[a] = "none"
            \/ order'[a] = "position" /\ target_position'[a] = Zero(a)
<1>1. OrderInv /\ [Next]_vars => [Step]_vars
  <2> SUFFICES ASSUME OrderInv, Next, NEW a \in Axis,
                      synced'[a], ~synced[a], syncing'[a],
                      a = "elevation" \/ fast
      PROVE  /\ current_position'[a] = Zero(a)
             /\ \/ order'[a] = "none"
                \/ order'[a] = "position" /\ target_position'[a] = Zero(a)
    OBVIOUS
  <2>0. synced \in [Axis -> BOOLEAN] /\ ReturnInv
    BY DEF OrderInv, TypeInv, TypeOK, ControllerTypeOK
  <2>1. CASE AzimuthTest
    <3>1. a = "azimuth"
      BY <2>0, <2>1 DEF AzimuthTest, Becomes
    <3>2. fast /\ current_position["azimuth"] = 0 /\ UNCHANGED engineVars
      BY <2>0, <2>1, <3>1 DEF AzimuthTest, Becomes
    <3>3. HeadsFor("azimuth", 0)
      BY <2>0, <2>1, <3>2 DEF AzimuthTest, ReturnInv
    <3> QED BY <3>1, <3>2, <3>3 DEF engineVars, HeadsFor, Zero
  <2>2. CASE ElevationAtZero
    <3>1. a = "elevation"
      BY <2>0, <2>2 DEF ElevationAtZero, Becomes
    <3>2. /\ current_position["elevation"] = ZERO_ELEVATION
          /\ UNCHANGED engineVars
      BY <2>0, <2>2, <3>1 DEF ElevationAtZero, Becomes
    <3>3. HeadsFor("elevation", ZERO_ELEVATION)
      BY <2>0, <2>2 DEF ElevationAtZero, ReturnInv
    <3> QED BY <3>1, <3>2, <3>3 DEF engineVars, HeadsFor, Zero
  <2>3. ~Cmd_reset
    BY DEF Cmd_reset
  <2>4. synced' # synced
    OBVIOUS
  <2> QED BY <2>1, <2>2, <2>3, <2>4
       DEF Next, EngineNext, PlanUpdate, StoreUpdate, ProtocolNext, Sample,
           NoCommand, Command, Cmd_syn, Refuse, Cmd_pos, Cmd_vel, Cmd_limit,
           Synchronize, AzimuthDone, AzimuthBegin, ElevationDone,
           ElevationBegin, ElevationSearch, Synchronized, FinishTick, flagVars
<1> QED BY <1>1, OrderInvariant, PTL DEF Spec, SyncedAtZero
-----------------------------------------------------------------------------
(* The search of the elevation's ends, when the engine ends a pass between *)
(* two ticks and the elevation can go at one vel at least.  The invariant  *)
(* says what two readings of zero in a row prove: the engine has carried   *)
(* out the order of the search in between and still shows no motion.       *)

Searching == syncing["elevation"] /\ ~synced["elevation"] /\ ~disturbed
SearchVel == MaxVel("elevation") * direction
End == IF direction = 1 THEN "max" ELSE "min"
Pressing == Searching /\ ~fast /\ ~return_to_zero /\ End \notin touched

(* The second zero is read, or the third may be read in this tick.         *)
InTick == pc \notin {"ends", "sleep"}
Late == zero_speed_counter = 2 \/ (zero_speed_counter = 1 /\ InTick)

(* A search begins with its statics as they were initialised.              *)
StaticsInv ==
  /\ return_to_zero => direction = -1
  /\ ~syncing["elevation"] /\ ~disturbed =>
       direction = 1 /\ zero_speed_counter = 0 /\ ~return_to_zero

(* The engine has the order of the search since its first reading.         *)
HasOrder ==
  zero_speed_counter > 0 \/ pc = "elevation_test" =>
    order["elevation"] = "speed" /\ target_speed["elevation"] = SearchVel

(* What the engine stores after that shows the axis on its way or meets an *)
(* end, and it has stored something before the third reading.              *)
StoresMotion ==
  Late /\ eaxis = "elevation" /\ update # NoUpdate =>
    update.kind \in Bound \/ update.vel = SearchVel
Told ==
  Late => skew = -1 \/ current_speed["elevation"] = SearchVel
ToldInTick ==
  zero_speed_counter = 2 /\ InTick =>
    current_speed["elevation"] = SearchVel

PressInv == Pressing => HasOrder /\ StoresMotion /\ Told /\ ToldInTick
SearchInv == StaticsInv /\ SearchVisitsBothEnds /\ PressInv

LEMMA InitSearch == Init => SearchInv
<1> SUFFICES ASSUME Init PROVE SearchInv
  OBVIOUS
<1>1. StaticsInv
  BY DEF Init, StaticsInv
<1>2. ~Searching
  BY DEF Init, Searching, Axis
<1> QED BY <1>1, <1>2 DEF SearchInv, SearchVisitsBothEnds, PressInv, Pressing,
                         Searching

(* A step that ends the search, or that is none of its business.           *)
LEMMA NoSearch ==
  ASSUME StaticsInv', ~Searching'
  PROVE  SearchInv'
BY DEF SearchInv, SearchVisitsBothEnds, PressInv, Pressing, Searching

LEMMA QuietStep ==
  ASSUME SearchInv,
         UNCHANGED <<searchVars, fast, disturbed, touched, skew, eaxis, update>>,
         syncing'["elevation"] = syncing["elevation"],
         synced'["elevation"] = synced["elevation"],
         order'["elevation"] = order["elevation"],
         target_speed'["elevation"] = target_speed["elevation"],
         current_speed'["elevation"] = current_speed["elevation"],
         pc' = "elevation_test" => pc = "elevation_test",
         InTick' => InTick
  PROVE  SearchInv'
<1>1. /\ UNCHANGED <<zero_speed_counter, direction, return_to_zero, fast,
                     disturbed, touched, skew, eaxis, update>>
      /\ StaticsInv /\ SearchVisitsBothEnds /\ PressInv
  BY DEF SearchInv, searchVars
<1>2. StaticsInv' /\ SearchVisitsBothEnds'
  BY <1>1 DEF StaticsInv, SearchVisitsBothEnds
<1>3. SUFFICES ASSUME Pressing'
               PROVE  HasOrder' /\ StoresMotion' /\ Told' /\ ToldInTick'
  BY <1>2 DEF SearchInv, PressInv
<1>4. SearchVel' = SearchVel
  BY <1>1 DEF SearchVel
<1>5. Pressing
  BY <1>1, <1>3 DEF Pressing, Searching, End
<1>6. HasOrder /\ StoresMotion /\ Told /\ ToldInTick
  BY <1>1, <1>5 DEF PressInv
<1>7. Late' => Late
  BY <1>1 DEF Late
<1>8. HasOrder'
  BY <1>1, <1>4, <1>6 DEF HasOrder
<1>9. StoresMotion'
  BY <1>1, <1>4, <1>6, <1>7 DEF StoresMotion
<1>10. Told' /\ ToldInTick'
  BY <1>1, <1>4, <1>6, <1>7 DEF Told, ToldInTick
<1> QED BY <1>8, <1>9, <1>10

(* The engine's half of the argument.                                      *)
LEMMA PlanSearch ==
  ASSUME TypeInv, SearchInv, PlanUpdate
  PROVE  SearchInv'
<1>0. EngineTypeOK /\ "elevation" \in Axis
  BY DEF TypeInv, TypeOK, Axis
<1>1. /\ UNCHANGED <<searchVars, fast, disturbed, touched, skew, eaxis, pc,
                     syncing, synced, order, target_speed, current_speed>>
      /\ StaticsInv /\ SearchVisitsBothEnds /\ PressInv
  BY DEF PlanUpdate, flagVars, historyVars, SearchInv
<1>2. StaticsInv' /\ SearchVisitsBothEnds'
  BY <1>1 DEF StaticsInv, SearchVisitsBothEnds, searchVars
<1>3. SUFFICES ASSUME Pressing'
               PROVE  HasOrder' /\ StoresMotion' /\ Told' /\ ToldInTick'
  BY <1>2 DEF SearchInv, PressInv
<1>4. Pressing /\ SearchVel' = SearchVel
  BY <1>1, <1>3 DEF Pressing, Searching, End, SearchVel, searchVars
<1>5. HasOrder /\ Told /\ ToldInTick
  BY <1>1, <1>4 DEF PressInv
<1>6. Late' = Late /\ HasOrder' /\ Told' /\ ToldInTick'
  BY <1>1, <1>4, <1>5 DEF Late, HasOrder, Told, ToldInTick, InTick, searchVars
<1>7. StoresMotion'
  <2> SUFFICES ASSUME Late, eaxis = "elevation"
               PROVE  update'.kind \in Bound \/ update'.vel = SearchVel
    BY <1>1, <1>4, <1>6 DEF StoresMotion
  <2>1. /\ order["elevation"] = "speed"
        /\ target_speed["elevation"] = SearchVel
    BY <1>5 DEF HasOrder, Late
  <2>2. update' = SpeedUpdate("elevation")
    BY <2>1 DEF PlanUpdate
  <2> QED BY <2>1, <2>2 DEF SpeedUpdate, Bound
<1> QED BY <1>6, <1>7

(* A bound that the search does not press against ends its order, which    *)
(* counts as disturbing it.                                                *)
LEMMA StoreSearch ==
  ASSUME TypeInv, SearchInv, StoreUpdate, MaxVel("elevation") > 0
  PROVE  SearchInv'
<1>0. /\ EngineTypeOK /\ ControllerTypeOK
      /\ "elevation" \in Axis /\ "azimuth" # "elevation"
      /\ direction \in {-1, 1}
  BY DEF TypeInv, TypeOK, ControllerTypeOK, Axis
<1>1. /\ UNCHANGED <<searchVars, fast, pc, syncing, synced, target_speed>>
      /\ StaticsInv /\ SearchVisitsBothEnds /\ PressInv
  BY DEF StoreUpdate, flagVars, SearchInv
<1>2. /\ touched' = touched \cup ({update.kind} \cap Bound)
      /\ disturbed' = (disturbed \/ TakesBackTurn)
      /\ update' = NoUpdate
  BY DEF StoreUpdate
<1>3. ~disturbed' => ~disturbed /\ ~TakesBackTurn
  BY <1>2
<1>4. StaticsInv'
  BY <1>1, <1>3 DEF StaticsInv, searchVars
<1>5. SearchVisitsBothEnds'
  <2> SUFFICES ASSUME syncing["elevation"], ~synced["elevation"], ~disturbed
               PROVE  /\ direction < 0 => "max" \in touched'
                      /\ return_to_zero => touched' = Bound
    BY <1>1, <1>3 DEF SearchVisitsBothEnds, searchVars
  <2>1. /\ direction < 0 => "max" \in touched
        /\ return_to_zero => touched = Bound
    BY <1>1 DEF SearchVisitsBothEnds
  <2> QED BY <1>2, <2>1
<1>6. SUFFICES ASSUME Pressing'
               PROVE  HasOrder' /\ StoresMotion' /\ Told' /\ ToldInTick'
  BY <1>4, <1>5 DEF SearchInv, PressInv
<1>7. SearchVel' = SearchVel
  BY <1>1 DEF SearchVel, searchVars
<1>8. /\ syncing["elevation"] /\ ~synced["elevation"]
      /\ ~disturbed /\ ~TakesBackTurn /\ End \notin touched'
  BY <1>1, <1>3, <1>6 DEF Pressing, Searching, End, searchVars
<1>9. Pressing
  BY <1>1, <1>2, <1>6, <1>8 DEF Pressing, Searching, searchVars
<1>10. HasOrder /\ StoresMotion /\ Told /\ ToldInTick
  BY <1>1, <1>9 DEF PressInv
<1>11. StoresMotion'
  BY <1>2 DEF StoresMotion
<1>12. Late' = Late /\ InTick' = InTick
  BY <1>1 DEF Late, InTick, searchVars
<1>13. CASE eaxis # "elevation"
  <2>1. eaxis = "azimuth"
    BY <1>0, <1>13 DEF EngineTypeOK, Axis
  <2>2. /\ order'["elevation"] = order["elevation"]
        /\ current_speed'["elevation"] = current_speed["elevation"]
        /\ skew' = skew
    BY <1>0, <2>1 DEF StoreUpdate, EngineTypeOK
  <2>3. HasOrder'
    BY <1>1, <1>7, <1>10, <2>2 DEF HasOrder, searchVars
  <2>4. Told' /\ ToldInTick'
    BY <1>1, <1>7, <1>10, <1>12, <2>2 DEF Told, ToldInTick, searchVars
  <2> QED BY <1>11, <2>3, <2>4
<1>14. CASE eaxis = "elevation"
  <2>1. update # NoUpdate
    BY DEF StoreUpdate
  <2>2. ASSUME order["elevation"] = "speed",
               target_speed["elevation"] = SearchVel
        PROVE  update.kind \notin Bound
    <3>1. CASE direction = 1
      <4>1. SearchVel > 0
        BY <1>0, <3>1, MaxVelNat DEF SearchVel
      <4>2. update.kind # "min"
        BY <1>8, <1>14, <2>2, <4>1 DEF TakesBackTurn
      <4>3. update.kind # "max"
        BY <1>2, <1>8, <3>1 DEF End, Bound
      <4> QED BY <4>2, <4>3 DEF Bound
    <3>2. CASE direction = -1
      <4>1. SearchVel < 0
        BY <1>0, <3>2, MaxVelNat DEF SearchVel
      <4>2. update.kind # "max"
        BY <1>8, <1>14, <2>2, <4>1 DEF TakesBackTurn
      <4>3. direction # 1
        BY <3>2
      <4>4. update.kind # "min"
        BY <1>2, <1>8, <4>3 DEF End, Bound
      <4> QED BY <4>2, <4>4 DEF Bound
    <3> QED BY <1>0, <3>1, <3>2
  <2>3. HasOrder'
    <3> SUFFICES ASSUME zero_speed_counter > 0 \/ pc = "elevation_test"
                 PROVE  order'["elevation"] = "speed"
                        /\ target_speed["elevation"] = SearchVel
      BY <1>1, <1>7 DEF HasOrder, searchVars
    <3>1. /\ order["elevation"] = "speed"
          /\ target_speed["elevation"] = SearchVel
      BY <1>10 DEF HasOrder
    <3>2. update.kind \notin Bound
      BY <2>2, <3>1
    <3>3. Ends(update.kind) # "speed"
      BY <3>2 DEF Ends
    <3>4. order' = order
      BY <1>14, <3>1, <3>3 DEF StoreUpdate
    <3> QED BY <3>1, <3>4
  <2>4. Late => current_speed'["elevation"] = SearchVel
    <3> SUFFICES ASSUME Late PROVE current_speed'["elevation"] = SearchVel
      OBVIOUS
    <3>1. /\ order["elevation"] = "speed"
          /\ target_speed["elevation"] = SearchVel
      BY <1>10 DEF HasOrder, Late
    <3>2. update.vel = SearchVel
      BY <1>10, <1>14, <2>1, <2>2, <3>1 DEF StoresMotion
    <3> QED BY <1>0, <1>14, <3>2 DEF StoreUpdate, EngineTypeOK
  <2>5. Told'
    BY <1>7, <1>12, <2>4 DEF Told
  <2>6. ToldInTick'
    BY <1>1, <1>7, <1>12, <2>4 DEF ToldInTick, Late, searchVars
  <2> QED BY <1>11, <2>3, <2>5, <2>6
<1> QED BY <1>13, <1>14

(* A tick begins only after the engine has stored what it found since the  *)
(* last one.                                                               *)
LEMMA SampleSearch ==
  ASSUME TypeInv, SearchInv, Sample, TicksPerPass = 1
  PROVE  SearchInv'
<1>1. /\ UNCHANGED <<searchVars, fast, disturbed, touched, syncing, synced,
                     order, target_speed, current_speed, eaxis, update>>
      /\ StaticsInv /\ SearchVisitsBothEnds /\ PressInv
  BY DEF Sample, engineVars, flagVars, historyVars, SearchInv
<1>2. /\ update' = NoUpdate /\ skew > -1 /\ skew' = -1
      /\ pc = "sleep" /\ pc' = "command"
  <2>1. skew \in Int
    BY ProtocolAssumption DEF TypeInv, TypeOK, EngineTypeOK
  <2> QED BY <1>1, <2>1 DEF Sample, Lesser
<1>3. StaticsInv' /\ SearchVisitsBothEnds'
  BY <1>1 DEF StaticsInv, SearchVisitsBothEnds, searchVars
<1>4. SUFFICES ASSUME Pressing'
               PROVE  HasOrder' /\ StoresMotion' /\ Told' /\ ToldInTick'
  BY <1>3 DEF SearchInv, PressInv
<1>5. Pressing /\ SearchVel' = SearchVel
  BY <1>1, <1>4 DEF Pressing, Searching, End, SearchVel, searchVars
<1>6. HasOrder /\ Told
  BY <1>1, <1>5 DEF PressInv
<1>7. HasOrder'
  BY <1>1, <1>2, <1>5, <1>6 DEF HasOrder, searchVars
<1>8. StoresMotion' /\ Told'
  BY <1>2 DEF StoresMotion, Told
<1>9. ToldInTick'
  <2>1. zero_speed_counter = 2 => current_speed["elevation"] = SearchVel
    BY <1>2, <1>6 DEF Told, Late
  <2> QED BY <1>1, <1>5, <2>1 DEF ToldInTick, searchVars
<1> QED BY <1>7, <1>8, <1>9

LEMMA CommandSearch ==
  ASSUME TypeInv, SearchInv, Command
  PROVE  SearchInv'
<1>0. /\ synced \in [Axis -> BOOLEAN] /\ syncing \in [Axis -> BOOLEAN]
      /\ order \in [Axis -> {"none", "position", "speed"}]
      /\ target_speed \in [Axis -> Int]
      /\ "elevation" \in Axis
  BY DEF TypeInv, TypeOK, EngineTypeOK, ControllerTypeOK, Axis
<1>1. pc = "command" /\ StaticsInv /\ InTick
  BY DEF Command, Cmd_syn, Refuse, Cmd_pos, Cmd_vel, Cmd_limit, Cmd_reset,
         Executing, SearchInv, InTick
<1>2. Stage # "elevation_test" /\ Stage' # "elevation_test"
  BY DEF Stage
<1>3. ASSUME NEW a \in Axis, Cmd_syn(a) PROVE SearchInv'
  <2>1. /\ UNCHANGED <<searchVars, fast, disturbed, skew, engineVars, synced>>
        /\ syncing' = [syncing EXCEPT ![a] = TRUE]
        /\ touched' = IF a = "elevation" /\ ~syncing[a] THEN {} ELSE touched
        /\ pc' # "elevation_test"
    BY <1>2, <1>3 DEF Cmd_syn, Executing
  <2>2. CASE a # "elevation" \/ syncing[a]
    <3>1. touched' = touched /\ syncing'["elevation"] = syncing["elevation"]
      BY <1>0, <2>1, <2>2
    <3> QED BY <1>1, <2>1, <3>1, QuietStep DEF engineVars
  <2>3. CASE a = "elevation" /\ ~syncing[a]
    <3>1. StaticsInv'
      BY <1>0, <1>1, <2>1, <2>3 DEF StaticsInv, searchVars
    <3>2. ~disturbed' =>
            direction' = 1 /\ zero_speed_counter' = 0 /\ ~return_to_zero'
      BY <1>1, <2>1, <2>3 DEF StaticsInv, searchVars
    <3>3. SearchVisitsBothEnds'
      BY <3>2 DEF SearchVisitsBothEnds
    <3>4. PressInv'
      <4> SUFFICES ASSUME Pressing'
                   PROVE  HasOrder' /\ StoresMotion' /\ Told' /\ ToldInTick'
        BY DEF PressInv
      <4>1. zero_speed_counter' = 0
        BY <3>2 DEF Pressing, Searching
      <4> QED BY <2>1, <4>1 DEF HasOrder, StoresMotion, Told, ToldInTick, Late
    <3> QED BY <3>1, <3>3, <3>4 DEF SearchInv
  <2> QED BY <2>2, <2>3
<1>4. ASSUME NEW a \in Axis, Refuse(a) PROVE SearchInv'
  <2>1. /\ UNCHANGED <<searchVars, fast, disturbed, touched, skew, engineVars,
                       flagVars>>
        /\ pc' # "elevation_test"
    BY <1>2, <1>4 DEF Refuse, historyVars
  <2> QED BY <1>1, <2>1, QuietStep DEF engineVars, flagVars
<1>5. ASSUME NEW a \in Axis, NEW v, Cmd_pos(a, v) \/ Cmd_vel(a, v)
      PROVE  SearchInv'
  <2>1. /\ UNCHANGED <<searchVars, fast, disturbed, touched, skew, synced,
                       syncing, current_speed, eaxis, update>>
        /\ pc' # "elevation_test" /\ synced[a]
    BY <1>2, <1>5 DEF Cmd_pos, Cmd_vel, SetPosition, SetSpeed, Executing
  <2>2. CASE a = "elevation"
    <3>1. StaticsInv' /\ ~Searching'
      BY <1>1, <2>1, <2>2 DEF StaticsInv, Searching, searchVars
    <3> QED BY <3>1, NoSearch
  <2>3. CASE a # "elevation"
    <3>1. /\ order'["elevation"] = order["elevation"]
          /\ target_speed'["elevation"] = target_speed["elevation"]
      BY <1>0, <1>5, <2>3 DEF Cmd_pos, Cmd_vel, SetPosition, SetSpeed
    <3> QED BY <1>1, <2>1, <3>1, QuietStep
  <2> QED BY <2>2, <2>3
<1>6. ASSUME NEW b \in Bound, NEW v, Cmd_limit(b, v) PROVE SearchInv'
  <2>1. /\ UNCHANGED <<searchVars, fast, disturbed, touched, skew, engineVars,
                       flagVars>>
        /\ pc' # "elevation_test"
    BY <1>2, <1>6 DEF Cmd_limit, Executing
  <2> QED BY <1>1, <2>1, QuietStep DEF engineVars, flagVars
<1>7. CASE Cmd_reset
  <2>1. /\ UNCHANGED searchVars /\ ~syncing'["elevation"]
        /\ disturbed' = (disturbed \/ <<1, 0, FALSE>> #
                          <<direction, zero_speed_counter, return_to_zero>>)
    BY <1>0, <1>7 DEF Cmd_reset, Executing
  <2>2. ~disturbed' =>
          direction = 1 /\ zero_speed_counter = 0 /\ return_to_zero = FALSE
    BY <2>1
  <2>3. StaticsInv' /\ ~Searching'
    BY <1>1, <2>1, <2>2 DEF StaticsInv, Searching, searchVars
  <2> QED BY <2>3, NoSearch
<1> QED BY <1>3, <1>4, <1>5, <1>6, <1>7, ProtocolAssumption DEF Command

LEMMA SynchronizeSearch ==
  ASSUME TypeInv, StageInv, SearchInv, Synchronize, MaxVel("elevation") > 0
  PROVE  SearchInv'
<1>0. /\ synced \in [Axis -> BOOLEAN] /\ syncing \in [Axis -> BOOLEAN]
      /\ order \in [Axis -> {"none", "position", "speed"}]
      /\ target_speed \in [Axis -> Int]
      /\ "elevation" \in Axis /\ direction \in {-1, 1}
      /\ fast \in BOOLEAN /\ return_to_zero \in BOOLEAN
      /\ zero_speed_counter \in 0 .. 2
  <2>1. zero_speed_counter \in 0 .. ZERO_SPEED_LIMIT - 1
    BY DEF TypeInv, TypeOK, ControllerTypeOK
  <2>2. zero_speed_counter \in 0 .. 2
    BY <2>1 DEF ZERO_SPEED_LIMIT
  <2> QED BY <2>2 DEF TypeInv, TypeOK, EngineTypeOK, ControllerTypeOK, Axis
<1>1. StaticsInv /\ SearchVisitsBothEnds /\ PressInv
  BY DEF SearchInv
<1>2. CASE AzimuthDone \/ AzimuthBegin \/ AzimuthTest
  <2>1. /\ UNCHANGED <<searchVars, fast, disturbed, touched, skew,
                       current_speed, eaxis, update>>
        /\ InTick /\ pc' # "elevation_test"
    BY <1>2 DEF AzimuthDone, AzimuthBegin, AzimuthTest, Synchronized,
                SetPosition, SetSpeed, SyncFrame, historyVars, engineVars,
                AfterAzimuth, InTick
  <2>2. /\ syncing'["elevation"] = syncing["elevation"]
        /\ synced'["elevation"] = synced["elevation"]
    BY <1>0, <1>2 DEF AzimuthDone, AzimuthBegin, AzimuthTest, Synchronized,
                      Becomes
  <2>3. /\ order'["elevation"] = order["elevation"]
        /\ target_speed'["elevation"] = target_speed["elevation"]
    BY <1>0, <1>2 DEF AzimuthDone, AzimuthBegin, AzimuthTest, Synchronized,
                      SetPosition, SetSpeed, engineVars
  <2> QED BY <2>1, <2>2, <2>3, QuietStep
<1>3. CASE ElevationDone
  <2>1. /\ ~syncing'["elevation"] /\ direction' = 1
        /\ zero_speed_counter' = 0 /\ ~return_to_zero'
    BY <1>0, <1>3 DEF ElevationDone, Synchronized
  <2>2. StaticsInv' /\ ~Searching'
    BY <2>1 DEF StaticsInv, Searching
  <2> QED BY <2>2, NoSearch
<1>4. CASE ElevationBegin
  <2>1. /\ UNCHANGED <<searchVars, fast, disturbed, touched, skew, synced,
                       syncing, current_speed, eaxis, update>>
        /\ pc = "elevation_sync" /\ pc' = "elevation_test"
    BY <1>4 DEF ElevationBegin, SetPosition, SetSpeed, SyncFrame, historyVars
  <2>2. StaticsInv' /\ SearchVisitsBothEnds'
    BY <1>1, <2>1 DEF StaticsInv, SearchVisitsBothEnds, searchVars
  <2>3. SUFFICES ASSUME Pressing'
                 PROVE  HasOrder' /\ StoresMotion' /\ Told' /\ ToldInTick'
    BY <2>2 DEF SearchInv, PressInv
  <2>4. Pressing /\ SearchVel' = SearchVel
    BY <2>1, <2>3 DEF Pressing, Searching, End, SearchVel, searchVars
  <2>5. StoresMotion /\ Told /\ ToldInTick
    BY <1>1, <2>4 DEF PressInv
  <2>6. HasOrder'
    <3>1. SetSpeed("elevation", SearchVel)
      BY <1>4, <2>4 DEF ElevationBegin, Pressing, SearchVel
    <3>2. ClampSpeed(SearchVel, MAX_SPEED["elevation"]) = SearchVel
      BY <1>0, SearchSpeedKept DEF SearchVel
    <3>3. /\ order'["elevation"] = "speed"
          /\ target_speed'["elevation"] = SearchVel
      BY <1>0, <3>1, <3>2 DEF SetSpeed
    <3> QED BY <2>4, <3>3 DEF HasOrder
  <2>7. Late' = Late /\ InTick /\ InTick'
    BY <2>1 DEF Late, InTick, searchVars
  <2>8. StoresMotion' /\ Told' /\ ToldInTick'
    BY <2>1, <2>4, <2>5, <2>7 DEF StoresMotion, Told, ToldInTick, searchVars
  <2> QED BY <2>6, <2>8
<1>5. CASE ElevationAtZero
  <2>1. /\ UNCHANGED <<searchVars, fast, disturbed, touched, skew, syncing,
                       engineVars>>
        /\ pc' = "ends"
    BY <1>5 DEF ElevationAtZero, SyncFrame, historyVars
  <2>2. CASE synced'["elevation"] = synced["elevation"]
    BY <2>1, <2>2, QuietStep DEF engineVars, InTick
  <2>3. CASE synced'["elevation"]
    <3>1. StaticsInv' /\ ~Searching'
      BY <1>1, <2>1, <2>3 DEF StaticsInv, Searching, searchVars
    <3> QED BY <3>1, NoSearch
  <2> QED BY <1>0, <1>5, <2>2, <2>3 DEF ElevationAtZero, Becomes
<1>6. CASE ElevationSearch
  <2>1. /\ UNCHANGED <<fast, disturbed, touched, skew, synced, syncing,
                       engineVars>>
        /\ syncing["elevation"] /\ ~synced["elevation"]
        /\ pc = "elevation_test" /\ pc' = "ends"
        /\ ~fast /\ ~return_to_zero
    BY <1>6 DEF ElevationSearch, SyncFrame, historyVars, StageInv
  <2>2. \/ /\ current_speed["elevation"] # 0 /\ zero_speed_counter' = 0
           /\ direction' = direction /\ return_to_zero' = FALSE
        \/ /\ current_speed["elevation"] = 0 /\ zero_speed_counter < 2
           /\ zero_speed_counter' = zero_speed_counter + 1
           /\ direction' = direction /\ return_to_zero' = FALSE
        \/ /\ current_speed["elevation"] = 0 /\ zero_speed_counter = 2
           /\ zero_speed_counter' = 0
           /\ direction' = -1 /\ return_to_zero' = (direction < 0)
    BY <1>0, <1>6 DEF ElevationSearch, ZERO_SPEED_LIMIT
  <2>3. StaticsInv'
    BY <1>0, <2>1, <2>2 DEF StaticsInv
  <2>4. CASE disturbed
    BY <2>1, <2>3, <2>4, NoSearch DEF Searching
  <2>5. CASE ~disturbed
    <3>1. direction < 0 => "max" \in touched
      BY <1>1, <2>1, <2>5 DEF SearchVisitsBothEnds
    <3>2. End \notin touched => HasOrder /\ StoresMotion /\ Told /\ ToldInTick
      BY <1>1, <2>1, <2>5 DEF PressInv, Pressing, Searching
    <3>3. SearchVel \in Int /\ SearchVel # 0
      BY <1>0, MaxVelNat DEF SearchVel
    <3>4. /\ current_speed["elevation"] = 0 /\ zero_speed_counter = 2
            => End \in touched
      BY <2>1, <3>2, <3>3 DEF ToldInTick, InTick
    <3>5. SearchVisitsBothEnds'
      <4>1. CASE direction' = direction /\ return_to_zero' = FALSE
        BY <2>1, <3>1, <4>1 DEF SearchVisitsBothEnds
      <4>2. CASE /\ direction' = -1 /\ return_to_zero' = (direction < 0)
                 /\ End \in touched
        <5>1. "max" \in touched /\ (direction < 0 => "min" \in touched)
          BY <1>0, <3>1, <4>2 DEF End
        <5>2. touched \subseteq Bound
          BY DEF TypeInv, TypeOK, ControllerTypeOK
        <5>3. direction < 0 => touched = Bound
          BY <5>1, <5>2 DEF Bound
        <5> QED BY <2>1, <4>2, <5>1, <5>3 DEF SearchVisitsBothEnds
      <4> QED BY <2>2, <3>4, <4>1, <4>2
    <3>6. PressInv'
      <4>1. ToldInTick' /\ (Late' => zero_speed_counter' = 2)
        BY <2>1 DEF ToldInTick, InTick, Late
      <4>2. CASE zero_speed_counter' = 0
        BY <2>1, <4>1, <4>2
           DEF PressInv, HasOrder, StoresMotion, Told
      <4>3. CASE /\ current_speed["elevation"] = 0 /\ zero_speed_counter < 2
                 /\ zero_speed_counter' = zero_speed_counter + 1
                 /\ direction' = direction
        <5> SUFFICES ASSUME Pressing'
                     PROVE  HasOrder' /\ StoresMotion' /\ Told'
          BY <4>1 DEF PressInv
        <5>1. SearchVel' = SearchVel /\ End \notin touched
          BY <2>1, <4>3 DEF Pressing, End, SearchVel
        <5>2. HasOrder'
          BY <2>1, <3>2, <5>1 DEF HasOrder, engineVars
        <5>3. Late' => Late /\ zero_speed_counter = 1
          BY <1>0, <2>1, <4>1, <4>3 DEF Late, InTick
        <5>4. StoresMotion' /\ Told'
          BY <2>1, <3>2, <5>1, <5>3 DEF StoresMotion, Told, engineVars
        <5> QED BY <5>2, <5>4
      <4> QED BY <2>2, <4>2, <4>3
    <3> QED BY <2>3, <3>5, <3>6 DEF SearchInv
  <2> QED BY <2>4, <2>5
<1> QED BY <1>2, <1>3, <1>4, <1>5, <1>6 DEF Synchronize

(* The elevation turns back at the upper limit and returns from the lower  *)
(* one, for any limits, speeds and commands, when the engine ends a pass   *)
(* between two ticks (protocol_mso2.cpp:491-541).                          *)
THEOREM SearchReachesBothEnds ==
  ASSUME TicksPerPass = 1, MaxVel("elevation") > 0
  PROVE  Spec => []SearchVisitsBothEnds
<1> DEFINE Inv == TypeInv /\ StageInv /\ SearchInv
<1>1. Init => Inv
  BY InitOrder, InitSearch DEF OrderInv
<1>2. Inv /\ [Next]_vars => Inv'
  <2> SUFFICES ASSUME TypeInv, StageInv, SearchInv, [Next]_vars PROVE Inv'
    OBVIOUS
  <2>1. TypeInv' /\ StageInv'
    BY EngineType, ProtocolType, StutterType, StageStep DEF Next
  <2>2. ASSUME NoCommand \/ FinishTick \/ UNCHANGED vars
        PROVE  SearchInv'
    <3>1. /\ UNCHANGED <<searchVars, fast, disturbed, touched, skew,
                         engineVars, synced, syncing>>
          /\ pc' = "elevation_test" => pc = "elevation_test"
          /\ InTick' => InTick
      BY <2>2 DEF NoCommand, FinishTick, Stage, flagVars, historyVars, vars,
                  InTick
    <3>2. UNCHANGED <<order, target_speed, current_speed, eaxis, update>>
      BY <3>1 DEF engineVars
    <3> QED BY <3>1, <3>2, QuietStep
  <2>3. SearchInv'
    BY <2>2, PlanSearch, StoreSearch, SampleSearch, CommandSearch,
       SynchronizeSearch
       DEF Next, EngineNext, ProtocolNext
  <2> QED BY <2>1, <2>3
<1>3. Inv => SearchVisitsBothEnds
  BY DEF SearchInv
<1> QED BY <1>1, <1>2, <1>3, PTL DEF Spec

-----------------------------------------------------------------------------
(* Ends of moves.  The engine keeps an axis where it is when that is the   *)
(* place it is ordered to, so what a tick has sampled is still so.         *)
LEMMA ArrivalStep ==
  ASSUME OrderInv, ArrivalLasts, [Next]_vars
  PROVE  ArrivalLasts'
<1>0. /\ current_position \in [Axis -> Int]
      /\ order \in [Axis -> {"none", "position", "speed"}]
      /\ eaxis \in Axis /\ OpenOrderOwnsAxis
  BY DEF OrderInv, TypeInv, TypeOK, EngineTypeOK
<1>1. CASE PlanUpdate
  <2> SUFFICES ASSUME pc = "command", NEW a \in Axis, positioning[a],
                      target_position[a] = positioning_target[a],
                      sampled[a] = positioning_target[a]
               PROVE  /\ current_position[a] = sampled[a]
                      /\ eaxis = a => update'.pos = sampled[a]
    BY <1>1 DEF PlanUpdate, ArrivalLasts, flagVars
  <2>1. current_position[a] = sampled[a] /\ order[a] \in {"none", "position"}
    BY <1>0 DEF ArrivalLasts, OpenOrderOwnsAxis
  <2>2. ASSUME eaxis = a PROVE update'.pos = sampled[a]
    <3>1. CASE order[a] = "position"
      <4>1. update' = PositionUpdate(a)
        BY <1>1, <2>2, <3>1 DEF PlanUpdate
      <4>2. PositionUpdate(a).pos = current_position[a]
        BY <2>1 DEF PositionUpdate
      <4> QED BY <2>1, <4>1, <4>2
    <3>2. CASE order[a] = "none"
      BY <1>1, <2>1, <2>2, <3>2 DEF PlanUpdate
    <3> QED BY <2>1, <3>1, <3>2
  <2> QED BY <2>1, <2>2
<1>2. CASE StoreUpdate
  <2>1. /\ UNCHANGED <<pc, positioning, positioning_target, target_position,
                       sampled>>
        /\ update' = NoUpdate /\ update # NoUpdate
        /\ current_position' = [current_position EXCEPT ![eaxis] = update.pos]
    BY <1>2 DEF StoreUpdate, flagVars
  <2> QED BY <1>0, <2>1 DEF ArrivalLasts
<1>3. CASE Sample
  BY <1>3 DEF Sample, ArrivalLasts, engineVars
<1>4. CASE pc' # "command"
  BY <1>4 DEF ArrivalLasts
<1>5. CASE UNCHANGED vars
  BY <1>5 DEF vars, engineVars, flagVars, ArrivalLasts
<1>6. ASSUME Command \/ NoCommand PROVE pc' # "command"
  <2>1. Stage # "command" /\ Stage' # "command"
    BY DEF Stage
  <2>2. pc' \in {Stage, Stage'}
    BY <1>6 DEF Command, NoCommand, Cmd_syn, Refuse, Cmd_pos, Cmd_vel,
                Cmd_limit, Cmd_reset
  <2> QED BY <2>1, <2>2
<1>7. ASSUME Synchronize \/ FinishTick PROVE pc' # "command"
  BY <1>7
  DEF Synchronize, AzimuthDone, AzimuthBegin, AzimuthTest, ElevationDone,
      ElevationBegin, ElevationAtZero, ElevationSearch, AfterAzimuth,
      FinishTick
<1> QED BY <1>1, <1>2, <1>3, <1>4, <1>5, <1>6, <1>7
        DEF Next, EngineNext, ProtocolNext

(* An axis sampled at the target of its open order rests there, for any    *)
(* timing of the threads and any limits; only an order of the same tick    *)
(* can be announced ended of an axis that is elsewhere.                    *)
THEOREM ArrivedAxisRests == Spec => []ArrivalLasts
<1>1. Init => ArrivalLasts
  BY DEF Init, ArrivalLasts
<1> QED BY <1>1, ArrivalStep, OrderInvariant, PTL DEF Spec
=============================================================================
