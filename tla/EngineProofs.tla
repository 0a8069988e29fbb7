---------------------------- MODULE EngineProofs ----------------------------
(***************************************************************************)
(* Theorems about Engine for every value of its constants.                 *)
(***************************************************************************)
EXTENDS Engine, AxisProofs

-----------------------------------------------------------------------------
(* Type correctness.                                                       *)

LEMMA InitType == Init => TypeOK
<1> SUFFICES ASSUME Init PROVE TypeOK
  OBVIOUS
<1>1. 0 \in 0 .. MAX_AZIMUTH - 1
  BY UnitsAssumption
<1> QED BY <1>1, UnitsAssumption
     DEF Init, TypeOK, Axis, Bound, EnginePC, ControllerPC, Command,
         HARD_LIMIT_MIN_ELEVATION, HARD_LIMIT_MAX_ELEVATION

LEMMA EngineType == TypeOK /\ EngineNext => TypeOK'
<1> SUFFICES ASSUME TypeOK, EngineNext PROVE TypeOK'
  OBVIOUS
<1> USE DEF TypeOK, EngineAt, Keep, axisVars, ctrlVars, EnginePC
<1>1. CASE TestStop
  BY <1>1 DEF TestStop
<1>2. CASE LeaveLoop
  BY <1>2 DEF LeaveLoop
<1>3. CASE LoadPositionMode
  BY <1>3 DEF LoadPositionMode
<1>4. CASE LoadSpeedMode
  BY <1>4 DEF LoadSpeedMode
<1>5. CASE Rest
  BY <1>5 DEF Rest, FinishAxis, Axis, Bound
<1>6. CASE Compare
  BY <1>6 DEF Compare
<1>7. CASE Arrived
  BY <1>7 DEF Arrived, FinishAxis, Axis, Bound
<1>8. CASE Plan
  <2>1. /\ goal' \in Int
        /\ new_position' \in Int
    BY <1>8, NextPositionInt DEF Plan
  <2> QED BY <1>8, <2>1 DEF Plan
<1>9. CASE Report
  <2> DEFINE d == NextPosition(axis, current_position[axis], goal).dir
  <2>1. d \in {-1, 0, 1}
    BY NextPositionInt
  <2>2. MAX_SPEED[axis] * d \in Int
    BY <2>1, AxisAssumption
  <2>3. Mso_EpsToVel(MAX_SPEED[axis] * d) \in Int
    BY <2>2, VelConversionsInt
  <2> QED BY <1>9, <2>3 DEF Report
<1>10. CASE LoadSpeed
  <2>1. new_position' \in Int
    BY <1>10, SpeedStepInt DEF LoadSpeed
  <2> QED BY <1>10, <2>1 DEF LoadSpeed
<1>11. CASE LimitTest
  BY <1>11 DEF LimitTest, NextBound, Bound
<1>12. CASE LimitTake
  BY <1>12 DEF LimitTake
<1>13. CASE LimitCancel
  BY <1>13 DEF LimitCancel
<1>14. CASE LimitZero
  BY <1>14 DEF LimitZero, NextBound, Bound
<1>15. CASE ClampTest
  BY <1>15 DEF ClampTest, NextBound, Bound
<1>16. CASE ClampTake
  BY <1>16 DEF ClampTake, NextBound, Bound
<1>17. CASE StorePosition
  <2>1. current_position' \in [Axis -> Int]
    BY <1>17, MsoAzimuthInTurn DEF StorePosition
  <2> QED BY <1>17, <2>1 DEF StorePosition, FinishAxis, Axis, Bound
<1> QED
  BY <1>1, <1>2, <1>3, <1>4, <1>5, <1>6, <1>7, <1>8, <1>9, <1>10, <1>11,
     <1>12, <1>13, <1>14, <1>15, <1>16, <1>17 DEF EngineNext

LEMMA ValidatorType ==
  ASSUME TypeOK, NEW a \in Axis, NEW v \in Int
  PROVE  /\ PositionValueValidator(a, v) \in Int
         /\ a = "azimuth" =>
              PositionValueValidator(a, v) \in 0 .. MAX_AZIMUTH - 1
<1>1. CASE a = "azimuth"
  BY <1>1, MsoAzimuthInTurn DEF PositionValueValidator
<1>2. CASE a # "azimuth"
  BY <1>2 DEF PositionValueValidator, Mso_Elevation, Lesser, Greater, TypeOK,
              Bound
<1> QED BY <1>1, <1>2

LEMMA ControllerType == TypeOK /\ ControllerNext => TypeOK'
<1> SUFFICES ASSUME TypeOK, ControllerNext PROVE TypeOK'
  OBVIOUS
<1> USE DEF TypeOK, ControllerAt, axisVars, engineVars, ControllerPC
<1>1. CASE Start
  BY <1>1 DEF Start, RaiseStop
<1>2. CASE Stop
  BY <1>2 DEF Stop, RaiseStop
<1>3. ASSUME NEW a \in Axis, NEW v \in PositionCommands[a],
             SetAxisPosition(a, v)
      PROVE  TypeOK'
  <2>1. v \in Int
    BY EngineAssumption
  <2>2. /\ target_position' \in [Axis -> Int]
        /\ target_position'["azimuth"] \in 0 .. MAX_AZIMUTH - 1
    BY <1>3, <2>1, ValidatorType DEF SetAxisPosition
  <2> QED BY <1>3, <2>2 DEF SetAxisPosition, Command
<1>4. ASSUME NEW a \in Axis, NEW v \in SpeedCommands[a], SetAxisSpeed(a, v)
      PROVE  TypeOK'
  <2>1. v \in INT_MIN .. IntHalf - 1 /\ MAX_SPEED[a] \in Nat
    BY EngineAssumption, AxisAssumption
  <2>2. target_speed' \in [Axis -> Int]
    BY <1>4, <2>1, ClampSpeedInt DEF SetAxisSpeed
  <2> QED BY <1>4, <2>2 DEF SetAxisSpeed, Command
<1>5. ASSUME NEW v \in LimitCommands, ChangeLimit(v)
      PROVE  TypeOK'
  BY <1>5, EngineAssumption DEF ChangeLimit, Cmd_e_smin, Cmd_e_smax
<1>6. CASE Joined
  BY <1>6 DEF Joined
<1>7. CASE Spawn
  BY <1>7 DEF Spawn, EnginePC, Axis, Command
<1>8. CASE PositionCancelSpeed
  BY <1>8 DEF PositionCancelSpeed
<1>9. CASE PositionEnable
  BY <1>9 DEF PositionEnable, Axis
<1>10. CASE SpeedEnable
  BY <1>10 DEF SpeedEnable
<1>11. CASE SpeedCancelPosition
  BY <1>11 DEF SpeedCancelPosition, Axis
<1> QED
  BY <1>1, <1>2, <1>3, <1>4, <1>5, <1>6, <1>7, <1>8, <1>9, <1>10, <1>11
  DEF ControllerNext, FinishCommand

LEMMA StutterType == TypeOK /\ UNCHANGED vars => TypeOK'
BY DEF TypeOK, vars, axisVars, engineVars, ctrlVars

(* Every variable keeps its type, for any commands, speeds and limits.     *)
THEOREM TypeCorrect == Spec => []TypeOK
<1>1. TypeOK /\ [Next]_vars => TypeOK'
  BY EngineType, ControllerType, StutterType DEF Next
<1> QED BY InitType, <1>1, PTL DEF Spec

-----------------------------------------------------------------------------
(* Positions.  The engine tests and takes the limits one load at a time    *)
(* while the operator moves them, so what must be carried from load to     *)
(* load is only what no limit change can undo: the limits stay inside the  *)
(* hard ones, on their sides of the zero, and a position that has passed   *)
(* the lower test is not below the lower hard limit.                       *)

LimitsInHard ==
  /\ limit["min"] \in HARD_LIMIT_MIN_ELEVATION .. ZERO_ELEVATION
  /\ limit["max"] \in ZERO_ELEVATION .. HARD_LIMIT_MAX_ELEVATION

Bounding == {"limit_test", "limit_take", "limit_cancel", "limit_zero",
             "clamp_test", "clamp_take"}

ClampProgress ==
  /\ bound = "max" => epc \in Bounding
  /\ axis = "elevation" /\ epc = "clamp_test" /\ bound = "max" =>
       new_position >= HARD_LIMIT_MIN_ELEVATION
  /\ axis = "elevation" /\ epc = "store" =>
       new_position \in HARD_LIMIT_MIN_ELEVATION .. HARD_LIMIT_MAX_ELEVATION

TravelInv == TypeOK /\ LimitsInHard /\ ClampProgress /\ PositionInTravel

LEMMA HardLimits ==
  /\ HARD_LIMIT_MIN_ELEVATION \in Int /\ HARD_LIMIT_MAX_ELEVATION \in Int
  /\ HARD_LIMIT_MIN_ELEVATION <= ZERO_ELEVATION
  /\ ZERO_ELEVATION <= HARD_LIMIT_MAX_ELEVATION
BY UnitsAssumption DEF HARD_LIMIT_MIN_ELEVATION, HARD_LIMIT_MAX_ELEVATION

LEMMA InitTravel == Init => TravelInv
<1> SUFFICES ASSUME Init PROVE TravelInv
  OBVIOUS
<1>1. 0 \in 0 .. MAX_AZIMUTH - 1
  BY UnitsAssumption
<1> QED BY <1>1, InitType, HardLimits, UnitsAssumption
     DEF Init, TravelInv, LimitsInHard, ClampProgress, PositionInTravel, Axis,
         Bound

LEMMA EngineTravel == TravelInv /\ EngineNext => TravelInv'
<1> SUFFICES ASSUME TravelInv, EngineNext PROVE TravelInv'
  OBVIOUS
<1>0. TypeOK /\ TypeOK'
  BY EngineType DEF TravelInv
<1>a. LimitsInHard'
  BY DEF EngineNext, TravelInv, LimitsInHard, EngineAt, ctrlVars, TestStop,
         LeaveLoop, LoadPositionMode, LoadSpeedMode, Rest, Compare, Arrived,
         Plan, Report, LoadSpeed, LimitTest, LimitTake, LimitCancel,
         LimitZero, ClampTest, ClampTake, StorePosition
<1>b. CASE StorePosition
  <2>1. PositionInTravel'
    BY <1>b, <1>0, MsoAzimuthInTurn
    DEF StorePosition, EngineAt, TravelInv, TypeOK, Axis, PositionInTravel,
        ClampProgress
  <2>2. ClampProgress'
    BY <1>b DEF StorePosition, FinishAxis, ClampProgress, Bounding
  <2> QED BY <1>0, <1>a, <2>1, <2>2 DEF TravelInv
<1>c. CASE ClampTest \/ ClampTake
  <2>1. PositionInTravel'
    BY <1>c DEF ClampTest, ClampTake, TravelInv, PositionInTravel, axisVars
  <2>2. ClampProgress'
    <3>1. CASE ClampTest /\ Beyond(bound)
      BY <3>1 DEF ClampTest, ClampProgress, Bounding
    <3>2. CASE ClampTest /\ ~Beyond(bound) /\ bound = "min"
      BY <3>2, <1>0, HardLimits
      DEF ClampTest, NextBound, Beyond, ClampProgress, Bounding, TravelInv,
          TypeOK, LimitsInHard, Bound
    <3>3. CASE ClampTest /\ ~Beyond(bound) /\ bound = "max"
      BY <3>3, <1>0, HardLimits
      DEF ClampTest, EngineAt, NextBound, Beyond, ClampProgress, Bounding,
          TravelInv, TypeOK, LimitsInHard, Bound
    <3>4. CASE ClampTake
      BY <3>4, <1>0, HardLimits, UnitsAssumption
      DEF ClampTake, NextBound, ClampProgress, Bounding, TravelInv, TypeOK,
          LimitsInHard, Bound
    <3> QED BY <1>c, <1>0, <3>1, <3>2, <3>3, <3>4 DEF TypeOK, Bound
  <2> QED BY <1>0, <1>a, <2>1, <2>2 DEF TravelInv
<1>d. CASE \/ TestStop \/ LeaveLoop \/ LoadPositionMode \/ LoadSpeedMode
           \/ Rest \/ Compare \/ Arrived \/ Plan \/ Report \/ LoadSpeed
           \/ LimitTest \/ LimitTake \/ LimitCancel \/ LimitZero
  <2>1. PositionInTravel'
    BY <1>d
    DEF TestStop, LeaveLoop, LoadPositionMode, LoadSpeedMode, Rest, Compare,
        Arrived, Plan, Report, LoadSpeed, LimitTest, LimitTake, LimitCancel,
        LimitZero, TravelInv, PositionInTravel, axisVars
  <2>2. ClampProgress'
    <3>1. CASE \/ TestStop \/ LeaveLoop \/ LoadPositionMode \/ LoadSpeedMode
               \/ Compare
      BY <3>1
      DEF TestStop, LeaveLoop, LoadPositionMode, LoadSpeedMode, Compare, Keep,
          EngineAt, TravelInv, ClampProgress, Bounding
    <3>2. CASE Rest \/ Arrived
      BY <3>2 DEF Rest, Arrived, FinishAxis, ClampProgress, Bounding
    <3>3. CASE Plan
      BY <3>3 DEF Plan, EngineAt, TravelInv, ClampProgress, Bounding
    <3>4. CASE Report \/ LoadSpeed
      BY <3>4, <1>0
      DEF Report, LoadSpeed, Keep, EngineAt, TravelInv, ClampProgress,
          Bounding, TypeOK, Axis
    <3>5. CASE LimitTest \/ LimitTake \/ LimitCancel \/ LimitZero
      BY <3>5, <1>0, HardLimits
      DEF LimitTest, LimitTake, LimitCancel, LimitZero, NextBound, EngineAt,
          Keep, TravelInv, ClampProgress, Bounding, TypeOK, Bound
    <3> QED BY <1>d, <3>1, <3>2, <3>3, <3>4, <3>5
  <2> QED BY <1>0, <1>a, <2>1, <2>2 DEF TravelInv
<1> QED BY <1>b, <1>c, <1>d DEF EngineNext

LEMMA ControllerTravel == TravelInv /\ ControllerNext => TravelInv'
<1> SUFFICES ASSUME TravelInv, ControllerNext PROVE TravelInv'
  OBVIOUS
<1>0. TypeOK /\ TypeOK'
  BY ControllerType DEF TravelInv
<1>1. PositionInTravel'
  BY DEF ControllerNext, FinishCommand, TravelInv, PositionInTravel, axisVars,
         Start, Stop, RaiseStop, Joined, Spawn, SetAxisPosition, SetAxisSpeed,
         ChangeLimit, PositionCancelSpeed, PositionEnable, SpeedEnable,
         SpeedCancelPosition
<1>2. ClampProgress'
  BY DEF ControllerNext, FinishCommand, TravelInv, ClampProgress, ControllerAt,
         engineVars, Start, Stop, RaiseStop, Joined, Spawn, SetAxisPosition,
         SetAxisSpeed, ChangeLimit, PositionCancelSpeed, PositionEnable,
         SpeedEnable, SpeedCancelPosition, Bounding
<1>3. LimitsInHard'
  <2>1. ASSUME NEW v \in LimitCommands, ChangeLimit(v)
        PROVE  LimitsInHard'
    BY <2>1, <1>0, EngineAssumption, HardLimits, UnitsAssumption
    DEF ChangeLimit, Cmd_e_smin, Cmd_e_smax, TravelInv, TypeOK, LimitsInHard,
        Bound
  <2>2. ASSUME UNCHANGED limit PROVE LimitsInHard'
    BY <2>2 DEF TravelInv, LimitsInHard
  <2>3. UNCHANGED limit \/ \E v \in LimitCommands : ChangeLimit(v)
    BY DEF ControllerNext, FinishCommand, Start, Stop, RaiseStop, Joined,
           Spawn, SetAxisPosition, SetAxisSpeed, PositionCancelSpeed,
           PositionEnable, SpeedEnable, SpeedCancelPosition
  <2> QED BY <2>1, <2>2, <2>3
<1> QED BY <1>0, <1>1, <1>2, <1>3 DEF TravelInv

LEMMA TravelStep == TravelInv /\ [Next]_vars => TravelInv'
BY EngineTravel, ControllerTravel, StutterType
DEF Next, TravelInv, LimitsInHard, ClampProgress, PositionInTravel, vars,
    axisVars, engineVars, ctrlVars

(* Only the store of a position ends the state that it is made in.         *)
LEMMA StoreEnds ==
  ASSUME Next, epc = "store", epc' # "store"
  PROVE  StorePosition
BY DEF Next, EngineNext, ControllerNext, FinishCommand, EngineAt,
       ControllerAt, engineVars, TestStop, LeaveLoop, LoadPositionMode,
       LoadSpeedMode, Rest, Compare, Arrived, Plan, Report, LoadSpeed,
       LimitTest, LimitTake, LimitCancel, LimitZero, ClampTest, ClampTake,
       Start, Stop, RaiseStop, Joined, Spawn, SetAxisPosition, SetAxisSpeed,
       ChangeLimit, PositionCancelSpeed, PositionEnable, SpeedEnable,
       SpeedCancelPosition

(* A reported position is always a position of the device.                 *)
THEOREM PositionsStayInTravel == Spec => []PositionInTravel
<1>1. TravelInv => PositionInTravel
  BY DEF TravelInv
<1> QED BY InitTravel, TravelStep, <1>1, PTL DEF Spec

-----------------------------------------------------------------------------
(* Speeds.  With the types this is inductive as it stands: both stores of  *)
(* current_speed are bounded by EpsToVelDirection and by the target speed. *)

SpeedInv == TypeOK /\ SpeedWithinMaximum

LEMMA EngineSpeed == SpeedInv /\ EngineNext => SpeedInv'
<1> SUFFICES ASSUME SpeedInv, EngineNext PROVE SpeedInv'
  OBVIOUS
<1>0. TypeOK /\ TypeOK'
  BY EngineType DEF SpeedInv
<1>z. \A a \in Axis : Abs(0) <= MaxVel(a)
  BY MaxVelNat DEF Abs
<1>1. CASE Report
  <2> DEFINE d == NextPosition(axis, current_position[axis], goal).dir
  <2>1. d \in {-1, 0, 1}
    BY <1>0, NextPositionInt DEF TypeOK
  <2>2. Abs(Mso_EpsToVel(MAX_SPEED[axis] * d)) <= MaxVel(axis)
    BY <1>0, <2>1, EpsToVelDirection, AxisAssumption DEF TypeOK, MaxVel
  <2> HIDE DEF d
  <2>3. /\ current_speed' = [current_speed EXCEPT ![axis] =
                                Mso_EpsToVel(MAX_SPEED[axis] * d)]
        /\ target_speed' = target_speed
    BY <1>1 DEF Report, d
  <2> QED BY <1>0, <2>2, <2>3 DEF SpeedInv, SpeedWithinMaximum, TypeOK
<1>2. CASE LoadSpeed
  BY <1>0, <1>2 DEF LoadSpeed, SpeedInv, SpeedWithinMaximum, TypeOK
<1>3. CASE Rest
  BY <1>0, <1>3, <1>z DEF Rest, SpeedInv, SpeedWithinMaximum, TypeOK
<1>4. CASE LimitZero
  BY <1>0, <1>4, <1>z DEF LimitZero, SpeedInv, SpeedWithinMaximum, TypeOK
<1>5. CASE LeaveLoop
  BY <1>0, <1>5, <1>z DEF LeaveLoop, SpeedInv, SpeedWithinMaximum, TypeOK
<1>6. CASE UNCHANGED <<current_speed, target_speed>>
  BY <1>0, <1>6 DEF SpeedInv, SpeedWithinMaximum
<1> QED
  BY <1>1, <1>2, <1>3, <1>4, <1>5, <1>6
  DEF EngineNext, TestStop, LoadPositionMode, LoadSpeedMode, Compare, Arrived,
      Plan, LimitTest, LimitTake, LimitCancel, ClampTest, ClampTake,
      StorePosition, axisVars

LEMMA ControllerSpeed == SpeedInv /\ ControllerNext => SpeedInv'
<1> SUFFICES ASSUME SpeedInv, ControllerNext PROVE SpeedInv'
  OBVIOUS
<1>0. TypeOK /\ TypeOK'
  BY ControllerType DEF SpeedInv
<1>1. ASSUME NEW a \in Axis, NEW v \in SpeedCommands[a], SetAxisSpeed(a, v)
      PROVE  SpeedInv'
  <2>1. v \in INT_MIN .. IntHalf - 1 /\ MAX_SPEED[a] \in Nat
    BY EngineAssumption, AxisAssumption
  <2>2. \/ Abs(ClampSpeed(v, MAX_SPEED[a])) <= MaxVel(a)
        \/ ClampSpeed(v, MAX_SPEED[a]) = INT_MIN /\ v = INT_MIN
    BY <2>1, ClampSpeedInt DEF MaxVel
  <2> QED BY <1>0, <1>1, <2>2
       DEF SetAxisSpeed, SpeedInv, SpeedWithinMaximum, TypeOK
<1>2. CASE UNCHANGED <<current_speed, target_speed>>
  BY <1>0, <1>2 DEF SpeedInv, SpeedWithinMaximum
<1>3. \/ UNCHANGED <<current_speed, target_speed>>
      \/ \E a \in Axis : \E v \in SpeedCommands[a] : SetAxisSpeed(a, v)
  BY DEF ControllerNext, FinishCommand, axisVars, Start, Stop, RaiseStop,
         Joined, Spawn, SetAxisPosition, ChangeLimit, PositionCancelSpeed,
         PositionEnable, SpeedEnable, SpeedCancelPosition
<1> QED BY <1>1, <1>2, <1>3

(* No speed above the maximum is ever ordered or reported, for any width   *)
(* of int and any commanded value, but INT_MIN when INT_MIN is commanded.  *)
THEOREM SpeedsBounded == Spec => []SpeedWithinMaximum
<1>1. Init => SpeedInv
  BY InitType, MaxVelNat DEF Init, SpeedInv, SpeedWithinMaximum, Abs
<1>2. SpeedInv /\ [Next]_vars => SpeedInv'
  <2>1. SpeedInv /\ UNCHANGED vars => SpeedInv'
    BY StutterType DEF SpeedInv, SpeedWithinMaximum, vars, axisVars
  <2> QED BY <2>1, EngineSpeed, ControllerSpeed DEF Next
<1>3. SpeedInv => SpeedWithinMaximum
  BY DEF SpeedInv
<1> QED BY <1>1, <1>2, <1>3, PTL DEF Spec

-----------------------------------------------------------------------------
(* Modes.  Between the controller's stores one mode is known to be down;   *)
(* the engine only ever takes modes down.                                  *)

ModeInv ==
  /\ TypeOK /\ OneMode
  /\ cpc = "position_enable" => ~move_by_speed[caxis]

LEMMA EngineMode == ModeInv /\ EngineNext => ModeInv'
<1> SUFFICES ASSUME ModeInv, EngineNext PROVE ModeInv'
  OBVIOUS
<1>0. TypeOK /\ TypeOK'
  BY EngineType DEF ModeInv
<1>1. UNCHANGED <<cpc, caxis>>
  BY DEF EngineNext, EngineAt, ctrlVars, TestStop, LeaveLoop,
         LoadPositionMode, LoadSpeedMode, Rest, Compare, Arrived, Plan, Report,
         LoadSpeed, LimitTest, LimitTake, LimitCancel, LimitZero, ClampTest,
         ClampTake, StorePosition
<1>2. \A a \in Axis : /\ move_by_position[a]' => move_by_position[a]
                      /\ move_by_speed[a]' => move_by_speed[a]
  <2>1. CASE LeaveLoop
    BY <2>1 DEF LeaveLoop
  <2>2. CASE Arrived
    BY <2>2, <1>0 DEF Arrived, TypeOK
  <2>3. CASE LimitCancel
    BY <2>3, <1>0 DEF LimitCancel, TypeOK
  <2>4. CASE UNCHANGED <<move_by_position, move_by_speed>>
    BY <2>4
  <2> QED
    BY <2>1, <2>2, <2>3, <2>4
    DEF EngineNext, axisVars, TestStop, LoadPositionMode, LoadSpeedMode, Rest,
        Compare, Plan, Report, LoadSpeed, LimitTest, LimitTake, LimitZero,
        ClampTest, ClampTake, StorePosition
<1> QED BY <1>0, <1>1, <1>2 DEF ModeInv, OneMode, TypeOK

LEMMA ControllerMode == ModeInv /\ ControllerNext => ModeInv'
<1> SUFFICES ASSUME ModeInv, ControllerNext PROVE ModeInv'
  OBVIOUS
<1>0. TypeOK /\ TypeOK'
  BY ControllerType DEF ModeInv
<1> USE DEF ModeInv, OneMode
<1>1. CASE PositionCancelSpeed
  BY <1>0, <1>1 DEF PositionCancelSpeed, ControllerAt, TypeOK
<1>2. CASE PositionEnable
  BY <1>0, <1>2 DEF PositionEnable, ControllerAt, TypeOK
<1>3. CASE SpeedEnable
  BY <1>0, <1>3 DEF SpeedEnable, ControllerAt, TypeOK
<1>4. CASE SpeedCancelPosition
  BY <1>0, <1>4 DEF SpeedCancelPosition, ControllerAt, TypeOK
<1>5. CASE /\ UNCHANGED <<move_by_position, move_by_speed>>
           /\ cpc # "speed_cancel_position" /\ cpc' # "position_enable"
  BY <1>0, <1>5
<1>6. ASSUME NEW a \in Axis, NEW v \in PositionCommands[a],
             SetAxisPosition(a, v)
      PROVE  ModeInv'
  BY <1>5, <1>6 DEF SetAxisPosition, ControllerAt
<1>7. ASSUME NEW a \in Axis, NEW v \in SpeedCommands[a], SetAxisSpeed(a, v)
      PROVE  ModeInv'
  BY <1>5, <1>7 DEF SetAxisSpeed, ControllerAt
<1>8. CASE \/ Start \/ Stop \/ Joined \/ Spawn
           \/ \E v \in LimitCommands : ChangeLimit(v)
  BY <1>5, <1>8 DEF Start, Stop, RaiseStop, Joined, Spawn, ChangeLimit,
                    ControllerAt, axisVars
<1> QED
  BY <1>1, <1>2, <1>3, <1>4, <1>6, <1>7, <1>8 DEF ControllerNext, FinishCommand

(* The two modes overlap only in the middle of SetAxisSpeed.               *)
THEOREM ModesExclude == Spec => []OneMode
<1>1. Init => ModeInv
  BY InitType DEF Init, ModeInv, OneMode
<1>2. ModeInv /\ [Next]_vars => ModeInv'
  <2>1. ModeInv /\ UNCHANGED vars => ModeInv'
    BY StutterType DEF ModeInv, OneMode, vars, axisVars, ctrlVars
  <2> QED BY <2>1, EngineMode, ControllerMode DEF Next
<1>3. ModeInv => OneMode
  BY DEF ModeInv
<1> QED BY <1>1, <1>2, <1>3, PTL DEF Spec

-----------------------------------------------------------------------------
(* Start, Stop and the orders.  ThreadInv says what the controller may be  *)
(* doing while there is no thread or the flag is up: never the middle of a *)
(* command, so nothing can set a mode after LeaveLoop has taken them down. *)
(* OrderInv follows an accepted command from the controller's stores to    *)
(* the engine's store of a position.                                       *)

MidCommand == {"position_cancel_speed", "position_enable", "speed_enable",
               "speed_cancel_position"}

Moving == {"compare", "arrived", "plan", "report", "load_speed", "limit_test",
           "limit_take", "limit_cancel", "limit_zero", "clamp_test",
           "clamp_take", "store"}

ThreadInv ==
  /\ cpc \in MidCommand => ~stop_flag /\ epc # "none"
  /\ cpc \in {"joining", "starting"} => stop_flag
  /\ cpc = "idle" /\ epc = "none" => stop_flag
  /\ cpc = "new" => epc = "none"

OrderInv ==
  /\ cpc \in MidCommand => accepted[caxis] # "none"
  /\ epc # "none" =>
       \A a \in Axis : accepted[a] = "none" =>
         /\ ~move_by_position[a] /\ ~move_by_speed[a]
         /\ ~(axis = a /\ epc \in Moving)

StopInv == TypeOK /\ ThreadInv /\ StoppedIsCleared /\ OrderInv

LEMMA EngineStop == StopInv /\ EngineNext => StopInv'
<1> SUFFICES ASSUME StopInv, EngineNext PROVE StopInv'
  OBVIOUS
<1>0. TypeOK /\ TypeOK'
  BY EngineType DEF StopInv
<1>1. UNCHANGED <<ctrlVars, stop_flag>>
  BY DEF EngineNext, EngineAt, TestStop, LeaveLoop,
         LoadPositionMode, LoadSpeedMode, Rest, Compare, Arrived, Plan, Report,
         LoadSpeed, LimitTest, LimitTake, LimitCancel, LimitZero, ClampTest,
         ClampTake, StorePosition
<1> USE DEF StopInv, ThreadInv, StoppedIsCleared, OrderInv, MidCommand, Moving,
            ctrlVars, axisVars
<1>2. CASE LeaveLoop
  BY <1>0, <1>1, <1>2 DEF LeaveLoop, EngineAt, Keep
<1>3. CASE TestStop
  BY <1>0, <1>1, <1>3 DEF TestStop, EngineAt
<1>4. CASE LoadPositionMode
  BY <1>0, <1>1, <1>4 DEF LoadPositionMode, EngineAt, Keep
<1>5. CASE LoadSpeedMode
  BY <1>0, <1>1, <1>5 DEF LoadSpeedMode, EngineAt, Keep
<1>6. CASE Rest
  BY <1>0, <1>1, <1>6 DEF Rest, EngineAt, FinishAxis
<1>7. CASE Compare
  BY <1>0, <1>1, <1>7 DEF Compare, EngineAt, Keep
<1>8. CASE Arrived
  BY <1>0, <1>1, <1>8 DEF Arrived, EngineAt, FinishAxis, TypeOK
<1>9. CASE Plan
  BY <1>0, <1>1, <1>9 DEF Plan, EngineAt
<1>10. CASE Report
  BY <1>0, <1>1, <1>10 DEF Report, EngineAt, Keep
<1>11. CASE LoadSpeed
  BY <1>0, <1>1, <1>11 DEF LoadSpeed, EngineAt
<1>12. CASE LimitTest
  BY <1>0, <1>1, <1>12 DEF LimitTest, EngineAt, NextBound
<1>13. CASE LimitTake
  BY <1>0, <1>1, <1>13 DEF LimitTake, EngineAt
<1>14. CASE LimitCancel
  BY <1>0, <1>1, <1>14 DEF LimitCancel, EngineAt, Keep, TypeOK
<1>15. CASE LimitZero
  BY <1>0, <1>1, <1>15 DEF LimitZero, EngineAt, NextBound
<1>16. CASE ClampTest
  BY <1>0, <1>1, <1>16 DEF ClampTest, EngineAt, NextBound
<1>17. CASE ClampTake
  BY <1>0, <1>1, <1>17 DEF ClampTake, EngineAt, NextBound
<1>18. CASE StorePosition
  BY <1>0, <1>1, <1>18 DEF StorePosition, EngineAt, FinishAxis
<1> QED
  BY <1>2, <1>3, <1>4, <1>5, <1>6, <1>7, <1>8, <1>9, <1>10, <1>11,
     <1>12, <1>13, <1>14, <1>15, <1>16, <1>17, <1>18 DEF EngineNext

LEMMA ControllerStop == StopInv /\ ControllerNext => StopInv'
<1> SUFFICES ASSUME StopInv, ControllerNext PROVE StopInv'
  OBVIOUS
<1>0. TypeOK /\ TypeOK'
  BY ControllerType DEF StopInv
<1> USE DEF StopInv, ThreadInv, StoppedIsCleared, OrderInv, MidCommand, Moving,
            ControllerAt, engineVars, axisVars
<1>1. CASE Start \/ Stop
  BY <1>0, <1>1 DEF Start, Stop, RaiseStop
<1>2. CASE Joined
  BY <1>0, <1>2 DEF Joined
<1>3. CASE Spawn
  BY <1>0, <1>3 DEF Spawn
<1>4. ASSUME NEW a \in Axis, NEW v \in PositionCommands[a],
             SetAxisPosition(a, v)
      PROVE  StopInv'
  BY <1>0, <1>4 DEF SetAxisPosition, TypeOK
<1>5. ASSUME NEW a \in Axis, NEW v \in SpeedCommands[a], SetAxisSpeed(a, v)
      PROVE  StopInv'
  BY <1>0, <1>5 DEF SetAxisSpeed, TypeOK
<1>6. ASSUME NEW v \in LimitCommands, ChangeLimit(v)
      PROVE  StopInv'
  BY <1>0, <1>6 DEF ChangeLimit
<1>7. CASE PositionCancelSpeed
  BY <1>0, <1>7 DEF PositionCancelSpeed, TypeOK
<1>8. CASE PositionEnable
  BY <1>0, <1>8 DEF PositionEnable, TypeOK
<1>9. CASE SpeedEnable
  BY <1>0, <1>9 DEF SpeedEnable, TypeOK
<1>10. CASE SpeedCancelPosition
  BY <1>0, <1>10 DEF SpeedCancelPosition, TypeOK
<1> QED
  BY <1>1, <1>2, <1>3, <1>4, <1>5, <1>6, <1>7, <1>8, <1>9, <1>10
  DEF ControllerNext, FinishCommand

LEMMA StopInvariant == Spec => []StopInv
<1>1. Init => StopInv
  BY InitType
  DEF Init, StopInv, ThreadInv, StoppedIsCleared, OrderInv, MidCommand
<1>2. StopInv /\ [Next]_vars => StopInv'
  <2>1. StopInv /\ UNCHANGED vars => StopInv'
    BY StutterType
    DEF StopInv, ThreadInv, StoppedIsCleared, OrderInv, vars, axisVars,
        engineVars, ctrlVars
  <2> QED BY <2>1, EngineStop, ControllerStop DEF Next
<1> QED BY <1>1, <1>2, PTL DEF Spec

(* Stop leaves no order behind.                                            *)
THEOREM StopClears == Spec => []StoppedIsCleared
<1>1. StopInv => StoppedIsCleared
  BY DEF StopInv
<1> QED BY <1>1, StopInvariant, PTL

(* An axis moves only on a command accepted since the last Start.          *)
THEOREM MotionNeedsCommand == Spec => NoMotionWithoutCommand
<1> DEFINE A == \A a \in Axis : current_position'[a] # current_position[a] =>
                                  accepted[a] # "none"
<1>1. StopInv /\ [Next]_vars => A
  <2> SUFFICES ASSUME StopInv, [Next]_vars PROVE A
    OBVIOUS
  <2>1. CASE StorePosition
    BY <2>1
    DEF StorePosition, EngineAt, StopInv, TypeOK, OrderInv, Moving
  <2>2. CASE UNCHANGED current_position
    BY <2>2
  <2>3. StorePosition \/ UNCHANGED current_position
    BY DEF Next, EngineNext, ControllerNext, FinishCommand, vars, axisVars,
           TestStop, LeaveLoop, LoadPositionMode, LoadSpeedMode, Rest, Compare,
           Arrived, Plan, Report, LoadSpeed, LimitTest, LimitTake, LimitCancel,
           LimitZero, ClampTest, ClampTake, Start, Stop, RaiseStop, Joined,
           Spawn, SetAxisPosition, SetAxisSpeed, ChangeLimit,
           PositionCancelSpeed, PositionEnable, SpeedEnable,
           SpeedCancelPosition
  <2> QED BY <2>1, <2>2, <2>3
<1>2. StopInv /\ [Next]_vars => [A]_vars
  BY <1>1
<1> QED BY <1>2, StopInvariant, PTL DEF Spec, NoMotionWithoutCommand

-----------------------------------------------------------------------------
(* The short path.  The engine unrolls the circle on the side it has to    *)
(* cross; ArcShrinks shows that after the validator has rolled it up again *)
(* the arc left is the arc there was less one step.                        *)

LEMMA RollUp ==
  ASSUME NEW v \in 0 .. 2 * MAX_AZIMUTH - 1
  PROVE  Mso_Azimuth(v) = IF v < MAX_AZIMUTH THEN v ELSE v - MAX_AZIMUTH
<1>1. PICK m \in Nat \ {0} : m = MAX_AZIMUTH
  BY UnitsAssumption
<1>2. CASE v < m
  BY <1>1, <1>2 DEF Mso_Azimuth
<1>3. CASE v >= m
  <2>1. v - m \in 0 .. m - 1
    BY <1>1, <1>3
  <2>2. ((v - m) + m) % m = (v - m) % m
    BY <1>1, <2>1
  <2> QED BY <1>1, <1>3, <2>1, <2>2 DEF Mso_Azimuth
<1> QED BY <1>1, <1>2, <1>3

LEMMA ArcOf ==
  ASSUME NEW m \in Nat \ {0}, m = MAX_AZIMUTH,
         NEW p \in 0 .. m - 1, NEW t \in 0 .. m - 1,
         NEW r \in Nat, 2 * r <= m,
         \/ p - t = r \/ t - p = r \/ p - t = m - r \/ t - p = m - r
  PROVE  ArcDistance(p, t) = r
BY DEF ArcDistance, Abs, Lesser

LEMMA ArcShrinks ==
  ASSUME NEW c \in 0 .. MAX_AZIMUTH - 1, NEW t \in 0 .. MAX_AZIMUTH - 1, c # t
  PROVE  ArcDistance(Mso_Azimuth(NextPosition("azimuth", c, t).pos), t) =
           Greater(0, ArcDistance(c, t) - MaxStep("azimuth"))
<1> DEFINE pos == NextPosition("azimuth", c, t).pos
<1>1. PICK m \in Nat \ {0} : m = MAX_AZIMUTH
  BY UnitsAssumption
<1>2. PICK s \in Nat : s = MaxStep("azimuth")
  BY MaxStepNat DEF Axis
<1>3. PICK h \in Nat : h = m \div 2 /\ 2 * h <= m /\ m <= 2 * h + 1
  BY <1>1
<1>4. CASE c < t /\ t - c <= h
  <2>1. pos = Lesser(c + s, t)
    BY <1>1, <1>2, <1>3, <1>4 DEF NextPosition, Sign, Abs
  <2>2. PICK r \in Nat : r = t - pos /\ r = Greater(0, (t - c) - s) /\ r <= t - c
    BY <1>1, <1>2, <1>4, <2>1 DEF Lesser, Greater
  <2> HIDE DEF pos
  <2>3. pos \in 0 .. m - 1 /\ Mso_Azimuth(pos) = pos
    BY <1>1, <1>4, <2>1, <1>2, RollUp DEF Lesser
  <2>4. ArcDistance(c, t) = t - c
    BY <1>1, <1>3, <1>4, ArcOf
  <2>5. ArcDistance(pos, t) = r
    BY <1>1, <1>3, <1>4, <2>2, <2>3, ArcOf
  <2> QED BY <2>2, <2>3, <2>4, <2>5, <1>2 DEF pos
<1>5. CASE t < c /\ c - t <= h
  <2>1. pos = Greater(c - s, t)
    BY <1>1, <1>2, <1>3, <1>5 DEF NextPosition, Sign, Abs
  <2>2. PICK r \in Nat : r = pos - t /\ r = Greater(0, (c - t) - s) /\ r <= c - t
    BY <1>1, <1>2, <1>5, <2>1 DEF Greater
  <2> HIDE DEF pos
  <2>3. pos \in 0 .. m - 1 /\ Mso_Azimuth(pos) = pos
    BY <1>1, <1>5, <2>1, <1>2, RollUp DEF Greater
  <2>4. ArcDistance(c, t) = c - t
    BY <1>1, <1>3, <1>5, ArcOf
  <2>5. ArcDistance(pos, t) = r
    BY <1>1, <1>3, <1>5, <2>2, <2>3, ArcOf
  <2> QED BY <2>2, <2>3, <2>4, <2>5, <1>2 DEF pos
<1>6. CASE c < t /\ t - c > h
  <2>1. pos = Greater(c + m - s, t)
    BY <1>1, <1>2, <1>3, <1>6 DEF NextPosition, Sign, Abs
  <2>2. PICK r \in Nat : /\ r = pos - t /\ r = Greater(0, (m - (t - c)) - s)
                         /\ r <= m - (t - c) /\ pos \in Int
    BY <1>1, <1>2, <1>6, <2>1 DEF Greater
  <2> HIDE DEF pos
  <2>3. pos \in 0 .. 2 * m - 1
    BY <1>1, <1>6, <2>2
  <2>4. Mso_Azimuth(pos) = IF pos < m THEN pos ELSE pos - m
    BY <1>1, <2>3, RollUp
  <2>5. ArcDistance(c, t) = m - (t - c)
    BY <1>1, <1>3, <1>6, ArcOf
  <2>6. ArcDistance(Mso_Azimuth(pos), t) = r
    BY <1>1, <1>3, <1>6, <2>2, <2>3, <2>4, ArcOf
  <2> QED BY <2>2, <2>5, <2>6, <1>2 DEF pos
<1>7. CASE t < c /\ c - t > h
  <2>1. pos = Lesser(c + s, t + m)
    BY <1>1, <1>2, <1>3, <1>7 DEF NextPosition, Sign, Abs
  <2>2. PICK r \in Nat : /\ r = t + m - pos /\ r = Greater(0, (m - (c - t)) - s)
                         /\ r <= m - (c - t) /\ pos \in Int
    BY <1>1, <1>2, <1>7, <2>1 DEF Greater, Lesser
  <2> HIDE DEF pos
  <2>3. pos \in 0 .. 2 * m - 1
    BY <1>1, <1>7, <2>2
  <2>4. Mso_Azimuth(pos) = IF pos < m THEN pos ELSE pos - m
    BY <1>1, <2>3, RollUp
  <2>5. ArcDistance(c, t) = m - (c - t)
    BY <1>1, <1>3, <1>7, ArcOf
  <2>6. ArcDistance(Mso_Azimuth(pos), t) = r
    BY <1>1, <1>3, <1>7, <2>2, <2>3, <2>4, ArcOf
  <2> QED BY <2>2, <2>5, <2>6, <1>2 DEF pos
<1> QED BY <1>1, <1>3, <1>4, <1>5, <1>6, <1>7

(* What Plan computed stays true until it is stored: only the engine moves *)
(* the axis, and its copy of the target does not follow the controller.    *)
PlanInv ==
  /\ TypeOK /\ PositionInTravel
  /\ mode # "none" => epc \in {"report", "store"} \union Bounding
  /\ epc \in Bounding => axis = "elevation"
  /\ epc \in {"report", "store"} /\ axis = "azimuth" /\ mode = "position" =>
       /\ goal \in 0 .. MAX_AZIMUTH - 1
       /\ goal # current_position["azimuth"]
       /\ new_position =
            NextPosition("azimuth", current_position["azimuth"], goal).pos

LEMMA EnginePlan ==
  TravelInv /\ PlanInv /\ EngineNext => PlanInv'
<1> SUFFICES ASSUME TravelInv, PlanInv, EngineNext PROVE PlanInv'
  OBVIOUS
<1>0. TypeOK /\ TypeOK' /\ PositionInTravel'
  BY EngineTravel DEF TravelInv
<1> USE DEF PlanInv, Bounding
<1>1. CASE TestStop
  BY <1>0, <1>1 DEF TestStop, EngineAt
<1>2. CASE LeaveLoop
  BY <1>0, <1>2 DEF LeaveLoop, EngineAt, Keep
<1>3. CASE LoadPositionMode
  BY <1>0, <1>3 DEF LoadPositionMode, Keep, EngineAt
<1>4. CASE LoadSpeedMode
  BY <1>0, <1>4 DEF LoadSpeedMode, Keep, EngineAt
<1>5. CASE Rest \/ Arrived \/ StorePosition
  BY <1>0, <1>5 DEF Rest, Arrived, StorePosition, FinishAxis
<1>6. CASE Compare
  BY <1>0, <1>6 DEF Compare, Keep, EngineAt
<1>7. CASE Plan
  <2>1. CASE target_position[axis] = current_position[axis]
    BY <1>0, <1>7, <2>1 DEF Plan, EngineAt
  <2>2. CASE target_position[axis] # current_position[axis]
    <3>1. /\ epc' = "report" /\ UNCHANGED <<axisVars, axis>>
          /\ goal' = target_position[axis]
          /\ new_position' =
               NextPosition(axis, current_position[axis],
                            target_position[axis]).pos
      BY <1>7, <2>2 DEF Plan
    <3> QED BY <1>0, <3>1, <2>2 DEF TypeOK, axisVars
  <2> QED BY <2>1, <2>2
<1>8. CASE Report
  BY <1>0, <1>8 DEF Report, Keep, EngineAt, TypeOK, Axis
<1>9. CASE LoadSpeed
  BY <1>0, <1>9 DEF LoadSpeed, TypeOK, Axis
<1>10. CASE \/ LimitTest \/ LimitTake \/ LimitCancel \/ LimitZero
            \/ ClampTest \/ ClampTake
  BY <1>0, <1>10
  DEF LimitTest, LimitTake, LimitCancel, LimitZero, ClampTest, ClampTake,
      NextBound, EngineAt, Keep
<1> QED
  BY <1>1, <1>2, <1>3, <1>4, <1>5, <1>6, <1>7, <1>8, <1>9, <1>10
  DEF EngineNext

LEMMA ControllerPlan ==
  TravelInv /\ PlanInv /\ ControllerNext => PlanInv'
<1> SUFFICES ASSUME TravelInv, PlanInv, ControllerNext PROVE PlanInv'
  OBVIOUS
<1>0. TypeOK' /\ PositionInTravel'
  BY ControllerTravel DEF TravelInv
<1>1. CASE Spawn
  BY <1>0, <1>1 DEF Spawn, PlanInv, Bounding
<1>2. CASE UNCHANGED <<engineVars, current_position>>
  BY <1>0, <1>2 DEF PlanInv, engineVars
<1> QED
  BY <1>1, <1>2
  DEF ControllerNext, FinishCommand, ControllerAt, axisVars, Start, Stop,
      RaiseStop, Joined, SetAxisPosition, SetAxisSpeed, ChangeLimit,
      PositionCancelSpeed, PositionEnable, SpeedEnable, SpeedCancelPosition

(* A position step of the azimuth shortens the shorter arc to the target   *)
(* the engine read, by a full step or all the way.                         *)
THEOREM MovesByShortPath == Spec => ShortPath
<1> DEFINE A ==
      epc = "store" /\ epc' # "store" /\ axis = "azimuth" /\ mode = "position" =>
        ArcDistance(current_position'["azimuth"], goal) =
          Greater(0, ArcDistance(current_position["azimuth"], goal)
                       - MaxStep("azimuth"))
<1>1. Init => PlanInv
  BY InitTravel DEF Init, TravelInv, PlanInv, Bounding
<1>2. TravelInv /\ PlanInv /\ [Next]_vars => PlanInv'
  <2>1. PlanInv /\ UNCHANGED vars => PlanInv'
    BY StutterType
    DEF PlanInv, PositionInTravel, vars, axisVars, engineVars
  <2> QED BY <2>1, EnginePlan, ControllerPlan DEF Next
<1>3. PlanInv /\ [Next]_vars => [A]_vars
  <2> SUFFICES ASSUME PlanInv, Next, epc = "store", epc' # "store",
                      axis = "azimuth", mode = "position"
               PROVE  ArcDistance(current_position'["azimuth"], goal) =
                        Greater(0, ArcDistance(current_position["azimuth"], goal)
                                     - MaxStep("azimuth"))
    OBVIOUS
  <2>1. StorePosition
    BY StoreEnds
  <2>2. current_position'["azimuth"] = Mso_Azimuth(new_position)
    BY <2>1 DEF StorePosition, PlanInv, TypeOK
  <2>3. /\ goal \in 0 .. MAX_AZIMUTH - 1
        /\ current_position["azimuth"] \in 0 .. MAX_AZIMUTH - 1
        /\ current_position["azimuth"] # goal
        /\ new_position =
             NextPosition("azimuth", current_position["azimuth"], goal).pos
    BY DEF PlanInv, PositionInTravel
  <2> QED BY <2>2, <2>3, ArcShrinks
<1> QED BY <1>1, <1>2, <1>3, InitTravel, TravelStep, PTL DEF Spec, ShortPath

-----------------------------------------------------------------------------
(* The operator's limits.  The test of the lower bound is still true when  *)
(* the upper one is tested, provided that no limit has been changed.       *)

KeepInv ==
  limits_stable /\ axis = "elevation" =>
    /\ epc = "clamp_test" /\ bound = "max" => new_position >= limit["min"]
    /\ epc = "store" => WithinLimits(new_position)

LEMMA EngineKeep == TravelInv /\ KeepInv /\ EngineNext => KeepInv'
<1> SUFFICES ASSUME TravelInv, KeepInv, EngineNext PROVE KeepInv'
  OBVIOUS
<1>0. /\ TypeOK /\ LimitsInHard /\ (bound = "max" => epc \in Bounding)
      /\ limit' = limit
  BY DEF TravelInv, ClampProgress, EngineNext, EngineAt, ctrlVars, TestStop,
         LeaveLoop, LoadPositionMode, LoadSpeedMode, Rest, Compare, Arrived,
         Plan, Report, LoadSpeed, LimitTest, LimitTake, LimitCancel,
         LimitZero, ClampTest, ClampTake, StorePosition
<1>1. CASE ClampTest
  <2>1. UNCHANGED <<axis, new_position, limits_stable>>
    BY <1>1 DEF ClampTest
  <2>2. CASE Beyond(bound)
    BY <1>1, <2>2 DEF ClampTest, KeepInv
  <2>3. CASE ~Beyond(bound) /\ bound = "min"
    BY <1>0, <1>1, <2>1, <2>3
    DEF ClampTest, NextBound, Beyond, KeepInv, TypeOK, Bound
  <2>4. CASE ~Beyond(bound) /\ bound = "max"
    BY <1>0, <1>1, <2>1, <2>4
    DEF ClampTest, EngineAt, NextBound, Beyond, KeepInv, TypeOK, Bound,
        WithinLimits
  <2> QED BY <1>0, <2>2, <2>3, <2>4 DEF TypeOK, Bound
<1>2. CASE ClampTake
  <2>1. limit["min"] \in Int /\ limit["max"] \in Int
        /\ limit["min"] <= limit["max"]
    BY <1>0, UnitsAssumption, HardLimits DEF LimitsInHard, TypeOK, Bound
  <2> QED BY <1>0, <1>2, <2>1
          DEF ClampTake, NextBound, KeepInv, TypeOK, Bound, WithinLimits
<1>3. CASE LimitTest \/ LimitTake \/ LimitCancel \/ LimitZero
  BY <1>0, <1>3
  DEF LimitTest, LimitTake, LimitCancel, LimitZero, NextBound, EngineAt, Keep,
      KeepInv
<1>4. CASE Report \/ LoadSpeed
  BY <1>0, <1>4
  DEF Report, LoadSpeed, Keep, EngineAt, KeepInv, Bounding, TypeOK, Axis
<1>5. CASE Rest \/ Arrived \/ StorePosition
  BY <1>5 DEF Rest, Arrived, StorePosition, FinishAxis, KeepInv
<1>6. CASE \/ TestStop \/ LeaveLoop \/ LoadPositionMode \/ LoadSpeedMode
           \/ Compare \/ Plan
  BY <1>6
  DEF TestStop, LeaveLoop, LoadPositionMode, LoadSpeedMode, Compare, Plan,
      KeepInv
<1> QED
  BY <1>1, <1>2, <1>3, <1>4, <1>5, <1>6 DEF EngineNext

LEMMA ControllerKeep == TravelInv /\ KeepInv /\ ControllerNext => KeepInv'
<1> SUFFICES ASSUME TravelInv, KeepInv, ControllerNext PROVE KeepInv'
  OBVIOUS
<1>1. CASE Spawn
  BY <1>1 DEF Spawn, KeepInv
<1>2. CASE UNCHANGED <<engineVars, limit, limits_stable>>
  BY <1>2 DEF KeepInv, engineVars, WithinLimits
<1>3. CASE ~limits_stable'
  BY <1>3 DEF KeepInv
<1> QED
  BY <1>1, <1>2, <1>3
  DEF ControllerNext, FinishCommand, ControllerAt, Start, Stop, RaiseStop,
      Joined, SetAxisPosition, SetAxisSpeed, ChangeLimit, PositionCancelSpeed,
      PositionEnable, SpeedEnable, SpeedCancelPosition

(* Whatever limits the operator sets and whenever: a move ends inside them *)
(* unless one was changed while the engine computed it.                    *)
THEOREM MovesKeepLimits == Spec => ElevationKeepsLimits
<1> DEFINE A ==
      epc = "store" /\ epc' # "store" /\ axis = "elevation" /\ limits_stable =>
        WithinLimits(current_position'["elevation"])
<1>1. Init => KeepInv
  BY DEF Init, KeepInv
<1>2. TravelInv /\ KeepInv /\ [Next]_vars => KeepInv'
  <2>1. KeepInv /\ UNCHANGED vars => KeepInv'
    BY DEF KeepInv, WithinLimits, vars, engineVars, ctrlVars
  <2> QED BY <2>1, EngineKeep, ControllerKeep DEF Next
<1>3. TravelInv /\ KeepInv /\ [Next]_vars => [A]_vars
  <2> SUFFICES ASSUME TravelInv, KeepInv, Next, epc = "store", epc' # "store",
                      axis = "elevation", limits_stable
               PROVE  WithinLimits(current_position'["elevation"])
    OBVIOUS
  <2>1. current_position'["elevation"] = new_position
    BY StoreEnds DEF StorePosition, TravelInv, TypeOK, Axis
  <2> QED BY <2>1 DEF KeepInv
<1> QED BY <1>1, <1>2, <1>3, InitTravel, TravelStep, PTL
        DEF Spec, ElevationKeepsLimits

-----------------------------------------------------------------------------
(* The reported speed.  Until it is stored, the new position of an axis is *)
(* ahead of the present one, the way its reported speed says and at most   *)
(* one rounded tick, or it is a limit that the elevation was stopped at,   *)
(* or the axis was ordered to go at INT_MIN.                               *)

Ahead(a, c, p, s) ==
  \E k \in 0 .. MaxStep(a) + 1 : MovedBy(a, p, 0) = MovedBy(a, c, k * Sign(s))

Here  == current_position[axis]
Speed == current_speed[axis]

Bounded(c, p, s) == \/ Ahead("elevation", c, p, s) /\ p \in Int
                    \/ s = 0 /\ p \in {limit["min"], limit["max"]}
                    \/ s = INT_MIN /\ p \in Int

TellInv ==
  /\ epc = "report" =>
       /\ goal # Here
       /\ axis = "azimuth" => goal \in 0 .. MAX_AZIMUTH - 1
       /\ new_position = NextPosition(axis, Here, goal).pos
  /\ epc = "store" /\ axis = "azimuth" /\ Speed # INT_MIN =>
       Ahead("azimuth", Here, new_position, Speed)
  /\ axis = "elevation" /\ limits_stable /\ WithinLimits(Here) =>
       /\ epc \in {"limit_test", "limit_take", "clamp_test", "clamp_take",
                   "store"} => Bounded(Here, new_position, Speed)
       /\ epc \in {"limit_cancel", "limit_zero"} =>
            new_position \in {limit["min"], limit["max"]}
       /\ epc = "clamp_take" => Beyond(bound)

LEMMA PlainMove ==
  ASSUME NEW p \in Int, NEW c \in Int, NEW s
  PROVE  Ahead("elevation", c, p, s) <=>
           \E k \in 0 .. MaxStep("elevation") + 1 : p = c + k * Sign(s)
<1>1. ASSUME NEW k \in 0 .. MaxStep("elevation") + 1
      PROVE  MovedBy("elevation", p, 0) = p
             /\ MovedBy("elevation", c, k * Sign(s)) = c + k * Sign(s)
  BY DEF MovedBy
<1> QED BY <1>1 DEF Ahead

(* A bound cuts a step short, towards where the axis is.                   *)
LEMMA CutShort ==
  ASSUME NEW p \in Int, NEW c \in Int, NEW s \in Int, NEW b \in Int,
         Ahead("elevation", c, p, s),
         (p < b /\ b <= c) \/ (p > b /\ b >= c)
  PROVE  Ahead("elevation", c, b, s)
<1>1. PICK m \in Nat : m = MaxStep("elevation")
  BY MaxStepNat DEF Axis
<1>2. PICK d \in {-1, 0, 1} : d = Sign(s)
  BY DEF Sign
<1>3. PICK k \in 0 .. m + 1 : p = c + k * d
  BY <1>1, <1>2, PlainMove
<1>4. CASE d = 0
  BY <1>3, <1>4
<1>5. CASE d = 1
  <2>1. b - c \in 0 .. m + 1 /\ b = c + (b - c) * d
    BY <1>3, <1>5
  <2> QED BY <1>1, <1>2, <2>1, PlainMove
<1>6. CASE d = -1
  <2>1. c - b \in 0 .. m + 1 /\ b = c + (c - b) * d
    BY <1>3, <1>6
  <2> QED BY <1>1, <1>2, <2>1, PlainMove
<1> QED BY <1>4, <1>5, <1>6

LEMMA EngineTell ==
  ASSUME \A a \in Axis : MaxVel(a) > 0,
         TravelInv, SpeedInv, PlanInv, TellInv, EngineNext
  PROVE  TellInv'
<1>0. /\ TypeOK /\ LimitsInHard /\ limit' = limit
      /\ Here \in Int /\ Speed \in Int
      /\ axis = "azimuth" => Here \in 0 .. MAX_AZIMUTH - 1
  <2>1. limit' = limit
    BY DEF EngineNext, EngineAt, ctrlVars, TestStop,
         LeaveLoop, LoadPositionMode, LoadSpeedMode, Rest, Compare, Arrived,
         Plan, Report, LoadSpeed, LimitTest, LimitTake, LimitCancel,
         LimitZero, ClampTest, ClampTake, StorePosition
  <2> QED BY <2>1 DEF TravelInv, PositionInTravel, TypeOK, Here, Speed
<1>L. /\ limit["min"] \in Int /\ limit["max"] \in Int
      /\ limit["min"] <= limit["max"]
  BY <1>0, UnitsAssumption, HardLimits DEF LimitsInHard, TypeOK, Bound
<1>1. CASE \/ TestStop \/ LeaveLoop \/ LoadPositionMode \/ LoadSpeedMode
           \/ Compare
  BY <1>1
  DEF TestStop, LeaveLoop, LoadPositionMode, LoadSpeedMode, Compare, TellInv
<1>2. CASE Rest \/ Arrived \/ StorePosition
  BY <1>2 DEF Rest, Arrived, StorePosition, FinishAxis, TellInv
<1>3. CASE Plan
  <2>1. CASE target_position[axis] = Here
    BY <1>3, <2>1 DEF Plan, TellInv, Here
  <2>2. CASE target_position[axis] # Here
    <3>1. /\ epc' = "report" /\ goal' = target_position[axis]
          /\ new_position' = NextPosition(axis, Here, goal').pos
          /\ UNCHANGED <<axis, current_position>>
      BY <1>3, <2>2 DEF Plan, Here, axisVars
    <3>2. Here' = Here
      BY <3>1 DEF Here
    <3>3. axis = "azimuth" => goal' \in 0 .. MAX_AZIMUTH - 1
      BY <1>0, <3>1 DEF TypeOK
    <3> QED BY <2>2, <3>1, <3>2, <3>3 DEF TellInv
  <2> QED BY <2>1, <2>2
<1>4. CASE Report
  <2>1. /\ epc = "report" /\ axis' = axis /\ new_position' = new_position
        /\ limits_stable' = limits_stable
        /\ current_position' = current_position
        /\ epc' = IF axis = "azimuth" THEN "store" ELSE "clamp_test"
        /\ goal \in Int /\ new_position \in Int /\ axis \in Axis
    BY <1>0, <1>4 DEF Report, EngineAt, Keep, TypeOK
  <2>2. /\ goal # Here /\ (axis = "azimuth" => goal \in 0 .. MAX_AZIMUTH - 1)
        /\ new_position = NextPosition(axis, Here, goal).pos
    BY <2>1 DEF TellInv
  <2>3. PICK d \in {-1, 0, 1} : d = NextPosition(axis, Here, goal).dir
    BY <1>0, <2>1, NextPositionInt
  <2>4. Here' = Here /\ Sign(Speed') = d
    <3>1. Speed' = Mso_EpsToVel(MAX_SPEED[axis] * d)
      BY <1>0, <1>4, <2>1, <2>3 DEF Report, Speed, Here, TypeOK
    <3>2. MAX_SPEED[axis] \in Nat /\ Mso_EpsToVel(MAX_SPEED[axis]) > 0
      BY <2>1, AxisAssumption DEF MaxVel
    <3> QED BY <2>1, <3>1, <3>2, EpsToVelSign DEF Here
  <2>5. \E k \in 0 .. MaxStep(axis) + 1 :
          \/ new_position = Here + k * d
          \/ axis = "azimuth"
             /\ Mso_Azimuth(new_position) = Mso_Azimuth(Here + k * d)
    BY <1>0, <2>1, <2>2, <2>3, NextPositionBound
  <2>6. Ahead(axis, Here, new_position, Speed')
    <3>1. CASE axis = "azimuth"
      <4>1. \E k \in 0 .. MaxStep(axis) + 1 :
              Mso_Azimuth(new_position) = Mso_Azimuth(Here + k * d)
        BY <2>5
      <4>2. new_position + 0 = new_position
        BY <2>1
      <4> QED BY <2>4, <3>1, <4>1, <4>2 DEF Ahead, MovedBy
    <3>2. CASE axis = "elevation"
      BY <1>0, <2>1, <2>4, <2>5, <3>2, PlainMove
    <3> QED BY <2>1, <3>1, <3>2 DEF Axis
  <2> QED BY <2>1, <2>4, <2>6 DEF TellInv, Bounded, Axis
<1>5. CASE LoadSpeed
  <2>1. /\ Speed' = target_speed[axis] /\ Here' = Here
        /\ new_position' = Here + SpeedStep(target_speed[axis])
        /\ axis' = axis
        /\ epc' = IF axis = "azimuth" THEN "store" ELSE "limit_test"
        /\ axis \in Axis /\ target_speed[axis] \in Int
    BY <1>0, <1>5 DEF LoadSpeed, Speed, Here, TypeOK
  <2>3. new_position' \in Int
    BY <1>0, <2>1, SpeedStepInt
  <2>4. CASE Speed' = INT_MIN
    BY <2>1, <2>3, <2>4 DEF TellInv, Bounded, Axis
  <2>5. CASE Speed' # INT_MIN
    <3>1. PICK k \in 0 .. MaxStep(axis) + 1 :
            SpeedStep(target_speed[axis]) = k * Sign(target_speed[axis])
      BY <2>1, <2>5, SpeedStepBound DEF SpeedInv, SpeedWithinMaximum
    <3>2. new_position' = Here + k * Sign(Speed')
      BY <2>1, <3>1
    <3>3. Ahead(axis, Here, new_position', Speed')
      <4>1. CASE axis = "azimuth"
        <5>1. PICK p \in Int : p = new_position'
          BY <2>3
        <5>2. MovedBy(axis, p, 0) = MovedBy(axis, Here, k * Sign(Speed'))
          BY <3>2, <4>1, <5>1 DEF MovedBy
        <5> QED BY <5>1, <5>2 DEF Ahead
      <4>2. CASE axis = "elevation"
        BY <1>0, <2>1, <2>3, <3>2, <4>2, PlainMove
      <4> QED BY <2>1, <4>1, <4>2 DEF Axis
    <3> QED BY <2>1, <2>3, <3>3 DEF TellInv, Bounded, Axis
  <2> QED BY <2>4, <2>5
<1>6. CASE LimitTest
  <2>1. UNCHANGED <<axis, new_position, limits_stable, Here, Speed>>
    BY <1>6 DEF LimitTest, axisVars, Here, Speed
  <2>2. epc = "limit_test" /\ epc' \in {"limit_test", "limit_take", "clamp_test"}
    BY <1>6 DEF LimitTest, EngineAt, NextBound
  <2> QED BY <1>0, <2>1, <2>2 DEF TellInv, Bounded, WithinLimits
<1>7. CASE LimitTake
  <2>1. UNCHANGED <<axis, limits_stable, Here>> /\ epc' = "limit_cancel"
        /\ new_position' \in {limit["min"], limit["max"]}
    BY <1>0, <1>7 DEF LimitTake, axisVars, Here, TypeOK, Bound
  <2> QED BY <1>0, <2>1 DEF TellInv
<1>8. CASE LimitCancel
  <2>1. UNCHANGED <<axis, new_position, limits_stable, Here>>
        /\ epc = "limit_cancel" /\ epc' = "limit_zero"
    BY <1>8 DEF LimitCancel, EngineAt, Keep, Here
  <2> QED BY <1>0, <2>1 DEF TellInv, WithinLimits
<1>9. CASE LimitZero
  <2>1. UNCHANGED <<axis, new_position, limits_stable, Here>>
        /\ epc = "limit_zero" /\ epc' \in {"limit_test", "clamp_test"}
        /\ Speed' = 0
    BY <1>0, <1>9 DEF LimitZero, EngineAt, NextBound, Here, Speed, TypeOK
  <2> QED BY <1>0, <2>1 DEF TellInv, Bounded, WithinLimits
<1>10. CASE ClampTest
  <2>1. UNCHANGED <<axis, new_position, limits_stable, Here, Speed>>
    BY <1>10 DEF ClampTest, axisVars, Here, Speed
  <2>2. /\ epc = "clamp_test" /\ epc' \in {"clamp_take", "clamp_test", "store"}
        /\ epc' = "clamp_take" => Beyond(bound) /\ bound' = bound
    BY <1>10 DEF ClampTest, EngineAt, NextBound
  <2>3. axis = "elevation"
    BY <2>2 DEF PlanInv, Bounding
  <2> QED BY <1>0, <2>1, <2>2, <2>3 DEF TellInv, Bounded, WithinLimits, Beyond
<1>11. CASE ClampTake
  <2>1. /\ epc = "clamp_take" /\ epc' \in {"clamp_test", "store"}
        /\ new_position' = limit[bound] /\ bound \in Bound
        /\ UNCHANGED <<axis, limits_stable, Here, Speed>>
        /\ new_position \in Int
    BY <1>0, <1>11
    DEF ClampTake, EngineAt, NextBound, axisVars, Here, Speed, TypeOK
  <2>2. axis = "elevation"
    BY <2>1 DEF PlanInv, Bounding
  <2>3. ASSUME limits_stable, WithinLimits(Here)
        PROVE  Bounded(Here, new_position', Speed)
    <3>1. PICK b \in Int : b = limit[bound]
      BY <1>L, <2>1 DEF Bound
    <3>2. Bounded(Here, new_position, Speed) /\ Beyond(bound)
      BY <2>1, <2>2, <2>3 DEF TellInv
    <3>3. /\ limit["min"] <= Here /\ Here <= limit["max"]
      BY <1>L, <2>3 DEF WithinLimits
    <3>4. (new_position < b /\ b <= Here) \/ (new_position > b /\ b >= Here)
      <4>1. CASE bound = "min"
        BY <3>1, <3>2, <3>3, <4>1 DEF Beyond
      <4>2. CASE bound = "max"
        BY <3>1, <3>2, <3>3, <4>2 DEF Beyond
      <4> QED BY <2>1, <4>1, <4>2 DEF Bound
    <3>5. CASE Ahead("elevation", Here, new_position, Speed)
      <4>1. Ahead("elevation", Here, b, Speed)
        BY <1>0, <2>1, <3>4, <3>5, CutShort
      <4> QED BY <2>1, <3>1, <4>1 DEF Bounded
    <3>6. CASE Speed = 0 /\ new_position \in {limit["min"], limit["max"]}
      BY <1>L, <2>1, <3>6 DEF Bounded, Bound
    <3>7. CASE Speed = INT_MIN
      BY <2>1, <3>1, <3>7 DEF Bounded
    <3> QED BY <3>2, <3>5, <3>6, <3>7 DEF Bounded
  <2> QED BY <1>0, <2>1, <2>2, <2>3 DEF TellInv, Bounded, WithinLimits
<1> QED
  BY <1>1, <1>2, <1>3, <1>4, <1>5, <1>6, <1>7, <1>8, <1>9, <1>10, <1>11
  DEF EngineNext

LEMMA ControllerTell == TellInv /\ ControllerNext => TellInv'
<1> SUFFICES ASSUME TellInv, ControllerNext PROVE TellInv'
  OBVIOUS
<1>1. CASE Spawn
  BY <1>1 DEF Spawn, TellInv
<1>2. /\ UNCHANGED <<engineVars, current_position, current_speed>>
      /\ limits_stable' => UNCHANGED <<limit, limits_stable>>
      => TellInv'
  BY DEF TellInv, engineVars, Here, Speed, Bounded, WithinLimits, Beyond
<1>3. \/ Spawn
      \/ /\ UNCHANGED <<engineVars, current_position, current_speed>>
         /\ limits_stable' => UNCHANGED <<limit, limits_stable>>
  BY DEF ControllerNext, FinishCommand, ControllerAt, axisVars, Start, Stop,
         RaiseStop, Joined, SetAxisPosition, SetAxisSpeed, ChangeLimit,
         PositionCancelSpeed, PositionEnable, SpeedEnable, SpeedCancelPosition
<1> QED BY <1>1, <1>2, <1>3

(* When every axis can go at one vel at least: whoever reads a speed after *)
(* a move learns which way the axis went, and no move is longer than one   *)
(* rounded tick, across the zero of the azimuth and at a limit too, except *)
(* of an axis that goes at INT_MIN.                                        *)
THEOREM SpeedFollowsMotion ==
  ASSUME \A a \in Axis : MaxVel(a) > 0
  PROVE  Spec => SpeedTellsMotion
<1> DEFINE Told(a) ==
      LET here == current_position[a]
          there == current_position'[a]
      IN there # here =>
           \/ a = "elevation" /\ ~(limits_stable /\ WithinLimits(here))
           \/ a = "elevation" /\ current_speed[a] = 0
                /\ there \in {limit["min"], limit["max"]}
           \/ current_speed[a] = INT_MIN
           \/ current_speed[a] # 0
                /\ \E k \in 1 .. MaxStep(a) + 1 :
                     there = MovedBy(a, here, k * Sign(current_speed[a]))
<1> DEFINE Inv == TravelInv /\ SpeedInv /\ PlanInv /\ TellInv
<1>1. Init => Inv
  <2>1. Init => SpeedInv
    BY InitType, MaxVelNat DEF Init, SpeedInv, SpeedWithinMaximum, Abs
  <2>2. Init => PlanInv
    BY InitTravel DEF Init, TravelInv, PlanInv, Bounding
  <2>3. Init => TellInv
    BY DEF Init, TellInv
  <2> QED BY <2>1, <2>2, <2>3, InitTravel
<1>2. Inv /\ [Next]_vars => Inv'
  <2>1. SpeedInv /\ UNCHANGED vars => SpeedInv'
    BY StutterType DEF SpeedInv, SpeedWithinMaximum, vars, axisVars
  <2>2. PlanInv /\ UNCHANGED vars => PlanInv'
    BY StutterType DEF PlanInv, PositionInTravel, vars, axisVars, engineVars
  <2>3. TellInv /\ UNCHANGED vars => TellInv'
    BY DEF TellInv, Here, Speed, Bounded, WithinLimits, Beyond, vars, axisVars,
           engineVars, ctrlVars
  <2>4. Inv /\ EngineNext => SpeedInv' /\ PlanInv' /\ TellInv'
    BY EngineSpeed, EnginePlan, EngineTell
  <2>5. Inv /\ ControllerNext => SpeedInv' /\ PlanInv' /\ TellInv'
    BY ControllerSpeed, ControllerPlan, ControllerTell
  <2> HIDE DEF Next
  <2>6. [Next]_vars => EngineNext \/ ControllerNext \/ UNCHANGED vars
    BY DEF Next
  <2> QED BY <2>1, <2>2, <2>3, <2>4, <2>5, <2>6, TravelStep
<1>3. Inv /\ Next => \A a \in Axis : Told(a)
  <2> SUFFICES ASSUME Inv, Next, NEW a \in Axis,
                      current_position'[a] # current_position[a]
               PROVE  Told(a)
    OBVIOUS
  <2>1. StorePosition /\ axis = a
    <3>1. StorePosition \/ UNCHANGED current_position
      BY DEF Next, EngineNext, ControllerNext, FinishCommand, axisVars,
             TestStop, LeaveLoop, LoadPositionMode, LoadSpeedMode, Rest,
             Compare, Arrived, Plan, Report, LoadSpeed, LimitTest, LimitTake,
             LimitCancel, LimitZero, ClampTest, ClampTake, Start, Stop,
             RaiseStop, Joined, Spawn, SetAxisPosition, SetAxisSpeed,
             ChangeLimit, PositionCancelSpeed, PositionEnable, SpeedEnable,
             SpeedCancelPosition
    <3>2. StorePosition
      BY <3>1
    <3> QED BY <3>2 DEF StorePosition, TravelInv, TypeOK
  <2>2. /\ Here \in Int /\ Speed \in Int /\ new_position \in Int
        /\ a = "azimuth" => Here \in 0 .. MAX_AZIMUTH - 1
    BY <2>1 DEF TravelInv, PositionInTravel, TypeOK, Here, Speed
  <2>3. current_position'[a] = IF a = "azimuth" THEN Mso_Azimuth(new_position)
                                                ELSE new_position
    BY <2>1 DEF StorePosition, TravelInv, TypeOK
  <2>4. current_position'[a] = MovedBy(a, new_position, 0)
        /\ current_position[a] = MovedBy(a, Here, 0)
    <3>1. new_position + 0 = new_position /\ Here + 0 = Here
      BY <2>2
    <3>2. CASE a = "azimuth"
      <4>1. PICK c \in 0 .. MAX_AZIMUTH - 1 : c = Here
        BY <2>2, <3>2
      <4>2. Mso_Azimuth(c) = c
        BY UnitsAssumption, RollUp
      <4> QED BY <2>1, <2>3, <3>1, <3>2, <4>1, <4>2 DEF MovedBy, Here
    <3>3. CASE a # "azimuth"
      BY <2>1, <2>3, <3>1, <3>3 DEF MovedBy, Here
    <3> QED BY <3>2, <3>3
  <2>5. ASSUME Ahead(a, Here, new_position, Speed)
        PROVE  /\ Speed # 0
               /\ \E k \in 1 .. MaxStep(a) + 1 :
                    current_position'[a] = MovedBy(a, Here, k * Sign(Speed))
    <3>1. PICK k \in 0 .. MaxStep(a) + 1 :
            current_position'[a] = MovedBy(a, Here, k * Sign(Speed))
      BY <2>4, <2>5 DEF Ahead
    <3>2. k * Sign(Speed) # 0
      BY <2>4, <3>1
    <3>3. MaxStep(a) \in Nat
      BY MaxStepNat
    <3>4. k # 0 /\ Sign(Speed) # 0
      BY <2>2, <3>2 DEF Sign
    <3>5. Speed # 0 /\ k \in 1 .. MaxStep(a) + 1
      BY <3>3, <3>4 DEF Sign
    <3> QED BY <3>1, <3>5
  <2>8. CASE Speed = INT_MIN
    BY <2>1, <2>8 DEF Speed
  <2>6. CASE a = "azimuth" /\ Speed # INT_MIN
    BY <2>1, <2>5, <2>6 DEF TellInv, StorePosition, EngineAt, Here, Speed
  <2>7. CASE a = "elevation" /\ Speed # INT_MIN
    <3>1. CASE ~(limits_stable /\ WithinLimits(Here))
      BY <2>1, <2>7, <3>1 DEF Here
    <3>2. CASE limits_stable /\ WithinLimits(Here)
      <4>1. Bounded(Here, new_position, Speed)
        BY <2>1, <2>7, <3>2 DEF TellInv, StorePosition, EngineAt
      <4> QED BY <2>1, <2>3, <2>5, <2>7, <4>1 DEF Bounded, Here, Speed
    <3> QED BY <3>1, <3>2
  <2> QED BY <2>6, <2>7, <2>8 DEF Axis
<1> QED BY <1>1, <1>2, <1>3, PTL DEF Spec, SpeedTellsMotion

-----------------------------------------------------------------------------
(* The engine as a Positioner.  Most steps are invisible to the owner; the *)
(* others are his switch and his orders, the end of the thread, and the    *)
(* store of a position, which OrderInv and the travel allow.               *)

Hidden == UNCHANGED <<current_position, accepted, epc, stop_flag>>

LEMMA DeviceInit == Init => Device!Init
<1> SUFFICES ASSUME Init PROVE Device!Init
  OBVIOUS
<1>1. Power = "off" /\ accepted = [a \in Axis |-> "none"]
  BY DEF Init, Power
<1>2. \A a \in Axis : current_position[a] \in Travel[a]
  BY UnitsAssumption, HardLimits DEF Init, Axis, Travel
<1>3. current_position \in [Axis -> UNION {Travel[a] : a \in Axis}]
  <2>1. \A a \in Axis : current_position[a] \in UNION {Travel[b] : b \in Axis}
    BY <1>2
  <2>2. current_position = [a \in Axis |-> current_position[a]]
    BY DEF Init
  <2> QED BY <2>1, <2>2
<1> QED BY <1>1, <1>2, <1>3 DEF Device!Init

LEMMA DeviceEngineStep ==
  ASSUME StopInv, PositionInTravel', EngineNext
  PROVE  [Device!Next]_(Device!vars)
<1>1. CASE StorePosition
  <2>1. epc = "store" /\ axis \in Axis /\ Power' = Power /\ UNCHANGED accepted
    BY <1>1 DEF StorePosition, EngineAt, ctrlVars, FinishAxis, Power, StopInv,
                TypeOK
  <2>2. Power \in {"on", "stopping"}
    BY <2>1 DEF Power
  <2>3. accepted[axis] # "none"
    BY <2>1 DEF StopInv, OrderInv, Moving
  <2>4. current_position' =
          [current_position EXCEPT ![axis] = current_position'[axis]]
    BY <1>1, <2>1 DEF StorePosition, StopInv, TypeOK
  <2>5. current_position'[axis] \in Travel[axis]
    BY <2>1 DEF PositionInTravel, Travel, Axis
  <2>6. Device!Move(axis)
    BY <2>1, <2>2, <2>3, <2>4, <2>5 DEF Device!Move, Device!Moving
  <2> QED BY <2>1, <2>6 DEF Device!Next
<1>2. CASE LeaveLoop
  <2>1. /\ epc = "test_stop" /\ stop_flag /\ epc' = "none"
        /\ UNCHANGED <<current_position, accepted>>
    BY <1>2 DEF LeaveLoop, EngineAt, ctrlVars
  <2>2. Device!Halt
    BY <2>1 DEF Device!Halt, Power
  <2> QED BY <2>2 DEF Device!Next
<1>3. CASE Plan
  <2>1. /\ epc = "plan" /\ epc' \in {"crashed", "report"}
        /\ UNCHANGED <<current_position, accepted, stop_flag>>
    BY <1>3 DEF Plan, EngineAt, ctrlVars, axisVars
  <2>2. axis \in Axis /\ accepted[axis] # "none"
    BY <2>1 DEF StopInv, TypeOK, OrderInv, Moving
  <2>3. CASE epc' = "crashed"
    <3>1. Device!Die
      BY <2>1, <2>2, <2>3 DEF Device!Die, Device!Moving, Power
    <3> QED BY <3>1 DEF Device!Next
  <2>4. CASE epc' = "report"
    BY <2>1, <2>4 DEF Power, Device!vars
  <2> QED BY <2>1, <2>3, <2>4
<1>4. CASE /\ UNCHANGED <<current_position, accepted, stop_flag>>
           /\ epc \notin {"none", "crashed"} /\ epc' \notin {"none", "crashed"}
  BY <1>4 DEF Power, Device!vars
<1>5. \/ StorePosition \/ LeaveLoop \/ Plan
      \/ /\ UNCHANGED <<current_position, accepted, stop_flag>>
         /\ epc \notin {"none", "crashed"} /\ epc' \notin {"none", "crashed"}
  BY DEF EngineNext, EngineAt, ctrlVars, axisVars, FinishAxis, NextBound,
         TestStop, LoadPositionMode, LoadSpeedMode, Rest, Compare, Arrived,
         Report, LoadSpeed, LimitTest, LimitTake, LimitCancel, LimitZero,
         ClampTest, ClampTake
<1> QED BY <1>1, <1>2, <1>3, <1>4, <1>5

LEMMA DeviceControllerStep ==
  ASSUME StopInv, ControllerNext
  PROVE  [Device!Next]_(Device!vars)
<1>1. ASSUME NEW a \in Axis, NEW v, SetAxisPosition(a, v)
      PROVE  [Device!Next]_(Device!vars)
  <2>1. Power = "on" /\ Power' = "on"
    BY <1>1 DEF SetAxisPosition, ControllerAt, engineVars, Power, StopInv,
                ThreadInv
  <2>2. Device!Give(a, "position")
    BY <1>1, <2>1 DEF SetAxisPosition, Device!Give
  <2> QED BY <2>2 DEF Device!Next, Device!Order
<1>2. ASSUME NEW a \in Axis, NEW v, SetAxisSpeed(a, v)
      PROVE  [Device!Next]_(Device!vars)
  <2>1. Power = "on" /\ Power' = "on"
    BY <1>2 DEF SetAxisSpeed, ControllerAt, engineVars, Power, StopInv,
                ThreadInv
  <2>2. Device!Give(a, "speed")
    BY <1>2, <2>1 DEF SetAxisSpeed, Device!Give
  <2> QED BY <2>2 DEF Device!Next, Device!Order
<1>3. CASE Start \/ Stop
  <2>1. /\ UNCHANGED <<current_position, accepted, epc>> /\ stop_flag'
        /\ epc # "crashed"
    BY <1>3 DEF Start, Stop, RaiseStop, ControllerAt, engineVars, axisVars
  <2>2. CASE Power = "on"
    <3>1. Device!SwitchOff
      BY <2>1, <2>2 DEF Device!SwitchOff, Power
    <3> QED BY <3>1 DEF Device!Next
  <2>3. CASE Power # "on"
    BY <2>1, <2>3 DEF Power, Device!vars
  <2> QED BY <2>2, <2>3
<1>4. CASE Spawn
  <2>1. Device!SwitchOn
    BY <1>4 DEF Spawn, axisVars, Power, Device!SwitchOn
  <2> QED BY <2>1 DEF Device!Next
<1>5. CASE Hidden
  BY <1>5 DEF Hidden, Power, Device!vars
<1> QED
  BY <1>1, <1>2, <1>3, <1>4, <1>5
  DEF ControllerNext, FinishCommand, Hidden, ControllerAt, engineVars, axisVars,
      ChangeLimit, Joined, PositionCancelSpeed, PositionEnable, SpeedEnable,
      SpeedCancelPosition

(* Every step of the two threads is one the abstract device can make, or   *)
(* none; that it halts when stopped is left to the run.                    *)
THEOREM EngineIsADevice == Spec => Device!Safety
<1>1. StopInv /\ PositionInTravel' /\ [Next]_vars => [Device!Next]_(Device!vars)
  <2>1. ASSUME UNCHANGED vars PROVE UNCHANGED Device!vars
    BY <2>1 DEF vars, axisVars, engineVars, ctrlVars, Power, Device!vars
  <2> QED BY <2>1, DeviceEngineStep, DeviceControllerStep DEF Next
<1> QED
  BY <1>1, DeviceInit, StopInvariant, PositionsStayInTravel, PTL
  DEF Spec, Device!Safety


-----------------------------------------------------------------------------
(* How long Stop can wait (engine.cpp:46-60).  Left counts the accesses    *)
(* the engine thread may still make to the axis it updates, Work those     *)
(* until it looks at the flag again: the loop has no way back, whatever    *)
(* the orders and the limits are.                                          *)

Left ==
  CASE epc = "load_position_mode" -> 16
    [] epc = "load_speed_mode" -> 15
    [] epc = "load_speed" -> 14
    [] epc = "limit_test" -> IF bound = "min" THEN 13 ELSE 9
    [] epc = "limit_take" -> IF bound = "min" THEN 12 ELSE 8
    [] epc = "limit_cancel" -> IF bound = "min" THEN 11 ELSE 7
    [] epc = "limit_zero" -> IF bound = "min" THEN 10 ELSE 6
    [] epc = "compare" -> 8
    [] epc = "plan" -> 7
    [] epc = "report" -> 6
    [] epc = "clamp_test" -> IF bound = "min" THEN 5 ELSE 3
    [] epc = "clamp_take" -> IF bound = "min" THEN 4 ELSE 2
    [] epc \in {"store", "arrived", "rest"} -> 1
    [] epc \in {"none", "crashed", "test_stop"} -> 0

WorkOf(a, left) == IF a = "azimuth" /\ left > 0 THEN 16 + left ELSE left
Work == WorkOf(axis, Left)

(* While the flag is up and there is a thread, the flag stays up and every *)
(* step leaves the thread where it is, ends it or brings it nearer to the  *)
(* test of the flag, from which it leaves: Stop waits for 33 of its steps  *)
(* at most.                                                                *)
StopIsBounded ==
  [][stop_flag /\ epc \notin {"none", "crashed"} =>
       /\ stop_flag'
       /\ Work \in 0 .. 32
       /\ \/ epc' \in {"none", "crashed"}
          \/ UNCHANGED engineVars
          \/ Work' < Work]_vars

LEMMA WorkBound == TypeOK => Work \in 0 .. 32
<1> SUFFICES ASSUME TypeOK PROVE Work \in 0 .. 32
  OBVIOUS
<1>1. Left \in 0 .. 16
  BY DEF TypeOK, Left, EnginePC
<1> QED BY <1>1 DEF Work, WorkOf

(* Within the update of an axis the thread only goes on.                   *)
LEMMA SameAxisWork ==
  ASSUME axis' = axis, Left \in 1 .. 16, Left' \in 1 .. 16, Left' < Left
  PROVE  Work' < Work
<1>1. PICK x \in 1 .. 16 : x = Left
  OBVIOUS
<1>2. PICK y \in 1 .. 16 : y = Left'
  OBVIOUS
<1>3. y < x
  BY <1>1, <1>2, Zenon
<1>4. Work = WorkOf(axis, x) /\ Work' = WorkOf(axis, y)
  BY <1>1, <1>2 DEF Work
<1>5. WorkOf(axis, y) < WorkOf(axis, x)
  BY <1>3 DEF WorkOf
<1> QED BY <1>4, <1>5, Zenon

LEMMA EngineWork ==
  ASSUME TypeOK, TypeOK', EngineNext, stop_flag
  PROVE  epc' \in {"none", "crashed"} \/ Work' < Work
<1> USE DEF EngineAt, Keep
<1>0. axis \in Axis /\ bound \in Bound
  BY DEF TypeOK
<1>1. CASE TestStop \/ LeaveLoop
  BY <1>1 DEF TestStop, LeaveLoop
<1>2. CASE Rest \/ Arrived \/ StorePosition
  <2>1. FinishAxis /\ Left = 1
    BY <1>2 DEF Rest, Arrived, StorePosition, Left
  <2>2. CASE axis = "azimuth"
    <3>1. axis' = "elevation" /\ epc' = "load_position_mode"
      BY <2>1, <2>2 DEF FinishAxis
    <3>2. Left' = 16
      BY <3>1 DEF Left
    <3>3. WorkOf("azimuth", 1) = 17 /\ WorkOf("elevation", 16) = 16
      BY DEF WorkOf
    <3>4. Work = 17 /\ Work' = 16
      BY <2>1, <2>2, <3>1, <3>2, <3>3 DEF Work
    <3> QED BY <3>4
  <2>3. CASE axis = "elevation"
    <3>1. axis' = "azimuth" /\ epc' = "test_stop"
      BY <2>1, <2>3 DEF FinishAxis
    <3>2. Left' = 0
      BY <3>1 DEF Left
    <3>3. WorkOf("azimuth", 0) = 0 /\ WorkOf("elevation", 1) = 1
      BY DEF WorkOf
    <3>4. Work = 1 /\ Work' = 0
      BY <2>1, <2>3, <3>1, <3>2, <3>3 DEF Work
    <3> QED BY <3>4
  <2> QED BY <1>0, <2>2, <2>3 DEF Axis
<1>3. CASE LoadPositionMode \/ LoadSpeedMode \/ Compare
  <2>1. axis' = axis
        /\ \/ /\ epc = "load_position_mode"
              /\ epc' \in {"compare", "load_speed_mode"}
           \/ epc = "load_speed_mode" /\ epc' \in {"load_speed", "rest"}
           \/ epc = "compare" /\ epc' \in {"plan", "arrived"}
    BY <1>3 DEF LoadPositionMode, LoadSpeedMode, Compare
  <2>2. Left \in 1 .. 16 /\ Left' \in 1 .. 16 /\ Left' < Left
    BY <2>1 DEF Left
  <2> QED BY <2>1, <2>2, SameAxisWork
<1>4. CASE Plan
  <2>1. epc = "plan" /\ axis' = axis /\ epc' \in {"crashed", "report"}
    BY <1>4 DEF Plan
  <2>2. epc' = "report" =>
          Left \in 1 .. 16 /\ Left' \in 1 .. 16 /\ Left' < Left
    BY <2>1 DEF Left
  <2> QED BY <2>1, <2>2, SameAxisWork
<1>5. CASE Report \/ LoadSpeed
  <2>1. axis' = axis /\ bound' = bound
        /\ \/ epc = "report" /\ epc' \in {"store", "clamp_test"}
           \/ epc = "load_speed" /\ epc' \in {"store", "limit_test"}
    BY <1>5 DEF Report, LoadSpeed
  <2>2. Left \in 1 .. 16 /\ Left' \in 1 .. 16 /\ Left' < Left
    BY <1>0, <2>1 DEF Left, Bound
  <2> QED BY <2>1, <2>2, SameAxisWork
<1>6. CASE LimitTest \/ LimitTake \/ LimitCancel \/ LimitZero
  <2>1. axis' = axis
        /\ \/ epc = "limit_test" /\ epc' = "limit_take" /\ bound' = bound
           \/ /\ epc = "limit_take" /\ epc' = "limit_cancel"
              /\ bound' = bound
           \/ /\ epc = "limit_cancel" /\ epc' = "limit_zero"
              /\ bound' = bound
           \/ /\ epc \in {"limit_test", "limit_zero"}
              /\ NextBound("limit_test", "clamp_test")
    BY <1>6 DEF LimitTest, LimitTake, LimitCancel, LimitZero
  <2>2. Left \in 1 .. 16 /\ Left' \in 1 .. 16 /\ Left' < Left
    BY <1>0, <2>1 DEF Left, Bound, NextBound
  <2> QED BY <2>1, <2>2, SameAxisWork
<1>7. CASE ClampTest \/ ClampTake
  <2>1. axis' = axis
        /\ \/ epc = "clamp_test" /\ epc' = "clamp_take" /\ bound' = bound
           \/ /\ epc \in {"clamp_test", "clamp_take"}
              /\ NextBound("clamp_test", "store")
    BY <1>7 DEF ClampTest, ClampTake
  <2>2. Left \in 1 .. 16 /\ Left' \in 1 .. 16 /\ Left' < Left
    BY <1>0, <2>1 DEF Left, Bound, NextBound
  <2> QED BY <2>1, <2>2, SameAxisWork
<1> QED
  BY <1>1, <1>2, <1>3, <1>4, <1>5, <1>6, <1>7 DEF EngineNext

(* Whatever the thread is in the middle of, Stop waits for a bounded       *)
(* number of its steps and for nothing else (engine.cpp:46-60, 80-94).     *)
THEOREM StopEndsInSteps == Spec => StopIsBounded
<1> DEFINE A == stop_flag /\ epc \notin {"none", "crashed"} =>
                  /\ stop_flag'
                  /\ Work \in 0 .. 32
                  /\ \/ epc' \in {"none", "crashed"}
                     \/ UNCHANGED engineVars
                     \/ Work' < Work
<1>1. TypeOK /\ TypeOK' /\ [Next]_vars => [A]_vars
  <2> SUFFICES ASSUME TypeOK, TypeOK', Next, stop_flag,
                      epc \notin {"none", "crashed"}
               PROVE  /\ stop_flag'
                      /\ Work \in 0 .. 32
                      /\ \/ epc' \in {"none", "crashed"}
                         \/ UNCHANGED engineVars
                         \/ Work' < Work
    OBVIOUS
  <2>1. Work \in 0 .. 32
    BY WorkBound
  <2>2. CASE EngineNext
    <3>1. stop_flag' = stop_flag
      BY <2>2
      DEF EngineNext, EngineAt, TestStop, LeaveLoop, LoadPositionMode,
          LoadSpeedMode, Rest, Compare, Arrived, Plan, Report, LoadSpeed,
          LimitTest, LimitTake, LimitCancel, LimitZero, ClampTest, ClampTake,
          StorePosition
    <3> QED BY <2>1, <2>2, <3>1, EngineWork
  <2>3. CASE ControllerNext
    <3>1. UNCHANGED engineVars /\ stop_flag'
      BY <2>3
      DEF ControllerNext, FinishCommand, ControllerAt, Start, Stop, RaiseStop,
          Joined, Spawn, SetAxisPosition, SetAxisSpeed, ChangeLimit,
          PositionCancelSpeed, PositionEnable, SpeedEnable,
          SpeedCancelPosition
    <3> QED BY <2>1, <3>1
  <2> QED BY <2>2, <2>3 DEF Next
<1> QED BY <1>1, TypeCorrect, PTL DEF Spec, StopIsBounded

-----------------------------------------------------------------------------
(* Progress of a move.  Way says that nothing stands in the way of the     *)
(* axis: no limit was changed while its update was computed, and the       *)
(* elevation and the place it is ordered to are inside them.  Then the     *)
(* clamp of the validator leaves alone what was planned (LevelInv), and a  *)
(* speed that is still reported when the position is stored belongs to a   *)
(* new position that differs from the old (MotionInv).                     *)

Way == axis = "elevation" =>
         /\ limits_stable /\ WithinLimits(Here)
         /\ mode = "position" => WithinLimits(goal)

LimitStep == {"limit_test", "limit_take", "limit_cancel", "limit_zero"}

LevelInv ==
  /\ epc = "report" =>
       /\ mode = "position" /\ goal # Here
       /\ new_position = NextPosition(axis, Here, goal).pos
  /\ epc \in LimitStep => mode = "speed"
  /\ axis = "elevation" /\ Way =>
       /\ epc = "limit_test" /\ bound = "max" => new_position >= limit["min"]
       /\ epc \in {"limit_cancel", "limit_zero"} => WithinLimits(new_position)
       /\ epc # "clamp_take"
       /\ epc \in {"clamp_test", "store"} =>
            /\ WithinLimits(new_position)
            /\ mode = "position" =>
                 /\ goal # Here
                 /\ new_position = NextPosition("elevation", Here, goal).pos

MotionInv ==
  /\ epc = "store" /\ axis = "azimuth" /\ Speed \notin {0, INT_MIN} =>
       Mso_Azimuth(new_position) # Here
  /\ axis = "elevation" /\ Way
       /\ epc \in {"limit_test", "clamp_test", "store"} /\ Speed # 0 =>
       new_position # Here

(* A position step of the elevation takes a whole step off the distance to *)
(* the place the engine read, or what is left of it, wherever the limits   *)
(* leave the way free (engine.cpp:143-169): it neither overshoots nor      *)
(* stops short.                                                            *)
ElevationNears ==
  [][epc = "store" /\ epc' # "store" /\ axis = "elevation"
       /\ mode = "position" /\ Way =>
       Abs(goal - current_position'["elevation"]) =
         Greater(0, Abs(goal - current_position["elevation"])
                      - MaxStep("elevation"))]_vars

(* Whoever reads a nonzero speed reads it of an axis that moves: where the *)
(* way is free, an update that leaves a speed reported changes the         *)
(* position (engine.cpp:162-167, 179-210).  An azimuth that goes at        *)
(* INT_MIN, which no clamp cuts, may come round to where it was.           *)
SpeedMeansMotion ==
  [][epc = "store" /\ epc' # "store" /\ Way /\ current_speed[axis] # 0 =>
       \/ current_position'[axis] # current_position[axis]
       \/ axis = "azimuth" /\ current_speed[axis] = INT_MIN]_vars

(* No step of the engine thread breaks LevelInv.                           *)
LEMMA EngineLevel ==
  TravelInv /\ PlanInv /\ LevelInv /\ EngineNext => LevelInv'
<1> SUFFICES ASSUME TravelInv, PlanInv, LevelInv, EngineNext PROVE LevelInv'
  OBVIOUS
<1>0. /\ TypeOK /\ LimitsInHard /\ limit' = limit
      /\ bound = "max" => epc \in Bounding
      /\ Here \in Int
  BY DEF TravelInv, ClampProgress, EngineNext, EngineAt, ctrlVars, TestStop,
         LeaveLoop, LoadPositionMode, LoadSpeedMode, Rest, Compare, Arrived,
         Plan, Report, LoadSpeed, LimitTest, LimitTake, LimitCancel,
         LimitZero, ClampTest, ClampTake, StorePosition, TypeOK, Here
<1>L. /\ limit["min"] \in Int /\ limit["max"] \in Int
      /\ limit["min"] <= limit["max"]
      /\ axis \in Axis /\ bound \in Bound
      /\ goal \in Int /\ new_position \in Int
  BY <1>0, UnitsAssumption, HardLimits DEF LimitsInHard, TypeOK, Bound
<1>1. CASE \/ TestStop \/ LeaveLoop \/ LoadPositionMode \/ LoadSpeedMode
           \/ Compare
  <2>1. epc' \in {"load_position_mode", "none", "compare", "load_speed_mode",
                  "load_speed", "rest", "plan", "arrived"}
    BY <1>1
    DEF TestStop, LeaveLoop, LoadPositionMode, LoadSpeedMode, Compare
  <2> QED BY <2>1 DEF LevelInv, LimitStep
<1>2. CASE Rest \/ Arrived \/ StorePosition
  <2>1. epc' \in {"load_position_mode", "test_stop"}
    BY <1>2 DEF Rest, Arrived, StorePosition, FinishAxis
  <2> QED BY <2>1 DEF LevelInv, LimitStep
<1>3. CASE Plan
  <2>1. CASE target_position[axis] = Here
    <3>1. epc' = "crashed"
      BY <1>3, <2>1 DEF Plan, Here
    <3> QED BY <3>1 DEF LevelInv, LimitStep
  <2>2. CASE target_position[axis] # Here
    <3>1. /\ epc' = "report" /\ goal' = target_position[axis]
          /\ mode' = "position"
          /\ new_position' = NextPosition(axis, Here, goal').pos
          /\ UNCHANGED <<axis, Here>>
      BY <1>3, <2>2 DEF Plan, Here, axisVars
    <3> QED BY <2>2, <3>1 DEF LevelInv, LimitStep
  <2> QED BY <2>1, <2>2
<1>4. CASE Report
  <2>1. /\ epc = "report"
        /\ epc' = IF axis = "azimuth" THEN "store" ELSE "clamp_test"
        /\ UNCHANGED <<axis, goal, new_position, mode, limits_stable, Here>>
    BY <1>4 DEF Report, EngineAt, Keep, Here
  <2>2. goal # Here /\ mode = "position"
        /\ new_position = NextPosition(axis, Here, goal).pos
    BY <2>1 DEF LevelInv
  <2>3. ASSUME axis = "elevation", Way PROVE WithinLimits(new_position)
    <3>1. WithinLimits(Here) /\ WithinLimits(goal)
      BY <2>2, <2>3 DEF Way
    <3>2. \/ Here <= new_position /\ new_position <= goal
          \/ goal <= new_position /\ new_position <= Here
      BY <1>0, <1>L, <2>2, <2>3, ElevationShrinks
    <3> QED BY <1>0, <1>L, <3>1, <3>2 DEF WithinLimits
  <2>4. Way' => Way
    BY <1>0, <2>1 DEF Way, WithinLimits
  <2> QED BY <1>0, <2>1, <2>2, <2>3, <2>4
          DEF LevelInv, LimitStep, WithinLimits
<1>5. CASE LoadSpeed
  <2>1. /\ epc = "load_speed" /\ mode' = "speed" /\ bound' = bound
        /\ epc' = IF axis = "azimuth" THEN "store" ELSE "limit_test"
        /\ axis' = axis
    BY <1>5 DEF LoadSpeed, EngineAt
  <2>2. bound' = "min"
    BY <1>0, <1>L, <2>1 DEF Bounding, Bound
  <2> QED BY <2>1, <2>2 DEF LevelInv, LimitStep
<1>6. CASE LimitTest
  <2>1. UNCHANGED <<axis, goal, new_position, mode, limits_stable, Here>>
        /\ epc = "limit_test"
    BY <1>6 DEF LimitTest, EngineAt, axisVars, Here
  <2>2. Way' => Way
    BY <1>0, <2>1 DEF Way, WithinLimits
  <2>3. mode = "speed"
    BY <2>1 DEF LevelInv, LimitStep
  <2>4. CASE Beyond(bound)
    <3>1. epc' = "limit_take"
      BY <1>6, <2>4 DEF LimitTest
    <3> QED BY <2>1, <2>3, <3>1 DEF LevelInv, LimitStep
  <2>5. CASE ~Beyond(bound) /\ bound = "min"
    <3>1. epc' = "limit_test" /\ new_position >= limit["min"]
      BY <1>6, <1>L, <2>5 DEF LimitTest, NextBound, Beyond
    <3> QED BY <1>0, <2>1, <2>3, <3>1 DEF LevelInv, LimitStep
  <2>6. CASE ~Beyond(bound) /\ bound = "max"
    <3>1. epc' = "clamp_test" /\ new_position <= limit["max"]
      BY <1>6, <1>L, <2>6 DEF LimitTest, NextBound, Beyond
    <3>2. axis = "elevation" /\ Way => new_position >= limit["min"]
      BY <2>1, <2>6 DEF LevelInv
    <3> QED BY <1>0, <1>L, <2>1, <2>2, <2>3, <3>1, <3>2
            DEF LevelInv, LimitStep, WithinLimits
  <2> QED BY <1>L, <2>4, <2>5, <2>6 DEF Bound
<1>7. CASE LimitTake
  <2>1. /\ new_position' = limit[bound]
        /\ epc = "limit_take" /\ epc' = "limit_cancel"
        /\ mode' = mode
    BY <1>7 DEF LimitTake, EngineAt
  <2>2. WithinLimits(limit[bound])
    BY <1>L DEF WithinLimits, Bound
  <2> QED BY <1>0, <2>1, <2>2 DEF LevelInv, LimitStep, WithinLimits
<1>8. CASE LimitCancel
  <2>1. UNCHANGED <<axis, goal, new_position, mode, limits_stable, Here>>
        /\ epc = "limit_cancel" /\ epc' = "limit_zero"
    BY <1>8 DEF LimitCancel, EngineAt, Keep, Here
  <2>2. Way' => Way
    BY <1>0, <2>1 DEF Way, WithinLimits
  <2> QED BY <1>0, <2>1, <2>2 DEF LevelInv, LimitStep, WithinLimits
<1>9. CASE LimitZero
  <2>1. UNCHANGED <<axis, goal, new_position, mode, limits_stable, Here>>
        /\ epc = "limit_zero" /\ NextBound("limit_test", "clamp_test")
    BY <1>9 DEF LimitZero, EngineAt, Here
  <2>2. Way' => Way
    BY <1>0, <2>1 DEF Way, WithinLimits
  <2>3. mode = "speed" /\ (axis = "elevation" /\ Way => WithinLimits(new_position))
    BY <2>1 DEF LevelInv, LimitStep
  <2>4. epc' \in {"limit_test", "clamp_test"}
    BY <2>1 DEF NextBound
  <2> QED BY <1>0, <1>L, <2>1, <2>2, <2>3, <2>4
          DEF LevelInv, LimitStep, WithinLimits
<1>10. CASE ClampTest
  <2>1. UNCHANGED <<axis, goal, new_position, mode, limits_stable, Here>>
        /\ epc = "clamp_test"
    BY <1>10 DEF ClampTest, EngineAt, axisVars, Here
  <2>2. Way' => Way
    BY <1>0, <2>1 DEF Way, WithinLimits
  <2>3. /\ epc' \in {"clamp_take", "clamp_test", "store"}
        /\ epc' = "clamp_take" => Beyond(bound)
    BY <1>10 DEF ClampTest, NextBound
  <2>4. axis = "elevation" /\ Way => ~Beyond(bound)
    <3>1. axis = "elevation" /\ Way => WithinLimits(new_position)
      BY <2>1 DEF LevelInv
    <3> QED BY <1>L, <3>1 DEF WithinLimits, Beyond, Bound
  <2> QED BY <1>0, <2>1, <2>2, <2>3, <2>4
          DEF LevelInv, LimitStep, WithinLimits
<1>11. CASE ClampTake
  <2>1. /\ epc = "clamp_take" /\ epc' \in {"clamp_test", "store"}
        /\ UNCHANGED <<axis, goal, mode, limits_stable, Here>>
    BY <1>11 DEF ClampTake, EngineAt, NextBound, axisVars, Here
  <2>2. Way' => Way
    BY <1>0, <2>1 DEF Way, WithinLimits
  <2>3. ~(axis = "elevation" /\ Way)
    BY <2>1 DEF LevelInv
  <2> QED BY <2>1, <2>2, <2>3 DEF LevelInv, LimitStep
<1> QED
  BY <1>1, <1>2, <1>3, <1>4, <1>5, <1>6, <1>7, <1>8, <1>9, <1>10, <1>11
  DEF EngineNext

LEMMA ControllerLevel == LevelInv /\ ControllerNext => LevelInv'
<1> SUFFICES ASSUME LevelInv, ControllerNext PROVE LevelInv'
  OBVIOUS
<1>1. CASE Spawn
  BY <1>1 DEF Spawn, LevelInv, LimitStep
<1>2. /\ UNCHANGED <<engineVars, current_position>>
      /\ limits_stable' => UNCHANGED <<limit, limits_stable>>
      => LevelInv'
  BY DEF LevelInv, engineVars, Here, Way, WithinLimits
<1>3. \/ Spawn
      \/ /\ UNCHANGED <<engineVars, current_position>>
         /\ limits_stable' => UNCHANGED <<limit, limits_stable>>
  BY DEF ControllerNext, FinishCommand, ControllerAt, axisVars, Start, Stop,
         RaiseStop, Joined, SetAxisPosition, SetAxisSpeed, ChangeLimit,
         PositionCancelSpeed, PositionEnable, SpeedEnable, SpeedCancelPosition
<1> QED BY <1>1, <1>2, <1>3

WayInv == TravelInv /\ SpeedInv /\ PlanInv /\ LevelInv

LEMMA WayInvariant == Spec => []WayInv
<1>1. Init => WayInv
  <2>1. Init => SpeedInv
    BY InitType, MaxVelNat DEF Init, SpeedInv, SpeedWithinMaximum, Abs
  <2>2. Init => PlanInv
    BY InitTravel DEF Init, TravelInv, PlanInv, Bounding
  <2>3. Init => LevelInv
    BY DEF Init, LevelInv, LimitStep
  <2> QED BY <2>1, <2>2, <2>3, InitTravel DEF WayInv
<1>2. WayInv /\ [Next]_vars => WayInv'
  <2>1. SpeedInv /\ UNCHANGED vars => SpeedInv'
    BY StutterType DEF SpeedInv, SpeedWithinMaximum, vars, axisVars
  <2>2. PlanInv /\ UNCHANGED vars => PlanInv'
    BY StutterType DEF PlanInv, PositionInTravel, vars, axisVars, engineVars
  <2>3. LevelInv /\ UNCHANGED vars => LevelInv'
    BY DEF LevelInv, Here, Way, WithinLimits, vars, axisVars, engineVars,
           ctrlVars
  <2>4. WayInv /\ EngineNext => SpeedInv' /\ PlanInv' /\ LevelInv'
    BY EngineSpeed, EnginePlan, EngineLevel DEF WayInv
  <2>5. WayInv /\ ControllerNext => SpeedInv' /\ PlanInv' /\ LevelInv'
    BY ControllerSpeed, ControllerPlan, ControllerLevel DEF WayInv
  <2> HIDE DEF Next
  <2>6. [Next]_vars => EngineNext \/ ControllerNext \/ UNCHANGED vars
    BY DEF Next
  <2> QED BY <2>1, <2>2, <2>3, <2>4, <2>5, <2>6, TravelStep DEF WayInv
<1> QED BY <1>1, <1>2, PTL DEF Spec

(* A position order brings the elevation a whole step nearer in every      *)
(* update or all the way, for any limits that leave it the way.            *)
THEOREM ElevationIsBroughtNearer == Spec => ElevationNears
<1> DEFINE A ==
      epc = "store" /\ epc' # "store" /\ axis = "elevation"
        /\ mode = "position" /\ Way =>
        Abs(goal - current_position'["elevation"]) =
          Greater(0, Abs(goal - current_position["elevation"])
                       - MaxStep("elevation"))
<1>1. WayInv /\ [Next]_vars => [A]_vars
  <2> SUFFICES ASSUME WayInv, Next, epc = "store", epc' # "store",
                      axis = "elevation", mode = "position", Way
               PROVE  Abs(goal - current_position'["elevation"]) =
                        Greater(0, Abs(goal - current_position["elevation"])
                                     - MaxStep("elevation"))
    OBVIOUS
  <2>1. current_position'["elevation"] = new_position
    BY StoreEnds DEF StorePosition, WayInv, TravelInv, TypeOK, Axis
  <2>2. /\ goal # Here
        /\ new_position = NextPosition("elevation", Here, goal).pos
    BY DEF WayInv, LevelInv
  <2>3. goal \in Int /\ Here \in Int /\ Here = current_position["elevation"]
    BY DEF WayInv, TravelInv, TypeOK, Here
  <2> QED BY <2>1, <2>2, <2>3, ElevationShrinks
<1> QED BY <1>1, WayInvariant, PTL DEF Spec, ElevationNears

(* A step that is not empty takes an axis elsewhere: the arc or the        *)
(* distance to the target gets shorter, so the position is not the old.    *)
LEMMA PlanMoves ==
  ASSUME NEW a \in Axis, MaxStep(a) > 0, NEW c \in Int, NEW t \in Int, c # t,
         a = "azimuth" => /\ c \in 0 .. MAX_AZIMUTH - 1
                          /\ t \in 0 .. MAX_AZIMUTH - 1
  PROVE  LET p == NextPosition(a, c, t).pos
         IN IF a = "azimuth" THEN Mso_Azimuth(p) # c ELSE p # c
<1>1. PICK s \in Nat \ {0} : s = MaxStep(a)
  BY MaxStepNat
<1>2. CASE a = "azimuth"
  <2>1. PICK q : q = Mso_Azimuth(NextPosition("azimuth", c, t).pos)
    OBVIOUS
  <2>2. ArcDistance(q, t) = Greater(0, ArcDistance(c, t) - s)
    BY <1>1, <1>2, <2>1, ArcShrinks
  <2>3. ArcDistance(c, t) \in Nat \ {0}
    <3>1. PICK m \in Nat \ {0} : m = MAX_AZIMUTH
      BY UnitsAssumption
    <3> QED BY <1>2, <3>1 DEF ArcDistance, Abs, Lesser
  <2>4. Greater(0, ArcDistance(c, t) - s) # ArcDistance(c, t)
    BY <2>3 DEF Greater
  <2>5. q # c
    BY <2>2, <2>4
  <2> QED BY <1>2, <2>1, <2>5
<1>3. CASE a = "elevation"
  <2>1. PICK q : q = NextPosition("elevation", c, t).pos
    OBVIOUS
  <2>2. Abs(t - q) = Greater(0, Abs(t - c) - s)
    BY <1>1, <1>3, <2>1, ElevationShrinks
  <2>3. Greater(0, Abs(t - c) - s) # Abs(t - c)
    BY DEF Greater, Abs
  <2>4. q # c
    BY <2>2, <2>3
  <2> QED BY <1>3, <2>1, <2>4
<1> QED BY <1>2, <1>3 DEF Axis

(* A speed order that is not zero takes an axis elsewhere too, the azimuth *)
(* as long as a tick is less than a turn.                                  *)
LEMMA SpeedMoves ==
  ASSUME VEL_NUM <= VEL_DEN, MaxStep("azimuth") + 1 < MAX_AZIMUTH,
         NEW a \in Axis, NEW c \in Int, NEW v \in Int, v # 0,
         a = "azimuth" => c \in 0 .. MAX_AZIMUTH - 1 /\ Abs(v) <= MaxVel(a)
  PROVE  IF a = "azimuth" THEN Mso_Azimuth(c + SpeedStep(v)) # c
                          ELSE c + SpeedStep(v) # c
<1>1. PICK x \in Int : x = SpeedStep(v)
  BY SpeedStepInt
<1>2. x # 0
  BY <1>1, SpeedStepMoves
<1>3. PICK d \in {-1, 1} : d = Sign(v)
  BY DEF Sign
<1>4. PICK s \in Nat : s = MaxStep(a)
  BY MaxStepNat
<1>7. CASE a = "azimuth"
  <2>4. PICK k \in 0 .. s + 1 : x = k * d
    BY <1>1, <1>3, <1>4, <1>7, SpeedStepBound
  <2>5. k # 0
    BY <1>2, <2>4
  <2>1. PICK m \in Nat \ {0} : m = MAX_AZIMUTH
    BY UnitsAssumption
  <2>2. k \in 1 .. m - 1
    BY <1>4, <1>7, <2>1, <2>4, <2>5
  <2>3. Mso_Azimuth(c + k * d) # c
    BY <1>7, <2>1, <2>2, TurnApart
  <2> QED BY <1>1, <1>7, <2>3, <2>4
<1>8. CASE a = "elevation"
  BY <1>1, <1>2, <1>8
<1> QED BY <1>7, <1>8 DEF Axis

LEMMA EngineMotion ==
  ASSUME VEL_NUM <= VEL_DEN, \A a \in Axis : MaxStep(a) > 0,
         MaxStep("azimuth") + 1 < MAX_AZIMUTH,
         WayInv, MotionInv, EngineNext
  PROVE  MotionInv'
<1>0. /\ TypeOK /\ limit' = limit /\ PositionInTravel
      /\ Here \in Int
      /\ axis = "azimuth" => Here \in 0 .. MAX_AZIMUTH - 1
  BY DEF WayInv, TravelInv, PositionInTravel, EngineNext, EngineAt, ctrlVars,
         TestStop, LeaveLoop, LoadPositionMode, LoadSpeedMode, Rest, Compare,
         Arrived, Plan, Report, LoadSpeed, LimitTest, LimitTake, LimitCancel,
         LimitZero, ClampTest, ClampTake, StorePosition, TypeOK, Here
<1>L. axis \in Axis /\ goal \in Int
  BY <1>0 DEF TypeOK
<1>1. CASE ~(epc' \in {"limit_test", "clamp_test", "store"})
  BY <1>1 DEF MotionInv
<1>2. CASE Report
  <2>1. /\ epc = "report"
        /\ UNCHANGED <<axis, goal, new_position, mode, limits_stable, Here>>
    BY <1>2 DEF Report, EngineAt, Keep, Here
  <2>2. goal # Here /\ new_position = NextPosition(axis, Here, goal).pos
    BY <2>1 DEF WayInv, LevelInv
  <2>3. axis = "azimuth" => goal \in 0 .. MAX_AZIMUTH - 1
    <3>1. mode = "position"
      BY <2>1 DEF WayInv, LevelInv
    <3> QED BY <2>1, <3>1 DEF WayInv, PlanInv
  <2>4. IF axis = "azimuth" THEN Mso_Azimuth(new_position) # Here
                            ELSE new_position # Here
    BY <1>0, <1>L, <2>2, <2>3, PlanMoves
  <2> QED BY <2>1, <2>4 DEF MotionInv
<1>3. CASE LoadSpeed
  <2>1. PICK v \in Int : v = target_speed[axis]
    BY <1>0, <1>L DEF TypeOK
  <2>2. /\ Speed' = v /\ new_position' = Here + SpeedStep(v)
        /\ UNCHANGED <<axis, Here>>
    BY <1>0, <1>3, <1>L, <2>1 DEF LoadSpeed, Here, Speed, TypeOK
  <2>3. Abs(v) <= MaxVel(axis) \/ v = INT_MIN
    BY <1>L, <2>1 DEF WayInv, SpeedInv, SpeedWithinMaximum
  <2>4. v # 0 /\ (axis = "azimuth" => v # INT_MIN) =>
          IF axis = "azimuth" THEN Mso_Azimuth(Here + SpeedStep(v)) # Here
                              ELSE Here + SpeedStep(v) # Here
    BY <1>0, <1>L, <2>3, SpeedMoves
  <2> QED BY <2>2, <2>4 DEF MotionInv
<1>4. CASE LimitTest \/ ClampTest
  <2>1. /\ epc \in {"limit_test", "clamp_test"}
        /\ UNCHANGED <<axis, goal, new_position, mode, limits_stable, Here,
                       Speed>>
    BY <1>4 DEF LimitTest, ClampTest, EngineAt, axisVars, Here, Speed
  <2>2. axis = "elevation"
    BY <2>1 DEF WayInv, PlanInv, Bounding
  <2>3. Way' => Way
    BY <1>0, <2>1 DEF Way, WithinLimits
  <2> QED BY <2>1, <2>2, <2>3 DEF MotionInv
<1>5. CASE LimitZero
  <2>1. Speed' = 0 /\ axis' = axis /\ epc = "limit_zero"
    BY <1>0, <1>5, <1>L DEF LimitZero, EngineAt, Speed, TypeOK
  <2> QED BY <2>1 DEF MotionInv
<1>6. CASE ClampTake
  <2>1. /\ epc = "clamp_take"
        /\ UNCHANGED <<axis, goal, mode, limits_stable, Here>>
    BY <1>6 DEF ClampTake, EngineAt, NextBound, axisVars, Here
  <2>2. axis = "elevation"
    BY <2>1 DEF WayInv, PlanInv, Bounding
  <2>3. Way' => Way
    BY <1>0, <2>1 DEF Way, WithinLimits
  <2>4. ~Way
    BY <2>1, <2>2 DEF WayInv, LevelInv
  <2> QED BY <2>1, <2>2, <2>3, <2>4 DEF MotionInv
<1>7. \/ Report \/ LoadSpeed \/ LimitTest \/ ClampTest \/ LimitZero
      \/ ClampTake
      \/ ~(epc' \in {"limit_test", "clamp_test", "store"})
  BY DEF EngineNext, TestStop, LeaveLoop, LoadPositionMode, LoadSpeedMode,
         Rest, Compare, Arrived, Plan, LimitTake, LimitCancel, StorePosition,
         FinishAxis
<1> QED BY <1>1, <1>2, <1>3, <1>4, <1>5, <1>6, <1>7

LEMMA ControllerMotion == MotionInv /\ ControllerNext => MotionInv'
<1> SUFFICES ASSUME MotionInv, ControllerNext PROVE MotionInv'
  OBVIOUS
<1>1. CASE Spawn
  BY <1>1 DEF Spawn, MotionInv
<1>2. /\ UNCHANGED <<engineVars, current_position, current_speed>>
      /\ limits_stable' => UNCHANGED <<limit, limits_stable>>
      => MotionInv'
  BY DEF MotionInv, engineVars, Here, Speed, Way, WithinLimits
<1>3. \/ Spawn
      \/ /\ UNCHANGED <<engineVars, current_position, current_speed>>
         /\ limits_stable' => UNCHANGED <<limit, limits_stable>>
  BY DEF ControllerNext, FinishCommand, ControllerAt, axisVars, Start, Stop,
         RaiseStop, Joined, SetAxisPosition, SetAxisSpeed, ChangeLimit,
         PositionCancelSpeed, PositionEnable, SpeedEnable, SpeedCancelPosition
<1> QED BY <1>1, <1>2, <1>3

(* The reverse of SpeedFollowsMotion: a speed that an update of a free     *)
(* axis leaves reported is never the speed of an axis that stands still,   *)
(* but for an azimuth that goes at INT_MIN.                                *)
(* A vel is no less than a unit a second, a tick at full speed at least a  *)
(* unit and less than a turn, as the configuration of the device has it.   *)
THEOREM SpeedIsMotion ==
  ASSUME VEL_NUM <= VEL_DEN, \A a \in Axis : MaxStep(a) > 0,
         MaxStep("azimuth") + 1 < MAX_AZIMUTH
  PROVE  Spec => SpeedMeansMotion
<1> DEFINE A == epc = "store" /\ epc' # "store" /\ Way /\ current_speed[axis] # 0
                  => \/ current_position'[axis] # current_position[axis]
                     \/ axis = "azimuth" /\ current_speed[axis] = INT_MIN
<1>1. Init => MotionInv
  BY DEF Init, MotionInv
<1>2. WayInv /\ MotionInv /\ [Next]_vars => MotionInv'
  <2>1. MotionInv /\ UNCHANGED vars => MotionInv'
    BY DEF MotionInv, Here, Speed, Way, WithinLimits, vars, axisVars,
           engineVars, ctrlVars
  <2>2. WayInv /\ MotionInv /\ EngineNext => MotionInv'
    BY EngineMotion
  <2> HIDE DEF Next
  <2>3. [Next]_vars => EngineNext \/ ControllerNext \/ UNCHANGED vars
    BY DEF Next
  <2> QED BY <2>1, <2>2, <2>3, ControllerMotion
<1>3. WayInv /\ MotionInv /\ [Next]_vars => [A]_vars
  <2> SUFFICES ASSUME WayInv, MotionInv, Next, epc = "store", epc' # "store",
                      Way, current_speed[axis] # 0,
                      axis = "azimuth" => current_speed[axis] # INT_MIN
               PROVE  current_position'[axis] # current_position[axis]
    OBVIOUS
  <2>1. TypeOK
    BY DEF WayInv, TravelInv
  <2>2. current_position'[axis] =
          IF axis = "azimuth" THEN Mso_Azimuth(new_position) ELSE new_position
    BY <2>1, StoreEnds DEF StorePosition, WayInv, TypeOK
  <2> QED BY <2>1, <2>2 DEF MotionInv, Here, Speed, TypeOK, Axis
<1> QED BY <1>1, <1>2, <1>3, WayInvariant, PTL DEF Spec, SpeedMeansMotion
=============================================================================
