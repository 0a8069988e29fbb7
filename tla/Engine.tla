------------------------------- MODULE Engine -------------------------------
(***************************************************************************)
(* The motion engine (engine.cpp).  Two axes, each a set of independent    *)
(* std::atomics, are driven by one engine thread and commanded by one      *)
(* controller thread (the protocol's), with no lock between them.  One     *)
(* action is one access to an atomic that another thread can see, so the   *)
(* two threads interleave between any two accesses.                        *)
(***************************************************************************)
EXTENDS AxisMotion

CONSTANTS
  PositionCommands,   (* [Axis -> SUBSET Int], arguments of Set*Position   *)
  SpeedCommands,      (* [Axis -> SUBSET int], arguments of Set*Speed      *)
  LimitCommands       (* SUBSET Int, arguments of "e smin" and "e smax"    *)

ASSUME EngineAssumption ==
  /\ PositionCommands \in [Axis -> SUBSET Int]
  /\ SpeedCommands \in [Axis -> SUBSET (INT_MIN .. IntHalf - 1)]
  /\ LimitCommands \subseteq Int

VARIABLES
  current_position, move_by_position, target_position,  (* Engine::Axis    *)
  current_speed, move_by_speed, target_speed,
  limit,        (* LIMIT_MIN_ELEVATION and LIMIT_MAX_ELEVATION             *)
  stop_flag,    (* engine_thread_flag_stop                                 *)
  epc,          (* where the engine thread is; "none": there is no thread  *)
  axis,         (* the axis it updates                                     *)
  goal,         (* its copy of target_position (line 123)                  *)
  new_position, (* the position it is about to store                       *)
  bound,        (* the limit it is testing                                 *)
  mode,         (* which MoveAxisBy* it is in, past the load it acts on    *)
  cpc,          (* where the controller thread is                          *)
  caxis,        (* the axis of the command it is executing                 *)
  accepted,     (* history: last command an axis accepted since Start      *)
  limits_stable (* history: no limit changed since this update began       *)

axisVars   == <<current_position, move_by_position, target_position,
                current_speed, move_by_speed, target_speed>>
engineVars == <<epc, axis, goal, new_position, bound, mode>>
ctrlVars   == <<cpc, caxis, accepted, limit>>
vars == <<axisVars, engineVars, ctrlVars, stop_flag, limits_stable>>

EnginePC == {"none", "crashed", "test_stop", "load_position_mode", "compare",
             "arrived", "plan", "report", "load_speed_mode", "rest",
             "load_speed", "limit_test", "limit_take", "limit_cancel",
             "limit_zero", "clamp_test", "clamp_take", "store"}
ControllerPC == {"new", "idle", "joining", "starting", "position_cancel_speed",
                 "position_enable", "speed_enable", "speed_cancel_position"}
Command == {"none", "position", "speed"}

(* Mutant: an ordered azimuth is taken as it comes.                        *)
PositionValueValidator_AzimuthAsIs(a, val) ==
  IF a = "azimuth" THEN val ELSE Mso_Elevation(val, limit["min"], limit["max"])

(* The controller's own view of the limits: only it changes them.          *)
PositionValueValidator(a, val) ==
  IF a = "azimuth" THEN Mso_Azimuth(val)
                   ELSE Mso_Elevation(val, limit["min"], limit["max"])

Init ==
  /\ current_position = [a \in Axis |-> IF a = "azimuth" THEN 0
                                                        ELSE ZERO_ELEVATION]
  /\ target_position = [a \in Axis |-> 0]
  /\ move_by_position = [a \in Axis |-> FALSE]
  /\ move_by_speed = [a \in Axis |-> FALSE]
  /\ current_speed = [a \in Axis |-> 0]
  /\ target_speed = [a \in Axis |-> 0]
  /\ limit = [b \in Bound |-> IF b = "min" THEN HARD_LIMIT_MIN_ELEVATION
                                           ELSE HARD_LIMIT_MAX_ELEVATION]
  /\ stop_flag \in BOOLEAN   \* the constructor does not write it
  /\ epc = "none" /\ axis = "azimuth" /\ goal = 0 /\ new_position = 0
  /\ bound = "min" /\ mode = "none"
  /\ cpc = "new" /\ caxis = "azimuth"
  /\ accepted = [a \in Axis |-> "none"]
  /\ limits_stable = TRUE

-----------------------------------------------------------------------------
(* The engine thread.                                                      *)

EngineAt(from) == epc = from /\ UNCHANGED <<ctrlVars, stop_flag>>
Keep == UNCHANGED <<axis, goal, new_position, bound, mode, limits_stable>>

(* End of UpdateAxisMovement: the next axis, or sleep and test the flag.   *)
FinishAxis ==
  /\ axis' = IF axis = "azimuth" THEN "elevation" ELSE "azimuth"
  /\ epc' = IF axis = "azimuth" THEN "load_position_mode" ELSE "test_stop"
  /\ goal' = 0 /\ new_position' = 0 /\ bound' = "min" /\ mode' = "none"
  /\ limits_stable' = TRUE

(* Mutant: the loop does not look at the flag.                             *)
TestStop_IgnoresFlag ==
  /\ EngineAt("test_stop")
  /\ epc' = "load_position_mode"
  /\ limits_stable' = TRUE
  /\ UNCHANGED <<axisVars, axis, goal, new_position, bound, mode>>

TestStop ==
  /\ EngineAt("test_stop") /\ ~stop_flag
  /\ epc' = "load_position_mode"
  /\ limits_stable' = TRUE
  /\ UNCHANGED <<axisVars, axis, goal, new_position, bound, mode>>

(* Mutant: the loop leaves the position orders behind.                     *)
LeaveLoop_KeepsPositionMode ==
  /\ EngineAt("test_stop") /\ stop_flag
  /\ move_by_speed' = [a \in Axis |-> FALSE]
  /\ target_speed' = [a \in Axis |-> 0]
  /\ epc' = "none"
  /\ UNCHANGED <<current_position, move_by_position, target_position,
                 current_speed>>
  /\ Keep

(* The flag is up: the stores after the loop, while the controller waits   *)
(* in join and nobody else touches the axes, and the end of the thread.    *)
LeaveLoop ==
  /\ EngineAt("test_stop") /\ stop_flag
  /\ move_by_position' = [a \in Axis |-> FALSE]
  /\ move_by_speed' = [a \in Axis |-> FALSE]
  /\ target_speed' = [a \in Axis |-> 0]
  /\ epc' = "none"
  /\ UNCHANGED <<current_position, target_position, current_speed>>
  /\ Keep

LoadPositionMode ==
  /\ EngineAt("load_position_mode")
  /\ epc' = IF move_by_position[axis] THEN "compare" ELSE "load_speed_mode"
  /\ UNCHANGED axisVars /\ Keep

LoadSpeedMode ==
  /\ EngineAt("load_speed_mode")
  /\ epc' = IF move_by_speed[axis] THEN "load_speed" ELSE "rest"
  /\ UNCHANGED axisVars /\ Keep

(* Mutant: an axis without an order keeps reporting its last speed.        *)
Rest_KeepsSpeed ==
  /\ EngineAt("rest")
  /\ FinishAxis
  /\ UNCHANGED axisVars

Rest ==
  /\ EngineAt("rest")
  /\ current_speed' = [current_speed EXCEPT ![axis] = 0]
  /\ FinishAxis
  /\ UNCHANGED <<current_position, move_by_position, target_position,
                 move_by_speed, target_speed>>

(* MoveAxisByPosition, its first load of the target.                       *)
Compare ==
  /\ EngineAt("compare")
  /\ epc' = IF current_position[axis] # target_position[axis]
            THEN "plan" ELSE "arrived"
  /\ UNCHANGED axisVars /\ Keep

(* Mutant: arriving does not end the order.                                *)
Arrived_KeepsOrder ==
  /\ EngineAt("arrived")
  /\ FinishAxis
  /\ UNCHANGED axisVars

Arrived ==
  /\ EngineAt("arrived")
  /\ move_by_position' = [move_by_position EXCEPT ![axis] = FALSE]
  /\ FinishAxis
  /\ UNCHANGED <<current_position, target_position, current_speed,
                 move_by_speed, target_speed>>

(* The second load of the target.  It may equal the position by now: then  *)
(* direction/abs(direction) divides by zero and the process dies.          *)
Plan ==
  /\ EngineAt("plan")
  /\ LET t == target_position[axis]
         c == current_position[axis]
     IN IF t = c
        THEN epc' = "crashed" /\ UNCHANGED <<goal, new_position, mode>>
        ELSE /\ epc' = "report" /\ mode' = "position"
             /\ goal' = t
             /\ new_position' = NextPosition(axis, c, t).pos
  /\ UNCHANGED <<axisVars, axis, bound, limits_stable>>

(* Mutant: the speed has the sign of the plain difference.                 *)
Report_PlainDifference ==
  /\ EngineAt("report")
  /\ current_speed' = [current_speed EXCEPT ![axis] =
       Mso_EpsToVel(MAX_SPEED[axis] * Sign(goal - current_position[axis]))]
  /\ epc' = IF axis = "azimuth" THEN "store" ELSE "clamp_test"
  /\ UNCHANGED <<current_position, move_by_position, target_position,
                 move_by_speed, target_speed>>
  /\ Keep

(* The direction still follows from the engine's copy of the target.       *)
Report ==
  /\ EngineAt("report")
  /\ current_speed' = [current_speed EXCEPT ![axis] =
       Mso_EpsToVel(MAX_SPEED[axis]
         * NextPosition(axis, current_position[axis], goal).dir)]
  /\ epc' = IF axis = "azimuth" THEN "store" ELSE "clamp_test"
  /\ UNCHANGED <<current_position, move_by_position, target_position,
                 move_by_speed, target_speed>>
  /\ Keep

(* MoveAxisBySpeed: the speed is loaded and reported, then integrated.     *)
LoadSpeed ==
  /\ EngineAt("load_speed")
  /\ current_speed' = [current_speed EXCEPT ![axis] = target_speed[axis]]
  /\ new_position' = current_position[axis] + SpeedStep(target_speed[axis])
  /\ epc' = IF axis = "azimuth" THEN "store" ELSE "limit_test"
  /\ mode' = "speed"
  /\ UNCHANGED <<current_position, move_by_position, target_position,
                 move_by_speed, target_speed, axis, goal, bound, limits_stable>>

(* Mutant: the engine knows the hard limits only.                          *)
Beyond_HardLimits(b) ==
  IF b = "min" THEN new_position < HARD_LIMIT_MIN_ELEVATION
               ELSE new_position > HARD_LIMIT_MAX_ELEVATION

(* The bounds are loaded once to be tested and once more to be used.       *)
Beyond(b) == IF b = "min" THEN new_position < limit["min"]
                          ELSE new_position > limit["max"]
NextBound(here, after) ==
  IF bound = "min" THEN epc' = here /\ bound' = "max"
                   ELSE epc' = after /\ bound' = "min"

LimitTest ==
  /\ EngineAt("limit_test")
  /\ IF Beyond(bound) THEN epc' = "limit_take" /\ bound' = bound
                      ELSE NextBound("limit_test", "clamp_test")
  /\ UNCHANGED <<axisVars, axis, goal, new_position, mode, limits_stable>>

LimitTake ==
  /\ EngineAt("limit_take")
  /\ new_position' = limit[bound]
  /\ epc' = "limit_cancel"
  /\ UNCHANGED <<axisVars, axis, goal, bound, mode, limits_stable>>

LimitCancel ==
  /\ EngineAt("limit_cancel")
  /\ move_by_speed' = [move_by_speed EXCEPT ![axis] = FALSE]
  /\ epc' = "limit_zero"
  /\ UNCHANGED <<current_position, move_by_position, target_position,
                 current_speed, target_speed>>
  /\ Keep

LimitZero ==
  /\ EngineAt("limit_zero")
  /\ current_speed' = [current_speed EXCEPT ![axis] = 0]
  /\ NextBound("limit_test", "clamp_test")
  /\ UNCHANGED <<current_position, move_by_position, target_position,
                 move_by_speed, target_speed,
                 axis, goal, new_position, mode, limits_stable>>

(* Utils::Mso_Elevation as the engine thread runs it.                      *)
ClampTest ==
  /\ EngineAt("clamp_test")
  /\ IF Beyond(bound) THEN epc' = "clamp_take" /\ bound' = bound
                      ELSE NextBound("clamp_test", "store")
  /\ UNCHANGED <<axisVars, axis, goal, new_position, mode, limits_stable>>

ClampTake ==
  /\ EngineAt("clamp_take")
  /\ new_position' = limit[bound]
  /\ NextBound("clamp_test", "store")
  /\ UNCHANGED <<axisVars, axis, goal, mode, limits_stable>>

(* The azimuth validator shares nothing, so it belongs to the store.       *)
StorePosition ==
  /\ EngineAt("store")
  /\ current_position' = [current_position EXCEPT ![axis] =
       IF axis = "azimuth" THEN Mso_Azimuth(new_position) ELSE new_position]
  /\ FinishAxis
  /\ UNCHANGED <<move_by_position, target_position, current_speed,
                 move_by_speed, target_speed>>

EngineNext ==
  \/ TestStop \/ LeaveLoop
  \/ LoadPositionMode \/ LoadSpeedMode \/ Rest
  \/ Compare \/ Arrived \/ Plan \/ Report
  \/ LoadSpeed \/ LimitTest \/ LimitTake \/ LimitCancel \/ LimitZero
  \/ ClampTest \/ ClampTake \/ StorePosition

-----------------------------------------------------------------------------
(* The controller thread: the protocol's calls on the engine.              *)

ControllerAt(from) == cpc = from /\ epc # "crashed" /\ UNCHANGED engineVars

(* Start and Stop first raise the flag and wait for the thread to end.     *)
RaiseStop(next) ==
  /\ stop_flag' = TRUE
  /\ cpc' = next
  /\ UNCHANGED <<axisVars, caxis, accepted, limit, limits_stable>>

Start == (ControllerAt("new") \/ ControllerAt("idle")) /\ RaiseStop("starting")
Stop  == ControllerAt("idle") /\ RaiseStop("joining")

Joined ==
  /\ ControllerAt("joining") /\ epc = "none"
  /\ cpc' = "idle"
  /\ UNCHANGED <<axisVars, stop_flag, caxis, accepted, limit, limits_stable>>

Spawn ==
  /\ cpc = "starting" /\ epc = "none"
  /\ stop_flag' = FALSE
  /\ epc' = "test_stop"
  /\ axis' = "azimuth"
  /\ cpc' = "idle"
  /\ accepted' = [a \in Axis |-> "none"]
  /\ UNCHANGED <<axisVars, goal, new_position, bound, mode, caxis, limit,
                 limits_stable>>

(* SetAxisPosition: ignored when stopped, otherwise three stores.          *)
SetAxisPosition(a, val) ==
  /\ ControllerAt("idle") /\ ~stop_flag
  /\ target_position' =
       [target_position EXCEPT ![a] = PositionValueValidator(a, val)]
  /\ cpc' = "position_cancel_speed" /\ caxis' = a
  /\ accepted' = [accepted EXCEPT ![a] = "position"]
  /\ UNCHANGED <<current_position, move_by_position, current_speed,
                 move_by_speed, target_speed, stop_flag, limit, limits_stable>>

(* Mutant: a position order does not cancel the speed order.               *)
PositionCancelSpeed_Forgotten ==
  /\ ControllerAt("position_cancel_speed")
  /\ cpc' = "position_enable"
  /\ UNCHANGED <<axisVars, stop_flag, caxis, accepted, limit, limits_stable>>

PositionCancelSpeed ==
  /\ ControllerAt("position_cancel_speed")
  /\ move_by_speed' = [move_by_speed EXCEPT ![caxis] = FALSE]
  /\ cpc' = "position_enable"
  /\ UNCHANGED <<current_position, move_by_position, target_position,
                 current_speed, target_speed, stop_flag, caxis, accepted,
                 limit, limits_stable>>

PositionEnable ==
  /\ ControllerAt("position_enable")
  /\ move_by_position' = [move_by_position EXCEPT ![caxis] = TRUE]
  /\ cpc' = "idle" /\ caxis' = "azimuth"
  /\ UNCHANGED <<current_position, target_position, current_speed,
                 move_by_speed, target_speed, stop_flag, accepted, limit,
                 limits_stable>>

(* SetAxisSpeed: ignored when stopped, otherwise three stores.             *)
SetAxisSpeed(a, val) ==
  /\ ControllerAt("idle") /\ ~stop_flag
  /\ target_speed' =
       [target_speed EXCEPT ![a] = ClampSpeed(val, MAX_SPEED[a])]
  /\ cpc' = "speed_enable" /\ caxis' = a
  /\ accepted' = [accepted EXCEPT ![a] = "speed"]
  /\ UNCHANGED <<current_position, move_by_position, target_position,
                 current_speed, move_by_speed, stop_flag, limit, limits_stable>>

SpeedEnable ==
  /\ ControllerAt("speed_enable")
  /\ move_by_speed' = [move_by_speed EXCEPT ![caxis] = TRUE]
  /\ cpc' = "speed_cancel_position"
  /\ UNCHANGED <<current_position, move_by_position, target_position,
                 current_speed, target_speed, stop_flag, caxis, accepted,
                 limit, limits_stable>>

SpeedCancelPosition ==
  /\ ControllerAt("speed_cancel_position")
  /\ move_by_position' = [move_by_position EXCEPT ![caxis] = FALSE]
  /\ cpc' = "idle" /\ caxis' = "azimuth"
  /\ UNCHANGED <<current_position, target_position, current_speed,
                 move_by_speed, target_speed, stop_flag, accepted, limit,
                 limits_stable>>

(* "e smin" and "e smax": each limit stays on its side of the zero.        *)
Cmd_e_smin(val) ==
  /\ val <= ZERO_ELEVATION /\ val >= HARD_LIMIT_MIN_ELEVATION
  /\ limit' = [limit EXCEPT !["min"] = val]
(* Mutant: the hard limit is not looked at.                                *)
Cmd_e_smax_NoHardLimit(val) ==
  /\ val >= ZERO_ELEVATION
  /\ limit' = [limit EXCEPT !["max"] = val]

Cmd_e_smax(val) ==
  /\ val >= ZERO_ELEVATION /\ val <= HARD_LIMIT_MAX_ELEVATION
  /\ limit' = [limit EXCEPT !["max"] = val]

ChangeLimit(val) ==
  /\ ControllerAt("idle")
  /\ Cmd_e_smin(val) \/ Cmd_e_smax(val)
  /\ limits_stable' = FALSE
  /\ UNCHANGED <<axisVars, stop_flag, cpc, caxis, accepted>>

FinishCommand ==
  \/ Joined \/ Spawn
  \/ PositionCancelSpeed \/ PositionEnable
  \/ SpeedEnable \/ SpeedCancelPosition

ControllerNext ==
  \/ Start \/ Stop
  \/ \E a \in Axis : \E v \in PositionCommands[a] : SetAxisPosition(a, v)
  \/ \E a \in Axis : \E v \in SpeedCommands[a] : SetAxisSpeed(a, v)
  \/ \E v \in LimitCommands : ChangeLimit(v)
  \/ FinishCommand

Next == EngineNext \/ ControllerNext

(* Both threads keep being scheduled; nobody has to issue a command.       *)
Fairness == WF_vars(EngineNext) /\ WF_vars(FinishCommand)

Spec == Init /\ [][Next]_vars /\ Fairness
-----------------------------------------------------------------------------
(* Types of all variables.  An ordered azimuth is already normalised when  *)
(* the engine can see it; the engine's own new_position need not be.       *)
TypeOK ==
  /\ current_position \in [Axis -> Int] /\ target_position \in [Axis -> Int]
  /\ target_position["azimuth"] \in 0 .. MAX_AZIMUTH - 1
  /\ move_by_position \in [Axis -> BOOLEAN]
  /\ move_by_speed \in [Axis -> BOOLEAN]
  /\ current_speed \in [Axis -> Int] /\ target_speed \in [Axis -> Int]
  /\ limit \in [Bound -> Int] /\ stop_flag \in BOOLEAN
  /\ epc \in EnginePC /\ axis \in Axis /\ bound \in Bound
  /\ goal \in Int /\ new_position \in Int
  /\ mode \in {"none", "position", "speed"}
  /\ cpc \in ControllerPC /\ caxis \in Axis
  /\ accepted \in [Axis -> Command] /\ limits_stable \in BOOLEAN

(* Whatever is commanded and however the limits are changed under a move,  *)
(* a reported position is always a position of the device: an azimuth of   *)
(* one turn, an elevation inside the hard limits (utils.cpp:191-205).      *)
PositionInTravel ==
  /\ current_position["azimuth"] \in 0 .. MAX_AZIMUTH - 1
  /\ current_position["elevation"]
       \in HARD_LIMIT_MIN_ELEVATION .. HARD_LIMIT_MAX_ELEVATION

(* The reported and the ordered speed never exceed the axis' maximum, even *)
(* when the product in the clamp overflows, but for one order: the line    *)
(* "a vel -2147483648" is taken (protocol_mso2.cpp:618, 644), the test of  *)
(* its abs() lets it pass (engine.cpp:252), and INT_MIN is then what the   *)
(* axis is ordered and reports.                                            *)
SpeedWithinMaximum ==
  \A a \in Axis : \A vel \in {current_speed[a], target_speed[a]} :
    \/ Abs(vel) <= MaxVel(a)
    \/ vel = INT_MIN /\ vel \in SpeedCommands[a]

(* The two modes of an axis overlap only inside SetAxisSpeed, between its  *)
(* last two stores: the mode tests of the engine never have to choose      *)
(* between two accepted commands (engine.cpp:229-231, 257-259).            *)
OneMode ==
  \A a \in Axis :
    move_by_position[a] /\ move_by_speed[a] =>
      cpc = "speed_cancel_position" /\ caxis = a

(* Stop leaves no order behind (engine.cpp:89-94, and SetAxis* refuse to   *)
(* store when the flag is up): while no engine thread runs no mode is set. *)
StoppedIsCleared ==
  epc = "none" => \A a \in Axis : /\ ~move_by_position[a]
                                  /\ ~move_by_speed[a]
                                  /\ target_speed[a] = 0

(* After a restart an axis does not resume what it did before: it moves    *)
(* only on a command accepted since Start.                                 *)
NoMotionWithoutCommand ==
  [][\A a \in Axis : current_position'[a] # current_position[a] =>
                        accepted[a] # "none"]_vars

(* The comment of engine.cpp:129, "we must move by the short path": a      *)
(* position step of the azimuth brings it nearer to the target the engine  *)
(* read, over the shorter arc, by a full step or all the way.              *)
ShortPath ==
  [][epc = "store" /\ epc' # "store" /\ axis = "azimuth" /\ mode = "position" =>
       ArcDistance(current_position'["azimuth"], goal) =
         Greater(0, ArcDistance(current_position["azimuth"], goal)
                      - MaxStep("azimuth"))]_vars

WithinLimits(p) == p \in limit["min"] .. limit["max"]

(* A move of the elevation ends inside the limits the operator set, unless *)
(* a limit was changed while the engine was computing that very move       *)
(* (engine.cpp:192-207, utils.cpp:198-205).                                *)
ElevationKeepsLimits ==
  [][epc = "store" /\ epc' # "store" /\ axis = "elevation" /\ limits_stable =>
       WithinLimits(current_position'["elevation"])]_vars

(* Whoever reads a nonzero speed after a move of an axis learns which way  *)
(* it went, across the zero of the azimuth too, and no move is longer than *)
(* one rounded tick at full speed; the speed is zero only when the axis    *)
(* did not move or has been stopped by a limit (engine.cpp:143-167,        *)
(* 179-210).  An elevation left outside by a limit change may jump back,   *)
(* and an axis ordered to go at INT_MIN, which no clamp cuts, goes turns   *)
(* in a tick.                                                              *)
MovedBy(a, from, k) ==
  IF a = "azimuth" THEN Mso_Azimuth(from + k) ELSE from + k
SpeedTellsMotion ==
  [][\A a \in Axis :
       LET here == current_position[a]
           there == current_position'[a]
       IN there # here =>
            \/ a = "elevation" /\ ~(limits_stable /\ WithinLimits(here))
            \/ a = "elevation" /\ current_speed[a] = 0
                 /\ there \in {limit["min"], limit["max"]}
            \/ current_speed[a] = INT_MIN
            \/ current_speed[a] # 0
                 /\ \E k \in 1 .. MaxStep(a) + 1 :
                      there = MovedBy(a, here, k * Sign(current_speed[a]))]_vars

(* While the controller stays quiet every order is carried out and comes   *)
(* to rest: a position order ends, and an axis without an order reports    *)
(* speed zero for good, so a speed order of zero really stops it           *)
(* (testengine.cpp:482-485).  Excepted: the engine was stopped or killed,  *)
(* or a limit now excludes the target and the axis presses on for ever.    *)
Quiet == <>[][~ControllerNext]_vars
AtRest(a) == /\ ~move_by_position[a]
             /\ ~move_by_speed[a] \/ target_speed[a] = 0 => current_speed[a] = 0
Settles ==
  Quiet => \/ <>[](stop_flag \/ epc = "crashed")
           \/ <>[](/\ move_by_position["elevation"]
                   /\ ~WithinLimits(target_position["elevation"]))
           \/ <>[](\A a \in Axis : AtRest(a))

(* A position command accepted by a running engine is carried out: the     *)
(* axis is there or is still under way (testengine.cpp:252-256 commands    *)
(* the next position as soon as the previous one is reached).              *)
NoLostPositionCommand ==
  \A a \in Axis :
    cpc = "idle" /\ ~stop_flag /\ accepted[a] = "position" =>
      move_by_position[a] \/ current_position[a] = target_position[a]

(* Behind its atomics the engine is a Positioner: it halts when it is      *)
(* stopped, keeps its positions over a restart, is still in between and    *)
(* moves within the travel for orders accepted since (engine.cpp:34-95,    *)
(* 115-210, 222-259, used so by protocol_mso2.cpp:760-780).                *)
Travel == [a \in Axis |-> IF a = "azimuth" THEN 0 .. MAX_AZIMUTH - 1
                          ELSE HARD_LIMIT_MIN_ELEVATION
                                 .. HARD_LIMIT_MAX_ELEVATION]
Power == CASE epc = "none" -> "off"
           [] epc = "crashed" -> "dead"
           [] epc \notin {"none", "crashed"} ->
                IF stop_flag THEN "stopping" ELSE "on"
Device == INSTANCE Positioner
            WITH position <- current_position, power <- Power, order <- accepted
Implements == Device!Spec

(* No sequence of commands kills the engine (testengine.cpp:349-350        *)
(* commands again the position the axis has).                              *)
EngineSurvives == epc # "crashed"
=============================================================================
