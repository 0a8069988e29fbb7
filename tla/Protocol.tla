------------------------------ MODULE Protocol ------------------------------
(***************************************************************************)
(* The MSO-2 protocol (protocol_mso2.cpp, protocol_base.cpp) driving the   *)
(* engine.  The controller thread repeats ProtocolTick: it samples the     *)
(* engine, executes at most one command line, advances the two             *)
(* synchronizations and announces the moves that have ended.  The engine   *)
(* thread goes on beside it.  Here an update of an axis has two steps,     *)
(* what it decides on what it loads and what it then stores, and a setter  *)
(* is one step; Engine has the accesses one by one.                        *)
(***************************************************************************)
EXTENDS AxisMotion

CONSTANTS
  SYNCED_ON_INIT,     (* [Axis -> BOOLEAN], *_SYNCED_ON_INIT               *)
  FastModes,          (* the values of FAST_SYNCHRONIZATION considered     *)
  CommandedAxes,      (* the axes whose commands arrive                    *)
  Positions, Speeds, Limits,  (* arguments of pos, vel, and smin/smax      *)
  MaxCommands,        (* bound on the lines that change something          *)
  TicksPerPass,       (* most protocol ticks during one pass of the engine *)
  PassesPerTick       (* most passes of the engine during one tick         *)

(* Mutant: two readings of zero are enough.                                *)
ZERO_SPEED_LIMIT_Two == 2

ZERO_SPEED_LIMIT == 3

ASSUME ProtocolAssumption ==
  /\ SYNCED_ON_INIT \in [Axis -> BOOLEAN] /\ FastModes \subseteq BOOLEAN
  /\ CommandedAxes \subseteq Axis
  /\ Positions \subseteq Int /\ Limits \subseteq Int
  /\ Speeds \subseteq INT_MIN .. IntHalf - 1
  /\ MaxCommands \in Nat
  /\ TicksPerPass \in Nat \ {0} /\ PassesPerTick \in Nat \ {0}

VARIABLES
  current_position, current_speed, target_position, target_speed,
  order,          (* move_by_position, move_by_speed, or "none"            *)
  limit,          (* LIMIT_MIN_ELEVATION and LIMIT_MAX_ELEVATION           *)
  eaxis,          (* the axis the engine updates                           *)
  update,         (* what it is about to store                             *)
  skew,           (* passes since the last tick, or -(ticks since a pass)  *)
  pc,             (* where ProtocolTick is                                 *)
  sampled,        (* state.*_position                                      *)
  synced,         (* state.*_syncronized                                   *)
  syncing,        (* isProcessing_*_synchronization                        *)
  positioning,    (* isProcessing_*_positioning                            *)
  positioning_target,
  previous_position, got,   (* Process_azimuth_synchronization             *)
  zero_speed_counter, direction, return_to_zero,  (* ..._elevation_...     *)
  fast,           (* FAST_SYNCHRONIZATION                                  *)
  sent,           (* the answers this step gives to tcp_server.Send        *)
  commands,       (* how many commands have been executed                  *)
  touched,        (* history: limits the engine has hit since "e syn"      *)
  disturbed       (* history: the search was reset, or lost an order       *)

engineVars == <<current_position, current_speed, target_position,
                target_speed, order, eaxis, update>>
searchVars == <<zero_speed_counter, direction, return_to_zero>>
flagVars == <<synced, syncing, positioning, positioning_target>>
historyVars == <<commands, touched, disturbed>>
vars == <<engineVars, limit, skew, pc, sampled, flagVars, previous_position,
          got, searchVars, fast, sent, historyVars>>

NoUpdate == [kind |-> "none", pos |-> 0, vel |-> 0]
Zero(a) == IF a = "azimuth" THEN 0 ELSE ZERO_ELEVATION

(* Start_Protocol and Protocol_Base::Init: the engine is started and told  *)
(* to go where it is, so the loop that waits for it ends at once.          *)
Init ==
  /\ current_position = [a \in Axis |-> Zero(a)]
  /\ target_position = [a \in Axis |-> Zero(a)]
  /\ order = [a \in Axis |-> "position"]
  /\ current_speed = [a \in Axis |-> 0] /\ target_speed = [a \in Axis |-> 0]
  /\ limit = [b \in Bound |-> IF b = "min" THEN HARD_LIMIT_MIN_ELEVATION
                                           ELSE HARD_LIMIT_MAX_ELEVATION]
  /\ eaxis = "azimuth" /\ update = NoUpdate /\ skew = 0
  /\ pc = "sleep" /\ sampled = [a \in Axis |-> Zero(a)]
  /\ synced = SYNCED_ON_INIT
  /\ syncing = [a \in Axis |-> FALSE] /\ positioning = [a \in Axis |-> FALSE]
  /\ positioning_target = [a \in Axis |-> 0]
  /\ previous_position = 0 /\ got = 0
  /\ zero_speed_counter = 0 /\ direction = 1 /\ return_to_zero = FALSE
  /\ fast \in FastModes /\ sent = {}
  /\ commands = 0 /\ touched = {} /\ disturbed = FALSE

-----------------------------------------------------------------------------
(* The engine thread.                                                      *)

PositionValueValidator(a, val) ==
  IF a = "azimuth" THEN Mso_Azimuth(val)
                   ELSE Mso_Elevation(val, limit["min"], limit["max"])

(* UpdateAxisMovement on what is loaded now: by position, by speed, rest.  *)
PositionUpdate(a) ==
  LET here == current_position[a]
      next == NextPosition(a, here, target_position[a])
  IN IF here = target_position[a]
     THEN [kind |-> "arrive", pos |-> here, vel |-> current_speed[a]]
     ELSE [kind |-> "move", pos |-> PositionValueValidator(a, next.pos),
           vel |-> Mso_EpsToVel(MAX_SPEED[a] * next.dir)]

SpeedUpdate(a) ==
  LET next == current_position[a] + SpeedStep(target_speed[a])
      pos == PositionValueValidator(a, next)
  IN IF a = "elevation" /\ next # pos
     THEN [kind |-> IF next < limit["min"] THEN "min" ELSE "max",
           pos |-> pos, vel |-> 0]
     ELSE [kind |-> "move", pos |-> pos, vel |-> target_speed[a]]

PlanUpdate ==
  /\ update = NoUpdate
  /\ eaxis = "azimuth" => skew < PassesPerTick
  /\ update' =
       CASE order[eaxis] = "position" -> PositionUpdate(eaxis)
         [] order[eaxis] = "speed"    -> SpeedUpdate(eaxis)
         [] OTHER -> [kind |-> "rest", pos |-> current_position[eaxis],
                      vel |-> 0]
  /\ UNCHANGED <<current_position, current_speed, target_position,
                 target_speed, order, eaxis, limit, skew, pc, sampled,
                 flagVars, previous_position, got, searchVars, fast, sent,
                 historyVars>>

(* The engine is about to take back the order to turn round at a limit,    *)
(* which it met while it still had the order to press against it.          *)
TakesBackTurn ==
  /\ syncing[eaxis] /\ ~synced[eaxis]
  /\ \/ update.kind = "max" /\ target_speed[eaxis] < 0
     \/ update.kind = "min" /\ target_speed[eaxis] > 0

(* Mutant: a limit does not end the order, so its speed is reported on.    *)
StoreUpdate_LimitKeepsSpeed ==
  /\ update # NoUpdate
  /\ current_position' = [current_position EXCEPT ![eaxis] = update.pos]
  /\ current_speed' = [current_speed EXCEPT ![eaxis] =
       IF update.kind \in Bound THEN target_speed[eaxis] ELSE update.vel]
  /\ order' = IF update.kind = "arrive" /\ order[eaxis] = "position"
              THEN [order EXCEPT ![eaxis] = "none"] ELSE order
  /\ touched' = touched \cup ({update.kind} \cap Bound)
  /\ disturbed' = (disturbed \/ TakesBackTurn)
  /\ update' = NoUpdate
  /\ eaxis' = IF eaxis = "azimuth" THEN "elevation" ELSE "azimuth"
  /\ skew' = IF eaxis = "azimuth" THEN skew ELSE Greater(skew, 0) + 1
  /\ UNCHANGED <<target_position, target_speed, limit, pc, sampled, flagVars,
                 previous_position, got, searchVars, fast, sent, commands>>

(* The stores.  Arriving and hitting a limit take the order back, even one *)
(* of the same kind that was given since the update was planned.           *)
Ends(kind) == IF kind = "arrive" THEN "position"
              ELSE IF kind \in Bound THEN "speed" ELSE "no order"
StoreUpdate ==
  /\ update # NoUpdate
  /\ current_position' = [current_position EXCEPT ![eaxis] = update.pos]
  /\ current_speed' = [current_speed EXCEPT ![eaxis] = update.vel]
  /\ order' = IF order[eaxis] = Ends(update.kind)
              THEN [order EXCEPT ![eaxis] = "none"] ELSE order
  /\ touched' = touched \cup ({update.kind} \cap Bound)
  /\ disturbed' = (disturbed \/ TakesBackTurn)
  /\ update' = NoUpdate
  /\ eaxis' = IF eaxis = "azimuth" THEN "elevation" ELSE "azimuth"
  /\ skew' = IF eaxis = "azimuth" THEN skew ELSE Greater(skew, 0) + 1
  /\ UNCHANGED <<target_position, target_speed, limit, pc, sampled, flagVars,
                 previous_position, got, searchVars, fast, sent, commands>>

EngineNext == PlanUpdate \/ StoreUpdate

-----------------------------------------------------------------------------
(* ProtocolTick.  Each step is at most one access to the engine.           *)

Sample ==
  /\ pc = "sleep" /\ update = NoUpdate /\ skew > -TicksPerPass
  /\ sampled' = current_position
  /\ skew' = Lesser(skew, 0) - 1
  /\ pc' = "command" /\ sent' = {}
  /\ UNCHANGED <<engineVars, limit, flagVars, previous_position, got,
                 searchVars, fast, historyVars>>

(* The synchronizations are entered when their flag is up, azimuth first.  *)
Stage == IF syncing["azimuth"] THEN "azimuth_sync"
         ELSE IF syncing["elevation"] THEN "elevation_sync" ELSE "ends"
AfterAzimuth == IF syncing["elevation"] THEN "elevation_sync" ELSE "ends"

(* The engine's setters.                                                   *)
SetPosition(a, val) ==
  /\ target_position' =
       [target_position EXCEPT ![a] = PositionValueValidator(a, val)]
  /\ order' = [order EXCEPT ![a] = "position"]
  /\ UNCHANGED <<current_position, current_speed, target_speed, eaxis, update>>
SetSpeed(a, val) ==
  /\ target_speed' = [target_speed EXCEPT ![a] = ClampSpeed(val, MAX_SPEED[a])]
  /\ order' = [order EXCEPT ![a] = "speed"]
  /\ UNCHANGED <<current_position, current_speed, target_position, eaxis,
                 update>>

(* ProcessTcpIncomingData, one line per tick.  No line, a query or a line  *)
(* that is not understood changes nothing here.                            *)
NoCommand ==
  /\ pc = "command" /\ pc' = Stage
  /\ UNCHANGED <<engineVars, limit, skew, sampled, flagVars,
                 previous_position, got, searchVars, fast, sent, historyVars>>

Executing ==
  /\ pc = "command" /\ commands < MaxCommands
  /\ commands' = commands + 1
  /\ UNCHANGED <<sampled, previous_position, got, searchVars, fast, sent>>

Cmd_syn(a) ==
  /\ Executing /\ syncing' = [syncing EXCEPT ![a] = TRUE]
  /\ touched' = IF a = "elevation" /\ ~syncing[a] THEN {} ELSE touched
  /\ pc' = Stage'
  /\ UNCHANGED <<engineVars, limit, skew, synced, positioning,
                 positioning_target, disturbed>>

(* An axis that is not synchronized answers "err 2" to pos and vel.        *)
Refuse(a) ==
  /\ pc = "command" /\ ~synced[a]
  /\ sent' = {<<a, "err 2">>}
  /\ pc' = Stage
  /\ UNCHANGED <<engineVars, limit, skew, sampled, flagVars,
                 previous_position, got, searchVars, fast, historyVars>>

Cmd_pos(a, val) ==
  /\ Executing /\ synced[a]
  /\ positioning' = [positioning EXCEPT ![a] = TRUE]
  /\ positioning_target' = [positioning_target EXCEPT ![a] = val]
  /\ SetPosition(a, val)
  /\ pc' = Stage
  /\ UNCHANGED <<limit, skew, synced, syncing, touched, disturbed>>

(* Mutant: the order to move at a speed leaves the other one open.         *)
Cmd_vel_KeepsPositioning(a, val) ==
  /\ Executing /\ synced[a]
  /\ SetSpeed(a, val)
  /\ pc' = Stage
  /\ UNCHANGED <<limit, skew, flagVars, touched, disturbed>>

Cmd_vel(a, val) ==
  /\ Executing /\ synced[a]
  /\ SetSpeed(a, val)
  /\ positioning' = [positioning EXCEPT ![a] = FALSE]
  /\ pc' = Stage
  /\ UNCHANGED <<limit, skew, synced, syncing, positioning_target, touched,
                 disturbed>>

(* "e smin" and "e smax": each limit stays on its side of the zero.        *)
Cmd_limit(b, val) ==
  /\ Executing
  /\ IF b = "min" THEN val \in HARD_LIMIT_MIN_ELEVATION .. ZERO_ELEVATION
                  ELSE val \in ZERO_ELEVATION .. HARD_LIMIT_MAX_ELEVATION
  /\ limit' = [limit EXCEPT ![b] = val]
  /\ pc' = Stage
  /\ UNCHANGED <<engineVars, skew, flagVars, touched, disturbed>>

(* Mutant: the engine is left running.                                     *)
Cmd_reset_EngineRuns ==
  /\ Executing
  /\ synced' = SYNCED_ON_INIT
  /\ syncing' = [a \in Axis |-> FALSE] /\ positioning' = [a \in Axis |-> FALSE]
  /\ disturbed' = (disturbed \/ <<1, 0, FALSE>> #
                       <<direction, zero_speed_counter, return_to_zero>>)
  /\ pc' = Stage'
  /\ UNCHANGED <<engineVars, limit, skew, positioning_target, touched>>

(* Engine::Stop waits for the end of the pass and drops every order; the   *)
(* engine starts again without any.  The function's statics stay.          *)
Cmd_reset ==
  /\ Executing /\ update = NoUpdate /\ eaxis = "azimuth"
  /\ order' = [a \in Axis |-> "none"] /\ target_speed' = [a \in Axis |-> 0]
  /\ synced' = SYNCED_ON_INIT
  /\ syncing' = [a \in Axis |-> FALSE] /\ positioning' = [a \in Axis |-> FALSE]
  /\ disturbed' = (disturbed \/ <<1, 0, FALSE>> #
                       <<direction, zero_speed_counter, return_to_zero>>)
  /\ skew' = 0 /\ pc' = Stage'
  /\ UNCHANGED <<current_position, current_speed, target_position, eaxis,
                 update, limit, positioning_target, touched>>

Command ==
  \/ \E a \in CommandedAxes :
       \/ Cmd_syn(a) \/ Refuse(a)
       \/ \E val \in Positions : Cmd_pos(a, val)
       \/ \E val \in Speeds : Cmd_vel(a, val)
  \/ \E b \in Bound, val \in Limits : Cmd_limit(b, val)
  \/ Cmd_reset

(* Process_azimuth_synchronization.  Slow: turn until the position drops,  *)
(* which is past zero, and go back to zero.                                *)
SyncFrame == UNCHANGED <<limit, skew, sampled, positioning, positioning_target,
                         fast, historyVars>>

Synchronized(a) ==
  /\ syncing' = [syncing EXCEPT ![a] = FALSE]
  /\ sent' = {<<a, "syn ok">>}
  /\ UNCHANGED <<engineVars, synced>>

AzimuthDone ==
  /\ pc = "azimuth_sync" /\ synced["azimuth"]
  /\ Synchronized("azimuth")
  /\ previous_position' = 0
  /\ pc' = AfterAzimuth
  /\ UNCHANGED <<got, searchVars>> /\ SyncFrame

AzimuthBegin ==
  /\ pc = "azimuth_sync" /\ ~synced["azimuth"]
  /\ \/ fast /\ SetPosition("azimuth", 0) /\ UNCHANGED got
     \/ ~fast /\ got' = current_position["azimuth"] /\ UNCHANGED engineVars
  /\ pc' = "azimuth_test"
  /\ UNCHANGED <<synced, syncing, previous_position, searchVars, sent>>
  /\ SyncFrame

Becomes(a, condition) ==
  synced' = IF condition THEN [synced EXCEPT ![a] = TRUE] ELSE synced

(* Mutant: the search keeps looking at where it began.                     *)
AzimuthTest_PreviousNotKept ==
  /\ pc = "azimuth_test"
  /\ \/ /\ fast /\ Becomes("azimuth", current_position["azimuth"] = 0)
        /\ UNCHANGED engineVars
     \/ /\ ~fast /\ got < previous_position
        /\ SetPosition("azimuth", 0) /\ Becomes("azimuth", got = 0)
     \/ /\ ~fast /\ got >= previous_position
        /\ SetSpeed("azimuth", MaxVel("azimuth")) /\ UNCHANGED synced
  /\ got' = 0 /\ pc' = AfterAzimuth
  /\ UNCHANGED <<previous_position, syncing, searchVars, sent>> /\ SyncFrame

AzimuthTest ==
  /\ pc = "azimuth_test"
  /\ \/ /\ fast /\ Becomes("azimuth", current_position["azimuth"] = 0)
        /\ UNCHANGED <<engineVars, previous_position>>
     \/ /\ ~fast /\ got < previous_position
        /\ SetPosition("azimuth", 0) /\ Becomes("azimuth", got = 0)
        /\ UNCHANGED previous_position
     \/ /\ ~fast /\ got >= previous_position
        /\ SetSpeed("azimuth", MaxVel("azimuth")) /\ UNCHANGED synced
        /\ previous_position' = got
  /\ got' = 0 /\ pc' = AfterAzimuth
  /\ UNCHANGED <<syncing, searchVars, sent>> /\ SyncFrame

(* Process_elevation_synchronization.  Slow: press against one limit, then *)
(* the other, until the speed has been zero in three ticks; then to zero.  *)
ElevationDone ==
  /\ pc = "elevation_sync" /\ synced["elevation"]
  /\ Synchronized("elevation")
  /\ zero_speed_counter' = 0 /\ direction' = 1 /\ return_to_zero' = FALSE
  /\ pc' = "ends"
  /\ UNCHANGED <<limit, skew, sampled, positioning, positioning_target, fast,
                 previous_position, got, commands, touched>>
  /\ disturbed' = FALSE

ElevationBegin ==
  /\ pc = "elevation_sync" /\ ~synced["elevation"]
  /\ IF fast \/ return_to_zero
     THEN SetPosition("elevation", ZERO_ELEVATION)
     ELSE SetSpeed("elevation", MaxVel("elevation") * direction)
  /\ pc' = "elevation_test"
  /\ UNCHANGED <<synced, syncing, previous_position, got, searchVars, sent>>
  /\ SyncFrame

(* Mutant: the axis counts as synchronized once it is on its way.          *)
ElevationAtZero_NotTested ==
  /\ pc = "elevation_test" /\ (fast \/ return_to_zero)
  /\ Becomes("elevation", TRUE)
  /\ pc' = "ends"
  /\ UNCHANGED <<engineVars, syncing, previous_position, got, searchVars, sent>>
  /\ SyncFrame

ElevationAtZero ==
  /\ pc = "elevation_test" /\ (fast \/ return_to_zero)
  /\ Becomes("elevation", current_position["elevation"] = ZERO_ELEVATION)
  /\ pc' = "ends"
  /\ UNCHANGED <<engineVars, syncing, previous_position, got, searchVars, sent>>
  /\ SyncFrame

(* Mutant: the counter goes on at the other end.                           *)
ElevationSearch_CounterKept ==
  /\ pc = "elevation_test" /\ ~fast /\ ~return_to_zero
  /\ IF current_speed["elevation"] = 0
     THEN zero_speed_counter' = zero_speed_counter + 1
     ELSE zero_speed_counter' = zero_speed_counter
  /\ LET found == zero_speed_counter' >= ZERO_SPEED_LIMIT
     IN /\ direction' = IF found THEN -1 ELSE direction
        /\ return_to_zero' = (found /\ direction < 0)
  /\ pc' = "ends"
  /\ UNCHANGED <<engineVars, synced, syncing, previous_position, got, sent>>
  /\ SyncFrame

ElevationSearch ==
  /\ pc = "elevation_test" /\ ~fast /\ ~return_to_zero
  /\ LET zeros == IF current_speed["elevation"] = 0
                  THEN zero_speed_counter + 1 ELSE 0
         found == zeros >= ZERO_SPEED_LIMIT
     IN /\ zero_speed_counter' = IF found THEN 0 ELSE zeros
        /\ direction' = IF found THEN -1 ELSE direction
        /\ return_to_zero' = (found /\ direction < 0)
  /\ pc' = "ends"
  /\ UNCHANGED <<engineVars, synced, syncing, previous_position, got, sent>>
  /\ SyncFrame

Arrived == {a \in Axis : positioning[a] /\ sampled[a] = positioning_target[a]}

(* Mutant: one answer for the tick, whichever axis has ended.              *)
FinishTick_OneAnswer ==
  /\ pc = "ends" /\ pc' = "sleep"
  /\ positioning' = [a \in Axis |-> positioning[a] /\ a \notin Arrived]
  /\ sent' = {<<"azimuth", "end">> : a \in Arrived}
  /\ UNCHANGED <<engineVars, limit, skew, sampled, synced, syncing,
                 positioning_target, previous_position, got, searchVars, fast,
                 historyVars>>

(* The sample, taken before the command, is compared with the target as it *)
(* was ordered.                                                            *)
FinishTick ==
  /\ pc = "ends" /\ pc' = "sleep"
  /\ positioning' = [a \in Axis |-> positioning[a] /\ a \notin Arrived]
  /\ sent' = {<<a, "end">> : a \in Arrived}
  /\ UNCHANGED <<engineVars, limit, skew, sampled, synced, syncing,
                 positioning_target, previous_position, got, searchVars, fast,
                 historyVars>>

Synchronize ==
  \/ AzimuthDone \/ AzimuthBegin \/ AzimuthTest
  \/ ElevationDone \/ ElevationBegin \/ ElevationAtZero \/ ElevationSearch

ProtocolNext == Sample \/ NoCommand \/ Command \/ Synchronize \/ FinishTick

Next == EngineNext \/ ProtocolNext

(* Both threads keep being scheduled.  Clients need not send anything.     *)
Spec == Init /\ [][Next]_vars /\ WF_vars(EngineNext) /\ WF_vars(ProtocolNext)
-----------------------------------------------------------------------------
(* Types of all variables; the search counts below its limit.              *)
EngineTypeOK ==
  /\ current_position \in [Axis -> Int] /\ target_position \in [Axis -> Int]
  /\ current_speed \in [Axis -> Int] /\ target_speed \in [Axis -> Int]
  /\ order \in [Axis -> {"none", "position", "speed"}]
  /\ limit \in [Bound -> Int] /\ eaxis \in Axis
  /\ update \in [kind : Bound \cup {"none", "rest", "arrive", "move"},
                  pos : Int, vel : Int]
  /\ skew \in -TicksPerPass .. PassesPerTick

ControllerTypeOK ==
  /\ pc \in {"sleep", "command", "azimuth_sync", "azimuth_test",
             "elevation_sync", "elevation_test", "ends"}
  /\ sampled \in [Axis -> Int] /\ positioning_target \in [Axis -> Int]
  /\ synced \in [Axis -> BOOLEAN] /\ syncing \in [Axis -> BOOLEAN]
  /\ positioning \in [Axis -> BOOLEAN]
  /\ previous_position \in Int /\ got \in Int
  /\ zero_speed_counter \in 0 .. ZERO_SPEED_LIMIT - 1
  /\ direction \in {-1, 1} /\ return_to_zero \in BOOLEAN /\ fast \in BOOLEAN
  /\ sent \subseteq Axis \X {"syn ok", "err 2", "end"}
  /\ commands \in 0 .. MaxCommands
  /\ touched \subseteq Bound /\ disturbed \in BOOLEAN

TypeOK == EngineTypeOK /\ ControllerTypeOK

(* An axis that is not synchronized is moved by nothing but its own        *)
(* synchronization: the protocol refuses every order for it, and a reset   *)
(* leaves the engine without one (protocol_mso2.cpp:558-606, 754-782).     *)
UnsyncedStaysPut ==
  \A a \in Axis : ~synced[a] /\ ~syncing[a] =>
    /\ \/ order[a] = "none"
       \/ order[a] = "position" /\ target_position[a] = current_position[a]
    /\ eaxis = a /\ update # NoUpdate => update.pos = current_position[a]

(* While an order to a position is open its axis is synchronized and the   *)
(* engine holds no other order: a speed order, a reset or a further target *)
(* has replaced the open one too (protocol_mso2.cpp:564-568, 618-619).     *)
OpenOrderOwnsAxis ==
  \A a \in Axis : positioning[a] =>
    /\ synced[a] /\ order[a] # "speed"
    /\ a = "azimuth" =>
         target_position[a] = Mso_Azimuth(positioning_target[a])

(* The elevation turns back only after the engine has pressed against the  *)
(* upper limit, and returns to zero only after both: three readings of     *)
(* speed zero are never the axis that has not started yet, as long as the  *)
(* engine ends a pass between two ticks.  Excepted: a search that goes on  *)
(* with the statics of one that was reset, and one whose order to turn     *)
(* round the engine took back (protocol_mso2.cpp:491-541).                 *)
SearchVisitsBothEnds ==
  syncing["elevation"] /\ ~synced["elevation"] /\ ~disturbed =>
    /\ direction < 0 => "max" \in touched
    /\ return_to_zero => touched = Bound

(* The elevation, and a fast azimuth, become synchronized where they       *)
(* should be, with an order that keeps them there, wherever they were and  *)
(* whatever was being carried out (protocol_mso2.cpp:457-459, 499-513).    *)
SyncedAtZero ==
  [][\A a \in Axis :
       synced'[a] /\ ~synced[a] /\ syncing'[a] /\ (a = "elevation" \/ fast) =>
         /\ current_position'[a] = Zero(a)
         /\ \/ order'[a] = "none"
            \/ order'[a] = "position" /\ target_position'[a] = Zero(a)]_vars

(* An axis that a tick samples at the target of its open order has come to *)
(* rest there, so "end" is only ever announced of an axis that is where it *)
(* was sent, unless the order itself came after the sample, in the same    *)
(* tick (protocol_mso2.cpp:168-175, 187-206).                              *)
ArrivalLasts ==
  pc = "command" =>
    \A a \in Axis :
      /\ positioning[a] /\ target_position[a] = positioning_target[a]
      /\ sampled[a] = positioning_target[a]
      => /\ current_position[a] = sampled[a]
         /\ eaxis = a /\ update # NoUpdate => update.pos = sampled[a]

(* When the clients fall silent, every synchronization that is asked for   *)
(* is answered, whatever was ordered, reset or interrupted before          *)
(* (protocol_mso2.cpp:475-486, 545-553).                                   *)
Silent == commands = MaxCommands
SyncEnds ==
  \A a \in Axis : syncing[a] /\ Silent ~> <<a, "syn ok">> \in sent

(* When the clients fall silent, the last order to a position is answered  *)
(* "end" (protocol_mso2.cpp:184-206).  Excepted: a target that is not what *)
(* the engine was told, because it was normalised, or that a limit now     *)
(* excludes, and an order the engine has dropped.                          *)
Reachable(a) ==
  /\ target_position[a] = positioning_target[a]
  /\ a = "elevation" => target_position[a] \in limit["min"] .. limit["max"]
Kept(a) == order[a] = "position" \/ current_position[a] = target_position[a]
EndIsSent ==
  \A a \in Axis :
    positioning[a] /\ Silent /\ Reachable(a) ~>
      <<a, "end">> \in sent \/ ~Kept(a)

(* The tick after the synchronization shows the azimuth at zero            *)
(* (testprotocolmso2.cpp, Azimuth_syn).                                    *)
SyncedAzimuthShowsZero ==
  pc = "command" /\ synced["azimuth"] /\ syncing["azimuth"] =>
    sampled["azimuth"] = 0
=============================================================================
