---------------------------- MODULE PeriodProofs ----------------------------
(***************************************************************************)
(* Theorems about Period for every value of its constants: any initial     *)
(* inputs, any intervals and indices.                                      *)
(***************************************************************************)
EXTENDS Period, TLAPS

-----------------------------------------------------------------------------
(* Type correctness.  A loop over the inputs is always at one of them.     *)

AtInv == cpc = "reset_inputs" => at \in Input
TypeInv == TypeOK /\ AtInv

LEMMA WrittenType ==
  ASSUME NEW bits \in [Cell -> BOOLEAN], NEW k \in Cell, NEW value \in BOOLEAN
  PROVE  Written(bits, k, value) \in [Cell -> BOOLEAN]
BY DEF Written

LEMMA InputInCell == Input \subseteq Cell /\ Len(INIT_INPUTS_STATE) \in Nat
BY PeriodAssumption DEF Input, Cell

LEMMA WriteInputType ==
  ASSUME TypeOK, NEW k \in Cell, NEW value \in BOOLEAN, WriteInput(k, value)
  PROVE  /\ inputs' \in [Cell -> BOOLEAN]
         /\ seen' \in [Input -> SUBSET BOOLEAN]
         /\ need_to_destroy_thread' = need_to_destroy_thread
<1>1. inputs' \in [Cell -> BOOLEAN]
  BY WrittenType DEF TypeOK, WriteInput
<1>2. seen' \in [Input -> SUBSET BOOLEAN]
  BY DEF TypeOK, WriteInput
<1> QED BY <1>1, <1>2 DEF WriteInput

LEMMA InitType == Init => TypeInv
<1> SUFFICES ASSUME Init PROVE TypeInv
  OBVIOUS
<1>1. inputs \in [Cell -> BOOLEAN] /\ outputs \in [Cell -> BOOLEAN]
  BY ZenonT(20) DEF Init, StartState
<1>2. seen \in [Input -> SUBSET BOOLEAN]
  BY DEF Init
<1>3. report \in Seq(BOOLEAN)
  BY DEF Init
<1>4. /\ period_intervals_by_10_ms \in Int /\ val \in Int
      /\ interval \in Nat /\ counted \in Nat
      /\ at \in Nat /\ late \in 0..2
  BY DEF Init
<1>5. ppc \in PeriodPC /\ cpc \in ControllerPC /\ cpc # "reset_inputs"
  BY DEF Init, PeriodPC, ControllerPC
<1>6. /\ need_to_send_period \in BOOLEAN /\ need_to_destroy_thread \in BOOLEAN
      /\ steady \in BOOLEAN
  BY Zenon DEF Init
<1> QED BY <1>1, <1>2, <1>3, <1>4, <1>5, <1>6 DEF TypeInv, TypeOK, AtInv

LEMMA ThreadType == TypeInv /\ PeriodLoop => TypeInv'
<1> SUFFICES ASSUME TypeOK, AtInv, PeriodLoop PROVE TypeInv'
  BY DEF TypeInv
<1>0. UNCHANGED <<inputs, outputs, controlVars>>
  BY DEF PeriodLoop, TestDestroy, TestFlag, Compare, ReadInput, Send_period,
         ThreadStep
<1>1. AtInv'
  BY <1>0 DEF AtInv, controlVars
<1>2. ppc' \in PeriodPC
  BY DEF PeriodLoop, TestDestroy, TestFlag, Compare, ReadInput, Send_period,
         ThreadStep, PeriodPC, TypeOK
<1>3. interval' \in Nat /\ counted' \in Nat
  <2>1. interval \in Nat /\ counted \in Nat
    BY DEF TypeOK
  <2>2. CASE TestFlag
    BY <2>1, <2>2 DEF TestFlag
  <2>3. CASE Compare
    BY <2>1, <2>3 DEF Compare
  <2> QED BY <2>1, <2>2, <2>3
          DEF PeriodLoop, TestDestroy, ReadInput, Send_period
<1>4. report' \in Seq(BOOLEAN)
  <2>1. CASE ReadInput
    <3>1. Len(report) \in Nat
      BY DEF TypeOK
    <3>2. Len(report) \in Cell
      BY <2>1, <3>1, InputInCell DEF ReadInput, Input
    <3>3. inputs[Len(report)] \in BOOLEAN
      BY <3>2 DEF TypeOK
    <3>4. report \in Seq(BOOLEAN)
      BY DEF TypeOK
    <3> QED BY <2>1, <3>3, <3>4 DEF ReadInput
  <2>2. CASE Compare
    BY <2>2 DEF Compare
  <2>3. CASE UNCHANGED report
    BY <2>3 DEF TypeOK
  <2> QED BY <2>1, <2>2, <2>3 DEF PeriodLoop, TestDestroy, TestFlag, Send_period
<1>5. steady' \in BOOLEAN /\ late' \in 0..2
  <2>1. steady \in BOOLEAN /\ late \in 0..2
    BY DEF TypeOK
  <2>2. CASE TestFlag
    <3>1. steady' \in BOOLEAN
      BY <2>2, Zenon DEF TestFlag
    <3> QED BY <2>1, <2>2, <3>1 DEF TestFlag
  <2>3. CASE Send_period
    <3>1. late' \in 0..2
      BY <2>3 DEF Send_period
    <3> QED BY <2>1, <2>3, <3>1 DEF Send_period
  <2>4. CASE UNCHANGED <<steady, late>>
    BY <2>1, <2>4
  <2> QED BY <2>2, <2>3, <2>4 DEF PeriodLoop, TestDestroy, Compare, ReadInput
<1>6. seen' \in [Input -> SUBSET BOOLEAN]
  <2>1. CASE Compare
    <3>1. \A k \in Input : inputs[k] \in BOOLEAN
      BY InputInCell DEF TypeOK
    <3>2. seen \in [Input -> SUBSET BOOLEAN]
      BY DEF TypeOK
    <3> QED BY <2>1, <3>1, <3>2 DEF Compare
  <2>2. CASE ~Compare
    BY <2>2 DEF PeriodLoop, TestDestroy, TestFlag, ReadInput, Send_period,
                TypeOK
  <2> QED BY <2>1, <2>2
<1> QED
  BY <1>0, <1>1, <1>2, <1>3, <1>4, <1>5, <1>6 DEF TypeInv, TypeOK, controlVars

LEMMA ControllerType == TypeInv /\ ControllerNext => TypeInv'
<1> SUFFICES ASSUME TypeOK, AtInv, ControllerNext PROVE TypeInv'
  BY DEF TypeInv
<1> USE DEF ControllerAt, NoPeriodChange, ControllerPC, TypeInv, TypeOK, AtInv
<1>1. ASSUME NEW v \in IntervalCommands, Cmd_period(v) PROVE TypeInv'
  <2>1. v \in Int
    BY PeriodAssumption
  <2>2. need_to_send_period' \in BOOLEAN /\ steady' \in BOOLEAN
    BY <1>1, Zenon DEF Cmd_period
  <2> QED BY <1>1, <2>1, <2>2 DEF Cmd_period
<1>2. ASSUME NEW num \in InputCommands, NEW value \in BOOLEAN,
             Cmd_i_set(num, value)
      PROVE  TypeInv'
  <2>1. num \in Cell
    BY <1>2, PeriodAssumption DEF Cmd_i_set, Cell
  <2>2. WriteInput(num, value)
    BY <1>2 DEF Cmd_i_set
  <2> HIDE DEF TypeOK
  <2>3. /\ inputs' \in [Cell -> BOOLEAN]
        /\ seen' \in [Input -> SUBSET BOOLEAN]
        /\ need_to_destroy_thread' = need_to_destroy_thread
    BY <2>1, <2>2, WriteInputType
  <2> QED BY <1>2, <2>3 DEF Cmd_i_set, TypeOK
<1>3. ASSUME NEW num \in OutputCommands, NEW value \in BOOLEAN,
             Cmd_o_set(num, value)
      PROVE  TypeInv'
  <2>1. num \in Cell
    BY <1>3, PeriodAssumption DEF Cmd_o_set, Cell
  <2>2. outputs' \in [Cell -> BOOLEAN]
    BY <1>3, <2>1, WrittenType DEF Cmd_o_set
  <2> QED BY <1>3, <2>2 DEF Cmd_o_set, controlVars
<1>4. CASE Cmd_i_set_all
  BY <1>4 DEF Cmd_i_set_all
<1>5. CASE Cmd_reset
  <2>1. ASSUME Input # {} PROVE 0 \in Input
    BY <2>1, InputInCell DEF Input
  <2> QED BY <1>5, <2>1 DEF Cmd_reset
<1>6. CASE Destroy
  BY <1>6 DEF Destroy
<1>7. CASE StoreInterval
  BY <1>7 DEF StoreInterval, PeriodPC
<1>8. CASE SetNextInput
  <2>1. CASE at < NUMBER_OF_INPUTS
    <3>1. at \in Cell
      BY <2>1, PeriodAssumption DEF Cell
    <3>2. WriteInput(at, TRUE)
      BY <1>8, <2>1 DEF SetNextInput
    <3> HIDE DEF TypeOK
    <3>3. /\ inputs' \in [Cell -> BOOLEAN]
          /\ seen' \in [Input -> SUBSET BOOLEAN]
          /\ need_to_destroy_thread' = need_to_destroy_thread
      BY <3>1, <3>2, WriteInputType
    <3> QED BY <1>8, <3>3 DEF SetNextInput, TypeOK
  <2>2. CASE ~(at < NUMBER_OF_INPUTS)
    BY <1>8, <2>2 DEF SetNextInput
  <2> QED BY <2>1, <2>2
<1>9. CASE ResetNextInput
  <2>1. at \in Cell
    BY <1>9, InputInCell DEF ResetNextInput
  <2>2. WriteInput(at, INIT_INPUTS_STATE[at + 1] = "1")
    BY <1>9 DEF ResetNextInput
  <2>3. at' \in Nat /\ AtInv'
    BY <1>9, InputInCell DEF ResetNextInput, Input
  <2> HIDE DEF TypeOK
  <2>4. /\ inputs' \in [Cell -> BOOLEAN]
        /\ seen' \in [Input -> SUBSET BOOLEAN]
        /\ need_to_destroy_thread' = need_to_destroy_thread
    BY <2>1, <2>2, WriteInputType
  <2> QED BY <1>9, <2>3, <2>4 DEF ResetNextInput, TypeOK
<1>10. CASE LowerFlag
  <2>1. outputs' \in [Cell -> BOOLEAN]
    <3>1. DOMAIN outputs = Cell /\ \A k \in Cell : outputs[k] \in BOOLEAN
      OBVIOUS
    <3>2. outputs' = [k \in Cell |->
                       IF k < Len(INIT_OUTPUTS_STATE)
                         THEN INIT_OUTPUTS_STATE[k + 1] = "1" ELSE outputs[k]]
      BY <1>10, <3>1, Zenon DEF LowerFlag
    <3> HIDE DEF TypeOK
    <3> QED BY <3>1, <3>2, ZenonT(20)
  <2>2. need_to_send_period' \in BOOLEAN /\ steady' \in BOOLEAN
    BY <1>10, Zenon DEF LowerFlag
  <2> QED BY <1>10, <2>1, <2>2 DEF LowerFlag
<1>11. CASE Joined
  BY <1>11 DEF Joined
<1> HIDE DEF ControllerAt, NoPeriodChange, ControllerPC, TypeInv, TypeOK, AtInv
<1> QED
  BY <1>1, <1>2, <1>3, <1>4, <1>5, <1>6, <1>7, <1>8, <1>9, <1>10, <1>11
  DEF ControllerNext, FinishCommand

(* Every variable keeps its type: no command, whatever index it carries,   *)
(* makes the program write outside the words of the two vectors.           *)
THEOREM TypeCorrect == Spec => []TypeOK
<1>1. TypeInv /\ [Next]_vars => TypeInv'
  <2>1. TypeInv /\ UNCHANGED vars => TypeInv'
    BY DEF TypeInv, TypeOK, AtInv, vars, threadVars, controlVars
  <2> QED BY <2>1, ThreadType, ControllerType DEF Next
<1>2. TypeInv => TypeOK
  BY DEF TypeInv
<1> QED BY InitType, <1>1, <1>2, PTL DEF Spec

-----------------------------------------------------------------------------
(* Lines after the flag went down.  A line is begun only by a pass that    *)
(* saw the flag up, and whoever lowers it starts to count anew.            *)

LateInv == /\ need_to_send_period => late = 0
           /\ ppc \in {"compare", "line"} => late = 0
           /\ late \in {0, 1}

LEMMA LateStep == LateInv /\ [Next]_vars => LateInv'
<1> SUFFICES ASSUME LateInv, [Next]_vars PROVE LateInv'
  OBVIOUS
<1> USE DEF LateInv, ThreadStep, ControllerAt, NoPeriodChange, controlVars
<1>1. CASE PeriodLoop
  <2>1. CASE Send_period
    BY <2>1 DEF Send_period
  <2>2. CASE TestFlag
    BY <2>2 DEF TestFlag
  <2> QED BY <1>1, <2>1, <2>2 DEF PeriodLoop, TestDestroy, Compare, ReadInput
<1>2. CASE ControllerNext
  <2>1. ASSUME NEW v, Cmd_period(v) PROVE LateInv'
    BY <2>1 DEF Cmd_period
  <2>2. CASE LowerFlag
    BY <2>2 DEF LowerFlag
  <2>3. CASE StoreInterval
    BY <2>3 DEF StoreInterval
  <2>4. ASSUME UNCHANGED <<ppc, need_to_send_period, late>> PROVE LateInv'
    BY <2>4
  <2> QED BY <1>2, <2>1, <2>2, <2>3, <2>4
          DEF ControllerNext, Cmd_i_set, Cmd_o_set, Cmd_i_set_all, Cmd_reset,
              Destroy, FinishCommand, SetNextInput, ResetNextInput, Joined
<1>3. CASE UNCHANGED vars
  BY <1>3 DEF vars, threadVars
<1> QED BY <1>1, <1>2, <1>3 DEF Next

(* After "period 0" or "reset" at most one line that was under way is sent. *)
THEOREM LinesStop == Spec => []AtMostOneLateLine
<1>1. Init => LateInv
  BY DEF Init, LateInv
<1>2. LateInv => AtMostOneLateLine
  BY DEF LateInv, AtMostOneLateLine
<1> QED BY <1>1, <1>2, LateStep, PTL DEF Spec

-----------------------------------------------------------------------------
(* The rate.  The thread's counter is the number of passes that saw the    *)
(* flag up, and outside a "period" command the stored interval is that of  *)
(* the last one.                                                           *)

RateInv == /\ counted = interval
           /\ cpc # "store_interval" => period_intervals_by_10_ms = val
           /\ ppc = "compare" /\ steady => cpc # "store_interval"

LEMMA RateStep == RateInv /\ [Next]_vars => RateInv'
<1> SUFFICES ASSUME RateInv, [Next]_vars PROVE RateInv'
  OBVIOUS
<1> USE DEF RateInv, ThreadStep, ControllerAt, NoPeriodChange, controlVars
<1>1. CASE PeriodLoop
  BY <1>1 DEF PeriodLoop, TestDestroy, TestFlag, Compare, ReadInput,
              Send_period
<1>2. CASE ControllerNext
  BY <1>2 DEF ControllerNext, Cmd_period, Cmd_i_set, Cmd_o_set, Cmd_i_set_all,
              Cmd_reset, Destroy, FinishCommand, StoreInterval, SetNextInput,
              ResetNextInput, LowerFlag, Joined, WriteInput
<1>3. CASE UNCHANGED vars
  BY <1>3 DEF vars, threadVars
<1> QED BY <1>1, <1>2, <1>3 DEF Next

(* A pass that no command overlaps sends a line exactly when as many       *)
(* passes as the last command asked for have seen the flag up.             *)
THEOREM RateIsKept == Spec => RateAsAsked
<1>1. Init => RateInv
  BY DEF Init, RateInv
<1>2. RateInv /\ [Next]_vars =>
        [ppc = "compare" /\ ppc' # "compare" /\ steady =>
           (ppc' = "line" <=> counted >= val)]_vars
  <2> SUFFICES ASSUME RateInv, Next, ppc = "compare", ppc' # "compare", steady
               PROVE  ppc' = "line" <=> counted >= val
    OBVIOUS
  <2>1. CASE PeriodLoop
    BY <2>1 DEF PeriodLoop, TestDestroy, TestFlag, Compare, ReadInput,
                Send_period, ThreadStep, RateInv
  <2>2. CASE ControllerNext
    BY <2>2 DEF ControllerNext, Cmd_period, Cmd_i_set, Cmd_o_set,
                Cmd_i_set_all, Cmd_reset, Destroy, FinishCommand,
                StoreInterval, SetNextInput, ResetNextInput, LowerFlag, Joined,
                NoPeriodChange
  <2> QED BY <2>1, <2>2 DEF Next
<1> QED BY <1>1, <1>2, RateStep, PTL DEF Spec, RateAsAsked

-----------------------------------------------------------------------------
(* The inputs in a line.                                                   *)

ReportInv ==
  ppc = "line" => /\ Len(report) <= Len(INIT_INPUTS_STATE)
                  /\ \A k \in Input : inputs[k] \in seen[k]
                  /\ \A k \in Input :
                       k < Len(report) => report[k + 1] \in seen[k]

LEMMA WriteKeepsReport ==
  ASSUME TypeOK, ReportInv, NEW k \in Cell, NEW value \in BOOLEAN,
         WriteInput(k, value), UNCHANGED <<ppc, report>>
  PROVE  ReportInv'
BY InputInCell DEF ReportInv, WriteInput, Written, TypeOK

LEMMA ReportThread == TypeOK /\ ReportInv /\ PeriodLoop => ReportInv'
<1> SUFFICES ASSUME TypeOK, ReportInv, PeriodLoop PROVE ReportInv'
  OBVIOUS
<1> USE DEF ThreadStep
<1>1. CASE TestDestroy
  BY <1>1 DEF TestDestroy, ReportInv
<1>2. CASE TestFlag
  BY <1>2 DEF TestFlag, ReportInv
<1>3. CASE Compare
  <2> SUFFICES ASSUME ppc' = "line" PROVE ReportInv'
    BY DEF ReportInv
  <2>1. \A k \in Input : inputs'[k] \in seen'[k]
    BY <1>3 DEF Compare
  <2>2. Len(report') = 0
    BY <1>3 DEF Compare
  <2>3. \A k \in Input : ~(k < Len(report'))
    BY <2>2 DEF Input
  <2> QED BY <2>1, <2>2, <2>3, InputInCell DEF ReportInv
<1>4. CASE ReadInput
  <2> DEFINE n == Len(report)
  <2>1. n \in Input /\ n \in Nat
    BY <1>4, InputInCell DEF ReadInput, Input, TypeOK
  <2>2. /\ Len(report') = n + 1
        /\ report'[n + 1] = inputs[n]
        /\ \A k \in Input : k < n => report'[k + 1] = report[k + 1]
    BY <1>4, <2>1 DEF ReadInput, Input, TypeOK
  <2>3. \A k \in Input : inputs'[k] \in seen'[k] /\ seen'[k] = seen[k]
    BY <1>4 DEF ReadInput, ReportInv
  <2>4. ASSUME NEW k \in Input, k < n + 1 PROVE report'[k + 1] \in seen'[k]
    <3>1. CASE k = n
      BY <3>1, <2>2, <2>3, <1>4 DEF ReadInput, ReportInv
    <3>2. CASE k # n
      <4>1. k < n
        BY <2>1, <2>4, <3>2 DEF Input
      <4> QED BY <4>1, <2>2, <2>3, <1>4 DEF ReadInput, ReportInv
    <3> QED BY <3>1, <3>2
  <2>5. n + 1 <= Len(INIT_INPUTS_STATE)
    BY <1>4, <2>1, InputInCell DEF ReadInput
  <2> QED BY <2>2, <2>3, <2>4, <2>5 DEF ReportInv
<1>5. CASE Send_period
  BY <1>5 DEF Send_period, ReportInv
<1> QED BY <1>1, <1>2, <1>3, <1>4, <1>5 DEF PeriodLoop

LEMMA ReportController == TypeInv /\ ReportInv /\ ControllerNext => ReportInv'
<1> SUFFICES ASSUME TypeOK, AtInv, ReportInv, ControllerNext PROVE ReportInv'
  BY DEF TypeInv
<1> USE DEF ControllerAt, NoPeriodChange
<1>1. ASSUME NEW num \in InputCommands, NEW value \in BOOLEAN,
             Cmd_i_set(num, value)
      PROVE  ReportInv'
  <2>1. num \in Cell
    BY <1>1, PeriodAssumption DEF Cmd_i_set, Cell
  <2> QED BY <1>1, <2>1, WriteKeepsReport DEF Cmd_i_set
<1>2. CASE SetNextInput
  <2>1. CASE at < NUMBER_OF_INPUTS
    <3>1. at \in Cell
      BY <2>1, PeriodAssumption DEF Cell, TypeOK
    <3> QED BY <1>2, <2>1, <3>1, WriteKeepsReport DEF SetNextInput
  <2>2. CASE ~(at < NUMBER_OF_INPUTS)
    BY <1>2, <2>2 DEF SetNextInput, ReportInv
  <2> QED BY <2>1, <2>2
<1>3. CASE ResetNextInput
  <2>1. at \in Cell
    BY <1>3, InputInCell DEF ResetNextInput, AtInv
  <2> QED BY <1>3, <2>1, WriteKeepsReport DEF ResetNextInput
<1>4. CASE StoreInterval
  BY <1>4 DEF StoreInterval, ReportInv
<1>5. ASSUME UNCHANGED <<inputs, ppc, report, seen>> PROVE ReportInv'
  BY <1>5 DEF ReportInv
<1> QED BY <1>1, <1>2, <1>3, <1>4, <1>5
        DEF ControllerNext, FinishCommand, Cmd_period, Cmd_o_set,
            Cmd_i_set_all, Cmd_reset, Destroy, LowerFlag, Joined

LEMMA ReportInductive ==
  TypeInv /\ ReportInv /\ [Next]_vars => (TypeInv /\ ReportInv)'
<1>1. TypeInv /\ ReportInv /\ UNCHANGED vars => (TypeInv /\ ReportInv)'
  BY DEF TypeInv, TypeOK, AtInv, ReportInv, vars, threadVars, controlVars
<1> QED BY <1>1, ThreadType, ControllerType, ReportThread, ReportController
        DEF Next, TypeInv

(* A line never tells a value of an input that the input did not have      *)
(* while the line was put together, however its writes interleave.         *)
THEOREM LinesTellTheTruth == Spec => []ReportTruthful
<1>1. Init => TypeInv /\ ReportInv
  BY InitType DEF Init, ReportInv
<1>2. ReportInv => ReportTruthful
  BY DEF ReportInv, ReportTruthful
<1> QED BY <1>1, <1>2, ReportInductive, PTL DEF Spec

-----------------------------------------------------------------------------
(* How far the thread is from its end, and from the next line.             *)

(* Steps to the end once the destructor's flag is up: a line that is being *)
(* put together is finished, and no other is begun after it.               *)
EndRank ==
  LET inputsLeft == Len(INIT_INPUTS_STATE) - Len(report)
  IN CASE ppc \in {"none", "ended"} -> 0
       [] ppc = "test_destroy" -> 1
       [] ppc = "line"         -> 2 + inputsLeft
       [] ppc = "compare"      -> 3 + Len(INIT_INPUTS_STATE)
       [] ppc = "test_flag"    -> 4 + Len(INIT_INPUTS_STATE)

(* The destructor waits for one line at most (protocol_mso2.cpp:78-87,     *)
(* 831-852).                                                               *)
JoinIsShort ==
  [][cpc = "join" /\ cpc' = "join" =>
       /\ EndRank \in 0 .. Len(INIT_INPUTS_STATE) + 4
       /\ IF PeriodLoop THEN EndRank' < EndRank ELSE EndRank' = EndRank]_vars

(* Steps to the next line: the passes still to be counted, three steps     *)
(* each, and the rest of this one.                                         *)
PassesLeft == IF interval >= period_intervals_by_10_ms THEN 0
              ELSE period_intervals_by_10_ms - interval
LineRank ==
  CASE ppc \in {"none", "ended"} -> 0
    [] ppc = "test_destroy" -> 3 * PassesLeft + 2
    [] ppc = "test_flag"    -> 3 * PassesLeft + 1
    [] ppc = "compare"      -> IF PassesLeft = 0 THEN 0 ELSE 3 * PassesLeft + 3
    [] ppc = "line"         -> 3 * PassesLeft + 3 + Len(INIT_INPUTS_STATE)
                                 - Len(report)

(* While the flag and the interval stay, every step of the thread brings   *)
(* the next line nearer, whatever else is commanded and whatever the       *)
(* counter was when the interval was changed (lines 793-798, 831-852).     *)
LineNears ==
  [][need_to_send_period /\ ~need_to_destroy_thread
       /\ UNCHANGED <<need_to_send_period, period_intervals_by_10_ms>> =>
       /\ LineRank \in Nat
       /\ IF PeriodLoop
          THEN (ppc = "compare" /\ ppc' = "line") \/ LineRank' < LineRank
          ELSE LineRank' = LineRank \/ ppc = "none"]_vars

(* A line is begun with the counter cleared; in "join" the flag is up.     *)
LineInv == /\ (ppc = "line" => interval = 0)
           /\ cpc = "join" => need_to_destroy_thread

LEMMA LineStep == LineInv /\ [Next]_vars => LineInv'
<1> SUFFICES ASSUME LineInv, [Next]_vars PROVE LineInv'
  OBVIOUS
<1> USE DEF LineInv, ThreadStep, ControllerAt, NoPeriodChange, controlVars
<1>1. CASE PeriodLoop
  BY <1>1 DEF PeriodLoop, TestDestroy, TestFlag, Compare, ReadInput,
              Send_period
<1>2. CASE ControllerNext
  BY <1>2 DEF ControllerNext, Cmd_period, Cmd_i_set, Cmd_o_set, Cmd_i_set_all,
              Cmd_reset, Destroy, FinishCommand, StoreInterval, SetNextInput,
              ResetNextInput, LowerFlag, Joined, WriteInput
<1>3. CASE UNCHANGED vars
  BY <1>3 DEF vars, threadVars
<1> QED BY <1>1, <1>2, <1>3 DEF Next

(* What a step of the thread does, and of anybody else to its place.       *)
LEMMA ThreadMoves ==
  ASSUME PeriodLoop
  PROVE  /\ UNCHANGED controlVars
         /\ \/ ppc = "test_destroy" /\ UNCHANGED <<interval, report>>
                 /\ ppc' = IF need_to_destroy_thread THEN "ended"
                                                     ELSE "test_flag"
            \/ ppc = "test_flag" /\ report' = report
                 /\ IF need_to_send_period
                    THEN ppc' = "compare" /\ interval' = interval + 1
                    ELSE ppc' = "test_destroy" /\ interval' = 0
            \/ ppc = "compare" /\ report' = <<>>
                 /\ IF interval >= period_intervals_by_10_ms
                    THEN ppc' = "line" /\ interval' = 0
                    ELSE ppc' = "test_destroy" /\ interval' = interval
            \/ ppc = "line" /\ ppc' = "line" /\ interval' = interval
                 /\ Len(report) < Len(INIT_INPUTS_STATE)
                 /\ report' = Append(report, inputs[Len(report)])
            \/ ppc = "line" /\ ppc' = "test_destroy"
                 /\ UNCHANGED <<interval, report>>
BY DEF PeriodLoop, TestDestroy, TestFlag, Compare, ReadInput, Send_period,
       ThreadStep

LEMMA OthersMove ==
  ASSUME [Next]_vars, ~PeriodLoop
  PROVE  /\ UNCHANGED <<interval, report>>
         /\ ppc' = ppc \/ (cpc = "store_interval" /\ ppc = "none")
BY DEF Next, ControllerNext, Cmd_period, Cmd_i_set, Cmd_o_set, Cmd_i_set_all,
       Cmd_reset, Destroy, FinishCommand, StoreInterval, SetNextInput,
       ResetNextInput, LowerFlag, Joined, ControllerAt, NoPeriodChange, vars,
       threadVars, controlVars

LEMMA Lengths ==
  ASSUME TypeOK
  PROVE  /\ Len(INIT_INPUTS_STATE) \in Nat /\ Len(report) \in Nat
         /\ Len(<<>>) = 0 /\ \A x : Len(Append(report, x)) = Len(report) + 1
BY PeriodAssumption DEF TypeOK

LEMMA JoinStep ==
  ASSUME TypeOK, ReportInv, LineInv, [Next]_vars, cpc = "join"
  PROVE  /\ EndRank \in 0 .. Len(INIT_INPUTS_STATE) + 4
         /\ IF PeriodLoop THEN EndRank' < EndRank ELSE EndRank' = EndRank
<1>0. /\ Len(INIT_INPUTS_STATE) \in Nat /\ Len(report) \in Nat
      /\ Len(<<>>) = 0 /\ \A x : Len(Append(report, x)) = Len(report) + 1
      /\ ppc \in PeriodPC /\ need_to_destroy_thread
      /\ ppc = "line" => Len(report) <= Len(INIT_INPUTS_STATE)
  BY Lengths DEF TypeOK, ReportInv, LineInv
<1>1. EndRank \in 0 .. Len(INIT_INPUTS_STATE) + 4
  BY <1>0 DEF EndRank, PeriodPC
<1>2. ASSUME PeriodLoop PROVE EndRank' < EndRank
  <2>1. CASE ppc = "test_destroy"
    BY <1>0, <1>2, <2>1, ThreadMoves DEF EndRank
  <2>2. CASE ppc = "test_flag"
    BY <1>0, <1>2, <2>2, ThreadMoves DEF EndRank
  <2>3. CASE ppc = "compare"
    BY <1>0, <1>2, <2>3, ThreadMoves DEF EndRank
  <2>4. CASE ppc = "line"
    BY <1>0, <1>2, <2>4, ThreadMoves DEF EndRank
  <2> QED BY <1>2, <2>1, <2>2, <2>3, <2>4, ThreadMoves
<1>3. ASSUME ~PeriodLoop PROVE EndRank' = EndRank
  BY <1>3, OthersMove DEF EndRank
<1> QED BY <1>1, <1>2, <1>3

(* Once the destructor has raised its flag the thread ends within one line *)
(* and four steps, whatever it was doing.                                  *)
THEOREM DestructorWaitsForOneLine == Spec => JoinIsShort
<1>1. Init => TypeInv /\ ReportInv /\ LineInv
  BY InitType DEF Init, ReportInv, LineInv
<1>2. TypeInv /\ ReportInv /\ LineInv /\ [Next]_vars
        => (TypeInv /\ ReportInv /\ LineInv)'
  BY ReportInductive, LineStep
<1>3. TypeInv /\ ReportInv /\ LineInv /\ [Next]_vars =>
        [cpc = "join" /\ cpc' = "join" =>
           /\ EndRank \in 0 .. Len(INIT_INPUTS_STATE) + 4
           /\ IF PeriodLoop THEN EndRank' < EndRank
                            ELSE EndRank' = EndRank]_vars
  BY JoinStep DEF TypeInv
<1> QED BY <1>1, <1>2, <1>3, PTL DEF Spec, JoinIsShort

LEMMA LineNearsStep ==
  ASSUME TypeOK, ReportInv, LineInv, [Next]_vars,
         need_to_send_period, ~need_to_destroy_thread,
         UNCHANGED <<need_to_send_period, period_intervals_by_10_ms>>
  PROVE  /\ LineRank \in Nat
         /\ IF PeriodLoop
            THEN (ppc = "compare" /\ ppc' = "line") \/ LineRank' < LineRank
            ELSE LineRank' = LineRank \/ ppc = "none"
<1>0. /\ Len(INIT_INPUTS_STATE) \in Nat /\ Len(report) \in Nat
      /\ Len(<<>>) = 0 /\ \A x : Len(Append(report, x)) = Len(report) + 1
      /\ ppc \in PeriodPC /\ interval \in Nat
      /\ period_intervals_by_10_ms \in Int
      /\ ppc = "line" => Len(report) <= Len(INIT_INPUTS_STATE) /\ interval = 0
  BY Lengths DEF TypeOK, ReportInv, LineInv
<1>p. period_intervals_by_10_ms' = period_intervals_by_10_ms
  OBVIOUS
<1>1. LineRank \in Nat
  BY <1>0 DEF LineRank, PassesLeft, PeriodPC
<1>2. ASSUME PeriodLoop, ~(ppc = "compare" /\ ppc' = "line")
      PROVE  LineRank' < LineRank
  <2>1. CASE ppc = "test_destroy"
    BY <1>0, <1>p, <1>2, <2>1, ThreadMoves DEF LineRank, PassesLeft
  <2>2. CASE ppc = "test_flag"
    BY <1>0, <1>p, <1>2, <2>2, ThreadMoves DEF LineRank, PassesLeft
  <2>3. CASE ppc = "compare"
    BY <1>0, <1>p, <1>2, <2>3, ThreadMoves DEF LineRank, PassesLeft
  <2>4. CASE ppc = "line"
    BY <1>0, <1>p, <1>2, <2>4, ThreadMoves DEF LineRank, PassesLeft
  <2> QED BY <1>2, <2>1, <2>2, <2>3, <2>4, ThreadMoves
<1>3. ASSUME ~PeriodLoop, ppc # "none" PROVE LineRank' = LineRank
  <2>1. UNCHANGED <<ppc, interval, report, period_intervals_by_10_ms>>
    BY <1>3, <1>p, OthersMove
  <2>2. PassesLeft' = PassesLeft
    BY <2>1 DEF PassesLeft
  <2> QED BY <2>1, <2>2 DEF LineRank
<1> QED BY <1>1, <1>2, <1>3

(* The next line is never further away than the interval and one line say, *)
(* and only "period" and "reset" can put it off.                           *)
THEOREM EveryStepBringsTheLine == Spec => LineNears
<1>1. Init => TypeInv /\ ReportInv /\ LineInv
  BY InitType DEF Init, ReportInv, LineInv
<1>2. TypeInv /\ ReportInv /\ LineInv /\ [Next]_vars
        => (TypeInv /\ ReportInv /\ LineInv)'
  BY ReportInductive, LineStep
<1>3. TypeInv /\ ReportInv /\ LineInv /\ [Next]_vars =>
        [need_to_send_period /\ ~need_to_destroy_thread
         /\ UNCHANGED <<need_to_send_period, period_intervals_by_10_ms>> =>
           /\ LineRank \in Nat
           /\ IF PeriodLoop
              THEN (ppc = "compare" /\ ppc' = "line") \/ LineRank' < LineRank
              ELSE LineRank' = LineRank \/ ppc = "none"]_vars
  BY LineNearsStep DEF TypeInv
<1> QED BY <1>1, <1>2, <1>3, PTL DEF Spec, LineNears
=============================================================================
