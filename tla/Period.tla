------------------------------- MODULE Period -------------------------------
(***************************************************************************)
(* The periodic report of the protocol (protocol_mso2.cpp): the period     *)
(* thread counts its passes and sends a line every so many of them, while  *)
(* the controller thread executes "period", "iset" and "reset".  They      *)
(* share two atomics and, with no lock at all, the vector of inputs.  One  *)
(* action is one access that the other thread can see; the positions and   *)
(* speeds of the line are the engine's and left out.                       *)
(***************************************************************************)
EXTENDS Integers, Sequences

CONSTANTS
  INIT_INPUTS_STATE, INIT_OUTPUTS_STATE, (* CONFIG, a character for each   *)
  NUMBER_OF_INPUTS,   (* the protocol's own idea of how many there are     *)
  CELLS,              (* bits in the words that the vector allocated       *)
  IntervalCommands,   (* SUBSET Int, arguments of "period"                 *)
  InputCommands, OutputCommands (* SUBSET Int, indices in "iset" and "o"   *)

ASSUME PeriodAssumption ==
  /\ INIT_INPUTS_STATE \in Seq({"0", "1", "other"})
  /\ INIT_OUTPUTS_STATE \in Seq({"0", "1", "other"})
  /\ NUMBER_OF_INPUTS \in Nat /\ CELLS \in Nat
  /\ NUMBER_OF_INPUTS < CELLS
  /\ Len(INIT_INPUTS_STATE) <= CELLS /\ Len(INIT_OUTPUTS_STATE) <= CELLS
  /\ IntervalCommands \subseteq Int
  /\ InputCommands \subseteq Int /\ OutputCommands \subseteq Int

VARIABLES
  inputs, outputs,      (* of state, with the spare bits of their words    *)
  need_to_send_period, period_intervals_by_10_ms, need_to_destroy_thread,
  ppc,                  (* where the period thread is                      *)
  interval,             (* its counter of passes                           *)
  report,               (* the inputs it has put into the line             *)
  cpc,                  (* where the controller is                         *)
  val,                  (* the argument of the last "period"               *)
  at,                   (* the input it is about to write                  *)
  counted,  (* history: passes that saw the flag up, since the last line   *)
            (* or the last pass that saw it down                           *)
  steady,   (* history: no "period" or "reset" since this pass saw the flag *)
  late,     (* history: lines sent since the flag went down, at most 2     *)
  seen      (* history: values each input has had since the line was begun *)

threadVars  == <<ppc, interval, report, counted>>
controlVars == <<cpc, val, at, need_to_send_period, period_intervals_by_10_ms,
                 need_to_destroy_thread>>
vars == <<inputs, outputs, threadVars, controlVars, steady, late, seen>>

PeriodPC == {"none", "test_destroy", "test_flag", "compare", "line", "ended"}
ControllerPC == {"idle", "store_interval", "set_all", "reset_inputs",
                 "lower_flag", "join", "gone"}
Input == 0 .. Len(INIT_INPUTS_STATE) - 1
Cell  == 0 .. CELLS - 1

(* Start_Protocol takes every character but '0' for true.                  *)
StartState(chars) ==
  [k \in Cell |-> k < Len(chars) /\ chars[k + 1] # "0"]

Init ==
  /\ inputs = StartState(INIT_INPUTS_STATE)
  /\ outputs = StartState(INIT_OUTPUTS_STATE)
  /\ need_to_send_period = FALSE /\ period_intervals_by_10_ms = 0
  /\ need_to_destroy_thread = FALSE
  /\ ppc = "none" /\ interval = 0 /\ report = <<>>
  /\ cpc = "idle" /\ val = 0 /\ at = 0
  /\ counted = 0 /\ steady = FALSE /\ late = 0
  /\ seen = [k \in Input |-> {}]

-----------------------------------------------------------------------------
(* The period thread.                                                      *)

ThreadStep(from, to) ==
  /\ ppc = from /\ ppc' = to
  /\ UNCHANGED <<inputs, outputs, controlVars>>

(* Mutant: the loop does not look at the flag of the destructor.           *)
TestDestroy_IgnoresFlag ==
  /\ ThreadStep("test_destroy", "test_flag")
  /\ UNCHANGED <<interval, report, counted, steady, late, seen>>

TestDestroy ==
  /\ ThreadStep("test_destroy",
                IF need_to_destroy_thread THEN "ended" ELSE "test_flag")
  /\ UNCHANGED <<interval, report, counted, steady, late, seen>>

(* Mutant: the counter is kept while nothing is to be sent.                *)
TestFlag_KeepsCounter ==
  /\ ThreadStep("test_flag", IF need_to_send_period THEN "compare"
                                                    ELSE "test_destroy")
  /\ interval' = IF need_to_send_period THEN interval + 1 ELSE interval
  /\ counted' = IF need_to_send_period THEN counted + 1 ELSE 0
  /\ steady' = (cpc # "store_interval")
  /\ UNCHANGED <<report, late, seen>>

(* Mutant: once there is a thread it always counts.                        *)
TestFlag_IgnoresFlag ==
  /\ ThreadStep("test_flag", "compare")
  /\ interval' = interval + 1
  /\ counted' = IF need_to_send_period THEN counted + 1 ELSE 0
  /\ steady' = (cpc # "store_interval")
  /\ UNCHANGED <<report, late, seen>>

TestFlag ==
  /\ ThreadStep("test_flag", IF need_to_send_period THEN "compare"
                                                    ELSE "test_destroy")
  /\ interval' = IF need_to_send_period THEN interval + 1 ELSE 0
  /\ counted' = IF need_to_send_period THEN counted + 1 ELSE 0
  /\ steady' = (cpc # "store_interval")
  /\ UNCHANGED <<report, late, seen>>

Compare ==
  /\ ThreadStep("compare", IF interval >= period_intervals_by_10_ms
                           THEN "line" ELSE "test_destroy")
  /\ IF ppc' = "line"
       THEN /\ interval' = 0 /\ counted' = 0
            /\ seen' = [k \in Input |-> {inputs[k]}]
       ELSE UNCHANGED <<interval, counted, seen>>
  /\ report' = <<>>
  /\ UNCHANGED <<steady, late>>

(* Mutant: the inputs are counted from one.                                *)
ReadInput_FromOne ==
  /\ ThreadStep("line", "line")
  /\ Len(report) < Len(INIT_INPUTS_STATE)
  /\ report' = Append(report, inputs[Len(report) + 1])
  /\ UNCHANGED <<interval, counted, steady, late, seen>>

(* Send_period reads the inputs one by one ...                             *)
ReadInput ==
  /\ ThreadStep("line", "line")
  /\ Len(report) < Len(INIT_INPUTS_STATE)
  /\ report' = Append(report, inputs[Len(report)])
  /\ UNCHANGED <<interval, counted, steady, late, seen>>

(* ... and sends the line.                                                 *)
Send_period ==
  /\ ThreadStep("line", "test_destroy")
  /\ Len(report) = Len(INIT_INPUTS_STATE)
  /\ late' = IF need_to_send_period THEN 0 ELSE IF late = 0 THEN 1 ELSE 2
  /\ UNCHANGED <<interval, report, counted, steady, seen>>

PeriodLoop == TestDestroy \/ TestFlag \/ Compare \/ ReadInput \/ Send_period

-----------------------------------------------------------------------------
(* The controller.                                                         *)

ControllerAt(from, to) ==
  cpc = from /\ cpc' = to /\ UNCHANGED <<interval, report, counted>>
NoPeriodChange ==
  UNCHANGED <<outputs, ppc, val, need_to_send_period,
              period_intervals_by_10_ms, steady, late>>

(* "period": the flag first; a negative argument raises it too.            *)
Cmd_period(v) ==
  /\ ControllerAt("idle", "store_interval")
  /\ val' = v
  /\ need_to_send_period' = (v # 0)
  /\ steady' = FALSE /\ late' = 0
  /\ UNCHANGED <<inputs, outputs, ppc, at, period_intervals_by_10_ms,
                 need_to_destroy_thread, seen>>

(* Then the interval; the first command starts the thread.                 *)
StoreInterval ==
  /\ ControllerAt("store_interval", "idle")
  /\ period_intervals_by_10_ms' = val
  /\ ppc' = IF ppc = "none" THEN "test_destroy" ELSE ppc
  /\ steady' = FALSE
  /\ UNCHANGED <<inputs, outputs, val, at, need_to_send_period,
                 need_to_destroy_thread, late, seen>>

(* operator[] checks nothing: a write beyond the words makes a cell there. *)
Written(bits, k, value) ==
  [c \in DOMAIN bits \cup {k} |-> IF c = k THEN value ELSE bits[c]]
WriteInput(k, value) ==
  /\ inputs' = Written(inputs, k, value)
  /\ seen' = IF k \in Input THEN [seen EXCEPT ![k] = @ \cup {value}] ELSE seen
  /\ UNCHANGED need_to_destroy_thread

(* Mutant: any index will do.                                              *)
Cmd_i_set_AnyIndex(num, value) ==
  /\ ControllerAt("idle", "idle")
  /\ num >= 0
  /\ WriteInput(num, value)
  /\ NoPeriodChange /\ UNCHANGED at

(* "iset": the index one past the last is let through.                     *)
Cmd_i_set(num, value) ==
  /\ ControllerAt("idle", "idle")
  /\ num >= 0 /\ num <= NUMBER_OF_INPUTS
  /\ WriteInput(num, value)
  /\ NoPeriodChange /\ UNCHANGED at

(* "o": the outputs concern this thread only.                              *)
Cmd_o_set(num, value) ==
  /\ ControllerAt("idle", "idle")
  /\ num >= 0 /\ num <= NUMBER_OF_INPUTS
  /\ outputs' = Written(outputs, num, value)
  /\ UNCHANGED <<inputs, controlVars, ppc, steady, late, seen>>

(* "iset all", one input after the other.                                  *)
Cmd_i_set_all ==
  /\ ControllerAt("idle", "set_all")
  /\ at' = 0
  /\ NoPeriodChange /\ UNCHANGED <<inputs, need_to_destroy_thread, seen>>

SetNextInput ==
  /\ ControllerAt("set_all", IF at + 1 < NUMBER_OF_INPUTS THEN "set_all"
                                                          ELSE "idle")
  /\ IF at < NUMBER_OF_INPUTS
       THEN WriteInput(at, TRUE)
       ELSE UNCHANGED <<inputs, seen, need_to_destroy_thread>>
  /\ at' = IF at + 1 < NUMBER_OF_INPUTS THEN at + 1 ELSE 0
  /\ NoPeriodChange

(* "reset": the inputs, for which only '1' is true now, the outputs        *)
(* likewise, then the flag.                                                *)
Cmd_reset ==
  /\ ControllerAt("idle", IF Input = {} THEN "lower_flag" ELSE "reset_inputs")
  /\ at' = 0
  /\ NoPeriodChange /\ UNCHANGED <<inputs, need_to_destroy_thread, seen>>

ResetNextInput ==
  /\ ControllerAt("reset_inputs", IF at + 1 \in Input THEN "reset_inputs"
                                                      ELSE "lower_flag")
  /\ WriteInput(at, INIT_INPUTS_STATE[at + 1] = "1")
  /\ at' = IF at + 1 \in Input THEN at + 1 ELSE 0
  /\ NoPeriodChange

LowerFlag ==
  /\ ControllerAt("lower_flag", "idle")
  /\ outputs' = [k \in DOMAIN outputs |->
                   IF k < Len(INIT_OUTPUTS_STATE)
                     THEN INIT_OUTPUTS_STATE[k + 1] = "1" ELSE outputs[k]]
  /\ need_to_send_period' = FALSE
  /\ steady' = FALSE /\ late' = 0
  /\ UNCHANGED <<inputs, ppc, val, at, period_intervals_by_10_ms,
                 need_to_destroy_thread, seen>>

(* ~Protocol_MSO2: the flag, join; the base class goes only after that.    *)
Destroy ==
  /\ ControllerAt("idle", "join")
  /\ need_to_destroy_thread' = TRUE
  /\ NoPeriodChange /\ UNCHANGED <<inputs, at, seen>>

Joined ==
  /\ ControllerAt("join", "gone")
  /\ ppc \in {"none", "ended"}
  /\ NoPeriodChange /\ UNCHANGED <<inputs, at, need_to_destroy_thread, seen>>

FinishCommand == StoreInterval \/ SetNextInput \/ ResetNextInput \/ LowerFlag
                   \/ Joined
ControllerNext ==
  \/ \E v \in IntervalCommands : Cmd_period(v)
  \/ \E num \in InputCommands, value \in BOOLEAN : Cmd_i_set(num, value)
  \/ \E num \in OutputCommands, value \in BOOLEAN : Cmd_o_set(num, value)
  \/ Cmd_i_set_all \/ Cmd_reset \/ Destroy
  \/ FinishCommand

Next == PeriodLoop \/ ControllerNext

(* The thread runs, a command that was begun is finished, none has to be.  *)
Spec == Init /\ [][Next]_vars /\ WF_vars(PeriodLoop) /\ WF_vars(FinishCommand)
-----------------------------------------------------------------------------
(* Properties.                                                             *)

(* Types.  The cells are those of the vectors: no "iset" or "o", the index *)
(* one past the last included, and no loop over them writes outside the    *)
(* words that were allocated (lines 705-745, 764-771).                     *)
TypeOK ==
  /\ inputs \in [Cell -> BOOLEAN] /\ outputs \in [Cell -> BOOLEAN]
  /\ need_to_send_period \in BOOLEAN /\ need_to_destroy_thread \in BOOLEAN
  /\ period_intervals_by_10_ms \in Int /\ val \in Int
  /\ ppc \in PeriodPC /\ cpc \in ControllerPC
  /\ interval \in Nat /\ counted \in Nat /\ report \in Seq(BOOLEAN)
  /\ at \in Nat /\ steady \in BOOLEAN /\ late \in 0..2
  /\ seen \in [Input -> SUBSET BOOLEAN]

(* The rate is the one asked for: unless a "period" or "reset" overlaps    *)
(* the pass (the flag is stored before the interval, lines 793-798), a     *)
(* pass that sees the flag up sends a line exactly when that many passes   *)
(* have seen it up since the last line, or since it was last seen down; a  *)
(* negative interval means every pass (lines 831-852).                     *)
RateAsAsked ==
  [][ppc = "compare" /\ ppc' # "compare" /\ steady =>
       (ppc' = "line" <=> counted >= val)]_vars

(* "period 0" and "reset" stop the lines: at most one that was already     *)
(* under way comes after the flag went down, however the two threads       *)
(* interleave (lines 778, 793-796, 836-843).                               *)
AtMostOneLateLine == late <= 1

(* A line tells, of every input the device has, a value the input had      *)
(* while the line was put together, although "iset all" and "reset" write  *)
(* them one by one without a lock (lines 883-888).                         *)
ReportTruthful ==
  ppc = "line" => /\ Len(report) <= Len(INIT_INPUTS_STATE)
                  /\ \A k \in Input :
                       k < Len(report) => report[k + 1] \in seen[k]

(* Once the controller leaves the flag up, lines keep coming for ever, and *)
(* the destructor returns (lines 78-87, 831-852).                          *)
LinesKeepComing ==
  /\ <>[](cpc = "idle" /\ need_to_send_period) => []<>(ppc = "line")
  /\ (cpc = "join") ~> (cpc = "gone")
=============================================================================
