------------------------------ MODULE Startup ------------------------------
(***************************************************************************)
(* The life of the program around its loop (main.cpp): each start reads    *)
(* the configuration, writes the file back and starts the log with the     *)
(* size it found; then every thread logs; the program ends, is killed, or  *)
(* dies of what is undefined in it, and is started again.                  *)
(***************************************************************************)
EXTENDS Log, ConfigFile

CONSTANTS
  Files,        (* the configuration files that an operator may write      *)
  LOG_SIZE,     (* the key LOG::MAX_SIZE_BYTES                             *)
  SizeOf,       (* [DOMAIN Number -> Nat], the lines that many bytes are   *)
  MaxProcesses  (* bound: starts of the program                            *)

ASSUME StartupAssumption ==
  /\ Files \subseteq Seq(Line) /\ \A f \in Files : NoEmptyRepeat(f)
  /\ LOG_SIZE \in Numeric /\ SizeOf \in [DOMAIN Number -> Nat]
  /\ MaxProcesses \in Nat

VARIABLES
  config_exists, file_on_disk,  (* the configuration file                  *)
  file_content, config,  (* what the process has read; CONFIG              *)
  default_path,          (* it was given no path of its own                *)
  main,                  (* where main is                                  *)
  processes,             (* starts so far                                  *)
  intact     (* history: the file is as a start of the program left it     *)

configVars == <<config_exists, file_on_disk, file_content, config,
                default_path, intact>>
vars == <<logVars, configVars, main, processes>>

MainPC == {"down", "read", "clear", "write", "start_log", "running", "exit",
           "failed"}

Init ==
  /\ LogInit
  /\ \/ config_exists = FALSE /\ file_on_disk = <<>>
     \/ config_exists = TRUE /\ file_on_disk \in Files
  /\ file_content = <<>> /\ config = Default /\ default_path = TRUE
  /\ main = "down" /\ processes = 0 /\ intact = FALSE

MainAt(from, to) == main = from /\ main' = to
NoLog == UNCHANGED logVars

(* main of a new process; CONFIG is what was compiled in.                  *)
Launch ==
  /\ MainAt("down", "read") /\ processes < MaxProcesses
  /\ processes' = processes + 1
  /\ default_path' \in BOOLEAN
  /\ config' = Default /\ file_content' = <<>>
  /\ UNCHANGED <<config_exists, file_on_disk, intact>> /\ NoLog

(* Start_Config: what is to be written, or an exception, or a file that    *)
(* was named and is not there: both end the process.                       *)
Start_Config ==
  /\ \/ /\ config_exists /\ ~ReadThrows(file_on_disk) /\ MainAt("read", "clear")
        /\ config' = ReadConfig(file_on_disk)
        /\ file_content' = SyncToConfig(file_on_disk, config')
     \/ /\ ~config_exists /\ default_path /\ MainAt("read", "clear")
        /\ file_content' = OverWriteConfig(config)
        /\ UNCHANGED config
     \/ /\ IF config_exists THEN ReadThrows(file_on_disk) ELSE ~default_path
        /\ MainAt("read", "failed")
        /\ UNCHANGED <<config, file_content>>
  /\ UNCHANGED <<config_exists, file_on_disk, default_path, processes, intact>>
  /\ NoLog

(* ReWriteFile: opened and cut to nothing, then written in one go; when it *)
(* cannot be opened nothing is written and nobody is told.                 *)
ClearConfigFile ==
  /\ \/ /\ MainAt("clear", "write")
        /\ config_exists' = TRUE /\ file_on_disk' = <<>> /\ intact' = FALSE
     \/ /\ MainAt("clear", "start_log")
        /\ UNCHANGED <<config_exists, file_on_disk, intact>>
  /\ UNCHANGED <<file_content, config, default_path, processes>> /\ NoLog

WriteConfigFile ==
  /\ MainAt("write", "start_log")
  /\ file_on_disk' = file_content /\ intact' = TRUE
  /\ UNCHANGED <<config_exists, file_content, config, default_path, processes>>
  /\ NoLog

StartLogging ==
  \/ MainAt("start_log", "start_log") /\ StartLog
     /\ UNCHANGED <<configVars, processes>>
  \/ MainAt("start_log", "running") /\ SpawnLogThread(SizeOf[config[LOG_SIZE]])
     /\ UNCHANGED <<configVars, processes>>

(* While the program runs, its threads log.                                *)
LogMessage == /\ main = "running" /\ AddToQueue
              /\ UNCHANGED <<configVars, processes, main>>

(* The program ends: the destructor of LOG stops the log.                  *)
Exit == /\ MainAt("running", "exit") /\ StopLog
        /\ UNCHANGED <<configVars, processes>>
Exited == /\ main = "exit" /\ call = "none" /\ lpc = "none"
          /\ main' = "down" /\ LogDies
          /\ UNCHANGED <<configVars, processes>>
Failed == /\ MainAt("failed", "down") /\ LogDies
          /\ UNCHANGED <<configVars, processes>>

(* It is killed, or dies of undefined behaviour, at any point.             *)
Die == /\ main \notin {"down"} /\ main' = "down" /\ LogDies
       /\ UNCHANGED <<configVars, processes>>

(* Between two starts the operator edits or removes the file.              *)
Edit ==
  /\ main = "down" /\ processes > 0 /\ UNCHANGED <<main, processes>> /\ NoLog
  /\ intact' = FALSE
  /\ \/ config_exists' = FALSE /\ file_on_disk' = <<>>
     \/ config_exists' = TRUE /\ file_on_disk' \in Files
  /\ UNCHANGED <<file_content, config, default_path>>

LogStep == /\ LogThread \/ StopJoined
           /\ UNCHANGED <<configVars, main, processes>>
LogFileDeleted == DeleteLogFile /\ UNCHANGED <<configVars, main, processes>>
MainStep == Start_Config \/ ClearConfigFile \/ WriteConfigFile \/ StartLogging
              \/ Exited \/ Failed

Next == \/ Launch \/ MainStep \/ LogMessage \/ Exit \/ Die \/ Edit
        \/ LogStep \/ LogFileDeleted

(* The log thread and main run; nothing has to be logged, deleted, edited. *)
Spec == Init /\ [][Next]_vars /\ WF_vars(LogStep) /\ WF_vars(MainStep)
-----------------------------------------------------------------------------
(* Properties.                                                             *)

(* Every variable keeps its type: what a property holds is a value that it *)
(* can have, whatever stands in the file.                                  *)
TypeOK ==
  /\ LogTypes
  /\ config_exists \in BOOLEAN /\ default_path \in BOOLEAN /\ intact \in BOOLEAN
  /\ file_on_disk \in Seq(Line) /\ (file_on_disk # <<>> => config_exists)
  /\ file_content \in Seq(Line) /\ config \in Config
  /\ main \in MainPC /\ processes \in 0 .. MaxProcesses

(* A running program has the settings of its file; writing them back,      *)
(* with the keys the file lacked, does not change what the next start will *)
(* read, however often the lines have grown by a carriage return; a start  *)
(* fails only on a file that was not there, that somebody wrote, or whose  *)
(* rewriting was cut off (configfile.cpp:27-48, 100-117, 149-205).         *)
SettingsSurvive ==
  /\ main \in {"start_log", "running", "exit"} /\ config_exists =>
       ReadConfig(file_on_disk) = config
  /\ intact => ~ReadThrows(file_on_disk)
=============================================================================
