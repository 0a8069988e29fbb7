-------------------------------- MODULE Log --------------------------------
(***************************************************************************)
(* The log (log.cpp).  Every thread of the program queues messages; one    *)
(* thread writes them to a file, which it opens again when somebody has    *)
(* deleted it and cuts in half when it has grown too long.  The n-th       *)
(* message is the number n and takes a line; MARK stands for "LogFile      *)
(* cleared!".  The queue's mutex protects push only, but the log thread    *)
(* alone takes: the outcomes of that race are the right one and the death  *)
(* of the process (Startup).                                               *)
(***************************************************************************)
EXTENDS Integers, Sequences, FiniteSets

CONSTANTS
  MaxMessages,   (* bound: calls of AddToQueue                             *)
  MaxDeletions   (* bound: times the file is deleted                       *)

ASSUME LogAssumption == MaxMessages \in Nat /\ MaxDeletions \in Nat

VARIABLES
  log_queue, log_thread_flag_stop,
  max_file_size,  (* in lines                                              *)
  exists,         (* there is a file of that name                          *)
  lines,          (* its lines, <<>> when there is none                    *)
  file,           (* the stream: "closed", "named" (that file), "unlinked" *)
  unlinked,       (* the lines of the deleted file that it still writes    *)
  data,           (* the lines that CutFileProcedure has read              *)
  lpc,            (* where the log thread is                               *)
  call,           (* the call of Start or Stop that waits for the thread   *)
  added,          (* calls of AddToQueue so far                            *)
  deletions,      (* history: times the file was deleted                   *)
  console,        (* history: messages printed instead                     *)
  cut, gone       (* history: messages cut off; deleted with their file or *)
                  (* dead with the process                                 *)

fileVars == <<exists, lines, file, unlinked, data>>
logHistory == <<console, cut, gone>>
callVars == <<log_queue, log_thread_flag_stop, max_file_size, call, added,
              deletions>>
logVars  == <<fileVars, logHistory, callVars, lpc>>

MARK == 0
LogPC == {"none", "test", "open", "size", "flush", "measure", "cut_read",
          "cut_clear", "cut_write", "last_flush", "hung"}

Messages(s) == {s[i] : i \in DOMAIN s} \ {MARK}

LogInit ==
  /\ log_queue = <<>>
  /\ log_thread_flag_stop = FALSE /\ max_file_size = 0  \* a static object
  /\ exists \in BOOLEAN /\ lines = <<>> /\ file = "closed" /\ unlinked = <<>>
  /\ data = <<>> /\ lpc = "none" /\ call = "none" /\ added = 0
  /\ deletions = 0 /\ console = {} /\ cut = {} /\ gone = {}

-----------------------------------------------------------------------------
(* The log thread.                                                         *)

LogAt(from, to) == lpc = from /\ lpc' = to
Unchanged(w) == UNCHANGED <<logHistory, callVars, w>>

(* Mutant: the loop does not look at the flag.                             *)
TestLogStop_IgnoresFlag == LogAt("test", "open") /\ Unchanged(fileVars)

TestLogStop ==
  /\ LogAt("test", IF log_thread_flag_stop THEN "last_flush" ELSE "open")
  /\ Unchanged(fileVars)

(* Open, when the stream is closed or the name is gone; it may fail.       *)
OpenLogFile ==
  /\ LogAt("open", "size")
  /\ IF file # "closed" /\ exists
       THEN UNCHANGED <<exists, file, unlinked>>
       ELSE \/ exists' = TRUE /\ file' = "named" /\ unlinked' = <<>>
            \/ UNCHANGED exists /\ file' = "closed" /\ unlinked' = <<>>
  /\ Unchanged(<<lines, data>>)

LookAtQueue ==
  /\ LogAt("size", IF log_queue # <<>> THEN "flush" ELSE "test")
  /\ Unchanged(fileVars)

(* front, pop and Write: to the file, or to the console when it is closed. *)
WriteMessage ==
  /\ lpc \in {"flush", "last_flush"} /\ log_queue # <<>>
  /\ LET m == Head(log_queue)
     IN /\ lines' = IF file = "named" THEN Append(lines, m) ELSE lines
        /\ unlinked' = IF file = "unlinked" THEN Append(unlinked, m)
                                            ELSE unlinked
        /\ gone' = IF file = "unlinked" THEN gone \cup {m} ELSE gone
        /\ console' = IF file = "closed" THEN console \cup {m} ELSE console
  /\ log_queue' = Tail(log_queue)
  /\ UNCHANGED <<exists, file, data, cut, log_thread_flag_stop, max_file_size,
                 call, added, deletions, lpc>>

EndOfFlush ==
  /\ LogAt("flush", "measure") /\ log_queue = <<>> /\ Unchanged(fileVars)

(* isValidFileSize asks the stream, so a deleted file is measured as well; *)
(* the position of a closed stream is -1, which is always valid.           *)
LinesWritten == CASE file = "named" -> lines
                  [] file = "unlinked" -> unlinked
                  [] file = "closed" -> <<>>
MeasureFile ==
  /\ LogAt("measure", IF Len(LinesWritten) <= max_file_size THEN "test"
                                                            ELSE "cut_read")
  /\ Unchanged(fileVars)

(* Mutant: the older half is kept.                                         *)
NewerHalf_Older(s) == SubSeq(s, 1, Len(s) - Len(s) \div 2)

NewerHalf(s) == SubSeq(s, Len(s) \div 2 + 1, Len(s))

(* CutFileProcedure reads the file of that name.  When it is gone by now   *)
(* nothing is opened, eof never comes and the loop never ends.             *)
CutReads ==
  /\ LogAt("cut_read", IF exists THEN "cut_clear" ELSE "hung")
  /\ data' = IF exists THEN NewerHalf(lines) ELSE <<>>
  /\ file' = "closed" /\ unlinked' = <<>>
  /\ Unchanged(<<exists, lines>>)

(* The file is truncated, created if need be, and opened to append.        *)
CutClears ==
  /\ LogAt("cut_clear", "cut_write")
  /\ exists' = TRUE /\ lines' = <<>> /\ file' = "named"
  /\ cut' = cut \cup (Messages(lines) \ Messages(data))
  /\ UNCHANGED <<unlinked, data, console, gone, callVars>>

CutWrites ==
  /\ LogAt("cut_write", "test")
  /\ IF file = "named"
       THEN /\ lines' = lines \o Append(data, MARK)
            /\ UNCHANGED <<unlinked, gone>>
       ELSE /\ unlinked' = unlinked \o Append(data, MARK)
            /\ gone' = gone \cup Messages(data)
            /\ UNCHANGED lines
  /\ data' = <<>>
  /\ UNCHANGED <<exists, file, console, cut, callVars>>

LeaveLogLoop ==
  /\ LogAt("last_flush", "none") /\ log_queue = <<>>
  /\ file' = "closed" /\ unlinked' = <<>>
  /\ Unchanged(<<exists, lines, data>>)

LogThread ==
  \/ TestLogStop \/ OpenLogFile \/ LookAtQueue \/ WriteMessage \/ EndOfFlush
  \/ MeasureFile \/ CutReads \/ CutClears \/ CutWrites \/ LeaveLogLoop

-----------------------------------------------------------------------------
(* The calls.                                                              *)

Calls(from, to) ==
  call = from /\ call' = to /\ UNCHANGED <<fileVars, logHistory, deletions>>

(* Write*, by whatever thread.                                             *)
AddToQueue ==
  /\ added < MaxMessages
  /\ added' = added + 1
  /\ log_queue' = Append(log_queue, added + 1)
  /\ UNCHANGED <<fileVars, logHistory, log_thread_flag_stop, max_file_size,
                 call, deletions, lpc>>

(* Start calls Stop first; both raise the flag and join the thread.        *)
BeginCall(which) ==
  /\ Calls("none", which)
  /\ log_thread_flag_stop' = TRUE
  /\ UNCHANGED <<log_queue, max_file_size, added, lpc>>
StartLog == BeginCall("start")
StopLog  == BeginCall("stop")

StopJoined ==
  /\ Calls("stop", "none") /\ lpc = "none"
  /\ UNCHANGED <<log_queue, log_thread_flag_stop, max_file_size, added, lpc>>

SpawnLogThread(size) ==
  /\ Calls("start", "none") /\ lpc = "none"
  /\ log_thread_flag_stop' = FALSE /\ max_file_size' = size
  /\ lpc' = "test"
  /\ UNCHANGED <<log_queue, added>>

(* Somebody deletes the file (external).                                   *)
DeleteLogFile ==
  /\ exists /\ deletions < MaxDeletions
  /\ exists' = FALSE /\ lines' = <<>> /\ deletions' = deletions + 1
  /\ file' = IF file = "named" THEN "unlinked" ELSE file
  /\ unlinked' = IF file = "named" THEN lines ELSE unlinked
  /\ gone' = gone \cup (Messages(lines) \ Messages(data))
  /\ UNCHANGED <<data, console, cut, log_queue, log_thread_flag_stop,
                 max_file_size, call, added, lpc>>

(* The process dies: the queue goes, and what a cut had taken out.  The    *)
(* next one has a new LOG.                                                 *)
LogDies ==
  /\ gone' = gone \cup Messages(log_queue)
                   \cup (Messages(data) \ Messages(lines))
  /\ log_queue' = <<>>
  /\ log_thread_flag_stop' = FALSE /\ max_file_size' = 0
  /\ file' = "closed" /\ unlinked' = <<>> /\ data' = <<>>
  /\ lpc' = "none" /\ call' = "none"
  /\ UNCHANGED <<exists, lines, console, cut, added, deletions>>

-----------------------------------------------------------------------------
(* Properties.                                                             *)

(* The types of the log, and what the stream says about the file.          *)
LogTypes ==
  /\ log_queue \in Seq(1 .. MaxMessages) /\ log_thread_flag_stop \in BOOLEAN
  /\ max_file_size \in Nat /\ exists \in BOOLEAN
  /\ lines \in Seq(0 .. MaxMessages) /\ (lines # <<>> => exists)
  /\ file \in {"closed", "named", "unlinked"} /\ (file = "named" => exists)
  /\ unlinked \in Seq(0 .. MaxMessages)
  /\ (unlinked # <<>> => file = "unlinked")
  /\ data \in Seq(0 .. MaxMessages)
  /\ (data # <<>> => lpc \in {"cut_clear", "cut_write"})
  /\ lpc \in LogPC /\ call \in {"none", "start", "stop"}
  /\ added \in 0 .. MaxMessages /\ deletions \in 0 .. MaxDeletions
  /\ {console, cut, gone} \subseteq SUBSET (1 .. MaxMessages)

(* No message is lost and none overtakes another: each is waiting, in the  *)
(* file, on the console, or went with the file or the process; the file is *)
(* in order and a cut takes the oldest; and once Stop has returned none is *)
(* left waiting, wherever the thread was when the flag went up             *)
(* (log.cpp:40-51, 101-148, 221-260).                                      *)
OldestFirst(s) ==
  \A i, j \in DOMAIN s : i < j /\ s[i] # MARK /\ s[j] # MARK => s[i] < s[j]
NothingLost ==
  /\ 1 .. added = UNION {Messages(log_queue), Messages(lines), Messages(data),
                         console, cut, gone}
  /\ OldestFirst(lines)
  /\ \A m \in cut : \A n \in Messages(lines) \cup Messages(data) : m < n
  /\ call = "none" /\ lpc = "none" => log_queue = <<>>

(* While the log runs every message leaves the queue, and Stop returns,    *)
(* but not when the file is deleted under a cut (log.cpp:104-123).         *)
LogDrains ==
  /\ \A m \in 1 .. MaxMessages :
       (m \in Messages(log_queue) /\ lpc # "none") ~>
         (m \notin Messages(log_queue) \/ lpc \in {"none", "hung"})
  /\ (call # "none") ~> (call = "none" \/ lpc = "hung")
=============================================================================
