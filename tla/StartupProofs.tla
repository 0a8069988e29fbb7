--------------------------- MODULE StartupProofs ---------------------------
(***************************************************************************)
(* Theorems about Startup, and with it about Log and ConfigFile, for any   *)
(* number of messages, deletions and starts, and any configuration.        *)
(***************************************************************************)
EXTENDS Startup, ConfigProofs, SequenceTheorems

-----------------------------------------------------------------------------
(* Sequences over any set.                                                 *)

LEMMA HeadAndTail ==
  ASSUME NEW S, NEW s \in Seq(S), s # <<>>
  PROVE  Head(s) \in S /\ Tail(s) \in Seq(S)
OBVIOUS

LEMMA Appended ==
  ASSUME NEW S, NEW s \in Seq(S), NEW m \in S
  PROVE  Append(s, m) \in Seq(S)
OBVIOUS

LEMMA Concatenated ==
  ASSUME NEW S, NEW s \in Seq(S), NEW t \in Seq(S)
  PROVE  s \o t \in Seq(S)
OBVIOUS

LEMMA HalfOf ==
  ASSUME NEW S, NEW s \in Seq(S)
  PROVE  NewerHalf(s) \in Seq(S)
<1> DEFINE h == Len(s) \div 2
<1>1. h \in 0 .. Len(s)
  OBVIOUS
<1> HIDE DEF h
<1>2. SubSeq(s, h + 1, Len(s)) \in Seq(S)
  BY <1>1
<1> QED BY <1>2 DEF NewerHalf, h

LEMMA Elements ==
  ASSUME NEW S, NEW s \in Seq(S), NEW i \in DOMAIN s
  PROVE  s[i] \in S
OBVIOUS

-----------------------------------------------------------------------------
(* Sequences of messages.                                                  *)

LEMMA MessagesOfAppend ==
  ASSUME NEW s \in Seq(Int), NEW m \in Int
  PROVE  Messages(Append(s, m)) = Messages(s) \cup ({m} \ {MARK})
<1> DEFINE t == Append(s, m)
<1>1. /\ DOMAIN s = 1 .. Len(s) /\ DOMAIN t = 1 .. Len(s) + 1
      /\ t[Len(s) + 1] = m /\ \A i \in 1 .. Len(s) : t[i] = s[i]
  OBVIOUS
<1>2. \A i \in DOMAIN t : i = Len(s) + 1 \/ i \in DOMAIN s
  BY <1>1
<1>3. \A i \in DOMAIN s : i \in DOMAIN t
  BY <1>1
<1>4. Len(s) + 1 \in DOMAIN t
  BY <1>1
<1> HIDE DEF t
<1>5. {t[i] : i \in DOMAIN t} = {s[i] : i \in DOMAIN s} \cup {m}
  BY <1>1, <1>2, <1>3, <1>4
<1> QED BY <1>5 DEF Messages, t

LEMMA MessagesOfTail ==
  ASSUME NEW s \in Seq(Int), s # <<>>
  PROVE  Messages(s) = Messages(Tail(s)) \cup ({Head(s)} \ {MARK})
<1> DEFINE t == Tail(s)
<1>1. /\ DOMAIN s = 1 .. Len(s) /\ DOMAIN t = 1 .. Len(s) - 1
      /\ s[1] = Head(s) /\ \A i \in 1 .. Len(s) - 1 : t[i] = s[i + 1]
      /\ Len(s) \in Nat \ {0}
  OBVIOUS
<1>2. ASSUME NEW i \in DOMAIN s, i # 1
      PROVE  i - 1 \in DOMAIN t /\ s[i] = t[i - 1]
  <2> HIDE DEF t
  <2>1. i - 1 \in 1 .. Len(s) - 1 /\ (i - 1) + 1 = i
    BY <1>1, <1>2
  <2> QED BY <1>1, <2>1
<1>3. \A i \in DOMAIN t : i + 1 \in DOMAIN s /\ t[i] = s[i + 1]
  BY <1>1
<1>4. 1 \in DOMAIN s
  BY <1>1
<1> HIDE DEF t
<1>5. {s[i] : i \in DOMAIN s} \subseteq {t[i] : i \in DOMAIN t} \cup {Head(s)}
  BY <1>1, <1>2
<1>6. {t[i] : i \in DOMAIN t} \cup {Head(s)} \subseteq {s[i] : i \in DOMAIN s}
  BY <1>1, <1>3, <1>4
<1> QED BY <1>5, <1>6 DEF Messages, t

LEMMA MessagesOfEmpty == Messages(<<>>) = {}
BY DEF Messages

LEMMA OldestFirstAppend ==
  ASSUME NEW s \in Seq(Int), NEW m \in Int, OldestFirst(s),
         \A n \in Messages(s) : n < m
  PROVE  OldestFirst(Append(s, m))
BY DEF OldestFirst, Messages

LEMMA OldestFirstTail ==
  ASSUME NEW s \in Seq(Int), s # <<>>, OldestFirst(s), Head(s) # MARK
  PROVE  /\ OldestFirst(Tail(s))
         /\ \A n \in Messages(Tail(s)) : Head(s) < n
<1>1. /\ Len(s) \in Nat \ {0} /\ s[1] = Head(s)
      /\ DOMAIN Tail(s) = 1 .. Len(s) - 1
      /\ \A i \in 1 .. Len(s) - 1 : Tail(s)[i] = s[i + 1]
  OBVIOUS
<1>2. \A i, j \in 1 .. Len(s) : i < j /\ s[i] # MARK /\ s[j] # MARK => s[i] < s[j]
  BY DEF OldestFirst
<1>3. OldestFirst(Tail(s))
  BY <1>1, <1>2 DEF OldestFirst
<1>4. \A i \in DOMAIN Tail(s) : Tail(s)[i] # MARK => Head(s) < Tail(s)[i]
  BY <1>1, <1>2
<1> QED BY <1>3, <1>4 DEF Messages

(* The newer half of a file in order: nothing older than what it leaves.   *)
LEMMA NewerHalfProperties ==
  ASSUME NEW S \in SUBSET Int, NEW s \in Seq(S), OldestFirst(s)
  PROVE  /\ NewerHalf(s) \in Seq(S) /\ OldestFirst(NewerHalf(s))
         /\ Messages(NewerHalf(s)) \subseteq Messages(s)
         /\ \A m \in Messages(s) \ Messages(NewerHalf(s)) :
              \A n \in Messages(NewerHalf(s)) : m < n
<1> DEFINE h == Len(s) \div 2
           l == Len(s)
           t == SubSeq(s, h + 1, l)
<1>1. h \in 0 .. l /\ l \in Nat
  OBVIOUS
<1> HIDE DEF h
<1>2. /\ t \in Seq(S) /\ DOMAIN t = 1 .. l - h
      /\ \A i \in 1 .. l - h : t[i] = s[i + h]
  BY <1>1
<1>3. /\ DOMAIN s = 1 .. l
      /\ \A i, j \in 1 .. l : i < j /\ s[i] # MARK /\ s[j] # MARK => s[i] < s[j]
  BY DEF OldestFirst
<1> HIDE DEF t, l
<1>4. OldestFirst(t)
  BY <1>1, <1>2, <1>3 DEF OldestFirst
<1>5. \A i \in DOMAIN t : i + h \in DOMAIN s /\ t[i] = s[i + h]
  BY <1>1, <1>2, <1>3
<1>6. Messages(t) \subseteq Messages(s)
  BY <1>5 DEF Messages
<1>7. ASSUME NEW i \in DOMAIN s, s[i] \notin Messages(t), s[i] # MARK,
             NEW j \in DOMAIN t, t[j] # MARK
      PROVE  s[i] < t[j]
  <2>1. i <= h
    <3> SUFFICES ASSUME i > h PROVE FALSE
      BY <1>1, <1>3
    <3>1. i - h \in DOMAIN t /\ t[i - h] = s[i]
      BY <1>1, <1>2, <1>3
    <3> QED BY <1>7, <3>1 DEF Messages
  <2>2. /\ i \in 1 .. l /\ j + h \in 1 .. l /\ i < j + h
        /\ t[j] = s[j + h]
    BY <1>1, <1>2, <1>3, <2>1
  <2> QED BY <1>3, <1>7, <2>2
<1>8. \A m \in Messages(s) \ Messages(t) : \A n \in Messages(t) : m < n
  BY <1>7 DEF Messages
<1> QED BY <1>2, <1>4, <1>6, <1>8 DEF NewerHalf, t, h, l

-----------------------------------------------------------------------------
(* Types.  While a file is cut, the stream is closed; when its newer half  *)
(* is written back, it is open, on a file that is empty or deleted.        *)

CutInv ==
  /\ lpc = "cut_clear" =>
       file = "closed" /\ (lines = <<>> \/ data = NewerHalf(lines))
  /\ lpc = "cut_write" => file # "closed" /\ lines = <<>>

LEMMA LogInitTypes == LogInit => LogTypes /\ CutInv
<1> SUFFICES ASSUME LogInit PROVE LogTypes /\ CutInv
  OBVIOUS
<1>1. CutInv
  BY DEF LogInit, CutInv
<1>2. /\ added \in 0 .. MaxMessages /\ deletions \in 0 .. MaxDeletions
      /\ max_file_size \in Nat
  BY LogAssumption DEF LogInit
<1>3. log_thread_flag_stop \in BOOLEAN /\ exists \in BOOLEAN
  BY Zenon DEF LogInit
<1>4. /\ log_queue \in Seq(1 .. MaxMessages) /\ lines \in Seq(0 .. MaxMessages)
      /\ unlinked \in Seq(0 .. MaxMessages) /\ data \in Seq(0 .. MaxMessages)
      /\ {console, cut, gone} \subseteq SUBSET (1 .. MaxMessages)
      /\ lines = <<>> /\ unlinked = <<>> /\ data = <<>>
  BY DEF LogInit
<1>5. /\ file = "closed" /\ lpc \in LogPC /\ call \in {"none", "start", "stop"}
  BY DEF LogInit, LogPC
<1> QED BY <1>1, <1>2, <1>3, <1>4, <1>5 DEF LogTypes

LEMMA MessagesType ==
  ASSUME NEW s \in Seq(0 .. MaxMessages)
  PROVE  Messages(s) \subseteq 1 .. MaxMessages
<1>1. \A i \in DOMAIN s : s[i] \in 0 .. MaxMessages
  BY Elements, Zenon
<1> QED BY <1>1, LogAssumption DEF Messages, MARK

LEMMA LogThreadTypes ==
  ASSUME LogTypes, CutInv, LogThread
  PROVE  LogTypes' /\ CutInv'
<1> USE DEF LogAt, Unchanged, fileVars, logHistory, callVars
<1>t. /\ added' = added /\ deletions' = deletions /\ call' = call
      /\ max_file_size' = max_file_size
      /\ log_thread_flag_stop' = log_thread_flag_stop
  BY DEF LogThread, TestLogStop, OpenLogFile, LookAtQueue, WriteMessage,
         EndOfFlush, MeasureFile, CutReads, CutClears, CutWrites, LeaveLogLoop
<1>1. CASE TestLogStop
  BY <1>1 DEF TestLogStop, LogTypes, CutInv, LogPC
<1>2. CASE OpenLogFile
  BY <1>2 DEF OpenLogFile, LogTypes, CutInv, LogPC
<1>3. CASE LookAtQueue
  BY <1>3 DEF LookAtQueue, LogTypes, CutInv, LogPC
<1>4. CASE WriteMessage
  <2>1. /\ lpc \in {"flush", "last_flush"} /\ log_queue # <<>>
        /\ UNCHANGED <<exists, file, data, cut, lpc>>
    BY <1>4 DEF WriteMessage
  <2>2. CutInv'
    BY <2>1 DEF CutInv
  <2>3. /\ Head(log_queue) \in 1 .. MaxMessages
        /\ log_queue' \in Seq(1 .. MaxMessages)
    <3>1. log_queue \in Seq(1 .. MaxMessages) /\ log_queue' = Tail(log_queue)
      BY <1>4 DEF WriteMessage, LogTypes
    <3> QED BY <2>1, <3>1, HeadAndTail, Zenon
  <2>m. Head(log_queue) \in 0 .. MaxMessages
    BY <2>3
  <2>4. /\ lines' \in Seq(0 .. MaxMessages)
        /\ lines' = lines \/ file = "named"
    <3>1. /\ lines \in Seq(0 .. MaxMessages)
          /\ \/ lines' = lines
             \/ file = "named" /\ lines' = Append(lines, Head(log_queue))
      BY <1>4, Zenon DEF WriteMessage, LogTypes
    <3> QED BY <2>m, <3>1, Appended, Zenon
  <2>5. /\ unlinked' \in Seq(0 .. MaxMessages)
        /\ unlinked' = unlinked \/ file = "unlinked"
    <3>1. /\ unlinked \in Seq(0 .. MaxMessages)
          /\ \/ unlinked' = unlinked
             \/ /\ file = "unlinked"
                /\ unlinked' = Append(unlinked, Head(log_queue))
      BY <1>4, Zenon DEF WriteMessage, LogTypes
    <3> QED BY <2>m, <3>1, Appended, Zenon
  <2>6. {console', cut', gone'} \subseteq SUBSET (1 .. MaxMessages)
    BY <1>4, <2>1, <2>3 DEF WriteMessage, LogTypes
  <2> QED BY <1>t, <2>1, <2>2, <2>3, <2>4, <2>5, <2>6 DEF LogTypes
<1>5. CASE EndOfFlush
  BY <1>5 DEF EndOfFlush, LogTypes, CutInv, LogPC
<1>6. CASE MeasureFile
  BY <1>6 DEF MeasureFile, LogTypes, CutInv, LogPC
<1>7. CASE CutReads
  <2>1. NewerHalf(lines) \in Seq(0 .. MaxMessages)
    BY HalfOf, Zenon DEF LogTypes
  <2>2. data' \in Seq(0 .. MaxMessages)
    <3>1. data' = NewerHalf(lines) \/ data' = <<>>
      BY <1>7, Zenon DEF CutReads
    <3> QED BY <2>1, <3>1, EmptySeq, Zenon
  <2>3. /\ lpc' \in LogPC
        /\ data' # <<>> => lpc' \in {"cut_clear", "cut_write"}
        /\ CutInv'
    BY <1>7 DEF CutReads, CutInv, LogPC
  <2>4. /\ file' = "closed" /\ unlinked' = <<>>
        /\ UNCHANGED <<log_queue, lines, exists, console, cut, gone>>
    BY <1>7 DEF CutReads
  <2> QED BY <1>t, <2>2, <2>3, <2>4 DEF LogTypes
<1>8. CASE CutClears
  <2>1. /\ lpc = "cut_clear" /\ lpc' = "cut_write" /\ exists' = TRUE
        /\ lines' = <<>> /\ file' = "named"
        /\ UNCHANGED <<log_queue, unlinked, data, console, gone>>
    BY <1>8 DEF CutClears
  <2>2. unlinked = <<>>
    BY <2>1 DEF LogTypes, CutInv
  <2>3. cut' \in SUBSET (1 .. MaxMessages)
    BY <1>8, MessagesType DEF CutClears, LogTypes
  <2>4. CutInv' /\ lpc' \in LogPC
    BY <2>1 DEF CutInv, LogPC
  <2> QED BY <1>t, <2>1, <2>2, <2>3, <2>4 DEF LogTypes
<1>9. CASE CutWrites
  <2>1. /\ lpc = "cut_write" /\ lpc' = "test" /\ data' = <<>>
        /\ UNCHANGED <<log_queue, exists, file, console, cut>>
    BY <1>9 DEF CutWrites
  <2>2. Append(data, MARK) \in Seq(0 .. MaxMessages)
    BY LogAssumption DEF LogTypes, MARK
  <2>3. /\ lines' \in Seq(0 .. MaxMessages)
        /\ lines' = lines \/ file = "named"
    <3>1. /\ lines \in Seq(0 .. MaxMessages)
          /\ \/ lines' = lines
             \/ file = "named" /\ lines' = lines \o Append(data, MARK)
      BY <1>9, Zenon DEF CutWrites, LogTypes
    <3> QED BY <2>2, <3>1, Concatenated, Zenon
  <2>4. /\ unlinked' \in Seq(0 .. MaxMessages)
        /\ unlinked' = unlinked \/ file = "unlinked"
    <3>1. /\ unlinked \in Seq(0 .. MaxMessages)
          /\ file \in {"named", "unlinked"}
      BY <2>1 DEF LogTypes, CutInv
    <3>2. \/ unlinked' = unlinked
          \/ file # "named" /\ unlinked' = unlinked \o Append(data, MARK)
      BY <1>9, Zenon DEF CutWrites
    <3>3. unlinked' \in Seq(0 .. MaxMessages)
      BY <2>2, <3>1, <3>2, Concatenated, Zenon
    <3> QED BY <3>1, <3>2, <3>3
  <2>5. gone' \in SUBSET (1 .. MaxMessages)
    BY <1>9, MessagesType DEF CutWrites, LogTypes
  <2>6. CutInv' /\ lpc' \in LogPC
    BY <2>1 DEF CutInv, LogPC
  <2> QED BY <1>t, <2>1, <2>3, <2>4, <2>5, <2>6 DEF LogTypes
<1>10. CASE LeaveLogLoop
  <2>1. /\ lpc = "last_flush" /\ lpc' = "none" /\ data = <<>>
        /\ file' = "closed" /\ unlinked' = <<>>
        /\ UNCHANGED <<log_queue, exists, lines, data, console, cut, gone>>
    BY <1>10 DEF LeaveLogLoop, LogTypes
  <2>2. CutInv' /\ lpc' \in LogPC
    BY <2>1 DEF CutInv, LogPC
  <2> QED BY <1>t, <2>1, <2>2 DEF LogTypes
<1> QED BY <1>1, <1>2, <1>3, <1>4, <1>5, <1>6, <1>7, <1>8, <1>9, <1>10
        DEF LogThread

LEMMA WaitingType ==
  ASSUME NEW s \in Seq(1 .. MaxMessages)
  PROVE  Messages(s) \subseteq 1 .. MaxMessages
<1>1. \A i \in DOMAIN s : s[i] \in 1 .. MaxMessages
  BY Elements, Zenon
<1> QED BY <1>1 DEF Messages

LEMMA LogCallTypes ==
  ASSUME LogTypes, CutInv,
         AddToQueue \/ StartLog \/ StopLog \/ StopJoined \/ DeleteLogFile
           \/ LogDies
  PROVE  LogTypes' /\ CutInv'
<1> USE DEF Calls, BeginCall, fileVars, logHistory
<1>1. CASE AddToQueue
  <2>1. /\ added + 1 \in 1 .. MaxMessages /\ added' = added + 1
        /\ added' \in 0 .. MaxMessages
    BY <1>1, LogAssumption DEF AddToQueue, LogTypes
  <2>2. log_queue' \in Seq(1 .. MaxMessages)
    <3>1. /\ log_queue \in Seq(1 .. MaxMessages)
          /\ log_queue' = Append(log_queue, added + 1)
      BY <1>1 DEF AddToQueue, LogTypes
    <3> QED BY <2>1, <3>1, Appended, Zenon
  <2>3. UNCHANGED <<exists, lines, file, unlinked, data, console, cut, gone,
                    log_thread_flag_stop, max_file_size, call, deletions, lpc>>
    BY <1>1 DEF AddToQueue
  <2> QED BY <2>1, <2>2, <2>3 DEF LogTypes, CutInv
<1>2. CASE StartLog
  BY <1>2 DEF StartLog, LogTypes, CutInv
<1>3. CASE StopLog
  BY <1>3 DEF StopLog, LogTypes, CutInv
<1>4. CASE StopJoined
  BY <1>4 DEF StopJoined, LogTypes, CutInv
<1>5. CASE DeleteLogFile
  <2>1. /\ UNCHANGED <<data, console, cut, log_queue, log_thread_flag_stop,
                       max_file_size, call, added, lpc>>
        /\ exists' = FALSE /\ lines' = <<>>
        /\ deletions' \in 0 .. MaxDeletions
        /\ file' \in {"closed", "unlinked"}
        /\ file = "closed" => file' = "closed"
        /\ file # "closed" => file' # "closed"
    BY <1>5, LogAssumption DEF DeleteLogFile, LogTypes
  <2>2. /\ unlinked' \in Seq(0 .. MaxMessages)
        /\ unlinked' # <<>> => file' = "unlinked"
    BY <1>5, Zenon DEF DeleteLogFile, LogTypes
  <2>3. gone' \in SUBSET (1 .. MaxMessages)
    BY <1>5, MessagesType DEF DeleteLogFile, LogTypes
  <2>4. CutInv'
    BY <2>1 DEF CutInv
  <2>5. lines' \in Seq(0 .. MaxMessages)
    BY <2>1, EmptySeq, Zenon
  <2> QED BY <2>1, <2>2, <2>3, <2>4, <2>5 DEF LogTypes
<1>6. CASE LogDies
  <2>1. gone' \in SUBSET (1 .. MaxMessages)
    BY <1>6, MessagesType, WaitingType DEF LogDies, LogTypes
  <2>2. /\ UNCHANGED <<exists, lines, console, cut, added, deletions>>
        /\ log_queue' = <<>> /\ log_thread_flag_stop' = FALSE
        /\ max_file_size' = 0 /\ file' = "closed" /\ unlinked' = <<>>
        /\ data' = <<>> /\ lpc' = "none" /\ call' = "none"
    BY <1>6 DEF LogDies
  <2>3. /\ log_queue' \in Seq(1 .. MaxMessages)
        /\ unlinked' \in Seq(0 .. MaxMessages)
        /\ data' \in Seq(0 .. MaxMessages)
    BY <2>2, EmptySeq, Zenon
  <2>4. CutInv' /\ lpc' \in LogPC
    BY <2>2 DEF CutInv, LogPC
  <2> QED BY <2>1, <2>2, <2>3, <2>4 DEF LogTypes
<1> QED BY <1>1, <1>2, <1>3, <1>4, <1>5, <1>6

LEMMA SpawnTypes ==
  ASSUME LogTypes, CutInv, NEW size \in Nat, SpawnLogThread(size)
  PROVE  LogTypes' /\ CutInv'
BY DEF SpawnLogThread, Calls, fileVars, logHistory, LogTypes, CutInv, LogPC

LEMMA LogUnchanged ==
  ASSUME LogTypes, CutInv, UNCHANGED logVars
  PROVE  LogTypes' /\ CutInv'
BY DEF logVars, fileVars, logHistory, callVars, LogTypes, CutInv

-----------------------------------------------------------------------------
(* Settings.                                                               *)

(* What is about to be written reads back as the settings, and what stands *)
(* on the disk does once a start has gone by it.                           *)
SettingsInv ==
  /\ file_on_disk \in Seq(Line) /\ (file_on_disk # <<>> => config_exists)
  /\ file_content \in Seq(Line) /\ config \in Config
  /\ config_exists \in BOOLEAN
  /\ NoEmptyRepeat(file_on_disk)
  /\ main \in {"clear", "write"} =>
       /\ NoEmptyRepeat(file_content) /\ ~ReadThrows(file_content)
       /\ ReadConfig(file_content) = config
  /\ main = "clear" /\ config_exists => ReadConfig(file_on_disk) = config
  /\ main = "write" => config_exists
  /\ SettingsSurvive

(* What Start_Config is about to write reads back as it has read it.       *)
LEMMA StartReadsBack ==
  ASSUME NEW content \in Seq(Line), NEW values \in Config,
         NoEmptyRepeat(content), ~ReadThrows(content),
         values = ReadConfig(content)
  PROVE  LET s == SyncToConfig(content, values)
         IN /\ s \in Seq(Line) /\ NoEmptyRepeat(s)
            /\ ~ReadThrows(s) /\ ReadConfig(s) = values
<1>1. \A k \in Key : /\ ~Throws(k, FileMap(content, k))
                     /\ values[k] = FromString(k, FileMap(content, k))
  BY DEF ReadThrows, ReadConfig
<1> QED BY <1>1, RewritingKeepsSettings

LEMMA EmptyIsPlain == <<>> \in Seq(Line) /\ NoEmptyRepeat(<<>>)
BY DEF NoEmptyRepeat

LEMMA SettingsInit == Init => SettingsInv
<1> SUFFICES ASSUME Init PROVE SettingsInv
  OBVIOUS
<1>1. \/ config_exists = FALSE /\ file_on_disk = <<>>
      \/ config_exists = TRUE /\ file_on_disk \in Files
  BY Zenon DEF Init
<1>2. /\ file_on_disk \in Seq(Line) /\ NoEmptyRepeat(file_on_disk)
      /\ (file_on_disk # <<>> => config_exists)
      /\ config_exists \in BOOLEAN
  <2>1. CASE config_exists = FALSE /\ file_on_disk = <<>>
    BY <2>1, EmptyIsPlain
  <2>2. CASE config_exists = TRUE /\ file_on_disk \in Files
    BY <2>2, StartupAssumption
  <2> QED BY <1>1, <2>1, <2>2, Zenon
<1>3. /\ file_content = <<>> /\ config = Default /\ main = "down"
      /\ intact = FALSE
  BY DEF Init
<1>4. config \in Config /\ file_content \in Seq(Line)
  BY <1>3, EmptyIsPlain, ConfigAssumption, Zenon
<1> QED BY <1>2, <1>3, <1>4 DEF SettingsInv, SettingsSurvive

(* Steps that leave the file and the settings alone.                       *)
LEMMA SettingsUntouched ==
  ASSUME SettingsInv, UNCHANGED configVars,
         main' \in {"clear", "write"} => main' = main,
         main' \in {"start_log", "running", "exit"} =>
           main \in {"start_log", "running", "exit"}
  PROVE  SettingsInv'
<1>1. UNCHANGED <<config_exists, file_on_disk, file_content, config, intact>>
  BY DEF configVars
<1>2. (ReadConfig(file_on_disk) = ReadConfig(file_on_disk)')
      /\ (ReadConfig(file_content) = ReadConfig(file_content)')
  BY <1>1
<1> QED BY <1>1 DEF SettingsInv, SettingsSurvive, NoEmptyRepeat, ReadThrows,
                   ReadConfig

LEMMA SettingsStep == SettingsInv /\ [Next]_vars => SettingsInv'
<1> SUFFICES ASSUME SettingsInv, [Next]_vars PROVE SettingsInv'
  OBVIOUS
<1> USE DEF MainAt
<1>1. CASE Launch
  <2>1. /\ main' = "read" /\ config' = Default /\ file_content' = <<>>
        /\ UNCHANGED <<config_exists, file_on_disk, intact>>
    BY <1>1 DEF Launch
  <2>2. config' \in Config /\ file_content' \in Seq(Line)
    BY <2>1, EmptyIsPlain, ConfigAssumption, Zenon
  <2> QED BY <2>1, <2>2 DEF SettingsInv, SettingsSurvive
<1>2. CASE Start_Config
  <2>0. /\ main = "read" /\ UNCHANGED <<config_exists, file_on_disk, intact>>
        /\ main' \in {"clear", "failed"}
    BY <1>2 DEF Start_Config
  <2>1. CASE /\ config_exists /\ ~ReadThrows(file_on_disk) /\ main' = "clear"
             /\ config' = ReadConfig(file_on_disk)
             /\ file_content' = SyncToConfig(file_on_disk, config')
    <3>1. config' \in Config
      BY <2>1, ReadConfigType DEF SettingsInv
    <3>2. /\ file_content' \in Seq(Line) /\ NoEmptyRepeat(file_content')
          /\ ~ReadThrows(file_content') /\ ReadConfig(file_content') = config'
      BY <2>1, <3>1, StartReadsBack DEF SettingsInv
    <3> QED BY <2>0, <2>1, <3>1, <3>2 DEF SettingsInv, SettingsSurvive
  <2>2. CASE /\ ~config_exists /\ main' = "clear"
             /\ file_content' = OverWriteConfig(config) /\ config' = config
    <3>1. /\ file_content' \in Seq(Line) /\ NoEmptyRepeat(file_content')
          /\ ~ReadThrows(file_content') /\ ReadConfig(file_content') = config
      <4>1. file_content' = SyncToConfig(<<>>, config) /\ config \in Config
        BY <2>2 DEF SettingsInv, OverWriteConfig
      <4> DEFINE e == <<>>
      <4>2. e \in Seq(Line) /\ NoEmptyRepeat(e) /\ \A k : LinesOf(e, k) = {}
        BY EmptyIsPlain DEF LinesOf
      <4>3. file_content' = SyncToConfig(e, config)
        BY <4>1
      <4> HIDE DEF e
      <4> QED BY <4>1, <4>2, <4>3, RewritingKeepsSettings
    <3> QED BY <2>0, <2>2, <3>1 DEF SettingsInv, SettingsSurvive
  <2>3. CASE main' = "failed" /\ UNCHANGED <<config, file_content>>
    BY <2>0, <2>3 DEF SettingsInv, SettingsSurvive
  <2> QED BY <1>2, <2>0, <2>1, <2>2, <2>3, Zenon DEF Start_Config
<1>3. CASE ClearConfigFile
  <2>0. main = "clear" /\ UNCHANGED <<file_content, config>>
    BY <1>3 DEF ClearConfigFile
  <2>1. CASE /\ main' = "write" /\ config_exists' = TRUE
             /\ file_on_disk' = <<>> /\ intact' = FALSE
    BY <2>0, <2>1, EmptyIsPlain DEF SettingsInv, SettingsSurvive
  <2>2. CASE /\ main' = "start_log"
             /\ UNCHANGED <<config_exists, file_on_disk, intact>>
    BY <2>0, <2>2 DEF SettingsInv, SettingsSurvive
  <2> QED BY <1>3, <2>1, <2>2, Zenon DEF ClearConfigFile
<1>4. CASE WriteConfigFile
  <2>1. /\ main = "write" /\ main' = "start_log"
        /\ file_on_disk' = file_content
        /\ UNCHANGED <<config_exists, file_content, config>>
    BY <1>4 DEF WriteConfigFile
  <2> QED BY <2>1 DEF SettingsInv, SettingsSurvive
<1>5. CASE Edit
  <2>1. /\ main = "down" /\ main' = "down" /\ intact' = FALSE
        /\ UNCHANGED <<file_content, config>>
    BY <1>5 DEF Edit
  <2>2. /\ file_on_disk' \in Seq(Line) /\ NoEmptyRepeat(file_on_disk')
        /\ (file_on_disk' # <<>> => config_exists')
        /\ config_exists' \in BOOLEAN
    BY <1>5, EmptyIsPlain, StartupAssumption DEF Edit
  <2> QED BY <2>1, <2>2 DEF SettingsInv, SettingsSurvive
<1>6. CASE \/ StartLogging \/ LogMessage \/ Exit \/ Exited \/ Failed \/ Die
           \/ LogStep \/ LogFileDeleted \/ UNCHANGED vars
  <2>1. /\ UNCHANGED configVars
        /\ \/ main' = main
           \/ main = "start_log" /\ main' = "running"
           \/ main = "running" /\ main' = "exit"
           \/ main' = "down"
    BY <1>6 DEF StartLogging, LogMessage, Exit, Exited, Failed, Die, LogStep,
                LogFileDeleted, vars
  <2> QED BY <2>1, SettingsUntouched
<1> QED BY <1>1, <1>2, <1>3, <1>4, <1>5, <1>6 DEF Next, MainStep

(* Whatever stands in the file and however often the program is killed,    *)
(* a program runs with the settings that the next start will read.         *)
THEOREM SettingsAreKept == Spec => []SettingsSurvive
<1>1. Init => SettingsInv
  BY SettingsInit
<1>2. SettingsInv /\ [Next]_vars => SettingsInv'
  BY SettingsStep
<1>3. SettingsInv => SettingsSurvive
  BY DEF SettingsInv
<1> QED BY <1>1, <1>2, <1>3, PTL DEF Spec

-----------------------------------------------------------------------------
(* Types of the whole.                                                     *)

TypeInv == TypeOK /\ CutInv /\ SettingsInv

LEMMA SizeIsNumber ==
  ASSUME config \in Config
  PROVE  SizeOf[config[LOG_SIZE]] \in Nat
<1>1. LOG_SIZE \in Key /\ LOG_SIZE \in Numeric
  BY ConfigAssumption, StartupAssumption
<1>2. config[LOG_SIZE] \in Value(LOG_SIZE)
  BY <1>1 DEF Config
<1>3. config[LOG_SIZE] \in DOMAIN Number
  BY <1>1, <1>2, ConfigAssumption DEF Value
<1> QED BY <1>3, StartupAssumption

(* The log in a step of the program.                                       *)
LEMMA LogTypesStep ==
  ASSUME LogTypes, CutInv, config \in Config, [Next]_vars
  PROVE  LogTypes' /\ CutInv'
<1>1. CASE LogThread
  BY <1>1, LogThreadTypes
<1>2. CASE AddToQueue \/ StartLog \/ StopLog \/ StopJoined \/ DeleteLogFile
             \/ LogDies
  BY <1>2, LogCallTypes
<1>3. CASE SpawnLogThread(SizeOf[config[LOG_SIZE]])
  BY <1>3, SizeIsNumber, SpawnTypes
<1>4. CASE UNCHANGED logVars
  BY <1>4, LogUnchanged
<1> QED
  BY <1>1, <1>2, <1>3, <1>4, Zenon
  DEF Next, MainStep, Launch, Start_Config, ClearConfigFile, WriteConfigFile,
      StartLogging, LogMessage, Exit, Exited, Failed, Die, Edit, LogStep,
      LogFileDeleted, NoLog, vars

LEMMA MainTypesStep ==
  ASSUME [Next]_vars,
         default_path \in BOOLEAN, intact \in BOOLEAN, main \in MainPC,
         processes \in 0 .. MaxProcesses
  PROVE  /\ default_path' \in BOOLEAN /\ intact' \in BOOLEAN
         /\ main' \in MainPC /\ processes' \in 0 .. MaxProcesses
<1> USE DEF MainAt
<1>1. /\ default_path' = default_path \/ default_path' \in BOOLEAN
      /\ intact' = intact \/ intact' = FALSE \/ intact' = TRUE
  BY DEF Next, MainStep, Launch, Start_Config, ClearConfigFile,
         WriteConfigFile, StartLogging, LogMessage, Exit, Exited, Failed, Die,
         Edit, LogStep, LogFileDeleted, vars, configVars
<1>2. main' = main \/ main' \in MainPC
  BY DEF Next, MainStep, Launch, Start_Config, ClearConfigFile,
         WriteConfigFile, StartLogging, LogMessage, Exit, Exited, Failed, Die,
         Edit, LogStep, LogFileDeleted, vars, MainPC
<1>3. \/ processes' = processes
      \/ processes < MaxProcesses /\ processes' = processes + 1
  BY DEF Next, MainStep, Launch, Start_Config, ClearConfigFile,
         WriteConfigFile, StartLogging, LogMessage, Exit, Exited, Failed, Die,
         Edit, LogStep, LogFileDeleted, vars, configVars
<1>4. processes' \in 0 .. MaxProcesses
  BY <1>3, StartupAssumption
<1> QED BY <1>1, <1>2, <1>4

LEMMA TypeInit == Init => TypeInv
<1> SUFFICES ASSUME Init PROVE TypeInv
  OBVIOUS
<1>1. LogTypes /\ CutInv
  BY LogInitTypes DEF Init
<1>2. /\ default_path \in BOOLEAN /\ intact \in BOOLEAN /\ main \in MainPC
      /\ processes \in 0 .. MaxProcesses
  <2>1. default_path = TRUE /\ intact = FALSE /\ main = "down" /\ processes = 0
    BY DEF Init
  <2>2. processes \in 0 .. MaxProcesses
    BY <2>1, StartupAssumption
  <2> QED BY <2>1, <2>2 DEF MainPC
<1>3. SettingsInv
  BY SettingsInit
<1> QED BY <1>1, <1>2, <1>3 DEF TypeInv, TypeOK, SettingsInv

LEMMA TypeStep == TypeInv /\ [Next]_vars => TypeInv'
<1> SUFFICES ASSUME TypeInv, [Next]_vars PROVE TypeInv'
  OBVIOUS
<1>1. SettingsInv'
  BY SettingsStep DEF TypeInv
<1>2. LogTypes' /\ CutInv'
  BY LogTypesStep DEF TypeInv, TypeOK
<1>3. /\ default_path' \in BOOLEAN /\ intact' \in BOOLEAN
      /\ main' \in MainPC /\ processes' \in 0 .. MaxProcesses
  BY MainTypesStep DEF TypeInv, TypeOK
<1> QED BY <1>1, <1>2, <1>3 DEF TypeInv, TypeOK, SettingsInv

(* Every variable keeps its type; a property holds a value it can have.    *)
THEOREM TypesAreKept == Spec => []TypeOK
<1>1. Init => TypeInv
  BY TypeInit
<1>2. TypeInv /\ [Next]_vars => TypeInv'
  BY TypeStep
<1>3. TypeInv => TypeOK
  BY DEF TypeInv
<1> QED BY <1>1, <1>2, <1>3, PTL DEF Spec

-----------------------------------------------------------------------------
(* Where the messages are.                                                 *)

(* Each is somewhere.                                                      *)
Account ==
  1 .. added = Messages(log_queue) \cup Messages(lines) \cup Messages(data)
                 \cup console \cup cut \cup gone

(* What was cut off is older than what the file has, and that is older     *)
(* than what waits.                                                        *)
InOrder ==
  /\ OldestFirst(lines) /\ OldestFirst(data) /\ OldestFirst(log_queue)
  /\ \A m \in cut : \A n \in Messages(lines) \cup Messages(data) : m < n
  /\ \A m \in Messages(lines) \cup Messages(data) \cup cut :
       \A n \in Messages(log_queue) : m < n

(* The thread lives while the program runs, flushes for the last time when *)
(* it was told to stop, and has left nothing when it is gone.              *)
Attended ==
  /\ main = "running" =>
       ~log_thread_flag_stop /\ lpc \notin {"none", "last_flush"}
  /\ main \notin {"running", "exit"} => lpc = "none"
  /\ lpc = "last_flush" => log_thread_flag_stop
  /\ lpc = "none" => log_queue = <<>>

LogInv == Account /\ InOrder /\ Attended

LEMMA AllIntegers ==
  ASSUME LogTypes
  PROVE  /\ log_queue \in Seq(Int) /\ lines \in Seq(Int) /\ data \in Seq(Int)
         /\ \A m \in Messages(log_queue) : m \in Int
         /\ \A m \in Messages(lines) : m \in Int
         /\ \A m \in Messages(data) : m \in Int
         /\ added \in Nat /\ \A m \in cut : m \in Int
<1>1. \A S : S \subseteq Int => Seq(S) \subseteq Seq(Int)
  BY SeqMonotonic, Zenon
<1>2. 1 .. MaxMessages \subseteq Int /\ 0 .. MaxMessages \subseteq Int
  BY LogAssumption
<1>3. /\ log_queue \in Seq(1 .. MaxMessages) /\ lines \in Seq(0 .. MaxMessages)
      /\ data \in Seq(0 .. MaxMessages) /\ cut \subseteq 1 .. MaxMessages
      /\ added \in 0 .. MaxMessages
  BY DEF LogTypes
<1>4. log_queue \in Seq(Int) /\ lines \in Seq(Int) /\ data \in Seq(Int)
  BY <1>1, <1>2, <1>3, Zenon
<1>5. /\ \A m \in Messages(log_queue) : m \in 1 .. MaxMessages
      /\ \A m \in Messages(lines) : m \in 1 .. MaxMessages
      /\ \A m \in Messages(data) : m \in 1 .. MaxMessages
  BY <1>3, MessagesType, WaitingType, Zenon
<1>6. added \in Nat /\ \A m \in cut : m \in Int
  BY <1>3, LogAssumption
<1> QED BY <1>2, <1>4, <1>5, <1>6, Zenon

LEMMA Written ==
  ASSUME LogTypes, Account, InOrder, WriteMessage
  PROVE  Account' /\ InOrder'
<1> DEFINE m == Head(log_queue)
<1>1. /\ log_queue # <<>> /\ log_queue' = Tail(log_queue)
      /\ data' = data /\ cut' = cut /\ added' = added
  BY DEF WriteMessage
<1>2. /\ log_queue \in Seq(1 .. MaxMessages) /\ lines \in Seq(Int)
      /\ log_queue \in Seq(Int)
  BY AllIntegers DEF LogTypes
<1>3. m \in 1 .. MaxMessages /\ m \in Int /\ m # MARK
  BY <1>1, <1>2, HeadAndTail, LogAssumption DEF MARK
<1>4. /\ Messages(log_queue) = Messages(log_queue') \cup {m}
      /\ OldestFirst(log_queue') /\ \A n \in Messages(log_queue') : m < n
  BY <1>1, <1>2, <1>3, MessagesOfTail, OldestFirstTail DEF InOrder
<1>5. /\ Messages(Append(lines, m)) = Messages(lines) \cup {m}
      /\ OldestFirst(Append(lines, m))
  <2>1. \A n \in Messages(lines) : n < m
    BY <1>4 DEF InOrder
  <2>2. OldestFirst(lines)
    BY DEF InOrder
  <2> QED BY <1>2, <1>3, <2>1, <2>2, MessagesOfAppend, OldestFirstAppend
<1>6. /\ \/ lines' = Append(lines, m) /\ gone' = gone /\ console' = console
         \/ lines' = lines /\ gone' = gone \cup {m} /\ console' = console
         \/ lines' = lines /\ gone' = gone /\ console' = console \cup {m}
  BY DEF WriteMessage, LogTypes
<1> HIDE DEF m
<1>7. /\ Messages(lines') = Messages(lines) \/ Messages(lines') = Messages(lines) \cup {m}
      /\ OldestFirst(lines')
  BY <1>5, <1>6 DEF InOrder
<1>8. InOrder'
  BY <1>1, <1>4, <1>7 DEF InOrder
<1>9. Account'
  BY <1>1, <1>4, <1>5, <1>6 DEF Account
<1> QED BY <1>8, <1>9

LEMMA CutKeeps ==
  ASSUME LogTypes, CutInv, Account, InOrder, CutReads \/ CutClears \/ CutWrites
  PROVE  Account' /\ InOrder'
<1> USE DEF LogAt, Unchanged, fileVars, logHistory, callVars
<1> DEFINE h == NewerHalf(lines)
<1>h. /\ OldestFirst(h) /\ Messages(h) \subseteq Messages(lines)
      /\ \A m \in Messages(lines) \ Messages(h) : \A n \in Messages(h) : m < n
  <2>1. Int \in SUBSET Int /\ lines \in Seq(Int) /\ OldestFirst(lines)
    BY AllIntegers DEF InOrder
  <2> QED BY <2>1, NewerHalfProperties
<1>e. Messages(<<>>) = {} /\ OldestFirst(<<>>)
  BY MessagesOfEmpty DEF OldestFirst
<1> HIDE DEF h
<1>1. CASE CutReads
  <2>1. /\ data = <<>> /\ (data' = h \/ data' = <<>>)
        /\ UNCHANGED <<log_queue, lines, console, cut, gone, added>>
    BY <1>1 DEF CutReads, LogTypes, h
  <2>2. /\ Messages(data) = {} /\ Messages(data') \subseteq Messages(lines)
        /\ OldestFirst(data')
    BY <1>h, <1>e, <2>1
  <2> QED BY <2>1, <2>2 DEF Account, InOrder
<1>2. CASE CutClears
  <2>1. /\ lines' = <<>> /\ cut' = cut \cup (Messages(lines) \ Messages(data))
        /\ UNCHANGED <<log_queue, data, console, gone, added>>
        /\ lines = <<>> \/ data = h
    BY <1>2 DEF CutClears, CutInv, h
  <2>2. Messages(lines') = {} /\ OldestFirst(lines')
    BY <1>e, <2>1
  <2>3. \A m \in Messages(lines) \ Messages(data) :
          \A n \in Messages(data) : m < n
    BY <1>h, <1>e, <2>1
  <2> QED BY <2>1, <2>2, <2>3 DEF Account, InOrder
<1>3. CASE CutWrites
  <2>1. /\ lines = <<>> /\ data' = <<>>
        /\ UNCHANGED <<log_queue, console, cut, added>>
        /\ \/ lines' = lines \o Append(data, MARK) /\ gone' = gone
           \/ lines' = lines /\ gone' = gone \cup Messages(data)
    BY <1>3 DEF CutWrites, CutInv
  <2>2. /\ Messages(lines) = {} /\ Messages(data') = {} /\ OldestFirst(data')
        /\ OldestFirst(lines)
    BY <1>e, <2>1
  <2>3. CASE lines' = lines /\ gone' = gone \cup Messages(data)
    BY <2>1, <2>2, <2>3 DEF Account, InOrder
  <2>4. CASE lines' = lines \o Append(data, MARK) /\ gone' = gone
    <3>1. data \in Seq(Int) /\ MARK \in Int
      BY AllIntegers DEF MARK
    <3>2. lines' = Append(data, MARK)
      <4>1. Append(data, MARK) \in Seq(Int)
        BY <3>1
      <4>2. \A s \in Seq(Int) : <<>> \o s = s
        OBVIOUS
      <4> QED BY <2>1, <2>4, <4>1, <4>2
    <3>3. Messages(lines') = Messages(data)
      BY <3>1, <3>2, MessagesOfAppend
    <3>4. OldestFirst(lines')
      <4>1. OldestFirst(data)
        BY DEF InOrder
      <4> QED BY <3>1, <3>2, <4>1 DEF OldestFirst
    <3> QED BY <2>1, <2>2, <2>4, <3>3, <3>4 DEF Account, InOrder
  <2> QED BY <2>1, <2>3, <2>4
<1> QED BY <1>1, <1>2, <1>3

LEMMA LogThreadKeeps ==
  ASSUME LogTypes, CutInv, Account, InOrder, LogThread
  PROVE  Account' /\ InOrder'
<1>1. CASE WriteMessage
  BY <1>1, Written
<1>2. CASE CutReads \/ CutClears \/ CutWrites
  BY <1>2, CutKeeps
<1>3. CASE TestLogStop \/ OpenLogFile \/ LookAtQueue \/ EndOfFlush \/ MeasureFile
             \/ LeaveLogLoop
  <2>1. UNCHANGED <<log_queue, lines, data, console, cut, gone, added>>
    BY <1>3 DEF TestLogStop, OpenLogFile, LookAtQueue, EndOfFlush, MeasureFile,
                LeaveLogLoop, LogAt, Unchanged, fileVars, logHistory, callVars
  <2> QED BY <2>1 DEF Account, InOrder
<1> QED BY <1>1, <1>2, <1>3 DEF LogThread

LEMMA LogCallsKeep ==
  ASSUME LogTypes, Account, InOrder,
         \/ AddToQueue \/ StartLog \/ StopLog \/ StopJoined \/ DeleteLogFile
         \/ LogDies \/ SpawnLogThread(SizeOf[config[LOG_SIZE]])
         \/ UNCHANGED logVars
  PROVE  Account' /\ InOrder'
<1>e. Messages(<<>>) = {} /\ OldestFirst(<<>>)
  BY MessagesOfEmpty DEF OldestFirst
<1>1. CASE AddToQueue
  <2> DEFINE m == added + 1
  <2>1. /\ log_queue' = Append(log_queue, m) /\ added' = m
        /\ UNCHANGED <<lines, data, console, cut, gone>>
        /\ added \in Nat /\ log_queue \in Seq(Int) /\ m \in Int /\ m # MARK
    BY <1>1, AllIntegers DEF AddToQueue, fileVars, logHistory, MARK
  <2>2. 1 .. added' = (1 .. added) \cup {m} /\ \A n \in 1 .. added : n < m
    BY <2>1
  <2> HIDE DEF m
  <2>3. /\ \A n \in Messages(log_queue) : n < m
        /\ \A n \in Messages(lines) \cup Messages(data) \cup cut : n < m
    BY <2>2 DEF Account
  <2>4. Messages(log_queue') = Messages(log_queue) \cup {m}
    BY <2>1, MessagesOfAppend
  <2>5. OldestFirst(log_queue')
    BY <2>1, <2>3, OldestFirstAppend DEF InOrder
  <2>6. Account'
    BY <2>1, <2>2, <2>4 DEF Account
  <2>7. InOrder'
    BY <2>1, <2>3, <2>4, <2>5 DEF InOrder
  <2> QED BY <2>6, <2>7
<1>2. CASE DeleteLogFile
  <2>1. /\ lines' = <<>> /\ gone' = gone \cup (Messages(lines) \ Messages(data))
        /\ UNCHANGED <<log_queue, data, console, cut, added>>
    BY <1>2 DEF DeleteLogFile
  <2> QED BY <1>e, <2>1 DEF Account, InOrder
<1>3. CASE LogDies
  <2>1. /\ log_queue' = <<>> /\ data' = <<>>
        /\ gone' = gone \cup Messages(log_queue)
                         \cup (Messages(data) \ Messages(lines))
        /\ UNCHANGED <<lines, console, cut, added>>
    BY <1>3 DEF LogDies
  <2> QED BY <1>e, <2>1 DEF Account, InOrder
<1>4. CASE \/ StartLog \/ StopLog \/ StopJoined
           \/ SpawnLogThread(SizeOf[config[LOG_SIZE]]) \/ UNCHANGED logVars
  <2>1. UNCHANGED <<log_queue, lines, data, console, cut, gone, added>>
    BY <1>4 DEF StartLog, StopLog, BeginCall, StopJoined, SpawnLogThread, Calls,
                logVars, fileVars, logHistory, callVars
  <2> QED BY <2>1 DEF Account, InOrder
<1> QED BY <1>1, <1>2, <1>3, <1>4

LEMMA AttendedStep ==
  ASSUME LogTypes, Attended, [Next]_vars
  PROVE  Attended'
<1> USE DEF MainAt, LogAt, Unchanged, Calls, BeginCall
<1>f. log_thread_flag_stop \in BOOLEAN
  BY DEF LogTypes
<1>1. CASE LogStep
  <2>1. main' = main
    BY <1>1 DEF LogStep
  <2>2. CASE TestLogStop
    <3>1. /\ lpc = "test" /\ lpc' \in {"last_flush", "open"}
          /\ lpc' = "last_flush" => log_thread_flag_stop
          /\ log_thread_flag_stop' = log_thread_flag_stop
      BY <2>2 DEF TestLogStop, callVars
    <3> QED BY <1>f, <2>1, <3>1 DEF Attended
  <2>3. CASE LeaveLogLoop
    <3>1. /\ lpc = "last_flush" /\ lpc' = "none" /\ log_queue = <<>>
          /\ log_queue' = log_queue
      BY <2>3 DEF LeaveLogLoop, callVars
    <3> QED BY <2>1, <3>1 DEF Attended
  <2>4. CASE StopJoined
    <3>1. UNCHANGED <<lpc, log_queue, log_thread_flag_stop>>
      BY <2>4 DEF StopJoined
    <3> QED BY <1>f, <2>1, <3>1 DEF Attended
  <2>5. CASE WriteMessage
    <3>1. /\ lpc \in {"flush", "last_flush"} /\ lpc' = lpc
          /\ log_thread_flag_stop' = log_thread_flag_stop
      BY <2>5 DEF WriteMessage
    <3> QED BY <1>f, <2>1, <3>1 DEF Attended
  <2>6. CASE \/ OpenLogFile \/ LookAtQueue \/ EndOfFlush \/ MeasureFile
             \/ CutReads \/ CutClears \/ CutWrites
    <3>1. /\ lpc \notin {"none", "last_flush"} /\ lpc' \notin {"none", "last_flush"}
          /\ log_thread_flag_stop' = log_thread_flag_stop
      BY <2>6 DEF OpenLogFile, LookAtQueue, EndOfFlush, MeasureFile, CutReads,
                  CutClears, CutWrites, callVars
    <3> QED BY <1>f, <2>1, <3>1 DEF Attended
  <2> QED BY <1>1, <2>2, <2>3, <2>4, <2>5, <2>6 DEF LogStep, LogThread
<1>2. CASE LogMessage
  <2>1. main = "running" /\ main' = main /\ lpc' = lpc
        /\ log_thread_flag_stop' = log_thread_flag_stop
    BY <1>2 DEF LogMessage, AddToQueue
  <2> QED BY <2>1 DEF Attended
<1>3. CASE LogDies /\ main' = "down"
  <2>1. main' = "down" /\ lpc' = "none" /\ log_queue' = <<>>
    BY <1>3 DEF LogDies
  <2> QED BY <2>1 DEF Attended
<1>4. CASE StartLogging
  <2>1. /\ main = "start_log" /\ lpc = "none" /\ log_queue' = log_queue
        /\ \/ main' = "start_log" /\ lpc' = lpc
           \/ /\ main' = "running" /\ lpc' = "test"
              /\ log_thread_flag_stop' = FALSE
    BY <1>4 DEF StartLogging, StartLog, SpawnLogThread, Attended
  <2> QED BY <2>1 DEF Attended
<1>5. CASE Exit
  <2>1. /\ main' = "exit" /\ lpc' = lpc /\ log_queue' = log_queue
        /\ log_thread_flag_stop' = TRUE
    BY <1>5 DEF Exit, StopLog
  <2> QED BY <2>1 DEF Attended
<1>6. CASE \/ LogFileDeleted \/ Launch \/ Start_Config \/ ClearConfigFile
           \/ WriteConfigFile \/ Edit \/ UNCHANGED vars
  <2>1. UNCHANGED <<lpc, log_queue, log_thread_flag_stop>>
    BY <1>6 DEF LogFileDeleted, DeleteLogFile, Launch, Start_Config,
                ClearConfigFile, WriteConfigFile, Edit, NoLog, vars, logVars,
                callVars
  <2>2. \/ main' = main
        \/ main \notin {"running", "exit"} /\ main' \notin {"running", "exit"}
    BY <1>6 DEF LogFileDeleted, Launch, Start_Config, ClearConfigFile,
                WriteConfigFile, Edit, vars
  <2> QED BY <1>f, <2>1, <2>2 DEF Attended
<1> QED BY <1>1, <1>2, <1>3, <1>4, <1>5, <1>6
        DEF Next, MainStep, Exited, Failed, Die

LEMMA LogInvInit == Init => LogInv
<1> SUFFICES ASSUME Init PROVE LogInv
  OBVIOUS
<1>1. /\ log_queue = <<>> /\ lines = <<>> /\ data = <<>> /\ console = {}
      /\ cut = {} /\ gone = {} /\ added = 0 /\ lpc = "none" /\ main = "down"
  BY DEF Init, LogInit
<1>2. Messages(<<>>) = {} /\ OldestFirst(<<>>)
  BY MessagesOfEmpty DEF OldestFirst
<1>3. Account /\ InOrder
  BY <1>1, <1>2 DEF Account, InOrder
<1> QED BY <1>1, <1>3 DEF LogInv, Attended

(* What a step of the program does to the log.                             *)
LEMMA LogSteps ==
  ASSUME [Next]_vars
  PROVE  \/ LogThread
         \/ AddToQueue \/ StartLog \/ StopLog \/ StopJoined \/ DeleteLogFile
         \/ Die \/ SpawnLogThread(SizeOf[config[LOG_SIZE]])
         \/ UNCHANGED logVars
BY Zenon
DEF Next, MainStep, Launch, Start_Config, ClearConfigFile, WriteConfigFile,
    StartLogging, LogMessage, Exit, Exited, Failed, Die, Edit, LogStep,
    LogFileDeleted, NoLog, MainAt, vars

LEMMA LogInvStep == TypeInv /\ LogInv /\ [Next]_vars => LogInv'
<1> SUFFICES ASSUME TypeInv, LogInv, [Next]_vars PROVE LogInv'
  OBVIOUS
<1>1. LogTypes /\ CutInv
  BY DEF TypeInv, TypeOK
<1>2. Attended'
  BY <1>1, AttendedStep DEF LogInv
<1>3. Account' /\ InOrder'
  BY <1>1, LogSteps, LogThreadKeeps, LogCallsKeep, Zenon DEF LogInv, Die
<1> QED BY <1>2, <1>3 DEF LogInv

(* No message is lost, none overtakes another, and none is left when Stop  *)
(* has returned, however long the program runs, wherever its log thread is *)
(* when the file is deleted, the program ends or the process dies.         *)
THEOREM NoMessageIsLost == Spec => []NothingLost
<1>1. Init => TypeInv /\ LogInv
  BY TypeInit, LogInvInit
<1>2. TypeInv /\ LogInv /\ [Next]_vars => (TypeInv /\ LogInv)'
  BY TypeStep, LogInvStep
<1>3. LogInv => NothingLost
  <2> SUFFICES ASSUME LogInv PROVE NothingLost
    OBVIOUS
  <2>1. UNION {Messages(log_queue), Messages(lines), Messages(data), console,
               cut, gone}
          = Messages(log_queue) \cup Messages(lines) \cup Messages(data)
              \cup console \cup cut \cup gone
    OBVIOUS
  <2>2. OldestFirst(lines)
    BY DEF LogInv, InOrder
  <2>3. \A m \in cut : \A n \in Messages(lines) \cup Messages(data) : m < n
    BY DEF LogInv, InOrder
  <2>4. lpc = "none" => log_queue = <<>>
    BY DEF LogInv, Attended
  <2> QED BY <2>1, <2>2, <2>3, <2>4 DEF NothingLost, LogInv, Account
<1> QED BY <1>1, <1>2, <1>3, PTL DEF Spec

-----------------------------------------------------------------------------
(* The log thread by itself: what it loses and when it ends.               *)

(* Without a deletion the stream is never on a nameless file, and a file   *)
(* that is to be cut is there.                                             *)
DeletionInv ==
  deletions = 0 => /\ file # "unlinked" /\ lpc # "hung"
                   /\ lpc = "cut_read" => exists

(* The log thread hangs in a cut only when somebody has deleted the file,  *)
(* and a message goes only with a file that was deleted or a process that  *)
(* dies with its log running: an ordinary end loses none                   *)
(* (log.cpp:40-51, 101-148).                                               *)
LogLosesNothing ==
  /\ [](lpc = "hung" => deletions > 0)
  /\ [][gone' # gone => deletions' > 0 \/ (Die /\ lpc # "none")]_vars

Place(l) == CASE l \in {"none", "hung"} -> 0
              [] l = "last_flush" -> 1  [] l = "test"     -> 2
              [] l = "cut_write"  -> 3  [] l = "cut_clear" -> 4
              [] l = "cut_read"   -> 5  [] l = "measure"  -> 6
              [] l = "flush"      -> 7  [] l = "size"     -> 8
              [] l = "open"       -> 9
LogRank == Len(log_queue) + Place(lpc)

(* Start and Stop wait for a bounded number of the log thread's steps: the *)
(* messages that are waiting and at most nine more; nobody adds to them    *)
(* meanwhile (log.cpp:40-51, 221-260).                                     *)
LogStopEnds ==
  [][call # "none" /\ call' # "none" =>
       /\ LogRank \in Nat /\ LogRank' <= LogRank
       /\ LogThread => LogRank' < LogRank]_vars

(* A call waits only while main does nothing else.                         *)
CallInv ==
  call # "none" => log_thread_flag_stop /\ main \in {"start_log", "exit"}

LEMMA DeletionStep == LogTypes /\ DeletionInv /\ [Next]_vars => DeletionInv'
<1> SUFFICES ASSUME LogTypes, DeletionInv, [Next]_vars, deletions' = 0
             PROVE  file' # "unlinked" /\ lpc' # "hung"
                      /\ (lpc' = "cut_read" => exists')
  BY DEF DeletionInv
<1> USE DEF MainAt, LogAt, Unchanged, Calls, BeginCall, fileVars, logHistory,
            callVars
<1>0. /\ deletions \in Nat /\ exists \in BOOLEAN
      /\ file = "named" => exists
      /\ file \in {"closed", "named", "unlinked"}
  BY LogAssumption DEF LogTypes
<1>1. CASE MeasureFile
  <2>1. deletions = 0 /\ UNCHANGED <<exists, file>> /\ lpc' # "hung"
    BY <1>1 DEF MeasureFile
  <2>2. CASE file = "closed"
    <3>1. Len(LinesWritten) <= max_file_size
      BY <2>2 DEF LinesWritten, LogTypes
    <3> QED BY <1>1, <2>1, <2>2, <3>1 DEF MeasureFile
  <2>3. CASE file # "closed"
    BY <1>0, <2>1, <2>3 DEF DeletionInv
  <2> QED BY <2>2, <2>3
<1>2. CASE \/ TestLogStop \/ OpenLogFile \/ LookAtQueue \/ WriteMessage
           \/ EndOfFlush \/ CutReads \/ CutClears \/ CutWrites \/ LeaveLogLoop
  BY <1>0, <1>2 DEF TestLogStop, OpenLogFile, LookAtQueue, WriteMessage,
     EndOfFlush, CutReads, CutClears, CutWrites, LeaveLogLoop, DeletionInv
<1>3. CASE DeleteLogFile
  BY <1>0, <1>3 DEF DeleteLogFile
<1>4. CASE Die
  BY <1>4 DEF Die, LogDies
<1>5. CASE \/ AddToQueue \/ StartLog \/ StopLog \/ StopJoined
           \/ SpawnLogThread(SizeOf[config[LOG_SIZE]]) \/ UNCHANGED logVars
  BY <1>5 DEF AddToQueue, StartLog, StopLog, StopJoined, SpawnLogThread,
              logVars, DeletionInv
<1> QED BY <1>1, <1>2, <1>3, <1>4, <1>5, LogSteps DEF LogThread

LEMMA CallStep == CallInv /\ [Next]_vars => CallInv'
<1> SUFFICES ASSUME CallInv, [Next]_vars, call' # "none"
             PROVE  log_thread_flag_stop' /\ main' \in {"start_log", "exit"}
  BY DEF CallInv
<1> USE DEF MainAt, Calls, BeginCall
<1>1. CASE LogStep
  <2>1. UNCHANGED <<log_thread_flag_stop, main>> /\ call # "none"
    BY <1>1 DEF LogStep, LogThread, TestLogStop, OpenLogFile, LookAtQueue,
       WriteMessage, EndOfFlush, MeasureFile, CutReads, CutClears, CutWrites,
       LeaveLogLoop, StopJoined, Unchanged, callVars
  <2> QED BY <2>1 DEF CallInv
<1>2. CASE LogMessage \/ LogFileDeleted \/ Edit \/ Start_Config
             \/ ClearConfigFile \/ WriteConfigFile \/ Launch \/ UNCHANGED vars
  <2>1. UNCHANGED <<log_thread_flag_stop, call>>
    BY <1>2 DEF LogMessage, AddToQueue, LogFileDeleted, DeleteLogFile, Edit,
       Start_Config, ClearConfigFile, WriteConfigFile, Launch, NoLog, vars,
       logVars, callVars
  <2>2. main' = main
    BY <1>2, <2>1 DEF LogMessage, LogFileDeleted, Edit, Start_Config,
       ClearConfigFile, WriteConfigFile, Launch, vars, CallInv
  <2> QED BY <2>1, <2>2 DEF CallInv
<1>3. CASE StartLogging \/ Exit
  BY <1>3 DEF StartLogging, StartLog, SpawnLogThread, Exit, StopLog
<1>4. CASE Exited \/ Failed \/ Die
  BY <1>4 DEF Exited, Failed, Die, LogDies
<1> QED BY <1>1, <1>2, <1>3, <1>4 DEF Next, MainStep

(* What a step loses without a deletion.                                   *)
LEMMA LossStep ==
  ASSUME LogTypes, CutInv, DeletionInv, Attended, [Next]_vars, gone' # gone
  PROVE  deletions' > 0 \/ (Die /\ lpc # "none")
<1> USE DEF LogAt, Unchanged, Calls, BeginCall, fileVars, logHistory, callVars
<1>0. deletions \in Nat
  BY LogAssumption DEF LogTypes
<1>1. CASE WriteMessage \/ CutWrites
  <2>1. file = "unlinked"
    <3>1. CASE WriteMessage
      BY <3>1 DEF WriteMessage
    <3>2. CASE CutWrites
      <4>1. file # "named" /\ file # "closed"
        BY <3>2 DEF CutWrites, CutInv
      <4> QED BY <4>1 DEF LogTypes
    <3> QED BY <1>1, <3>1, <3>2
  <2>2. deletions' = deletions
    BY <1>1 DEF WriteMessage, CutWrites
  <2> QED BY <1>0, <2>1, <2>2 DEF DeletionInv
<1>2. CASE DeleteLogFile
  BY <1>0, <1>2 DEF DeleteLogFile
<1>3. CASE Die /\ lpc = "none"
  <2>1. log_queue = <<>> /\ data = <<>>
    BY <1>3 DEF Attended, LogTypes
  <2>2. gone' = gone
    BY <1>3, <2>1, MessagesOfEmpty DEF Die, LogDies
  <2> QED BY <2>2
<1>4. CASE LogThread /\ ~WriteMessage /\ ~CutWrites
  BY <1>4 DEF LogThread, TestLogStop, OpenLogFile, LookAtQueue, EndOfFlush,
     MeasureFile, CutReads, CutClears, LeaveLogLoop
<1>5. CASE \/ AddToQueue \/ StartLog \/ StopLog \/ StopJoined
           \/ SpawnLogThread(SizeOf[config[LOG_SIZE]]) \/ UNCHANGED logVars
  BY <1>5 DEF AddToQueue, StartLog, StopLog, StopJoined, SpawnLogThread, logVars
<1> QED BY <1>1, <1>2, <1>3, <1>4, <1>5, LogSteps

(* The log alone loses nothing: a message that is neither in the file nor  *)
(* on the console nor cut off went with a deleted file or a dead process.  *)
THEOREM OnlyDeletionOrDeathLoses == Spec => LogLosesNothing
<1>1. Init => TypeInv /\ LogInv /\ DeletionInv
  <2>1. Init => DeletionInv
    BY DEF Init, LogInit, DeletionInv
  <2> QED BY <2>1, TypeInit, LogInvInit
<1>2. TypeInv /\ LogInv /\ DeletionInv /\ [Next]_vars
        => (TypeInv /\ LogInv /\ DeletionInv)'
  BY TypeStep, LogInvStep, DeletionStep DEF TypeInv, TypeOK
<1>3. TypeInv /\ DeletionInv => (lpc = "hung" => deletions > 0)
  BY LogAssumption DEF TypeInv, TypeOK, LogTypes, DeletionInv
<1>4. TypeInv /\ LogInv /\ DeletionInv /\ [Next]_vars
        => [gone' # gone => deletions' > 0 \/ (Die /\ lpc # "none")]_vars
  BY LossStep DEF TypeInv, TypeOK, LogInv
<1> QED BY <1>1, <1>2, <1>3, <1>4, PTL DEF Spec, LogLosesNothing

LEMMA LogRankStep ==
  ASSUME LogTypes, CallInv, [Next]_vars, call # "none", call' # "none"
  PROVE  /\ LogRank \in Nat /\ LogRank' <= LogRank
         /\ LogThread => LogRank' < LogRank
<1> USE DEF LogAt, Unchanged, callVars
<1>0. /\ log_queue \in Seq(1 .. MaxMessages) /\ Len(log_queue) \in Nat
      /\ lpc \in LogPC /\ log_thread_flag_stop
  BY DEF LogTypes, CallInv
<1>1. LogRank \in Nat
  BY <1>0 DEF LogRank, Place, LogPC
<1>2. ASSUME LogThread PROVE LogRank' \in Nat /\ LogRank' < LogRank
  <2>1. CASE WriteMessage
    <3>1. /\ log_queue # <<>> /\ log_queue' = Tail(log_queue) /\ lpc' = lpc
      BY <2>1 DEF WriteMessage
    <3>2. Len(log_queue') = Len(log_queue) - 1
      BY <1>0, <3>1
    <3>3. Place(lpc) \in Nat
      BY <1>0 DEF Place, LogPC
    <3> QED BY <1>0, <3>1, <3>2, <3>3 DEF LogRank
  <2>2. CASE ~WriteMessage
    <3>1. log_queue' = log_queue
      BY <1>2, <2>2 DEF LogThread, TestLogStop, OpenLogFile, LookAtQueue,
         EndOfFlush, MeasureFile, CutReads, CutClears, CutWrites, LeaveLogLoop
    <3>2. \/ lpc = "test" /\ lpc' = "last_flush"
          \/ lpc = "open" /\ lpc' = "size"
          \/ lpc = "size" /\ lpc' \in {"flush", "test"}
          \/ lpc = "flush" /\ lpc' = "measure"
          \/ lpc = "measure" /\ lpc' \in {"test", "cut_read"}
          \/ lpc = "cut_read" /\ lpc' \in {"cut_clear", "hung"}
          \/ lpc = "cut_clear" /\ lpc' = "cut_write"
          \/ lpc = "cut_write" /\ lpc' = "test"
          \/ lpc = "last_flush" /\ lpc' = "none"
      BY <1>0, <1>2, <2>2 DEF LogThread, TestLogStop, OpenLogFile, LookAtQueue,
         EndOfFlush, MeasureFile, CutReads, CutClears, CutWrites, LeaveLogLoop
    <3>3. Place(lpc') < Place(lpc) /\ Place(lpc) \in Nat /\ Place(lpc') \in Nat
      BY <3>2 DEF Place
    <3> QED BY <1>0, <3>1, <3>3 DEF LogRank
  <2> QED BY <2>1, <2>2
<1>3. ASSUME ~LogThread PROVE LogRank' = LogRank
  <2>1. ~AddToQueue \/ ~LogMessage
    BY DEF LogMessage, CallInv
  <2>2. UNCHANGED <<log_queue, lpc>>
    BY <1>3, <2>1
    DEF Next, MainStep, Launch, Start_Config, ClearConfigFile, WriteConfigFile,
        StartLogging, LogMessage, Exit, Exited, Failed, Die, Edit, LogStep,
        LogFileDeleted, NoLog, vars, logVars, StartLog, StopLog, BeginCall,
        StopJoined, SpawnLogThread, Calls, DeleteLogFile, LogDies
  <2> QED BY <2>2 DEF LogRank
<1> QED BY <1>1, <1>2, <1>3

(* Stop returns after a bounded number of the thread's steps, the thread   *)
(* having written all that was waiting, or finds it hung.                  *)
THEOREM LogStopIsBounded == Spec => LogStopEnds
<1>1. Init => TypeInv /\ CallInv
  <2>1. Init => CallInv
    BY DEF Init, LogInit, CallInv
  <2> QED BY <2>1, TypeInit
<1>2. TypeInv /\ CallInv /\ [Next]_vars => (TypeInv /\ CallInv)'
  BY TypeStep, CallStep
<1>3. TypeInv /\ CallInv /\ [Next]_vars =>
        [call # "none" /\ call' # "none" =>
           /\ LogRank \in Nat /\ LogRank' <= LogRank
           /\ LogThread => LogRank' < LogRank]_vars
  BY LogRankStep DEF TypeInv, TypeOK
<1> QED BY <1>1, <1>2, <1>3, PTL DEF Spec, LogStopEnds
=============================================================================
