------------------------------ MODULE TcpServer ------------------------------
(***************************************************************************)
(* The TCP server (tcpserver.cpp over TcpSocket/).  Four threads share it: *)
(* the accept thread, the clients thread that reads and writes every       *)
(* client, the controller that calls Start, Stop, Send and Recv, and the   *)
(* thread of the periodic lines, which calls Send too.                     *)
(* tcpClientsMutex guards the list of clients, one mutex each queue, and   *)
(* nothing the descriptor of the listening socket.  A short critical       *)
(* section is one action; the two passes over the list are many.           *)
(***************************************************************************)
EXTENDS Integers, Sequences, FiniteSets

CONSTANTS
  Client,          (* connections; a client that comes back is another one *)
  MAXBUFFERSIZE,   (* CONFIG::TCP::MAXBUFFERSIZE                           *)
  MaxLines,        (* bound: lines each client sends                       *)
  MaxReplies,      (* bound: calls of Send                                 *)
  MaxStarts        (* bound: calls of Start                                *)

ASSUME ServerAssumption ==
  /\ MAXBUFFERSIZE \in Nat \ {0}
  /\ MaxLines \in Nat /\ MaxReplies \in Nat /\ MaxStarts \in Nat

VARIABLES
  peer,        (* [Client -> Peer], the client's end as our kernel sees it *)
  served,      (* [Client -> Served], our end of the connection            *)
  wire,        (* [Client -> Seq(Line)], lines not yet read                *)
  partial,     (* [Client -> Partial], the start of another one after them *)
  listener,    (* the listening socket, in the kernel                      *)
  descriptor,  (* serverSocket's copy of its number; 0 when there is none  *)
  zero,        (* what the number 0 names: see Zero                        *)
  closes_met,  (* history: both threads were inside its Close at once      *)
  isServerReadyToListen, server_thread_flag_stop,
  tcpClients, inputStringBuffer, outputStringBuffer,
  apc,         (* where the accept thread is                               *)
  candidate,   (* possible_client                                          *)
  kpc,         (* where the clients thread is                              *)
  index, data, (* its position in the list, the line it is sending         *)
  cpc,         (* where the controller is                                  *)
  starting,    (* it runs Stop from within Start                           *)
  starts,      (* calls of Start so far                                    *)
  sent,        (* [Client -> Nat], lines the client finished               *)
  queued,      (* history: lines put into the input queue, in order        *)
  received,    (* history: lines Recv returned, in order                   *)
  replies,     (* calls of Send so far; the n-th sends the line n          *)
  spc,         (* [Sender -> SenderPC], where in Send each sender is       *)
  line,        (* [Sender -> Nat], the line of its call; 0 between calls   *)
  overlap,     (* history: <<m, n>> when call n began within the older m   *)
  got          (* [Client -> Seq(Nat)], history: lines written to a client *)

socketVars  == <<listener, descriptor, zero, closes_met>>
clientVars  == <<peer, wire, partial, sent>>
queueVars   == <<inputStringBuffer, outputStringBuffer, queued, received,
                 replies, got>>
sendVars    == <<spc, line, overlap>>
flagVars    == <<isServerReadyToListen, server_thread_flag_stop>>
acceptVars  == <<apc, candidate>>
passVars    == <<kpc, index, data>>
controlVars == <<cpc, starting, starts>>
vars == <<served, tcpClients, socketVars, clientVars, queueVars, sendVars,
          flagVars, acceptVars, passVars, controlVars>>

Peer   == {"away", "open", "closed", "reset"}
(* Stranded: in the backlog of the listening socket of number 0.           *)
Served == {"no", "backlog", "stranded", "open", "closed"}
(* Standard input, or any socket that does not listen; nothing; a socket   *)
(* that listens.                                                           *)
Zero   == {"used", "free", "listening"}
Sender == {"controller", "period"}
Line   == Client \X (1..MaxLines)
(* Bytes without a line end: none, some, or more than ReadLine has room for.*)
Partial == {"none", "begun", "too_long"}

(* The steps of TcpSocket::Close, which two threads may be in at once.     *)
ClosePC == {"shutdown", "close", "zero"}
AcceptPC == {"none", "open", "test", "poll", "accept", "lock", "leave",
             "ended"} \cup ClosePC
ClientsPC == {"none", "test", "receive", "scan", "read", "send", "write",
              "write_line", "close_all", "ended"}
ControllerPC == {"idle", "stop_failed", "start_failed", "join_server",
                 "join_clients", "spawn", "wait_ready"} \cup ClosePC
SenderPC == {"none", "add", "clear"}

Init ==
  /\ peer = [c \in Client |-> "away"] /\ served = [c \in Client |-> "no"]
  /\ wire = [c \in Client |-> <<>>] /\ partial = [c \in Client |-> "none"]
  /\ listener = "closed" /\ descriptor = 0
  /\ zero = "used" /\ closes_met = FALSE
  /\ isServerReadyToListen = FALSE
  /\ server_thread_flag_stop \in BOOLEAN   \* the constructor leaves it alone
  /\ tcpClients = <<>> /\ inputStringBuffer = <<>>
  /\ outputStringBuffer = <<>>
  /\ apc = "none" /\ candidate = {}
  /\ kpc = "none" /\ index = 0 /\ data = 0
  /\ cpc = "idle" /\ starting = FALSE /\ starts = 0
  /\ sent = [c \in Client |-> 0] /\ queued = <<>> /\ received = <<>>
  /\ replies = 0 /\ got = [c \in Client |-> <<>>]
  /\ spc = [s \in Sender |-> "none"] /\ line = [s \in Sender |-> 0]
  /\ overlap = {}

-----------------------------------------------------------------------------
(* The sockets.                                                            *)

(* TcpClientSocket::IsOpen: our end is open and no FIN or RST came.        *)
IsOpen(c) == served[c] = "open" /\ peer[c] = "open"

(* TcpServerSocket::IsListening: the descriptor names a listening socket.  *)
IsListening == descriptor > 0 /\ listener = "listening"

Backlog  == {c \in Client : served[c] = "backlog"}
Stranded == {c \in Client : served[c] = "stranded"}

(* Mutant: an exception leaves the mutex locked.                           *)
Locked_KeptByThrow ==
  kpc \in {"scan", "read", "write", "write_line", "ended"}

(* The clients thread holds tcpClientsMutex.                               *)
Locked == kpc \in {"scan", "read", "write", "write_line"}

(* Mutant: ENOTCONN from shutdown ends the close.                          *)
Shutdown_NotConnectedEnds(pc, next, done, thrown) ==
  /\ pc = "shutdown"
  /\ \/ descriptor = 0 /\ next = done /\ UNCHANGED listener
     \/ /\ descriptor > 0 /\ listener = "listening" /\ next = "close"
        /\ listener' = "shut"
     \/ descriptor > 0 /\ listener = "shut" /\ next = done /\ UNCHANGED listener
     \/ /\ descriptor > 0 /\ listener = "closed" /\ next = thrown
        /\ UNCHANGED listener
  /\ UNCHANGED <<descriptor, zero, served>>

(* The calls of TcpSocket::Close, each loading the descriptor again (the   *)
(* test and shutdown, next to each other, share a load); the thread that   *)
(* makes them is at pc and will be at next.  ENOTCONN from shutdown is     *)
(* passed over, EBADF throws.                                              *)
Shutdown(pc, next, done, thrown) ==
  /\ pc = "shutdown"
  /\ \/ descriptor = 0 /\ next = done /\ UNCHANGED listener
     \/ /\ descriptor > 0 /\ listener # "closed" /\ next = "close"
        /\ listener' = "shut"
     \/ /\ descriptor > 0 /\ listener = "closed" /\ next = thrown
        /\ UNCHANGED listener                                     \* EBADF
  /\ UNCHANGED <<descriptor, zero, served>>

(* The other thread may have put 0 in its place: then number 0 is closed.  *)
CloseDescriptor(pc, next, thrown) ==
  /\ pc = "close"
  /\ \/ /\ descriptor > 0 /\ listener # "closed" /\ next = "zero"
        /\ listener' = "closed"
        /\ served' = [c \in Client |-> IF c \in Backlog THEN "closed"
                                                        ELSE served[c]]
        /\ UNCHANGED zero
     \/ /\ descriptor = 0 /\ zero # "free" /\ next = "zero"
        /\ zero' = "free"
        /\ served' = [c \in Client |-> IF c \in Stranded THEN "closed"
                                                         ELSE served[c]]
        /\ UNCHANGED listener
     \/ /\ IF descriptor > 0 THEN listener = "closed" ELSE zero = "free"
        /\ next = thrown                                          \* EBADF
        /\ UNCHANGED <<listener, zero, served>>
  /\ UNCHANGED descriptor

ForgetDescriptor(pc, next, done) ==
  /\ pc = "zero" /\ next = done
  /\ descriptor' = 0
  /\ UNCHANGED <<listener, zero, served>>

SocketClose(pc, next, done, thrown) ==
  \/ Shutdown(pc, next, done, thrown)
  \/ CloseDescriptor(pc, next, thrown)
  \/ ForgetDescriptor(pc, next, done)

-----------------------------------------------------------------------------
(* The accept thread.                                                      *)

AcceptAt(from, to) ==
  /\ apc = from /\ apc' = to
  /\ UNCHANGED <<clientVars, queueVars, sendVars, passVars, controlVars,
                 server_thread_flag_stop>>

(* socket() gives the lowest number that is free, and the socket lives in  *)
(* the kernel whatever its number: one with number 0 counts as none in     *)
(* every test of TcpSocket and SocketStatus, but it listens.               *)
SocketGets(state) ==
  IF zero = "free"
    THEN /\ descriptor' = 0 /\ UNCHANGED listener
         /\ zero' = IF state = "listening" THEN "listening" ELSE "used"
    ELSE descriptor' = 1 /\ listener' = state /\ UNCHANGED zero

(* serverSocket.Start: socket, bind and listen, while the controller waits *)
(* for the result.  The Close before them finds no descriptor.             *)
OpenServerSocket ==
  /\ \/ /\ AcceptAt("open", "test")
        /\ isServerReadyToListen' = TRUE
        /\ SocketGets("listening")
     \/ /\ AcceptAt("open", "ended")                   \* the port is taken
        /\ SocketGets("shut")
        /\ UNCHANGED isServerReadyToListen
  /\ UNCHANGED <<served, tcpClients, candidate, closes_met>>

AcceptStep(from, to) ==
  /\ AcceptAt(from, to)
  /\ UNCHANGED <<socketVars, served, tcpClients, isServerReadyToListen,
                 candidate>>

TestServerStop ==
  AcceptStep("test", IF server_thread_flag_stop THEN "leave" ELSE "poll")

(* IsListening, IsClientAvailable: two polls of the socket.                *)
PollListener ==
  AcceptStep("poll", CASE ~IsListening -> "leave"
                       [] IsListening /\ Backlog = {} -> "test"
                       [] IsListening /\ Backlog # {} -> "accept")

(* AcceptClient, and IsOpen of the result: one that has gone is let go.    *)
AcceptClient ==
  /\ IsListening
  /\ \E c \in Backlog :
       \/ /\ peer[c] = "open"
          /\ AcceptAt("accept", "lock")
          /\ candidate' = {c}
          /\ served' = [served EXCEPT ![c] = "open"]
       \/ /\ peer[c] # "open"
          /\ AcceptAt("accept", "test")
          /\ served' = [served EXCEPT ![c] = "closed"]
          /\ UNCHANGED candidate
  /\ UNCHANGED <<socketVars, tcpClients, isServerReadyToListen>>

(* Stop took the socket away meanwhile: accept throws past the end of Loop.*)
AcceptThrows == ~IsListening /\ AcceptStep("accept", "ended")

AddClient ==
  /\ AcceptAt("lock", "test") /\ ~Locked
  /\ \E c \in candidate : tcpClients' = Append(tcpClients, c)
  /\ candidate' = {}
  /\ UNCHANGED <<socketVars, served, isServerReadyToListen>>

LeaveServerLoop ==
  /\ AcceptAt("leave", "shutdown")
  /\ isServerReadyToListen' = FALSE
  /\ closes_met' = (closes_met \/ cpc \in ClosePC)
  /\ UNCHANGED <<listener, descriptor, zero, served, tcpClients, candidate>>

CloseServerSocket ==
  /\ \E to \in AcceptPC :
       AcceptAt(apc, to) /\ SocketClose(apc, to, "ended", "ended")
  /\ UNCHANGED <<tcpClients, isServerReadyToListen, candidate, closes_met>>

AcceptNext ==
  \/ OpenServerSocket \/ TestServerStop \/ PollListener \/ AcceptClient
  \/ AcceptThrows \/ AddClient \/ LeaveServerLoop \/ CloseServerSocket

-----------------------------------------------------------------------------
(* The clients thread.                                                     *)

ClientsAt(from) ==
  /\ kpc = from
  /\ UNCHANGED <<socketVars, flagVars, acceptVars, controlVars, sendVars,
                 peer, sent, replies, received>>

(* A step of the thread through its own variables only.                    *)
ClientsStep(from, to, i) ==
  /\ ClientsAt(from)
  /\ kpc' = to /\ index' = i /\ data' = 0
  /\ UNCHANGED <<served, tcpClients, wire, partial, queueVars>>

(* Mutant: the loop does not look at the flag.                             *)
TestClientsStop_IgnoresFlag == ClientsStep("test", "receive", 0)

TestClientsStop ==
  ClientsStep("test", IF server_thread_flag_stop THEN "close_all"
                                                 ELSE "receive", 0)

(* Mutant: a lone client is not worth a pass.                              *)
ReceiveDataFromClients_NotTheLast ==
  IF Len(tcpClients) <= 1 THEN ClientsStep("receive", "send", 0)
                          ELSE ClientsStep("receive", "scan", 1)

(* The list is looked at without its mutex, then the mutex is taken.       *)
ReceiveDataFromClients ==
  IF tcpClients = <<>> THEN ClientsStep("receive", "send", 0)
                       ELSE ClientsStep("receive", "scan", 1)

Current == tcpClients[index]
InList  == index \in DOMAIN tcpClients

EndOfScan  == ~InList /\ ClientsStep("scan", "send", 0)
ReadClient == InList /\ IsOpen(Current) /\ ClientsStep("scan", "read", index)

(* A client that has gone leaves the list, whatever it sent before.        *)
EraseClient ==
  /\ ClientsAt("scan") /\ InList /\ ~IsOpen(Current)
  /\ tcpClients' = SubSeq(tcpClients, 1, index - 1)
                     \o SubSeq(tcpClients, index + 1, Len(tcpClients))
  /\ served' = [served EXCEPT ![Current] = "closed"]
  /\ UNCHANGED <<passVars, wire, partial, queueVars>>

(* Mutant: the newest line gives way, not the oldest.                      *)
AddToBuffer_DropsNewest(buffer, msg) ==
  IF Len(buffer) >= MAXBUFFERSIZE
    THEN Append(SubSeq(buffer, 1, MAXBUFFERSIZE - 1), msg)
    ELSE Append(buffer, msg)

(* Mutant: a full queue takes one more.                                    *)
AddToBuffer_OneTooMany(buffer, msg) ==
  IF Len(buffer) > MAXBUFFERSIZE
    THEN Append(SubSeq(buffer, Len(buffer) - MAXBUFFERSIZE + 1, Len(buffer)),
                msg)
    ELSE Append(buffer, msg)

(* What AddToInputBuffer and AddToOutputBuffer leave in the queue.         *)
AddToBuffer(buffer, msg) ==
  IF Len(buffer) >= MAXBUFFERSIZE
    THEN Append(SubSeq(buffer, Len(buffer) - MAXBUFFERSIZE + 2, Len(buffer)),
                msg)
    ELSE Append(buffer, msg)

(* BytesAvailable, ReadLine, AddToInputBuffer.  While the client has sent  *)
(* a part of a line and no more, recv waits: no action of the thread is    *)
(* enabled, and the mutex is held.                                         *)
ReceiveLine ==
  /\ ClientsAt("read") /\ wire[Current] # <<>>
  /\ inputStringBuffer' = AddToBuffer(inputStringBuffer, Head(wire[Current]))
  /\ queued' = Append(queued, Head(wire[Current]))
  /\ wire' = [wire EXCEPT ![Current] = Tail(@)]
  /\ UNCHANGED <<passVars, served, tcpClients, partial, outputStringBuffer,
                 got>>

NextClient ==
  /\ ClientsStep("read", "scan", index + 1)
  /\ wire[Current] = <<>> /\ partial[Current] = "none"

(* The line is too long, or recv ends in the middle of it: ReadLine throws *)
(* past the loop, which gives the mutex back and ends the thread.          *)
ReadThrows ==
  /\ ClientsStep("read", "ended", 0)
  /\ wire[Current] = <<>>
  /\ \/ partial[Current] = "too_long"
     \/ partial[Current] = "begun" /\ peer[Current] # "open"

(* Mutant: the line is copied from the front and not popped.               *)
TakeReply_LeavesIt ==
  /\ ClientsAt("send")
  /\ IF outputStringBuffer = <<>>
       THEN kpc' = "test" /\ UNCHANGED <<index, data>>
       ELSE kpc' = "write" /\ index' = 1 /\ data' = Head(outputStringBuffer)
  /\ UNCHANGED <<served, tcpClients, wire, partial, inputStringBuffer,
                 outputStringBuffer, queued, got>>

(* SendDataToClients: take a line and the mutex, or sleep.                 *)
TakeReply ==
  /\ ClientsAt("send")
  /\ IF outputStringBuffer = <<>>
       THEN /\ kpc' = "test"
            /\ UNCHANGED <<index, data, outputStringBuffer>>
       ELSE /\ kpc' = "write" /\ index' = 1
            /\ data' = Head(outputStringBuffer)
            /\ outputStringBuffer' = Tail(outputStringBuffer)
  /\ UNCHANGED <<served, tcpClients, wire, partial, inputStringBuffer, queued,
                 got>>

WriteStep(from, to, i, written) ==
  /\ ClientsAt(from) /\ kpc' = to /\ index' = i /\ got' = written
  /\ UNCHANGED <<data, served, tcpClients, wire, partial, inputStringBuffer,
                 outputStringBuffer, queued>>

EndOfWrite == ~InList /\ ClientsStep("write", "send", 0)
TestClient ==
  /\ InList
  /\ IF IsOpen(Current) THEN WriteStep("write", "write_line", index, got)
                        ELSE WriteStep("write", "write", index + 1, got)

(* Mutant: the pass ends at the first client the line was written to.      *)
WriteLine_FirstOnly ==
  /\ InList /\ peer[Current] # "reset"
  /\ WriteStep("write_line", "write", Len(tcpClients) + 1,
               IF peer[Current] = "open"
                 THEN [got EXCEPT ![Current] = Append(@, data)] ELSE got)

(* WriteLine.  After a FIN the line is lost.                               *)
WriteLine ==
  /\ InList /\ peer[Current] # "reset"
  /\ WriteStep("write_line", "write", index + 1,
               IF peer[Current] = "open"
                 THEN [got EXCEPT ![Current] = Append(@, data)] ELSE got)

(* After an RST send fails: WriteLine throws, the thread ends.             *)
WriteThrows ==
  /\ ClientsStep("write_line", "ended", 0)
  /\ peer[Current] = "reset"

(* Mutant: the clients are closed and stay in the list.                    *)
CloseAllClients_KeepsList ==
  /\ ClientsAt("close_all")
  /\ kpc' = "ended" /\ UNCHANGED <<index, data>>
  /\ served' = [c \in Client |->
                  IF \E i \in DOMAIN tcpClients : tcpClients[i] = c
                    THEN "closed" ELSE served[c]]
  /\ UNCHANGED <<tcpClients, wire, partial, queueVars>>

CloseAllClients ==
  /\ ClientsAt("close_all")
  /\ kpc' = "ended" /\ UNCHANGED <<index, data>>
  /\ served' = [c \in Client |->
                  IF \E i \in DOMAIN tcpClients : tcpClients[i] = c
                    THEN "closed" ELSE served[c]]
  /\ tcpClients' = <<>>
  /\ UNCHANGED <<wire, partial, queueVars>>

ClientsNext ==
  \/ TestClientsStop \/ ReceiveDataFromClients \/ EndOfScan \/ ReadClient
  \/ EraseClient \/ ReceiveLine \/ NextClient \/ ReadThrows \/ TakeReply
  \/ EndOfWrite \/ TestClient \/ WriteLine \/ WriteThrows \/ CloseAllClients

-----------------------------------------------------------------------------
(* The controller: the thread that owns the server.                        *)

ControllerAt(from, to) ==
  /\ cpc \in from /\ cpc' = to
  /\ UNCHANGED <<clientVars, sendVars, queued, got, outputStringBuffer,
                 replies, index, data, candidate>>

(* A step that touches no socket and no list.                              *)
ControllerStep(from, to) ==
  /\ ControllerAt(from, to)
  /\ UNCHANGED <<socketVars, served, tcpClients>>

AtRest == {"idle", "stop_failed", "start_failed"}

(* A call of Stop, or of Start, which calls Stop first: raise the flag.    *)
(* The periodic lines have ended by then (~Protocol_MSO2 joins their       *)
(* thread, then ~Protocol_Base stops the server).                          *)
BeginStop(forStart) ==
  /\ ControllerAt(AtRest, "shutdown") /\ \A s \in Sender : spc[s] = "none"
  /\ server_thread_flag_stop' = TRUE
  /\ starting' = forStart
  /\ closes_met' = (closes_met \/ apc \in ClosePC)
  /\ UNCHANGED <<listener, descriptor, zero, served, tcpClients, apc, kpc,
                 isServerReadyToListen, inputStringBuffer, received>>

Stop == BeginStop(FALSE) /\ UNCHANGED starts
Start == starts < MaxStarts /\ BeginStop(TRUE) /\ starts' = starts + 1

(* serverSocket.Stop(); when it throws, so does Stop.                      *)
StopServerSocket ==
  /\ \E to \in ControllerPC :
       /\ ControllerAt({cpc}, to)
       /\ SocketClose(cpc, to, "join_server", "stop_failed")
  /\ UNCHANGED <<tcpClients, apc, kpc, flagVars, starting, starts,
                 inputStringBuffer, received, closes_met>>

JoinServerThread ==
  /\ ControllerStep({"join_server"}, "join_clients")
  /\ apc \in {"none", "ended"} /\ apc' = "none"
  /\ UNCHANGED <<kpc, flagVars, starting, starts, inputStringBuffer,
                 received>>

JoinClientsThread ==
  /\ ControllerStep({"join_clients"}, IF starting THEN "spawn" ELSE "idle")
  /\ kpc \in {"none", "ended"} /\ kpc' = "none"
  /\ UNCHANGED <<apc, flagVars, starting, starts, inputStringBuffer,
                 received>>

SpawnThreads ==
  /\ ControllerStep({"spawn"}, "wait_ready")
  /\ server_thread_flag_stop' = FALSE /\ isServerReadyToListen' = FALSE
  /\ apc' = "open" /\ kpc' = "test"
  /\ UNCHANGED <<starting, starts, inputStringBuffer, received>>

ControllerOnly == UNCHANGED <<apc, kpc, flagVars, starting, starts>>

(* Poll the flag; give up after TIMEOUT_MS.  That is ample for the accept  *)
(* thread to open its socket: the wait runs out only when it has ended.    *)
SeeReady ==
  /\ ControllerStep({"wait_ready"}, "idle") /\ isServerReadyToListen
  /\ ControllerOnly /\ UNCHANGED <<inputStringBuffer, received>>
GiveUp ==
  /\ ControllerStep({"wait_ready"}, "start_failed")
  /\ apc = "ended" /\ ~isServerReadyToListen
  /\ ControllerOnly /\ UNCHANGED <<inputStringBuffer, received>>

(* Mutant: the newest line comes out first.                                *)
Recv_TakesNewest ==
  /\ ControllerStep({"idle"}, "idle") /\ spc["controller"] = "none"
  /\ inputStringBuffer # <<>>
  /\ received' = Append(received, inputStringBuffer[Len(inputStringBuffer)])
  /\ inputStringBuffer' = SubSeq(inputStringBuffer, 1,
                                 Len(inputStringBuffer) - 1)
  /\ ControllerOnly

Recv ==
  /\ ControllerStep({"idle"}, "idle") /\ spc["controller"] = "none"
  /\ inputStringBuffer # <<>>
  /\ received' = Append(received, Head(inputStringBuffer))
  /\ inputStringBuffer' = Tail(inputStringBuffer)
  /\ ControllerOnly

FinishCall ==
  \/ StopServerSocket \/ JoinServerThread \/ JoinClientsThread
  \/ SpawnThreads \/ SeeReady \/ GiveUp
ControllerNext == Start \/ Stop \/ Recv \/ FinishCall

-----------------------------------------------------------------------------
(* Send, which the controller and the thread of the periodic lines call,   *)
(* each when it likes.  It looks at the list without the mutex, then acts  *)
(* on what it saw: two calls overlap in any order.                         *)

SendAt(s, from, to) ==
  /\ spc[s] = from /\ spc' = [spc EXCEPT ![s] = to]
  /\ UNCHANGED <<served, tcpClients, socketVars, clientVars, flagVars,
                 acceptVars, passVars, controlVars, inputStringBuffer,
                 queued, received, got>>

Send(s) ==
  /\ cpc = "idle" /\ replies < MaxReplies
  /\ SendAt(s, "none", IF tcpClients # <<>> THEN "add" ELSE "clear")
  /\ replies' = replies + 1
  /\ line' = [line EXCEPT ![s] = replies + 1]
  /\ overlap' = overlap \cup {<<line[r], replies + 1>> :
                                r \in {q \in Sender : spc[q] # "none"}}
  /\ UNCHANGED outputStringBuffer

AddReply(s) ==
  /\ SendAt(s, "add", "none")
  /\ outputStringBuffer' = AddToBuffer(outputStringBuffer, line[s])
  /\ line' = [line EXCEPT ![s] = 0]
  /\ UNCHANGED <<replies, overlap>>

ClearReplies(s) ==
  /\ SendAt(s, "clear", "none")
  /\ outputStringBuffer' = <<>>
  /\ line' = [line EXCEPT ![s] = 0]
  /\ UNCHANGED <<replies, overlap>>

FinishSend(s) == AddReply(s) \/ ClearReplies(s)
SendNext == \E s \in Sender : Send(s) \/ FinishSend(s)

-----------------------------------------------------------------------------
(* The clients at the other end (external).                                *)

ClientActs ==
  UNCHANGED <<tcpClients, socketVars, queueVars, sendVars, flagVars,
              acceptVars, passVars, controlVars>>

Connected(c) == peer[c] = "open" /\ served[c] # "closed"

Connect(c) ==
  /\ peer[c] = "away"
  /\ peer' = [peer EXCEPT ![c] = "open"]
  /\ \/ /\ listener = "listening"
        /\ served' = [served EXCEPT ![c] = "backlog"]
     \/ /\ zero = "listening"
        /\ served' = [served EXCEPT ![c] = "stranded"]
  /\ UNCHANGED <<wire, partial, sent>> /\ ClientActs

BeginLine(c) ==
  /\ Connected(c) /\ partial[c] = "none" /\ sent[c] < MaxLines
  /\ partial' = [partial EXCEPT ![c] = "begun"]
  /\ UNCHANGED <<peer, served, wire, sent>> /\ ClientActs

FinishLine(c) ==
  /\ Connected(c) /\ partial[c] = "begun"
  /\ partial' = [partial EXCEPT ![c] = "none"]
  /\ sent' = [sent EXCEPT ![c] = @ + 1]
  /\ wire' = [wire EXCEPT ![c] = Append(@, <<c, sent[c] + 1>>)]
  /\ UNCHANGED <<peer, served>> /\ ClientActs

SendTooMuch(c) ==
  /\ Connected(c) /\ partial[c] = "begun"
  /\ partial' = [partial EXCEPT ![c] = "too_long"]
  /\ UNCHANGED <<peer, served, wire, sent>> /\ ClientActs

(* A FIN, or an RST.                                                       *)
Disconnect(c) ==
  /\ peer[c] = "open"
  /\ \E how \in {"closed", "reset"} : peer' = [peer EXCEPT ![c] = how]
  /\ UNCHANGED <<served, wire, partial, sent>> /\ ClientActs

ClientNext == \E c \in Client : Connect(c) \/ BeginLine(c) \/ FinishLine(c)
                                  \/ SendTooMuch(c) \/ Disconnect(c)

Next ==
  AcceptNext \/ ClientsNext \/ ControllerNext \/ SendNext \/ ClientNext

(* The threads run; the calls that were begun go on.  The clients          *)
(* thread sleeps without the mutex between its passes, so the accept       *)
(* thread, which waits for it, gets it in the end.  Nothing is asked of    *)
(* the clients.                                                            *)
ThreadFairness ==
  /\ WF_vars(AcceptNext) /\ SF_vars(AddClient)
  /\ WF_vars(ClientsNext) /\ WF_vars(FinishCall)
  /\ \A s \in Sender : WF_vars(FinishSend(s))

Spec == Init /\ [][Next]_vars /\ ThreadFairness

(* With clients that do not leave a line half sent for ever.               *)
PoliteSpec ==
  Spec /\ \A c \in Client : WF_vars(FinishLine(c) \/ SendTooMuch(c))

-----------------------------------------------------------------------------
(* Properties.                                                             *)

Elements(s) == {s[i] : i \in DOMAIN s}

(* The line x may come out before the line y.                              *)
MayPrecede(x, y) == x # y /\ (x < y \/ <<y, x>> \in overlap)
InOrder(s) == \A i, j \in DOMAIN s : i < j => MayPrecede(s[i], s[j])

(* Every variable keeps its type; the queues stay within MAXBUFFERSIZE.    *)
TypeOK ==
  /\ peer \in [Client -> Peer] /\ served \in [Client -> Served]
  /\ wire \in [Client -> Seq(Line)] /\ partial \in [Client -> Partial]
  /\ listener \in {"closed", "listening", "shut"}
  /\ descriptor \in {0, 1} /\ zero \in Zero /\ closes_met \in BOOLEAN
  /\ isServerReadyToListen \in BOOLEAN /\ server_thread_flag_stop \in BOOLEAN
  /\ tcpClients \in Seq(Client)
  /\ inputStringBuffer \in Seq(Line) /\ outputStringBuffer \in Seq(Nat)
  /\ Len(inputStringBuffer) <= MAXBUFFERSIZE
  /\ Len(outputStringBuffer) <= MAXBUFFERSIZE
  /\ apc \in AcceptPC /\ candidate \in SUBSET Client
  /\ kpc \in ClientsPC /\ index \in Nat /\ data \in Nat
  /\ cpc \in ControllerPC /\ starting \in BOOLEAN /\ starts \in 0..MaxStarts
  /\ sent \in [Client -> 0..MaxLines]
  /\ queued \in Seq(Line) /\ received \in Seq(Line)
  /\ replies \in 0..MaxReplies /\ got \in [Client -> Seq(Nat)]
  /\ spc \in [Sender -> SenderPC] /\ line \in [Sender -> Nat]
  /\ overlap \subseteq Nat \X Nat

(* Recv hands out the lines in the order the clients thread read them, each *)
(* at most once, and those of one client in the order it sent them.        *)
LinesInOrder ==
  /\ \A i, j \in DOMAIN received : i < j =>
       \E m, n \in DOMAIN queued :
         m < n /\ queued[m] = received[i] /\ queued[n] = received[j]
  /\ \A m, n \in DOMAIN queued :
       m < n /\ queued[m][1] = queued[n][1] => queued[m][2] < queued[n][2]

(* A line that was read and is neither handed out nor waiting was pushed   *)
(* out by MAXBUFFERSIZE newer ones: overflow costs the oldest lines only.  *)
LostOnlyToNewer ==
  \A j \in DOMAIN queued :
    \/ queued[j] \in Elements(received) \cup Elements(inputStringBuffer)
    \/ j + MAXBUFFERSIZE <= Len(queued)

(* No client gets a line twice, or the line of an older call of Send after *)
(* that of a newer one, unless the two calls overlapped: then either line  *)
(* may come first (tcpserver.cpp:247-258, protocol_mso2.cpp:893).          *)
RepliesInOrder == \A c \in Client : InOrder(got[c])

(* When the write pass has gone past a client that is still connected, that *)
(* client has the line: nobody is skipped while the list changes, clients  *)
(* leave or a write is lost.                                               *)
WriteReachesEveryClient ==
  kpc \in {"write", "write_line"} =>
    \A i \in 1..(index - 1) :
      /\ i \in DOMAIN tcpClients
      /\ IsOpen(tcpClients[i]) => /\ got[tcpClients[i]] # <<>>
                                  /\ got[tcpClients[i]][Len(got[tcpClients[i]])]
                                       = data

(* No connection is left open and forgotten: the accepted ones are those   *)
(* of the list, each once, and the one the accept thread is about to add.  *)
NoLeakedConnection ==
  /\ \A c \in Client :
       served[c] = "open" <=> c \in Elements(tcpClients) \cup candidate
  /\ \A i, j \in DOMAIN tcpClients :
       tcpClients[i] = tcpClients[j] => i = j

(* Once Stop has returned the listening socket is closed and its number    *)
(* forgotten, whichever of the two threads closed it and however Start     *)
(* ended.  The exception is a socket that got number 0, which no Close     *)
(* touches: it listens for ever, and exists only if once Stop and the end  *)
(* of the accept thread were inside Close together (tcpsocket.cpp:107-133).*)
ListenerReleased ==
  cpc = "idle" /\ apc = "none" =>
    /\ listener = "closed" /\ descriptor = 0
    /\ zero = "listening" => closes_met

(* Who waits for whom.  A thread that runs is ready unless it waits for    *)
(* another thread, for the mutex, or in recv for the rest of a line.       *)
WaitsForLine ==
  /\ kpc = "read" /\ wire[Current] = <<>>
  /\ partial[Current] = "begun" /\ peer[Current] = "open"

AcceptReady ==
  /\ apc \notin {"none", "ended"}
  /\ apc = "accept" /\ IsListening => Backlog # {}
  /\ apc = "lock" => candidate # {} /\ ~Locked

ClientsReady ==
  /\ kpc \notin {"none", "ended"}
  /\ kpc \in {"read", "write_line"} => InList
  /\ ~WaitsForLine

ControllerReady ==
  /\ cpc \notin AtRest
  /\ cpc = "join_server" => apc \in {"none", "ended"}
  /\ cpc = "join_clients" => kpc \in {"none", "ended"}
  /\ cpc = "wait_ready" => isServerReadyToListen \/ apc = "ended"

Busy == cpc \notin AtRest \/ apc \notin {"none", "ended"}
                          \/ kpc \notin {"none", "ended"}

(* While Start or Stop is under way or a thread of the server runs one of  *)
(* these three is ready (a call of Send waits for nobody), unless the      *)
(* clients thread waits for a client to finish a line it has begun:        *)
(* joins, the mutex and the wait for the socket never close a circle       *)
(* (tcpserver.cpp:36-41, 50-66, 114-131, 186-207, 218-231).                *)
NeverStuck ==
  Busy => AcceptReady \/ ClientsReady \/ ControllerReady \/ WaitsForLine

(* A call of Start or Stop comes to an end.                                *)
StopReturns == (cpc \notin AtRest) ~> (cpc \in AtRest)

(* A line sent over a live connection is read, unless the server closes    *)
(* the connection or has lost one of its threads, or the connection is one *)
(* of the socket of number 0, which nobody accepts.                        *)
LinesAreRead ==
  \A c \in Client :
    (wire[c] # <<>>) ~> \/ wire[c] = <<>>
                        \/ served[c] \in {"closed", "stranded"}
                        \/ {apc, kpc} \cap {"none", "ended"} # {}

(* What the tests expect of Stop: the server says it is closed and every   *)
(* client is disconnected.  It is not so.                                  *)
StoppedIsClosed ==
  cpc = "idle" /\ apc = "none" /\ kpc = "none" =>
    ~isServerReadyToListen /\ \A c \in Client : served[c] # "open"
=============================================================================
