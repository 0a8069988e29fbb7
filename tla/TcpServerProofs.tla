-------------------------- MODULE TcpServerProofs --------------------------
(***************************************************************************)
(* Theorems about TcpServer, for any clients, lines, replies, starts and   *)
(* any length of the queues.                                               *)
(***************************************************************************)
EXTENDS TcpServer, SequenceTheorems, TLAPS

-----------------------------------------------------------------------------
(* Sequences.                                                              *)

(* What EraseClient leaves of the list.                                    *)
Without(s, i) == SubSeq(s, 1, i - 1) \o SubSeq(s, i + 1, Len(s))

LEMMA WithoutOne ==
  ASSUME NEW S, NEW s \in Seq(S), NEW i \in DOMAIN s
  PROVE  /\ Without(s, i) \in Seq(S) /\ Len(Without(s, i)) = Len(s) - 1
         /\ \A j \in 1 .. i - 1 : Without(s, i)[j] = s[j]
         /\ \A j \in i .. Len(s) - 1 : Without(s, i)[j] = s[j + 1]
<1> DEFINE a == SubSeq(s, 1, i - 1)
           b == SubSeq(s, i + 1, Len(s))
<1>1. i \in 1 .. Len(s) /\ Len(s) \in Nat
  OBVIOUS
<1>2. /\ a \in Seq(S) /\ Len(a) = i - 1
      /\ \A j \in 1 .. i - 1 : a[j] = s[j]
  <2>1. \A j \in 1 .. i - 1 : s[j] \in S
    BY <1>1, ElementOfSeq
  <2> QED BY <1>1, <2>1, SubSeqProperties
<1>3. /\ b \in Seq(S) /\ Len(b) = Len(s) - i
      /\ \A j \in 1 .. Len(s) - i : b[j] = s[i + j]
  <2>1. \A j \in i + 1 .. Len(s) : s[j] \in S
    BY <1>1, ElementOfSeq
  <2> QED BY <1>1, <2>1, SubSeqProperties
<1> HIDE DEF a, b
<1>4. /\ a \o b \in Seq(S) /\ Len(a \o b) = Len(s) - 1
      /\ \A j \in 1 .. Len(s) - 1 :
           (a \o b)[j] = IF j <= i - 1 THEN a[j] ELSE b[j - (i - 1)]
  <2>1. /\ a \o b \in Seq(S) /\ Len(a \o b) = Len(a) + Len(b)
        /\ \A j \in 1 .. Len(a) + Len(b) :
             (a \o b)[j] = IF j <= Len(a) THEN a[j] ELSE b[j - Len(a)]
    BY <1>2, <1>3, ConcatProperties, Zenon
  <2>2. Len(a) = i - 1 /\ Len(a) + Len(b) = Len(s) - 1
    BY <1>1, <1>2, <1>3
  <2> QED BY <2>1, <2>2, Zenon
<1>5. \A j \in i .. Len(s) - 1 : (a \o b)[j] = s[j + 1]
  <2> TAKE j \in i .. Len(s) - 1
  <2>1. /\ j - (i - 1) \in 1 .. Len(s) - i /\ i + (j - (i - 1)) = j + 1
        /\ ~(j <= i - 1) /\ j \in 1 .. Len(s) - 1
    BY <1>1
  <2> QED BY <1>3, <1>4, <2>1
<1>6. \A j \in 1 .. i - 1 : (a \o b)[j] = s[j]
  BY <1>1, <1>2, <1>4
<1> QED BY <1>4, <1>5, <1>6 DEF Without, a, b

(* A queue takes a line at its end and loses its oldest one when full.     *)
LEMMA Buffered ==
  ASSUME NEW S, NEW b \in Seq(S), Len(b) <= MAXBUFFERSIZE, NEW m \in S
  PROVE  LET t == AddToBuffer(b, m)
             d == IF Len(b) >= MAXBUFFERSIZE THEN 1 ELSE 0
         IN /\ t \in Seq(S) /\ Len(t) = Len(b) - d + 1
            /\ Len(t) <= MAXBUFFERSIZE
            /\ \A j \in 1 .. Len(b) - d : t[j] = b[j + d]
            /\ t[Len(b) - d + 1] = m
<1>1. Len(b) \in Nat /\ MAXBUFFERSIZE \in Nat \ {0}
  BY ServerAssumption
<1>2. CASE Len(b) >= MAXBUFFERSIZE
  <2> DEFINE u == SubSeq(b, 2, Len(b))
  <2>1. Len(b) = MAXBUFFERSIZE /\ Len(b) - MAXBUFFERSIZE + 2 = 2
    BY <1>1, <1>2
  <2>2. /\ u \in Seq(S) /\ Len(u) = Len(b) - 1
        /\ \A j \in 1 .. Len(b) - 1 : u[j] = b[j + 1]
    <3>1. \A j \in 2 .. Len(b) : b[j] \in S
      BY <1>1, ElementOfSeq
    <3> QED BY <1>1, <2>1, <3>1, SubSeqProperties
  <2>3. AddToBuffer(b, m) = Append(u, m)
    BY <1>2, <2>1 DEF AddToBuffer
  <2> HIDE DEF u
  <2> QED BY <1>1, <1>2, <2>1, <2>2, <2>3
<1>3. CASE ~(Len(b) >= MAXBUFFERSIZE)
  BY <1>1, <1>3 DEF AddToBuffer
<1> QED BY <1>2, <1>3

-----------------------------------------------------------------------------
(* Types, in three parts, and where in the list the clients thread is.     *)

ServerTypes ==
  /\ peer \in [Client -> Peer] /\ served \in [Client -> Served]
  /\ partial \in [Client -> Partial] /\ sent \in [Client -> 0 .. MaxLines]
  /\ listener \in {"closed", "listening", "shut"}
  /\ descriptor \in {0, 1} /\ zero \in Zero /\ closes_met \in BOOLEAN
  /\ isServerReadyToListen \in BOOLEAN /\ server_thread_flag_stop \in BOOLEAN
  /\ tcpClients \in Seq(Client) /\ candidate \in SUBSET Client
  /\ apc \in AcceptPC /\ kpc \in ClientsPC /\ cpc \in ControllerPC
  /\ index \in Nat /\ starting \in BOOLEAN /\ starts \in 0 .. MaxStarts
LineTypes ==
  /\ wire \in [Client -> Seq(Line)]
  /\ inputStringBuffer \in Seq(Line)
  /\ Len(inputStringBuffer) <= MAXBUFFERSIZE
  /\ queued \in Seq(Line) /\ received \in Seq(Line)
ReplyTypes ==
  /\ outputStringBuffer \in Seq(Nat)
  /\ Len(outputStringBuffer) <= MAXBUFFERSIZE
  /\ data \in Nat /\ replies \in 0 .. MaxReplies
  /\ got \in [Client -> Seq(Nat)]
  /\ spc \in [Sender -> SenderPC] /\ line \in [Sender -> Nat]
  /\ overlap \subseteq Nat \X Nat

AtClient == kpc \in {"read", "write_line"} => InList

(* A line that was begun is within the bound.                              *)
Begun == \A c \in Client : partial[c] = "begun" => sent[c] < MaxLines

TypeInv == ServerTypes /\ LineTypes /\ ReplyTypes /\ AtClient /\ Begun

LEMMA TypeParts == TypeOK <=> ServerTypes /\ LineTypes /\ ReplyTypes
BY DEF TypeOK, ServerTypes, LineTypes, ReplyTypes

(* The steps of the clients thread that touch its own variables only.      *)
Looks ==
  \/ TestClientsStop \/ ReceiveDataFromClients \/ EndOfScan \/ ReadClient
  \/ NextClient \/ ReadThrows \/ EndOfWrite \/ WriteThrows

LEMMA LooksOnly ==
  ASSUME Looks, index \in Nat
  PROVE  /\ UNCHANGED <<socketVars, flagVars, acceptVars, controlVars,
                        sendVars, peer, sent, replies, received, served,
                        tcpClients, wire, partial, queueVars>>
         /\ kpc' \in ClientsPC \ {"none", "write", "write_line"}
         /\ kpc' = "read" => InList /\ index' = index
         /\ index' \in Nat /\ data' = 0
         /\ kpc # "close_all"
BY DEF Looks, TestClientsStop, ReceiveDataFromClients, EndOfScan, ReadClient,
       NextClient, ReadThrows, EndOfWrite, WriteThrows, ClientsStep, ClientsAt,
       ClientsPC

LEMMA AcceptOnly ==
  ASSUME AcceptNext
  PROVE  UNCHANGED <<peer, wire, partial, sent, queueVars, sendVars, passVars,
                     controlVars, server_thread_flag_stop>>
BY DEF AcceptNext, OpenServerSocket, TestServerStop, PollListener, AcceptClient,
       AcceptThrows, AddClient, LeaveServerLoop, CloseServerSocket, AcceptStep,
       AcceptAt, clientVars

LEMMA ControllerOnlyTouches ==
  ASSUME ControllerNext
  PROVE  UNCHANGED <<clientVars, sendVars, queued, got, outputStringBuffer,
                     replies, index, data, candidate, tcpClients>>
BY DEF ControllerNext, FinishCall, Start, Stop, BeginStop, Recv,
       StopServerSocket, JoinServerThread, JoinClientsThread, SpawnThreads,
       SeeReady, GiveUp, ControllerStep, ControllerAt

LEMMA SendOnly ==
  ASSUME SendNext
  PROVE  UNCHANGED <<served, tcpClients, socketVars, clientVars, flagVars,
                     acceptVars, passVars, controlVars, inputStringBuffer,
                     queued, received, got>>
BY DEF SendNext, FinishSend, Send, AddReply, ClearReplies, SendAt

LEMMA CloseTypes ==
  ASSUME ServerTypes, NEW pc, NEW next, NEW done, NEW thrown,
         SocketClose(pc, next, done, thrown)
  PROVE  /\ listener' \in {"closed", "listening", "shut"}
         /\ descriptor' \in {0, 1} /\ zero' \in Zero
         /\ served' \in [Client -> Served]
<1>1. CASE Shutdown(pc, next, done, thrown)
  BY <1>1 DEF Shutdown, ServerTypes, Zero
<1>2. CASE CloseDescriptor(pc, next, thrown)
  BY <1>2 DEF CloseDescriptor, ServerTypes, Served, Zero
<1>3. CASE ForgetDescriptor(pc, next, done)
  BY <1>3 DEF ForgetDescriptor, ServerTypes
<1> QED BY <1>1, <1>2, <1>3 DEF SocketClose

LEMMA InitTypes == Init => TypeInv
<1> SUFFICES ASSUME Init PROVE TypeInv
  OBVIOUS
<1>1. /\ peer \in [Client -> Peer] /\ served \in [Client -> Served]
      /\ partial \in [Client -> Partial] /\ sent \in [Client -> 0 .. MaxLines]
  BY ServerAssumption DEF Init, Peer, Served, Partial
<1>2. /\ listener \in {"closed", "listening", "shut"} /\ descriptor \in {0, 1}
      /\ tcpClients \in Seq(Client) /\ candidate \in SUBSET Client
      /\ apc \in AcceptPC /\ kpc \in ClientsPC /\ cpc \in ControllerPC
      /\ index \in Nat /\ starts \in 0 .. MaxStarts
  BY ServerAssumption DEF Init, AcceptPC, ClientsPC, ControllerPC, ClosePC
<1>3. /\ closes_met \in BOOLEAN /\ isServerReadyToListen \in BOOLEAN
      /\ server_thread_flag_stop \in BOOLEAN /\ starting \in BOOLEAN
  BY Zenon DEF Init
<1>8. zero \in Zero
  BY DEF Init, Zero
<1>4. LineTypes
  BY ServerAssumption DEF Init, LineTypes
<1>5. ReplyTypes
  BY ServerAssumption DEF Init, ReplyTypes, SenderPC
<1>6. AtClient
  BY DEF Init, AtClient
<1>7. Begun
  BY DEF Init, Begun
<1> QED BY <1>1, <1>2, <1>3, <1>4, <1>5, <1>6, <1>7, <1>8
        DEF TypeInv, ServerTypes

LEMMA AcceptTypes ==
  ASSUME ServerTypes, AtClient, AcceptNext
  PROVE  ServerTypes' /\ AtClient'
<1>0. /\ UNCHANGED <<peer, partial, sent, kpc, index, cpc, starting, starts,
                     server_thread_flag_stop>>
  BY AcceptOnly DEF passVars, controlVars
<1>1. CASE OpenServerSocket
  <2>1. /\ listener' \in {"closed", "listening", "shut"} /\ descriptor' \in {0, 1}
        /\ zero' \in Zero /\ apc' \in AcceptPC
        /\ UNCHANGED <<served, tcpClients, candidate, closes_met>>
    BY <1>1 DEF OpenServerSocket, SocketGets, AcceptAt, ServerTypes, AcceptPC,
                Zero
  <2>2. isServerReadyToListen' \in BOOLEAN
    BY <1>1 DEF OpenServerSocket, ServerTypes
  <2> QED BY <1>0, <2>1, <2>2 DEF ServerTypes, AtClient, InList
<1>2. CASE TestServerStop \/ PollListener \/ AcceptThrows
  <2>1. /\ apc' \in AcceptPC
        /\ UNCHANGED <<socketVars, served, tcpClients, isServerReadyToListen,
                       candidate>>
    BY <1>2 DEF TestServerStop, PollListener, AcceptThrows, AcceptStep, AcceptAt,
                AcceptPC
  <2> QED BY <1>0, <2>1 DEF ServerTypes, AtClient, InList, socketVars
<1>3. CASE AcceptClient
  <2>1. /\ served' \in [Client -> Served] /\ apc' \in AcceptPC
        /\ candidate' \in SUBSET Client
    BY <1>3 DEF AcceptClient, ServerTypes, AcceptAt, AcceptPC, Served, Backlog
  <2>2. UNCHANGED <<socketVars, tcpClients, isServerReadyToListen>>
    BY <1>3 DEF AcceptClient
  <2> QED BY <1>0, <2>1, <2>2 DEF ServerTypes, AtClient, InList, socketVars
<1>4. CASE AddClient
  <2>1. /\ apc' \in AcceptPC /\ candidate' = {}
        /\ UNCHANGED <<socketVars, served, isServerReadyToListen>>
        /\ kpc \notin {"read", "write_line"}
    BY <1>4 DEF AddClient, AcceptAt, AcceptPC, Locked
  <2>2. tcpClients' \in Seq(Client)
    BY <1>4 DEF AddClient, ServerTypes
  <2> QED BY <1>0, <2>1, <2>2 DEF ServerTypes, AtClient, socketVars
<1>5. CASE LeaveServerLoop
  <2>1. /\ apc' \in AcceptPC /\ isServerReadyToListen' = FALSE
        /\ UNCHANGED <<listener, descriptor, zero, served, tcpClients,
                       candidate>>
    BY <1>5 DEF LeaveServerLoop, AcceptAt, AcceptPC, ClosePC
  <2>2. closes_met' \in BOOLEAN
    BY <1>5, Zenon DEF LeaveServerLoop, ServerTypes
  <2> QED BY <1>0, <2>1, <2>2 DEF ServerTypes, AtClient, InList
<1>6. CASE CloseServerSocket
  <2>1. PICK to \in AcceptPC :
          apc' = to /\ SocketClose(apc, to, "ended", "ended")
    BY <1>6 DEF CloseServerSocket, AcceptAt
  <2>2. UNCHANGED <<tcpClients, isServerReadyToListen, candidate, closes_met>>
    BY <1>6 DEF CloseServerSocket
  <2>3. /\ listener' \in {"closed", "listening", "shut"}
        /\ descriptor' \in {0, 1} /\ zero' \in Zero
        /\ served' \in [Client -> Served]
    BY <2>1, CloseTypes
  <2> QED BY <1>0, <2>1, <2>2, <2>3 DEF ServerTypes, AtClient, InList
<1> QED BY <1>1, <1>2, <1>3, <1>4, <1>5, <1>6 DEF AcceptNext

LEMMA ClientsTypes ==
  ASSUME TypeInv, ClientsNext
  PROVE  TypeInv'
<1> USE DEF ClientsAt
<1>b. Begun'
  <2>1. UNCHANGED <<partial, sent>>
    BY DEF ClientsNext, TestClientsStop, ReceiveDataFromClients, EndOfScan,
           ReadClient, EraseClient, ReceiveLine, NextClient, ReadThrows,
           TakeReply, EndOfWrite, TestClient, WriteLine, WriteThrows,
           CloseAllClients, ClientsStep, WriteStep
  <2> QED BY <2>1 DEF TypeInv, Begun
<1>s. UNCHANGED sendVars
  BY DEF ClientsNext, TestClientsStop, ReceiveDataFromClients, EndOfScan,
         ReadClient, EraseClient, ReceiveLine, NextClient, ReadThrows,
         TakeReply, EndOfWrite, TestClient, WriteLine, WriteThrows,
         CloseAllClients, ClientsStep, WriteStep
<1>1. CASE Looks
  <2>1. /\ UNCHANGED <<socketVars, flagVars, acceptVars, controlVars, peer,
                       sent, replies, received, served, tcpClients, wire,
                       partial, queueVars>>
        /\ kpc' \in ClientsPC \ {"none", "write", "write_line"}
        /\ kpc' = "read" => InList /\ index' = index
        /\ index' \in Nat /\ data' = 0
    BY <1>1, LooksOnly DEF TypeInv, ServerTypes
  <2>2. ServerTypes'
    BY <2>1 DEF TypeInv, ServerTypes, socketVars, flagVars, acceptVars,
                controlVars
  <2>3. LineTypes' /\ ReplyTypes'
    BY <1>s, <2>1 DEF TypeInv, LineTypes, ReplyTypes, queueVars, sendVars
  <2>4. AtClient'
    BY <2>1 DEF AtClient, InList
  <2> QED BY <1>b, <2>2, <2>3, <2>4 DEF TypeInv
<1>2. CASE EraseClient
  <2>1. /\ index \in DOMAIN tcpClients /\ tcpClients' = Without(tcpClients, index)
        /\ kpc = "scan"
        /\ UNCHANGED <<socketVars, flagVars, acceptVars, controlVars, peer,
                       sent, replies, received, passVars, wire, partial,
                       queueVars>>
    BY <1>2 DEF EraseClient, InList, Without
  <2>2. tcpClients' \in Seq(Client)
    BY <2>1, WithoutOne DEF TypeInv, ServerTypes
  <2>3. served' \in [Client -> Served]
    BY <1>2 DEF EraseClient, TypeInv, ServerTypes, Served
  <2>4. ServerTypes'
    BY <2>1, <2>2, <2>3
    DEF TypeInv, ServerTypes, socketVars, flagVars, acceptVars, controlVars,
        passVars
  <2>5. LineTypes' /\ ReplyTypes'
    BY <1>s, <2>1
    DEF TypeInv, LineTypes, ReplyTypes, queueVars, passVars, sendVars
  <2>6. AtClient'
    BY <2>1 DEF AtClient, passVars
  <2> QED BY <1>b, <2>4, <2>5, <2>6 DEF TypeInv
<1>3. CASE ReceiveLine
  <2>1. /\ kpc = "read" /\ wire[Current] # <<>>
        /\ inputStringBuffer' = AddToBuffer(inputStringBuffer, Head(wire[Current]))
        /\ queued' = Append(queued, Head(wire[Current]))
        /\ wire' = [wire EXCEPT ![Current] = Tail(wire[Current])]
        /\ UNCHANGED <<socketVars, flagVars, acceptVars, controlVars, peer,
                       sent, replies, received, passVars, served, tcpClients,
                       partial, outputStringBuffer, got>>
    BY <1>3 DEF ReceiveLine
  <2>2. Current \in Client
    BY <2>1, ElementOfSeq DEF TypeInv, ServerTypes, AtClient, InList, Current
  <2>3. Head(wire[Current]) \in Line /\ Tail(wire[Current]) \in Seq(Line)
    <3>1. wire[Current] \in Seq(Line)
      BY <2>2 DEF TypeInv, LineTypes
    <3> QED BY <2>1, <3>1, HeadTailProperties
  <2>4. /\ inputStringBuffer' \in Seq(Line)
        /\ Len(inputStringBuffer') <= MAXBUFFERSIZE
    BY <2>1, <2>3, Buffered DEF TypeInv, LineTypes
  <2>5. wire' \in [Client -> Seq(Line)] /\ queued' \in Seq(Line)
    <3>1. queued' \in Seq(Line)
      <4>1. queued \in Seq(Line)
        BY DEF TypeInv, LineTypes
      <4> QED BY <2>1, <2>3, <4>1, AppendProperties, Zenon
    <3>2. wire \in [Client -> Seq(Line)]
      BY DEF TypeInv, LineTypes
    <3> QED BY <2>1, <2>3, <3>1, <3>2, Zenon
  <2>6. LineTypes'
    BY <2>1, <2>4, <2>5 DEF TypeInv, LineTypes
  <2>7. ServerTypes' /\ AtClient'
    BY <2>1 DEF TypeInv, ServerTypes, AtClient, InList, socketVars, flagVars,
                acceptVars, controlVars, passVars
  <2>8. ReplyTypes'
    BY <1>s, <2>1 DEF TypeInv, ReplyTypes, passVars, sendVars
  <2> QED BY <1>b, <2>6, <2>7, <2>8 DEF TypeInv
<1>4. CASE TakeReply
  <2>1. /\ UNCHANGED <<socketVars, flagVars, acceptVars, controlVars, peer,
                       sent, replies, received, served, tcpClients, wire,
                       partial, inputStringBuffer, queued, got>>
        /\ kpc' \in {"test", "write"} /\ index' \in Nat
    BY <1>4 DEF TakeReply, TypeInv, ServerTypes
  <2>4. ReplyTypes'
    <3>1. CASE outputStringBuffer = <<>>
      BY <1>4, <1>s, <2>1, <3>1 DEF TakeReply, TypeInv, ReplyTypes, sendVars
    <3>2. CASE outputStringBuffer # <<>>
      <4>1. data' = Head(outputStringBuffer)
            /\ outputStringBuffer' = Tail(outputStringBuffer)
        BY <1>4, <3>2 DEF TakeReply
      <4>2. data' \in Nat /\ outputStringBuffer' \in Seq(Nat)
            /\ Len(outputStringBuffer') = Len(outputStringBuffer) - 1
        BY <3>2, <4>1, HeadTailProperties DEF TypeInv, ReplyTypes
      <4>3. Len(outputStringBuffer) \in Nat /\ MAXBUFFERSIZE \in Nat
        BY ServerAssumption DEF TypeInv, ReplyTypes
      <4> QED BY <1>s, <2>1, <4>2, <4>3 DEF TypeInv, ReplyTypes, sendVars
    <3> QED BY <3>1, <3>2
  <2>5. ServerTypes' /\ LineTypes' /\ AtClient'
    BY <2>1 DEF TypeInv, ServerTypes, LineTypes, AtClient, socketVars, flagVars,
                acceptVars, controlVars, ClientsPC
  <2> QED BY <1>b, <2>4, <2>5 DEF TypeInv
<1>5. CASE TestClient \/ WriteLine
  <2>1. /\ UNCHANGED <<socketVars, flagVars, acceptVars, controlVars, peer,
                       sent, replies, received, data, served, tcpClients, wire,
                       partial, inputStringBuffer, outputStringBuffer, queued>>
        /\ kpc' \in {"write", "write_line"} /\ index' \in Nat
        /\ InList /\ (kpc' = "write_line" => index' = index)
    BY <1>5 DEF TestClient, WriteLine, WriteStep, TypeInv, ServerTypes
  <2>2. got' \in [Client -> Seq(Nat)]
    <3>1. got' = got \/ got' = [got EXCEPT ![Current] = Append(got[Current], data)]
      BY <1>5 DEF TestClient, WriteLine, WriteStep
    <3>2. \A c \in Client : Append(got[c], data) \in Seq(Nat)
      BY DEF TypeInv, ReplyTypes
    <3> QED BY <3>1, <3>2 DEF TypeInv, ReplyTypes
  <2>3. ServerTypes' /\ LineTypes' /\ ReplyTypes'
    BY <1>s, <2>1, <2>2
    DEF TypeInv, ServerTypes, LineTypes, ReplyTypes, socketVars, flagVars,
        acceptVars, controlVars, sendVars, ClientsPC
  <2>4. AtClient'
    BY <2>1 DEF AtClient, InList
  <2> QED BY <1>b, <2>3, <2>4 DEF TypeInv
<1>6. CASE CloseAllClients
  <2>1. /\ UNCHANGED <<socketVars, flagVars, acceptVars, controlVars, peer,
                       sent, replies, received, index, data, wire, partial,
                       queueVars>>
        /\ kpc' = "ended" /\ tcpClients' = <<>>
    BY <1>6 DEF CloseAllClients
  <2>2. served' \in [Client -> Served]
    BY <1>6 DEF CloseAllClients, TypeInv, ServerTypes, Served
  <2>3. ServerTypes' /\ AtClient'
    BY <2>1, <2>2 DEF TypeInv, ServerTypes, AtClient, socketVars, flagVars,
                      acceptVars, controlVars, ClientsPC
  <2>4. LineTypes' /\ ReplyTypes'
    BY <1>s, <2>1 DEF TypeInv, LineTypes, ReplyTypes, queueVars, sendVars
  <2> QED BY <1>b, <2>3, <2>4 DEF TypeInv
<1> QED BY <1>1, <1>2, <1>3, <1>4, <1>5, <1>6 DEF ClientsNext, Looks

LEMMA ControllerTypes ==
  ASSUME TypeInv, ControllerNext
  PROVE  TypeInv'
<1> USE DEF ControllerStep, ControllerAt, ControllerOnly
<1>0. UNCHANGED <<peer, wire, partial, sent, queued, got, index, data,
                  candidate, tcpClients>>
  BY ControllerOnlyTouches DEF clientVars
<1>1. ServerTypes'
  <2>1. CASE Start \/ Stop
    <3>1. /\ UNCHANGED <<listener, descriptor, zero, served, apc, kpc,
                         isServerReadyToListen>>
          /\ cpc' = "shutdown" /\ server_thread_flag_stop' = TRUE
      BY <2>1 DEF Start, Stop, BeginStop
    <3>2. starting' \in BOOLEAN /\ closes_met' \in BOOLEAN
      <4>1. \A b \in BOOLEAN :
              BeginStop(b) => starting' \in BOOLEAN /\ closes_met' \in BOOLEAN
        BY Zenon DEF BeginStop, TypeInv, ServerTypes
      <4> QED BY <2>1, <4>1, Zenon DEF Start, Stop
    <3>3. starts' \in 0 .. MaxStarts
      <4>1. \/ starts < MaxStarts /\ starts' = starts + 1
            \/ starts' = starts
        BY <2>1, Zenon DEF Start, Stop
      <4>2. starts \in 0 .. MaxStarts /\ MaxStarts \in Nat
        BY ServerAssumption DEF TypeInv, ServerTypes
      <4> QED BY <4>1, <4>2
    <3> QED BY <1>0, <3>1, <3>2, <3>3
            DEF TypeInv, ServerTypes, ControllerPC, ClosePC
  <2>2. CASE Recv \/ SeeReady \/ GiveUp
    <3>1. /\ UNCHANGED <<socketVars, served, apc, kpc, flagVars, starting, starts>>
          /\ cpc' \in ControllerPC
      BY <2>2 DEF Recv, SeeReady, GiveUp, ControllerPC
    <3> QED BY <1>0, <3>1 DEF TypeInv, ServerTypes, socketVars, flagVars
  <2>3. CASE StopServerSocket
    <3>1. PICK to \in ControllerPC :
            cpc' = to /\ SocketClose(cpc, to, "join_server", "stop_failed")
      BY <2>3 DEF StopServerSocket
    <3>2. /\ listener' \in {"closed", "listening", "shut"}
          /\ descriptor' \in {0, 1} /\ zero' \in Zero
          /\ served' \in [Client -> Served]
      BY <3>1, CloseTypes DEF TypeInv
    <3>3. UNCHANGED <<apc, kpc, flagVars, starting, starts, closes_met>>
      BY <2>3 DEF StopServerSocket
    <3> QED BY <1>0, <3>1, <3>2, <3>3 DEF TypeInv, ServerTypes, flagVars
  <2>4. CASE JoinServerThread \/ JoinClientsThread
    <3>1. /\ UNCHANGED <<socketVars, served, flagVars, starting, starts>>
          /\ cpc' \in ControllerPC
          /\ apc' = apc \/ apc' = "none"
          /\ kpc' = kpc \/ kpc' = "none"
      BY <2>4 DEF JoinServerThread, JoinClientsThread, ControllerPC
    <3> QED BY <1>0, <3>1 DEF TypeInv, ServerTypes, socketVars, flagVars,
                              AcceptPC, ClientsPC
  <2>5. CASE SpawnThreads
    <3>1. /\ UNCHANGED <<socketVars, served, starting, starts>>
          /\ cpc' = "wait_ready" /\ apc' = "open" /\ kpc' = "test"
          /\ server_thread_flag_stop' = FALSE /\ isServerReadyToListen' = FALSE
      BY <2>5 DEF SpawnThreads
    <3> QED BY <1>0, <3>1 DEF TypeInv, ServerTypes, socketVars, AcceptPC,
                              ClientsPC, ControllerPC
  <2> QED BY <2>1, <2>2, <2>3, <2>4, <2>5 DEF ControllerNext, FinishCall
<1>2. AtClient'
  <2>1. kpc' \in {kpc, "none", "test"}
    BY DEF ControllerNext, FinishCall, Start, Stop, BeginStop, Recv,
           StopServerSocket, JoinServerThread, JoinClientsThread, SpawnThreads,
           SeeReady, GiveUp
  <2> QED BY <1>0, <2>1 DEF TypeInv, AtClient, InList
<1>3. LineTypes'
  <2>1. CASE Recv
    <3>1. /\ inputStringBuffer # <<>>
          /\ received' = Append(received, Head(inputStringBuffer))
          /\ inputStringBuffer' = Tail(inputStringBuffer)
      BY <2>1 DEF Recv
    <3>2. /\ Head(inputStringBuffer) \in Line
          /\ inputStringBuffer' \in Seq(Line)
          /\ Len(inputStringBuffer') = Len(inputStringBuffer) - 1
      BY <3>1, HeadTailProperties DEF TypeInv, LineTypes
    <3>3. received' \in Seq(Line)
      <4>1. received \in Seq(Line)
        BY DEF TypeInv, LineTypes
      <4> QED BY <3>1, <3>2, <4>1, AppendProperties, Zenon
    <3>4. Len(inputStringBuffer) \in Nat /\ MAXBUFFERSIZE \in Nat
      BY ServerAssumption DEF TypeInv, LineTypes
    <3> QED BY <1>0, <3>2, <3>3, <3>4 DEF TypeInv, LineTypes
  <2>2. CASE ~Recv
    <3>1. UNCHANGED <<inputStringBuffer, received>>
      BY <2>2 DEF ControllerNext, FinishCall, Start, Stop, BeginStop,
             StopServerSocket, JoinServerThread, JoinClientsThread, SpawnThreads,
             SeeReady, GiveUp
    <3> QED BY <1>0, <3>1 DEF TypeInv, LineTypes
  <2> QED BY <2>1, <2>2
<1>4. ReplyTypes'
  BY ControllerOnlyTouches DEF TypeInv, ReplyTypes, sendVars
<1>5. Begun'
  BY <1>0 DEF TypeInv, Begun
<1> QED BY <1>1, <1>2, <1>3, <1>4, <1>5 DEF TypeInv

LEMMA SendTypes ==
  ASSUME TypeInv, SendNext
  PROVE  TypeInv'
<1>1. UNCHANGED <<served, tcpClients, socketVars, clientVars, flagVars,
                  acceptVars, passVars, controlVars, inputStringBuffer,
                  queued, received, got>>
  BY SendOnly
<1>2. ServerTypes'
  BY <1>1 DEF TypeInv, ServerTypes, socketVars, clientVars, flagVars,
              acceptVars, passVars, controlVars
<1>3. LineTypes' /\ AtClient' /\ Begun'
  BY <1>1 DEF TypeInv, LineTypes, AtClient, InList, Begun, clientVars, passVars
<1>4. ReplyTypes'
  <2>1. PICK s \in Sender : Send(s) \/ AddReply(s) \/ ClearReplies(s)
    BY DEF SendNext, FinishSend
  <2>2. /\ replies \in Nat /\ line[s] \in Nat /\ MaxReplies \in Nat
        /\ replies \in 0 .. MaxReplies
    BY ServerAssumption DEF TypeInv, ReplyTypes
  <2>3. data' = data /\ got' = got
    BY <1>1 DEF passVars
  <2>4. spc' \in [Sender -> SenderPC] /\ line' \in [Sender -> Nat]
    <3>1. /\ \E to \in SenderPC : spc' = [spc EXCEPT ![s] = to]
          /\ \E n \in Nat : line' = [line EXCEPT ![s] = n]
      BY <2>1, <2>2 DEF Send, AddReply, ClearReplies, SendAt, SenderPC
    <3>2. spc \in [Sender -> SenderPC] /\ line \in [Sender -> Nat]
      BY DEF TypeInv, ReplyTypes
    <3> QED BY <3>1, <3>2
  <2>5. CASE Send(s)
    <3>1. replies' \in 0 .. MaxReplies /\ outputStringBuffer' = outputStringBuffer
      BY <2>2, <2>5 DEF Send
    <3>2. overlap' = overlap \cup {<<line[r], replies + 1>> :
                                     r \in {q \in Sender : spc[q] # "none"}}
      BY <2>5 DEF Send
    <3>3. \A r \in Sender : line[r] \in Nat /\ replies + 1 \in Nat
      BY <2>2 DEF TypeInv, ReplyTypes
    <3>4. overlap' \subseteq Nat \X Nat
      BY <3>2, <3>3 DEF TypeInv, ReplyTypes
    <3> QED BY <2>3, <2>4, <3>1, <3>4 DEF TypeInv, ReplyTypes
  <2>6. CASE AddReply(s)
    <3>1. /\ outputStringBuffer' = AddToBuffer(outputStringBuffer, line[s])
          /\ UNCHANGED <<replies, overlap>>
      BY <2>6 DEF AddReply
    <3>2. /\ outputStringBuffer' \in Seq(Nat)
          /\ Len(outputStringBuffer') <= MAXBUFFERSIZE
      BY <2>2, <3>1, Buffered DEF TypeInv, ReplyTypes
    <3> QED BY <2>3, <2>4, <3>1, <3>2 DEF TypeInv, ReplyTypes
  <2>7. CASE ClearReplies(s)
    BY <2>3, <2>4, <2>7, ServerAssumption DEF ClearReplies, TypeInv, ReplyTypes
  <2> QED BY <2>1, <2>5, <2>6, <2>7
<1> QED BY <1>2, <1>3, <1>4 DEF TypeInv

LEMMA ClientTypes ==
  ASSUME TypeInv, ClientNext
  PROVE  TypeInv'
<1> USE DEF ClientActs
<1>0. UNCHANGED <<tcpClients, socketVars, queueVars, sendVars, flagVars,
                  acceptVars, passVars, controlVars>>
  BY DEF ClientNext, Connect, BeginLine, FinishLine, SendTooMuch, Disconnect
<1>1. /\ peer' \in [Client -> Peer] /\ served' \in [Client -> Served]
      /\ partial' \in [Client -> Partial]
  <2>0. /\ peer \in [Client -> Peer] /\ served \in [Client -> Served]
        /\ partial \in [Client -> Partial]
    BY DEF TypeInv, ServerTypes
  <2>1. PICK c \in Client : \/ Connect(c) \/ BeginLine(c) \/ FinishLine(c)
                            \/ SendTooMuch(c) \/ Disconnect(c)
    BY DEF ClientNext
  <2>2. CASE Connect(c)
    BY <2>0, <2>2 DEF Connect, Peer, Served
  <2>3. CASE BeginLine(c)
    BY <2>0, <2>3 DEF BeginLine, Partial
  <2>4. CASE FinishLine(c)
    BY <2>0, <2>4 DEF FinishLine, Partial
  <2>5. CASE SendTooMuch(c)
    BY <2>0, <2>5 DEF SendTooMuch, Partial
  <2>6. CASE Disconnect(c)
    BY <2>0, <2>6 DEF Disconnect, Peer
  <2> QED BY <2>1, <2>2, <2>3, <2>4, <2>5, <2>6
<1>2. /\ sent' \in [Client -> 0 .. MaxLines] /\ wire' \in [Client -> Seq(Line)]
      /\ Begun'
  <2>1. CASE \E c \in Client : FinishLine(c)
    <3>1. PICK c \in Client : FinishLine(c)
      BY <2>1
    <3>2. /\ sent' = [sent EXCEPT ![c] = sent[c] + 1]
          /\ wire' = [wire EXCEPT ![c] = Append(wire[c], <<c, sent[c] + 1>>)]
          /\ partial' = [partial EXCEPT ![c] = "none"] /\ partial[c] = "begun"
      BY <3>1 DEF FinishLine
    <3>3. sent[c] + 1 \in 1 .. MaxLines /\ sent[c] + 1 \in 0 .. MaxLines
      BY <3>2, ServerAssumption DEF TypeInv, ServerTypes, Begun
    <3>4. Append(wire[c], <<c, sent[c] + 1>>) \in Seq(Line)
      <4>1. wire[c] \in Seq(Line)
        BY DEF TypeInv, LineTypes
      <4>2. <<c, sent[c] + 1>> \in Line
        BY <3>3 DEF Line
      <4> QED BY <4>1, <4>2, AppendProperties
    <3>5. sent' \in [Client -> 0 .. MaxLines]
      BY <3>2, <3>3 DEF TypeInv, ServerTypes
    <3>6. wire' \in [Client -> Seq(Line)]
      BY <3>2, <3>4 DEF TypeInv, LineTypes
    <3>7. Begun'
      BY <3>2 DEF TypeInv, ServerTypes, Begun
    <3> QED BY <3>5, <3>6, <3>7
  <2>2. CASE \E c \in Client : Connect(c) \/ Disconnect(c)
    <3>1. UNCHANGED <<sent, wire, partial>>
      BY <2>2 DEF Connect, Disconnect
    <3> QED BY <3>1 DEF TypeInv, ServerTypes, LineTypes, Begun
  <2>3. CASE \E c \in Client : BeginLine(c) \/ SendTooMuch(c)
    <3>1. UNCHANGED <<sent, wire>>
      BY <2>3 DEF BeginLine, SendTooMuch
    <3>2. Begun'
      BY <2>3 DEF BeginLine, SendTooMuch, TypeInv, ServerTypes, Begun
    <3> QED BY <3>1, <3>2 DEF TypeInv, ServerTypes, LineTypes
  <2> QED BY <2>1, <2>2, <2>3 DEF ClientNext
<1>3. ServerTypes'
  BY <1>0, <1>1, <1>2 DEF TypeInv, ServerTypes, socketVars, flagVars,
     acceptVars, passVars, controlVars
<1>4. LineTypes' /\ ReplyTypes'
  BY <1>0, <1>2 DEF TypeInv, LineTypes, ReplyTypes, queueVars, sendVars,
                    passVars
<1>5. AtClient'
  BY <1>0 DEF TypeInv, AtClient, InList, passVars
<1> QED BY <1>2, <1>3, <1>4, <1>5 DEF TypeInv

LEMMA TypeStep == TypeInv /\ [Next]_vars => TypeInv'
<1> SUFFICES ASSUME TypeInv, [Next]_vars PROVE TypeInv'
  OBVIOUS
<1>1. CASE AcceptNext
  <2>1. ServerTypes' /\ AtClient'
    BY <1>1, AcceptTypes DEF TypeInv
  <2>2. UNCHANGED <<peer, wire, partial, sent, queueVars, sendVars, passVars>>
    BY <1>1, AcceptOnly
  <2>3. LineTypes' /\ ReplyTypes' /\ Begun'
    BY <2>2 DEF TypeInv, LineTypes, ReplyTypes, Begun, queueVars, sendVars,
                passVars
  <2> QED BY <2>1, <2>3 DEF TypeInv
<1>2. CASE ClientsNext
  BY <1>2, ClientsTypes
<1>3. CASE ControllerNext
  BY <1>3, ControllerTypes
<1>4. CASE ClientNext
  BY <1>4, ClientTypes
<1>5. CASE SendNext
  BY <1>5, SendTypes
<1>6. CASE UNCHANGED vars
  BY <1>6 DEF TypeInv, ServerTypes, LineTypes, ReplyTypes, AtClient, InList,
              Begun, vars, socketVars, clientVars, queueVars, sendVars,
              flagVars, acceptVars, passVars, controlVars
<1> QED BY <1>1, <1>2, <1>3, <1>4, <1>5, <1>6 DEF Next

LEMMA TypesAlways == Spec => []TypeInv
<1>1. Init => TypeInv
  BY InitTypes
<1>2. TypeInv /\ [Next]_vars => TypeInv'
  BY TypeStep
<1> QED BY <1>1, <1>2, PTL DEF Spec

(* Every variable keeps its type and no queue outgrows MAXBUFFERSIZE.      *)
THEOREM TypesAreKept == Spec => []TypeOK
<1>1. TypeInv => TypeOK
  BY TypeParts DEF TypeInv
<1> QED BY <1>1, TypesAlways, PTL

-----------------------------------------------------------------------------
(* The listening socket.                                                   *)

(* Its number is forgotten only after it was closed, and it is opened only *)
(* while nobody closes it: Start has stopped the server before.  A thread  *)
(* finds 0 in place of the number it is to close only if the other one was *)
(* inside Close with it, and nothing else sets number 0 free.              *)
SocketInv ==
  /\ apc = "open" => cpc = "wait_ready" /\ ~isServerReadyToListen
  /\ descriptor = 0 => listener = "closed"
  /\ apc = "zero" \/ cpc = "zero" => listener = "closed"
  /\ apc \in {"none", "open"} => descriptor = 0
  /\ cpc \in {"join_server", "join_clients", "spawn"} => descriptor = 0
  /\ cpc \in {"join_clients", "spawn"} => apc = "none"
  /\ apc \in ClosePC /\ cpc \in ClosePC => closes_met
  /\ (apc = "close" \/ cpc = "close") /\ descriptor = 0 => closes_met
  /\ zero # "used" => closes_met

(* What a call of Close does, whichever thread makes it.                   *)
LEMMA CloseKeeps ==
  ASSUME NEW pc, NEW next, NEW done, NEW thrown,
         SocketClose(pc, next, done, thrown),
         pc = "zero" => listener = "closed",
         descriptor = 0 => listener = "closed"
  PROVE  /\ pc \in ClosePC
         /\ next \in {"close", "zero", done, thrown}
         /\ descriptor' = 0 => listener' = "closed"
         /\ listener = "closed" => listener' = "closed"
         /\ next = "zero" => listener' = "closed" \/ done = "zero" \/ thrown = "zero"
         /\ descriptor = 0 => descriptor' = 0
         /\ next = done => descriptor' = 0 \/ done \in {"close", "zero", thrown}
         /\ descriptor' # descriptor => next = done
         /\ next = "close" => descriptor' # 0 \/ done = "close" \/ thrown = "close"
         /\ zero' = zero \/ (pc = "close" /\ descriptor = 0)
<1>1. CASE Shutdown(pc, next, done, thrown)
  BY <1>1 DEF Shutdown, ClosePC
<1>2. CASE CloseDescriptor(pc, next, thrown)
  BY <1>2 DEF CloseDescriptor, ClosePC
<1>3. CASE ForgetDescriptor(pc, next, done)
  BY <1>3 DEF ForgetDescriptor, ClosePC
<1> QED BY <1>1, <1>2, <1>3 DEF SocketClose

LEMMA SocketInit == Init => SocketInv
BY DEF Init, SocketInv, ClosePC

LEMMA SocketStep == SocketInv /\ [Next]_vars => SocketInv'
<1> SUFFICES ASSUME SocketInv, [Next]_vars PROVE SocketInv'
  OBVIOUS
<1>1. CASE OpenServerSocket
  <2>1. /\ apc = "open" /\ apc' \in {"test", "ended"} /\ UNCHANGED <<cpc, closes_met>>
        /\ cpc = "wait_ready" /\ listener = "closed" /\ descriptor = 0
    BY <1>1 DEF OpenServerSocket, AcceptAt, controlVars, SocketInv
  <2>2. /\ descriptor' = 0 => listener' = "closed"
        /\ zero' # "used" => zero # "used"
    BY <1>1, <2>1 DEF OpenServerSocket, SocketGets
  <2> QED BY <2>1, <2>2 DEF SocketInv, ClosePC
<1>2. CASE TestServerStop \/ PollListener \/ AcceptThrows \/ AcceptClient
             \/ AddClient
  <2>1. /\ UNCHANGED <<socketVars, cpc>>
        /\ apc' \notin {"open", "none"} \cup ClosePC /\ apc # "none"
    BY <1>2 DEF TestServerStop, PollListener, AcceptThrows, AcceptClient,
                AddClient, AcceptStep, AcceptAt, controlVars, ClosePC
  <2> QED BY <2>1 DEF SocketInv, socketVars, ClosePC
<1>8. CASE LeaveServerLoop
  <2>1. /\ UNCHANGED <<listener, descriptor, zero, cpc>>
        /\ apc = "leave" /\ apc' = "shutdown"
        /\ closes_met' = (closes_met \/ cpc \in ClosePC)
    BY <1>8 DEF LeaveServerLoop, AcceptAt, controlVars
  <2> QED BY <2>1 DEF SocketInv
<1>3. CASE CloseServerSocket
  <2>1. /\ UNCHANGED <<cpc, isServerReadyToListen, closes_met>>
        /\ SocketClose(apc, apc', "ended", "ended")
    BY <1>3 DEF CloseServerSocket, AcceptAt, controlVars
  <2>2. /\ apc \in ClosePC /\ apc' \in {"close", "zero", "ended"}
        /\ descriptor' = 0 => listener' = "closed"
        /\ listener = "closed" => listener' = "closed"
        /\ apc' = "zero" => listener' = "closed"
        /\ descriptor = 0 => descriptor' = 0
        /\ descriptor' # descriptor => apc' = "ended"
        /\ apc' = "close" => descriptor' # 0
        /\ zero' = zero \/ (apc = "close" /\ descriptor = 0)
    BY <2>1, CloseKeeps DEF SocketInv
  <2> QED BY <2>1, <2>2 DEF SocketInv, ClosePC
<1>4. CASE ClientsNext
  <2>1. UNCHANGED <<socketVars, apc, cpc, isServerReadyToListen>>
    BY <1>4 DEF ClientsNext, TestClientsStop, ReceiveDataFromClients, EndOfScan,
           ReadClient, EraseClient, ReceiveLine, NextClient, ReadThrows,
           TakeReply, EndOfWrite, TestClient, WriteLine, WriteThrows,
           CloseAllClients, ClientsStep, WriteStep, ClientsAt,
           flagVars, acceptVars, controlVars
  <2> QED BY <2>1 DEF SocketInv, socketVars
<1>5. CASE StopServerSocket
  <2>1. /\ UNCHANGED <<apc, isServerReadyToListen, closes_met>>
        /\ SocketClose(cpc, cpc', "join_server", "stop_failed")
    BY <1>5 DEF StopServerSocket, ControllerAt, flagVars
  <2>2. /\ cpc \in ClosePC
        /\ cpc' \in {"close", "zero", "join_server", "stop_failed"}
        /\ descriptor' = 0 => listener' = "closed"
        /\ listener = "closed" => listener' = "closed"
        /\ cpc' = "zero" => listener' = "closed"
        /\ descriptor = 0 => descriptor' = 0
        /\ cpc' = "join_server" => descriptor' = 0
        /\ descriptor' # descriptor => cpc' = "join_server"
        /\ cpc' = "close" => descriptor' # 0
        /\ zero' = zero \/ (cpc = "close" /\ descriptor = 0)
    BY <2>1, CloseKeeps DEF SocketInv
  <2> QED BY <2>1, <2>2 DEF SocketInv, ClosePC
<1>9. CASE Start \/ Stop
  <2>1. /\ UNCHANGED <<listener, descriptor, zero, apc>>
        /\ cpc \in AtRest /\ cpc' = "shutdown"
        /\ closes_met' = (closes_met \/ apc \in ClosePC)
    BY <1>9 DEF Start, Stop, BeginStop, ControllerAt
  <2> QED BY <2>1 DEF SocketInv, AtRest
<1>6. CASE ControllerNext /\ ~(StopServerSocket \/ Start \/ Stop)
  <2>1. UNCHANGED <<listener, descriptor, zero, closes_met>>
    BY <1>6 DEF ControllerNext, FinishCall, Recv, JoinServerThread,
         JoinClientsThread, SpawnThreads, SeeReady, GiveUp, ControllerStep,
         socketVars
  <2>2. CASE SpawnThreads
    <3>1. /\ cpc = "spawn" /\ cpc' = "wait_ready" /\ apc' = "open"
          /\ isServerReadyToListen' = FALSE
      BY <2>2 DEF SpawnThreads, ControllerStep, ControllerAt
    <3> QED BY <2>1, <3>1 DEF SocketInv, ClosePC
  <2>3. CASE JoinServerThread
    <3>1. cpc = "join_server" /\ cpc' = "join_clients" /\ apc' = "none"
      BY <2>3 DEF JoinServerThread, ControllerStep, ControllerAt
    <3> QED BY <2>1, <3>1 DEF SocketInv, ClosePC
  <2>4. CASE JoinClientsThread
    <3>1. cpc = "join_clients" /\ cpc' \in {"spawn", "idle"} /\ apc' = apc
      BY <2>4 DEF JoinClientsThread, ControllerStep, ControllerAt
    <3> QED BY <2>1, <3>1 DEF SocketInv, ClosePC
  <2>5. CASE SeeReady \/ GiveUp
    <3>1. /\ cpc' \in {"idle", "start_failed"} /\ apc' = apc /\ apc # "open"
      BY <2>5 DEF SeeReady, GiveUp, ControllerStep, ControllerAt, ControllerOnly,
                  SocketInv
    <3> QED BY <2>1, <3>1 DEF SocketInv, ClosePC
  <2>6. CASE Recv
    <3>1. cpc = "idle" /\ cpc' = "idle" /\ apc' = apc
      BY <2>6 DEF Recv, ControllerStep, ControllerAt, ControllerOnly
    <3> QED BY <2>1, <3>1 DEF SocketInv, ClosePC
  <2> QED BY <1>6, <2>2, <2>3, <2>4, <2>5, <2>6 DEF ControllerNext, FinishCall
<1>7. CASE SendNext \/ ClientNext \/ UNCHANGED vars
  <2>1. UNCHANGED <<socketVars, apc, cpc, isServerReadyToListen>>
    BY <1>7, SendOnly
       DEF ClientNext, Connect, BeginLine, FinishLine, SendTooMuch,
           Disconnect, ClientActs, vars, flagVars, acceptVars, controlVars
  <2> QED BY <2>1 DEF SocketInv, socketVars
<1> QED BY <1>1, <1>2, <1>3, <1>4, <1>5, <1>6, <1>7, <1>8, <1>9
        DEF Next, AcceptNext

(* Once Stop has returned, the listening socket is closed and its number   *)
(* forgotten, however the two threads that close it interleave, and no     *)
(* other listens but one that got number 0, which nothing but two closes   *)
(* that met can have set free.                                             *)
THEOREM SocketIsReleased == Spec => []ListenerReleased
<1>1. Init => SocketInv
  BY SocketInit
<1>2. SocketInv /\ [Next]_vars => SocketInv'
  BY SocketStep
<1>3. SocketInv => ListenerReleased
  BY DEF SocketInv, ListenerReleased
<1> QED BY <1>1, <1>2, <1>3, PTL DEF Spec

-----------------------------------------------------------------------------
(* The list of clients.                                                    *)

Distinct(s) == \A i, j \in DOMAIN s : s[i] = s[j] => i = j

LEMMA Joined ==
  ASSUME NEW S, NEW s \in Seq(S), NEW c \in S, Distinct(s), c \notin Elements(s)
  PROVE  Distinct(Append(s, c)) /\ Elements(Append(s, c)) = Elements(s) \cup {c}
<1> DEFINE t == Append(s, c)
<1>1. /\ DOMAIN s = 1 .. Len(s) /\ DOMAIN t = 1 .. Len(s) + 1 /\ Len(s) \in Nat
      /\ t[Len(s) + 1] = c /\ \A i \in 1 .. Len(s) : t[i] = s[i]
  OBVIOUS
<1>2. /\ \A i \in DOMAIN t : i = Len(s) + 1 \/ i \in DOMAIN s
      /\ Len(s) + 1 \in DOMAIN t /\ \A i \in DOMAIN s : i \in DOMAIN t
  BY <1>1
<1>3. \A i \in DOMAIN s : s[i] # c /\ t[i] = s[i]
  BY <1>1 DEF Elements
<1> HIDE DEF t
<1>4. Elements(t) = Elements(s) \cup {c}
  BY <1>1, <1>2, <1>3 DEF Elements
<1>5. Distinct(t)
  BY <1>1, <1>2, <1>3, Zenon DEF Distinct
<1> QED BY <1>4, <1>5 DEF t

LEMMA Erased ==
  ASSUME NEW S, NEW s \in Seq(S), NEW k \in DOMAIN s, Distinct(s)
  PROVE  /\ Distinct(Without(s, k))
         /\ Elements(Without(s, k)) = Elements(s) \ {s[k]}
<1> DEFINE t == Without(s, k)
           From(i) == IF i < k THEN i ELSE i + 1
<1>1. /\ Len(s) \in Nat /\ k \in 1 .. Len(s) /\ DOMAIN s = 1 .. Len(s)
  OBVIOUS
<1>2. /\ t \in Seq(S) /\ Len(t) = Len(s) - 1
      /\ \A j \in 1 .. k - 1 : t[j] = s[j]
      /\ \A j \in k .. Len(s) - 1 : t[j] = s[j + 1]
  BY WithoutOne
<1>3. DOMAIN t = 1 .. Len(s) - 1
  BY <1>1, <1>2
<1> HIDE DEF t
<1>4. ASSUME NEW i \in DOMAIN t
      PROVE  From(i) \in DOMAIN s /\ From(i) # k /\ t[i] = s[From(i)]
  <2>1. CASE i < k
    <3>1. i \in 1 .. k - 1 /\ From(i) = i
      BY <1>1, <1>3, <2>1
    <3> QED BY <1>1, <1>2, <3>1
  <2>2. CASE ~(i < k)
    <3>1. i \in k .. Len(s) - 1 /\ From(i) = i + 1
      BY <1>1, <1>3, <2>2
    <3> QED BY <1>1, <1>2, <3>1
  <2> QED BY <2>1, <2>2
<1>5. \A i, j \in DOMAIN t : From(i) = From(j) => i = j
  BY <1>1, <1>3
<1>6. ASSUME NEW m \in DOMAIN s, m # k
      PROVE  \E i \in DOMAIN t : From(i) = m
  <2>1. CASE m < k
    <3>1. m \in DOMAIN t /\ From(m) = m
      BY <1>1, <1>3, <2>1
    <3> QED BY <3>1
  <2>2. CASE m > k
    <3>1. m - 1 \in DOMAIN t /\ From(m - 1) = m
      BY <1>1, <1>3, <2>2
    <3> QED BY <3>1
  <2> QED BY <1>1, <1>6, <2>1, <2>2
<1> HIDE DEF From
<1>7. Distinct(t)
  BY <1>4, <1>5, Zenon DEF Distinct
<1>8. Elements(t) \subseteq Elements(s) \ {s[k]}
  BY <1>4 DEF Elements, Distinct
<1>9. Elements(s) \ {s[k]} \subseteq Elements(t)
  <2> SUFFICES ASSUME NEW m \in DOMAIN s, m # k PROVE s[m] \in Elements(t)
    BY DEF Elements
  <2>1. PICK i \in DOMAIN t : From(i) = m
    BY <1>6
  <2> QED BY <1>4, <2>1 DEF Elements
<1> QED BY <1>7, <1>8, <1>9 DEF t

(* Whose connection is open, and where it is kept.  Nobody is served who   *)
(* has not come.                                                           *)
ListInv ==
  /\ \A c \in Client :
       served[c] = "open" <=> c \in Elements(tcpClients) \cup candidate
  /\ Distinct(tcpClients)
  /\ \A c \in candidate : c \notin Elements(tcpClients)
  /\ \A c, d \in candidate : c = d
  /\ apc # "lock" => candidate = {}
  /\ \A c \in Client : peer[c] = "away" => served[c] = "no"

(* What no step of theirs changes.                                         *)
ListVars == <<peer, served, tcpClients, candidate>>

LEMMA ListUntouched ==
  ASSUME ListInv, UNCHANGED ListVars, apc' # "lock" => apc # "lock"
  PROVE  ListInv'
BY DEF ListInv, ListVars

LEMMA ListInit == Init => ListInv
BY DEF Init, ListInv, Distinct, Elements

LEMMA BacklogClosed ==
  ASSUME ServerTypes, ListInv, UNCHANGED <<peer, tcpClients, candidate>>,
         NEW pc, NEW next, NEW done, NEW thrown,
         SocketClose(pc, next, done, thrown), apc' # "lock" => apc # "lock"
  PROVE  ListInv'
<1>1. CASE served' = served
  BY <1>1, ListUntouched DEF ListVars
<1>2. CASE \/ served' = [c \in Client |-> IF c \in Backlog THEN "closed"
                                                          ELSE served[c]]
           \/ served' = [c \in Client |-> IF c \in Stranded THEN "closed"
                                                           ELSE served[c]]
  <2>1. \A c \in Client : /\ served'[c] = "open" <=> served[c] = "open"
                          /\ served[c] = "no" => served'[c] = "no"
    BY <1>2 DEF Backlog, Stranded
  <2> QED BY <2>1 DEF ListInv
<1> QED BY <1>1, <1>2 DEF SocketClose, Shutdown, CloseDescriptor,
                          ForgetDescriptor

LEMMA AcceptKeepsList ==
  ASSUME TypeInv, ListInv, AcceptNext
  PROVE  ListInv'
<1>0. peer' = peer
  BY AcceptOnly
<1>1. CASE OpenServerSocket \/ TestServerStop \/ PollListener \/ AcceptThrows
             \/ LeaveServerLoop
  <2>1. UNCHANGED ListVars /\ apc # "lock"
    BY <1>0, <1>1 DEF OpenServerSocket, TestServerStop, PollListener, ListVars,
                 AcceptThrows, LeaveServerLoop, AcceptStep, AcceptAt
  <2> QED BY <2>1, ListUntouched
<1>2. CASE AcceptClient
  <2>1. PICK c \in Backlog :
          \/ /\ peer[c] = "open" /\ candidate' = {c} /\ apc' = "lock"
             /\ served' = [served EXCEPT ![c] = "open"]
          \/ /\ peer[c] # "open" /\ apc' = "test"
             /\ served' = [served EXCEPT ![c] = "closed"]
             /\ candidate' = candidate
    BY <1>2 DEF AcceptClient, AcceptAt
  <2>2. /\ apc = "accept" /\ tcpClients' = tcpClients /\ candidate = {}
        /\ c \in Client /\ served[c] = "backlog" /\ peer[c] # "away"
        /\ c \notin Elements(tcpClients) /\ served \in [Client -> Served]
    BY <1>2, <2>1 DEF AcceptClient, AcceptAt, Backlog, ListInv, TypeInv,
                      ServerTypes
  <2>3. CASE candidate' = {c} /\ apc' = "lock"
             /\ served' = [served EXCEPT ![c] = "open"]
    BY <1>0, <2>2, <2>3 DEF ListInv
  <2>4. CASE candidate' = candidate /\ apc' = "test"
             /\ served' = [served EXCEPT ![c] = "closed"]
    BY <1>0, <2>2, <2>4 DEF ListInv
  <2> QED BY <2>1, <2>3, <2>4
<1>3. CASE AddClient
  <2>1. PICK c \in candidate : tcpClients' = Append(tcpClients, c)
    BY <1>3 DEF AddClient
  <2>2. candidate = {c} /\ candidate' = {} /\ served' = served
    BY <1>3, <2>1 DEF AddClient, ListInv
  <2>3. c \in Client /\ tcpClients \in Seq(Client)
    BY <2>1 DEF TypeInv, ServerTypes
  <2>4. /\ Distinct(tcpClients')
        /\ Elements(tcpClients') = Elements(tcpClients) \cup {c}
    BY <2>1, <2>3, Joined DEF ListInv
  <2> QED BY <1>0, <2>2, <2>4 DEF ListInv
<1>4. CASE CloseServerSocket
  <2>1. /\ UNCHANGED <<tcpClients, candidate>>
        /\ SocketClose(apc, apc', "ended", "ended")
    BY <1>4 DEF CloseServerSocket, AcceptAt
  <2>2. apc # "lock"
    BY <2>1 DEF SocketClose, Shutdown, CloseDescriptor, ForgetDescriptor
  <2> QED BY <1>0, <2>1, <2>2, BacklogClosed DEF TypeInv
<1> QED BY <1>1, <1>2, <1>3, <1>4 DEF AcceptNext

LEMMA ClientsKeepList ==
  ASSUME TypeInv, ListInv, ClientsNext
  PROVE  ListInv'
<1>0. peer' = peer /\ candidate' = candidate /\ apc' = apc
  BY DEF ClientsNext, TestClientsStop, ReceiveDataFromClients, EndOfScan,
           ReadClient, EraseClient, ReceiveLine, NextClient, ReadThrows,
           TakeReply, EndOfWrite, TestClient, WriteLine, WriteThrows,
           CloseAllClients, ClientsStep, WriteStep, ClientsAt, acceptVars
<1>1. CASE EraseClient
  <2>1. /\ index \in DOMAIN tcpClients /\ Current = tcpClients[index]
        /\ tcpClients' = Without(tcpClients, index)
        /\ served' = [served EXCEPT ![Current] = "closed"]
    BY <1>1 DEF EraseClient, InList, Without, Current
  <2>2. /\ Distinct(tcpClients')
        /\ Elements(tcpClients') = Elements(tcpClients) \ {Current}
    BY <2>1, Erased DEF TypeInv, ServerTypes, ListInv
  <2>3. /\ Current \in Elements(tcpClients) /\ Current \in Client
        /\ served \in [Client -> Served]
    BY <2>1, ElementOfSeq DEF TypeInv, ServerTypes, Elements
  <2>4. served[Current] = "open" /\ peer[Current] # "away"
    BY <2>3 DEF ListInv
  <2> HIDE DEF Current
  <2> QED BY <1>0, <2>1, <2>2, <2>3, <2>4 DEF ListInv
<1>2. CASE CloseAllClients
  <2>1. /\ tcpClients' = <<>>
        /\ \A c \in Client :
             served'[c] = IF c \in Elements(tcpClients) THEN "closed"
                                                        ELSE served[c]
    BY <1>2 DEF CloseAllClients, Elements
  <2>2. Elements(<<>>) = {} /\ Distinct(<<>>)
    BY DEF Elements, Distinct
  <2>3. \A c \in Elements(tcpClients) :
          c \in Client => served[c] = "open" /\ peer[c] # "away"
    BY DEF ListInv
  <2> QED BY <1>0, <2>1, <2>2, <2>3 DEF ListInv
<1>3. CASE ~EraseClient /\ ~CloseAllClients
  <2>1. UNCHANGED <<served, tcpClients>>
    BY <1>3 DEF ClientsNext, TestClientsStop, ReceiveDataFromClients, EndOfScan,
           ReadClient, ReceiveLine, NextClient, ReadThrows,
           TakeReply, EndOfWrite, TestClient, WriteLine, WriteThrows,
           ClientsStep, WriteStep
  <2> QED BY <1>0, <2>1, ListUntouched DEF ListVars
<1> QED BY <1>1, <1>2, <1>3

LEMMA ListStep == TypeInv /\ SocketInv /\ ListInv /\ [Next]_vars => ListInv'
<1> SUFFICES ASSUME TypeInv, SocketInv, ListInv, [Next]_vars PROVE ListInv'
  OBVIOUS
<1>1. CASE AcceptNext
  BY <1>1, AcceptKeepsList
<1>2. CASE ClientsNext
  BY <1>2, ClientsKeepList
<1>3. CASE StopServerSocket
  <2>1. /\ UNCHANGED <<peer, tcpClients, candidate, apc>>
        /\ SocketClose(cpc, cpc', "join_server", "stop_failed")
    BY <1>3 DEF StopServerSocket, ControllerAt, clientVars
  <2> QED BY <2>1, BacklogClosed DEF TypeInv
<1>4. CASE ControllerNext /\ ~StopServerSocket
  <2>1. /\ UNCHANGED ListVars
        /\ apc' = apc \/ apc \in {"none", "ended"} \/ cpc = "spawn"
    BY <1>4 DEF ControllerNext, FinishCall, Start, Stop, BeginStop, Recv,
         JoinServerThread, JoinClientsThread, SpawnThreads, SeeReady, GiveUp,
         ControllerStep, ControllerAt, ControllerOnly, clientVars, ListVars
  <2>2. apc' # "lock" => apc # "lock"
    BY <2>1 DEF SocketInv
  <2> QED BY <2>1, <2>2, ListUntouched
<1>5. CASE ClientNext
  <2>1. PICK c \in Client : \/ Connect(c) \/ BeginLine(c) \/ FinishLine(c)
                            \/ SendTooMuch(c) \/ Disconnect(c)
    BY <1>5 DEF ClientNext
  <2>2. UNCHANGED <<tcpClients, candidate, apc>>
    BY <2>1 DEF Connect, BeginLine, FinishLine, SendTooMuch, Disconnect,
                ClientActs, acceptVars
  <2>3. CASE Connect(c)
    <3>1. /\ peer[c] = "away" /\ peer' = [peer EXCEPT ![c] = "open"]
          /\ \/ served' = [served EXCEPT ![c] = "backlog"]
             \/ served' = [served EXCEPT ![c] = "stranded"]
      BY <2>3 DEF Connect
    <3>2. /\ peer \in [Client -> Peer] /\ served \in [Client -> Served]
          /\ served[c] = "no"
      BY <3>1 DEF TypeInv, ServerTypes, ListInv
    <3> QED BY <2>2, <3>1, <3>2 DEF ListInv
  <2>4. CASE Disconnect(c)
    <3>1. /\ peer[c] = "open" /\ served' = served
          /\ peer' = [peer EXCEPT ![c] = "closed"]
             \/ peer' = [peer EXCEPT ![c] = "reset"]
      BY <2>4 DEF Disconnect
    <3>2. \A d \in Client : peer'[d] = "away" => peer[d] = "away"
      BY <3>1 DEF TypeInv, ServerTypes
    <3> QED BY <2>2, <3>1, <3>2 DEF ListInv
  <2>5. CASE BeginLine(c) \/ FinishLine(c) \/ SendTooMuch(c)
    <3>1. UNCHANGED <<peer, served>>
      BY <2>5 DEF BeginLine, FinishLine, SendTooMuch
    <3> QED BY <2>2, <3>1, ListUntouched DEF ListVars
  <2> QED BY <2>1, <2>3, <2>4, <2>5
<1>6. CASE SendNext \/ UNCHANGED vars
  BY <1>6, SendOnly, ListUntouched DEF ListVars, vars, clientVars, acceptVars
<1> QED BY <1>1, <1>2, <1>3, <1>4, <1>5, <1>6 DEF Next

(* No connection is left open and forgotten, however clients come and go   *)
(* while the server starts, runs and stops.                                *)
THEOREM NoConnectionIsLeaked == Spec => []NoLeakedConnection
<1>1. Init => TypeInv /\ SocketInv /\ ListInv
  BY InitTypes, SocketInit, ListInit
<1>2. TypeInv /\ SocketInv /\ ListInv /\ [Next]_vars
        => (TypeInv /\ SocketInv /\ ListInv)'
  BY TypeStep, SocketStep, ListStep
<1>3. ListInv => NoLeakedConnection
  BY DEF ListInv, NoLeakedConnection, Distinct
<1> QED BY <1>1, <1>2, <1>3, PTL DEF Spec

(* During a pass of the clients thread over the list nobody else changes   *)
(* it: it only shrinks, by the pass's own erase.                           *)
ListStableDuringPass ==
  [][Locked /\ Locked' =>
       \/ tcpClients' = tcpClients
       \/ kpc = "scan" /\ Len(tcpClients') < Len(tcpClients)]_vars

(* Only a pass of the clients thread changes the list while it holds the   *)
(* mutex, and only to take a client out.                                   *)
THEOREM ListIsStable == Spec => ListStableDuringPass
<1> DEFINE Stable == Locked /\ Locked' =>
                       \/ tcpClients' = tcpClients
                       \/ kpc = "scan" /\ Len(tcpClients') < Len(tcpClients)
<1>1. TypeInv /\ [Next]_vars => [Stable]_vars
  <2> SUFFICES ASSUME TypeInv, [Next]_vars, Locked, Locked'
               PROVE  \/ tcpClients' = tcpClients
                      \/ kpc = "scan" /\ Len(tcpClients') < Len(tcpClients)
    OBVIOUS
  <2>1. CASE AcceptNext
    <3>1. ~AddClient
      BY DEF AddClient
    <3> QED BY <2>1, <3>1
        DEF AcceptNext, OpenServerSocket, TestServerStop, PollListener,
            AcceptClient, AcceptThrows, LeaveServerLoop, CloseServerSocket,
            AcceptStep
  <2>2. CASE EraseClient
    <3>1. /\ kpc = "scan" /\ index \in DOMAIN tcpClients
          /\ tcpClients' = Without(tcpClients, index)
      BY <2>2 DEF EraseClient, ClientsAt, InList, Without
    <3>2. tcpClients \in Seq(Client)
      BY DEF TypeInv, ServerTypes
    <3>3. Len(tcpClients') = Len(tcpClients) - 1 /\ Len(tcpClients) \in Nat
      BY <3>1, <3>2, WithoutOne
    <3> QED BY <3>1, <3>3
  <2>3. CASE ClientsNext /\ ~EraseClient
    <3>1. ~CloseAllClients
      BY DEF CloseAllClients, Locked
    <3> QED BY <2>3, <3>1
        DEF ClientsNext, TestClientsStop, ReceiveDataFromClients, EndOfScan,
            ReadClient, ReceiveLine, NextClient, ReadThrows, TakeReply,
            EndOfWrite, TestClient, WriteLine, WriteThrows, ClientsStep,
            WriteStep
  <2>4. CASE ControllerNext
    BY <2>4, ControllerOnlyTouches
  <2>5. CASE ClientNext
    BY <2>5 DEF ClientNext, Connect, BeginLine, FinishLine, SendTooMuch,
                Disconnect, ClientActs
  <2>6. CASE SendNext \/ UNCHANGED vars
    BY <2>6, SendOnly DEF vars
  <2> QED BY <2>1, <2>2, <2>3, <2>4, <2>5, <2>6 DEF Next
<1>2. [][TypeInv /\ [Next]_vars => [Stable]_vars]_vars
  BY <1>1, PTL
<1> QED BY <1>1, TypesAlways, PTL DEF Spec, ListStableDuringPass

-----------------------------------------------------------------------------
(* Lines from the clients.                                                 *)

(* What a client sent is read in its order: what is on the wire is newer   *)
(* than what was read.                                                     *)
SentInOrder ==
  /\ \A m, n \in DOMAIN queued :
       m < n /\ queued[m][1] = queued[n][1] => queued[m][2] < queued[n][2]
  /\ \A c \in Client : \A i, j \in DOMAIN wire[c] :
       i < j => wire[c][i][2] < wire[c][j][2]
  /\ \A c \in Client : \A i \in DOMAIN wire[c] :
       wire[c][i][1] = c /\ wire[c][i][2] <= sent[c]
  /\ \A m \in DOMAIN queued : \A c \in Client : queued[m][1] = c =>
       /\ queued[m][2] <= sent[c]
       /\ \A i \in DOMAIN wire[c] : queued[m][2] < wire[c][i][2]

(* The input queue is the end of what was read; before it lies what Recv   *)
(* has returned or newer lines have pushed out.                            *)
Offset == Len(queued) - Len(inputStringBuffer)
BufferInv ==
  /\ Len(inputStringBuffer) <= Len(queued)
  /\ \A j \in 1 .. Len(inputStringBuffer) :
       inputStringBuffer[j] = queued[Offset + j]
  /\ \A i \in DOMAIN received : \E m \in 1 .. Offset : queued[m] = received[i]
  /\ \A i, j \in DOMAIN received : i < j =>
       \E m, n \in DOMAIN queued :
         m < n /\ queued[m] = received[i] /\ queued[n] = received[j]
  /\ \A j \in 1 .. Offset :
       \/ \E i \in DOMAIN received : received[i] = queued[j]
       \/ j + MAXBUFFERSIZE <= Len(queued)

LEMMA LinesInit == Init => SentInOrder /\ BufferInv
BY DEF Init, SentInOrder, BufferInv, Offset

(* A line is read.                                                         *)
LEMMA ReadKeepsOrder ==
  ASSUME TypeInv, SentInOrder, ReceiveLine
  PROVE  SentInOrder'
<1> DEFINE c == Current
           h == Head(wire[c])
           q == Append(queued, h)
           w == Tail(wire[c])
<1>1. /\ kpc = "read" /\ wire[c] # <<>> /\ queued' = q
      /\ wire' = [wire EXCEPT ![c] = w] /\ sent' = sent
  BY DEF ReceiveLine, ClientsAt
<1>2. c \in Client
  BY <1>1, ElementOfSeq DEF TypeInv, ServerTypes, AtClient, InList, Current
<1> HIDE DEF c
<1>3. /\ wire \in [Client -> Seq(Line)] /\ wire[c] \in Seq(Line)
      /\ queued \in Seq(Line) /\ Len(queued) \in Nat
  BY <1>2 DEF TypeInv, LineTypes
<1>4. /\ DOMAIN wire[c] = 1 .. Len(wire[c]) /\ Len(wire[c]) \in Nat \ {0}
      /\ h = wire[c][1] /\ DOMAIN w = 1 .. Len(wire[c]) - 1
      /\ \A i \in 1 .. Len(wire[c]) - 1 : w[i] = wire[c][i + 1]
  BY <1>1, <1>3
<1>5. /\ DOMAIN queued = 1 .. Len(queued) /\ DOMAIN q = 1 .. Len(queued) + 1
      /\ q[Len(queued) + 1] = h
      /\ \A m \in 1 .. Len(queued) : q[m] = queued[m]
  <2>1. h \in Line
    BY <1>1, <1>3, HeadTailProperties
  <2> HIDE DEF h
  <2> QED BY <1>3, <2>1
<1>6. h[1] = c /\ h[2] <= sent[c] /\ \A i \in DOMAIN w : h[2] < w[i][2]
  BY <1>2, <1>4 DEF SentInOrder
<1>7. \A d \in Client : wire'[d] = IF d = c THEN w ELSE wire[d]
  BY <1>1, <1>3
<1> HIDE DEF h, q, w
<1>8. \A m \in DOMAIN queued : queued[m][1] = c => queued[m][2] < h[2]
  <2>1. 1 \in DOMAIN wire[c] /\ h = wire[c][1]
    BY <1>4
  <2>2. \A m \in DOMAIN queued : queued[m][1] = c =>
          \A i \in DOMAIN wire[c] : queued[m][2] < wire[c][i][2]
    BY <1>2 DEF SentInOrder
  <2> QED BY <2>1, <2>2
<1>9. \A m, n \in DOMAIN q :
        m < n /\ q[m][1] = q[n][1] => q[m][2] < q[n][2]
  <2> TAKE m, n \in DOMAIN q
  <2> HAVE m < n /\ q[m][1] = q[n][1]
  <2>1. m \in DOMAIN queued /\ q[m] = queued[m]
    BY <1>3, <1>5
  <2>2. CASE n = Len(queued) + 1
    BY <1>5, <1>6, <1>8, <2>1, <2>2
  <2>3. CASE n # Len(queued) + 1
    <3>1. n \in DOMAIN queued /\ q[n] = queued[n]
      BY <1>3, <1>5, <2>3
    <3> QED BY <2>1, <3>1 DEF SentInOrder
  <2> QED BY <2>2, <2>3
<1>10. \A i \in DOMAIN w : i + 1 \in DOMAIN wire[c] /\ w[i] = wire[c][i + 1]
  BY <1>4
<1>11. ASSUME NEW d \in Client
       PROVE  /\ \A i, j \in DOMAIN wire'[d] :
                   i < j => wire'[d][i][2] < wire'[d][j][2]
              /\ \A i \in DOMAIN wire'[d] :
                   wire'[d][i][1] = d /\ wire'[d][i][2] <= sent[d]
  <2>1. CASE d # c
    BY <1>7, <2>1 DEF SentInOrder
  <2>2. CASE d = c
    <3>1. wire'[d] = w
      BY <1>7, <2>2
    <3>2. \A i, j \in DOMAIN w : i < j => w[i][2] < w[j][2]
      <4> TAKE i, j \in DOMAIN w
      <4> HAVE i < j
      <4>1. i + 1 < j + 1
        BY <1>4
      <4> QED BY <1>2, <1>10, <4>1 DEF SentInOrder
    <3>3. \A i \in DOMAIN w : w[i][1] = c /\ w[i][2] <= sent[c]
      BY <1>2, <1>10 DEF SentInOrder
    <3> QED BY <2>2, <3>1, <3>2, <3>3
  <2> QED BY <2>1, <2>2
<1>12. ASSUME NEW m \in DOMAIN q, NEW d \in Client, q[m][1] = d
       PROVE  /\ q[m][2] <= sent[d]
              /\ \A i \in DOMAIN wire'[d] : q[m][2] < wire'[d][i][2]
  <2>1. CASE m = Len(queued) + 1
    BY <1>5, <1>6, <1>7, <1>12, <2>1
  <2>2. CASE m # Len(queued) + 1
    <3>1. m \in DOMAIN queued /\ q[m] = queued[m]
      BY <1>3, <1>5, <2>2
    <3>2. /\ q[m][2] <= sent[d]
          /\ \A i \in DOMAIN wire[d] : q[m][2] < wire[d][i][2]
      BY <1>12, <3>1 DEF SentInOrder
    <3> QED BY <1>7, <1>10, <3>2
  <2> QED BY <2>1, <2>2
<1> QED BY <1>1, <1>9, <1>11, <1>12 DEF SentInOrder

(* A line is sent.                                                         *)
LEMMA SendingKeepsOrder ==
  ASSUME TypeInv, SentInOrder, NEW c \in Client, FinishLine(c),
         queued' = queued
  PROVE  SentInOrder'
<1> DEFINE l == <<c, sent[c] + 1>>
           w == Append(wire[c], l)
           n == Len(wire[c])
<1>1. /\ wire' = [wire EXCEPT ![c] = w] /\ sent' = [sent EXCEPT ![c] = sent[c] + 1]
  BY DEF FinishLine
<1>2. /\ wire \in [Client -> Seq(Line)] /\ wire[c] \in Seq(Line)
      /\ sent \in [Client -> 0 .. MaxLines] /\ n \in Nat
      /\ \A d \in Client : sent[d] \in Nat
  <2>1. wire \in [Client -> Seq(Line)] /\ sent \in [Client -> 0 .. MaxLines]
    BY DEF TypeInv, LineTypes, ServerTypes
  <2>2. \A d \in Client : sent[d] \in Nat
    BY <2>1, ServerAssumption
  <2>3. wire[c] \in Seq(Line) /\ n \in Nat
    BY <2>1
  <2> QED BY <2>1, <2>2, <2>3
<1>3. l[1] = c /\ l[2] = sent[c] + 1
  OBVIOUS
<1> HIDE DEF l
<1>4. /\ DOMAIN wire[c] = 1 .. n /\ DOMAIN w = 1 .. n + 1
      /\ w[n + 1] = l /\ \A i \in 1 .. n : w[i] = wire[c][i]
  BY <1>2
<1>5. /\ \A d \in Client : wire'[d] = IF d = c THEN w ELSE wire[d]
      /\ \A d \in Client : sent'[d] = IF d = c THEN sent[c] + 1 ELSE sent[d]
  BY <1>1, <1>2
<1> HIDE DEF w, n
<1>6. ASSUME NEW i \in DOMAIN w
      PROVE  i = n + 1 \/ (i \in DOMAIN wire[c] /\ w[i] = wire[c][i])
  <2>1. CASE i = n + 1
    BY <2>1
  <2>2. CASE i # n + 1
    <3>1. i \in 1 .. n
      BY <1>2, <1>4, <2>2
    <3> QED BY <1>4, <3>1
  <2> QED BY <2>1, <2>2
<1>7. \A i \in DOMAIN wire[c] : wire[c][i][2] < sent[c] + 1
  <2> TAKE i \in DOMAIN wire[c]
  <2>1. wire[c][i] \in Line
    BY <1>2, <1>4, ElementOfSeq DEF n
  <2>2. wire[c][i][2] \in Int /\ wire[c][i][2] <= sent[c]
    BY <2>1, ServerAssumption DEF SentInOrder, Line
  <2> QED BY <1>2, <2>2
<1>8. ASSUME NEW d \in Client
      PROVE  /\ \A i, j \in DOMAIN wire'[d] :
                  i < j => wire'[d][i][2] < wire'[d][j][2]
             /\ \A i \in DOMAIN wire'[d] :
                  wire'[d][i][1] = d /\ wire'[d][i][2] <= sent'[d]
  <2>1. CASE d # c
    BY <1>5, <2>1 DEF SentInOrder
  <2>2. CASE d = c
    <3>1. wire'[d] = w /\ sent'[d] = sent[c] + 1
      BY <1>5, <2>2
    <3>2. \A i, j \in DOMAIN w : i < j => w[i][2] < w[j][2]
      <4> TAKE i, j \in DOMAIN w
      <4> HAVE i < j
      <4>1. i \in DOMAIN wire[c] /\ w[i] = wire[c][i]
        BY <1>2, <1>4
      <4>2. CASE j = n + 1
        BY <1>3, <1>4, <1>7, <4>1, <4>2
      <4>3. CASE j \in DOMAIN wire[c] /\ w[j] = wire[c][j]
        BY <4>1, <4>3 DEF SentInOrder
      <4> QED BY <1>6, <4>2, <4>3
    <3>3. ASSUME NEW i \in DOMAIN w
          PROVE  w[i][1] = c /\ w[i][2] <= sent[c] + 1
      <4>1. CASE i = n + 1
        BY <1>2, <1>3, <1>4, <4>1
      <4>2. CASE i \in DOMAIN wire[c] /\ w[i] = wire[c][i]
        <5>1. wire[c][i] \in Line
          BY <1>2, <1>4, <4>2, ElementOfSeq DEF n
        <5>2. /\ wire[c][i][2] \in Int /\ wire[c][i][1] = c
              /\ wire[c][i][2] <= sent[c]
          BY <4>2, <5>1, ServerAssumption DEF SentInOrder, Line
        <5> QED BY <1>2, <4>2, <5>2
      <4> QED BY <1>6, <4>1, <4>2
    <3> QED BY <2>2, <3>1, <3>2, <3>3
  <2> QED BY <2>1, <2>2
<1>9. ASSUME NEW m \in DOMAIN queued, NEW d \in Client, queued[m][1] = d
      PROVE  /\ queued[m][2] <= sent'[d]
             /\ \A i \in DOMAIN wire'[d] : queued[m][2] < wire'[d][i][2]
  <2>0. /\ queued[m][2] <= sent[d]
        /\ \A i \in DOMAIN wire[d] : queued[m][2] < wire[d][i][2]
    BY <1>9 DEF SentInOrder
  <2>1. CASE d # c
    BY <1>5, <2>0, <2>1
  <2>2. CASE d = c
    <3>1. queued[m] \in Line
      <4>1. queued \in Seq(Line) /\ m \in 1 .. Len(queued)
        BY DEF TypeInv, LineTypes
      <4> QED BY <4>1, ElementOfSeq
    <3>2. queued[m][2] \in Int /\ queued[m][2] < sent[c] + 1
      BY <1>2, <2>0, <2>2, <3>1, ServerAssumption DEF Line
    <3>3. \A i \in DOMAIN w : queued[m][2] < w[i][2]
      BY <1>3, <1>4, <1>6, <2>0, <2>2, <3>2
    <3>4. queued[m][2] <= sent[c] + 1
      BY <1>2, <3>2
    <3> QED BY <1>5, <2>2, <3>3, <3>4
  <2> QED BY <2>1, <2>2
<1> QED BY <1>8, <1>9 DEF SentInOrder

LEMMA OrderStep ==
  ASSUME TypeInv, SentInOrder, [Next]_vars
  PROVE  SentInOrder'
<1>1. CASE ReceiveLine
  BY <1>1, ReadKeepsOrder
<1>2. CASE \E c \in Client : FinishLine(c)
  <2>1. queued' = queued
    BY <1>2 DEF FinishLine, ClientActs, queueVars
  <2> QED BY <1>2, <2>1, SendingKeepsOrder
<1>3. CASE ~ReceiveLine /\ ~ \E c \in Client : FinishLine(c)
  <2>1. UNCHANGED <<wire, sent, queued>>
    <3>1. CASE AcceptNext
      BY <3>1, AcceptOnly DEF queueVars
    <3>2. CASE ClientsNext
      BY <1>3, <3>2 DEF ClientsNext, TestClientsStop, ReceiveDataFromClients,
           EndOfScan, ReadClient, EraseClient, NextClient, ReadThrows,
           TakeReply, EndOfWrite, TestClient, WriteLine, WriteThrows,
           CloseAllClients, ClientsStep, WriteStep, ClientsAt, queueVars
    <3>3. CASE ControllerNext
      BY <3>3, ControllerOnlyTouches DEF clientVars
    <3>4. CASE ClientNext
      BY <1>3, <3>4 DEF ClientNext, Connect, BeginLine, SendTooMuch, Disconnect,
                        ClientActs, queueVars
    <3>5. CASE SendNext \/ UNCHANGED vars
      BY <3>5, SendOnly DEF vars, clientVars, queueVars
    <3> QED BY <3>1, <3>2, <3>3, <3>4, <3>5 DEF Next
  <2> QED BY <2>1 DEF SentInOrder
<1> QED BY <1>1, <1>2, <1>3

LEMMA BufferedLine ==
  ASSUME TypeInv, BufferInv, ReceiveLine
  PROVE  BufferInv'
<1> DEFINE h == Head(wire[Current])
           b == inputStringBuffer
           t == AddToBuffer(b, h)
           q == Append(queued, h)
           d == IF Len(b) >= MAXBUFFERSIZE THEN 1 ELSE 0
<1>1. /\ kpc = "read" /\ wire[Current] # <<>> /\ queued' = q
      /\ inputStringBuffer' = t /\ received' = received
  BY DEF ReceiveLine, ClientsAt
<1>2. h \in Line
  <2>1. Current \in Client
    BY <1>1, ElementOfSeq DEF TypeInv, ServerTypes, AtClient, InList, Current
  <2>2. wire[Current] \in Seq(Line)
    BY <2>1 DEF TypeInv, LineTypes
  <2> QED BY <1>1, <2>2, HeadTailProperties
<1>3. /\ b \in Seq(Line) /\ queued \in Seq(Line) /\ Len(b) \in Nat
      /\ Len(queued) \in Nat /\ Len(b) <= MAXBUFFERSIZE
      /\ MAXBUFFERSIZE \in Nat \ {0}
  BY ServerAssumption DEF TypeInv, LineTypes
<1> HIDE DEF h
<1>4. /\ t \in Seq(Line) /\ Len(t) = Len(b) - d + 1
      /\ \A j \in 1 .. Len(b) - d : t[j] = b[j + d]
      /\ t[Len(b) - d + 1] = h
  BY <1>2, <1>3, Buffered
<1>5. /\ q \in Seq(Line) /\ Len(q) = Len(queued) + 1
      /\ \A m \in 1 .. Len(queued) : q[m] = queued[m]
      /\ q[Len(queued) + 1] = h
  BY <1>2, <1>3, AppendProperties
<1>6. /\ d \in {0, 1} /\ d <= Len(b)
      /\ d = 1 => Len(b) = MAXBUFFERSIZE
  BY <1>3
<1> DEFINE o == Len(queued) - Len(b)
           p == Len(q) - Len(t)
<1> HIDE DEF d, t, q
<1>7. /\ o \in Nat /\ p = o + d /\ Len(t) <= Len(q)
      /\ o = Offset /\ Offset' = p
  BY <1>1, <1>3, <1>4, <1>5, <1>6 DEF BufferInv, Offset
<1>8. \A j \in 1 .. Len(b) : b[j] = queued[o + j]
  BY <1>7 DEF BufferInv
<1> HIDE DEF o, p
<1>9. ASSUME NEW j \in 1 .. Len(t) PROVE t[j] = q[p + j]
  <2>1. CASE j = Len(t)
    <3>1. p + j = Len(queued) + 1
      BY <1>3, <1>4, <1>5, <1>6, <2>1 DEF p
    <3> QED BY <1>4, <1>5, <2>1, <3>1
  <2>2. CASE j # Len(t)
    <3>4. j \in 1 .. Len(b) - d /\ j + d \in 1 .. Len(b)
      BY <1>3, <1>4, <1>6, <2>2
    <3>5. Len(queued) = o + Len(b)
      BY <1>3 DEF o
    <3>1. /\ j \in 1 .. Len(b) - d /\ j + d \in 1 .. Len(b)
          /\ o + (j + d) = p + j /\ p + j \in 1 .. Len(queued)
      BY <1>3, <1>6, <1>7, <3>4, <3>5
    <3>2. t[j] = b[j + d] /\ b[j + d] = queued[o + (j + d)]
      BY <1>4, <1>8, <3>1
    <3>3. q[p + j] = queued[p + j]
      BY <1>5, <3>1
    <3> QED BY <3>1, <3>2, <3>3
  <2> QED BY <2>1, <2>2
<1>10. \A m \in 1 .. o : m \in 1 .. p /\ q[m] = queued[m]
  <2> TAKE m \in 1 .. o
  <2>1. m \in 1 .. p
    BY <1>6, <1>7
  <2>2. m \in 1 .. Len(queued)
    BY <1>3, <1>7 DEF o
  <2> QED BY <1>5, <2>1, <2>2
<1>11. \A i \in DOMAIN received : \E m \in 1 .. p : q[m] = received[i]
  BY <1>7, <1>10 DEF BufferInv
<1>12. /\ DOMAIN queued = 1 .. Len(queued) /\ DOMAIN q = 1 .. Len(queued) + 1
  BY <1>3, <1>5
<1>13. \A m \in DOMAIN queued : m \in DOMAIN q /\ q[m] = queued[m]
  BY <1>3, <1>5, <1>12
<1>14. \A i, j \in DOMAIN received : i < j =>
        \E m, n \in DOMAIN q : m < n /\ q[m] = received[i] /\ q[n] = received[j]
  BY <1>13 DEF BufferInv
<1>15. ASSUME NEW j \in 1 .. p
       PROVE  \/ \E i \in DOMAIN received : received[i] = q[j]
              \/ j + MAXBUFFERSIZE <= Len(q)
  <2>1. CASE j \in 1 .. o
    <3>1. \/ \E i \in DOMAIN received : received[i] = queued[j]
          \/ j + MAXBUFFERSIZE <= Len(queued)
      BY <1>7, <2>1 DEF BufferInv
    <3>2. CASE \E i \in DOMAIN received : received[i] = queued[j]
      BY <1>10, <2>1, <3>2
    <3>3. CASE j + MAXBUFFERSIZE <= Len(queued)
      BY <1>3, <1>5, <3>3
    <3> QED BY <3>1, <3>2, <3>3
  <2>2. CASE j \notin 1 .. o
    <3>1. j = o + 1 /\ d = 1
      BY <1>6, <1>7, <2>2
    <3> QED BY <1>3, <1>5, <1>6, <3>1 DEF o
  <2> QED BY <2>1, <2>2
<1> QED BY <1>1, <1>7, <1>9, <1>11, <1>14, <1>15 DEF BufferInv

LEMMA LineReturned ==
  ASSUME TypeInv, BufferInv, Recv
  PROVE  BufferInv'
<1> DEFINE b == inputStringBuffer
           t == Tail(b)
           r == Append(received, Head(b))
           o == Len(queued) - Len(b)
<1>1. /\ b # <<>> /\ inputStringBuffer' = t /\ received' = r
      /\ queued' = queued
  BY DEF Recv, ControllerStep, ControllerAt
<1>2. /\ b \in Seq(Line) /\ received \in Seq(Line) /\ queued \in Seq(Line)
      /\ Len(queued) \in Nat
  BY DEF TypeInv, LineTypes
<1>3. /\ Len(b) \in Nat \ {0} /\ Len(t) = Len(b) - 1
      /\ \A j \in 1 .. Len(b) - 1 : t[j] = b[j + 1]
      /\ Head(b) = b[1]
  BY <1>1, <1>2
<1>4. /\ DOMAIN received = 1 .. Len(received) /\ Len(received) \in Nat
      /\ DOMAIN r = 1 .. Len(received) + 1
      /\ r[Len(received) + 1] = b[1]
      /\ \A i \in 1 .. Len(received) : r[i] = received[i]
  <2>1. Head(b) \in Line
    BY <1>1, <1>2, HeadTailProperties
  <2> HIDE DEF b
  <2> QED BY <1>2, <1>3, <2>1
<1>5. o \in Nat /\ o = Offset /\ \A j \in 1 .. Len(b) : b[j] = queued[o + j]
  BY <1>2, <1>3 DEF BufferInv, Offset
<1> HIDE DEF r, t
<1>6. Offset' = o + 1 /\ Len(t) <= Len(queued)
  BY <1>1, <1>2, <1>3, <1>5 DEF Offset
<1>7. DOMAIN queued = 1 .. Len(queued) /\ o + 1 \in DOMAIN queued
  BY <1>2, <1>3, <1>5
<1>8. b[1] = queued[o + 1]
  BY <1>3, <1>5
<1> HIDE DEF o
<1>9. \A j \in 1 .. Len(t) : t[j] = queued[(o + 1) + j]
  <2> TAKE j \in 1 .. Len(t)
  <2>1. /\ j \in 1 .. Len(b) - 1 /\ j + 1 \in 1 .. Len(b)
        /\ o + (j + 1) = (o + 1) + j
    BY <1>3, <1>5
  <2>2. t[j] = b[j + 1] /\ b[j + 1] = queued[o + (j + 1)]
    BY <1>3, <1>5, <2>1
  <2> QED BY <2>1, <2>2
<1> HIDE DEF b
<1>10. \A i \in DOMAIN r :
         \/ i = Len(received) + 1 /\ r[i] = queued[o + 1]
         \/ i \in DOMAIN received /\ r[i] = received[i]
  BY <1>4, <1>8
<1>11. \A i \in DOMAIN received : \E m \in 1 .. o : queued[m] = received[i]
  BY <1>5 DEF BufferInv
<1>12. /\ \A m \in 1 .. o : m \in 1 .. o + 1 /\ m \in DOMAIN queued /\ m < o + 1
       /\ o + 1 \in 1 .. o + 1
  BY <1>2, <1>5, <1>7
<1>13. \A i \in DOMAIN r : \E m \in 1 .. o + 1 : queued[m] = r[i]
  BY <1>10, <1>11, <1>12
<1>14. ASSUME NEW i \in DOMAIN r, NEW j \in DOMAIN r, i < j
       PROVE  \E m, n \in DOMAIN queued :
                m < n /\ queued[m] = r[i] /\ queued[n] = r[j]
  <2>1. i \in DOMAIN received /\ r[i] = received[i]
    BY <1>4, <1>14
  <2>2. CASE j = Len(received) + 1 /\ r[j] = queued[o + 1]
    <3>1. PICK m \in 1 .. o : queued[m] = received[i]
      BY <1>11, <2>1
    <3> QED BY <1>7, <1>12, <2>1, <2>2, <3>1
  <2>3. CASE j \in DOMAIN received /\ r[j] = received[j]
    BY <1>14, <2>1, <2>3 DEF BufferInv
  <2> QED BY <1>10, <2>2, <2>3
<1>15. ASSUME NEW j \in 1 .. o + 1
       PROVE  \/ \E i \in DOMAIN r : r[i] = queued[j]
              \/ j + MAXBUFFERSIZE <= Len(queued)
  <2>0. /\ \A i \in DOMAIN received : i \in DOMAIN r /\ r[i] = received[i]
        /\ Len(received) + 1 \in DOMAIN r
    BY <1>4
  <2>1. CASE j = o + 1
    BY <1>4, <1>8, <2>0, <2>1
  <2>2. CASE j \in 1 .. o
    BY <1>5, <2>0, <2>2 DEF BufferInv
  <2> QED BY <1>5, <2>1, <2>2
<1> QED BY <1>1, <1>6, <1>9, <1>13, <1>14, <1>15 DEF BufferInv

LEMMA BufferStep ==
  ASSUME TypeInv, BufferInv, [Next]_vars
  PROVE  BufferInv'
<1>1. CASE ReceiveLine
  BY <1>1, BufferedLine
<1>2. CASE Recv
  BY <1>2, LineReturned
<1>3. CASE ~ReceiveLine /\ ~Recv
  <2>1. UNCHANGED <<inputStringBuffer, queued, received>>
    <3>1. CASE AcceptNext
      BY <3>1, AcceptOnly DEF queueVars
    <3>2. CASE ClientsNext
      BY <1>3, <3>2 DEF ClientsNext, TestClientsStop, ReceiveDataFromClients,
           EndOfScan, ReadClient, EraseClient, NextClient, ReadThrows,
           TakeReply, EndOfWrite, TestClient, WriteLine, WriteThrows,
           CloseAllClients, ClientsStep, WriteStep, ClientsAt, queueVars
    <3>3. CASE ControllerNext
      BY <1>3, <3>3 DEF ControllerNext, FinishCall, Start, Stop, BeginStop,
           StopServerSocket, JoinServerThread, JoinClientsThread,
           SpawnThreads, SeeReady, GiveUp, ControllerStep, ControllerAt
    <3>4. CASE ClientNext
      BY <3>4 DEF ClientNext, Connect, BeginLine, FinishLine, SendTooMuch,
                  Disconnect, ClientActs, queueVars
    <3>5. CASE SendNext \/ UNCHANGED vars
      BY <3>5, SendOnly DEF vars, queueVars
    <3> QED BY <3>1, <3>2, <3>3, <3>4, <3>5 DEF Next
  <2> QED BY <2>1 DEF BufferInv, Offset
<1> QED BY <1>1, <1>2, <1>3

LEMMA LinesAlways == Spec => [](TypeInv /\ SentInOrder /\ BufferInv)
<1>1. Init => TypeInv /\ SentInOrder /\ BufferInv
  BY InitTypes, LinesInit
<1>2. TypeInv /\ SentInOrder /\ BufferInv /\ [Next]_vars
        => (TypeInv /\ SentInOrder /\ BufferInv)'
  BY TypeStep, OrderStep, BufferStep
<1> QED BY <1>1, <1>2, PTL DEF Spec

(* Recv hands out the lines in the order they were read, and those of a    *)
(* client are read in the order it sent them.                              *)
THEOREM LinesComeInOrder == Spec => []LinesInOrder
<1>1. SentInOrder /\ BufferInv => LinesInOrder
  BY DEF SentInOrder, BufferInv, LinesInOrder
<1> QED BY <1>1, LinesAlways, PTL

(* A full input queue costs the oldest lines only.                         *)
THEOREM OverflowCostsOldest == Spec => []LostOnlyToNewer
<1>1. TypeInv /\ BufferInv => LostOnlyToNewer
  <2> SUFFICES ASSUME TypeInv, BufferInv, NEW j \in DOMAIN queued
               PROVE  \/ queued[j] \in Elements(received)
                                         \cup Elements(inputStringBuffer)
                      \/ j + MAXBUFFERSIZE <= Len(queued)
    BY DEF LostOnlyToNewer
  <2>1. /\ Len(queued) \in Nat /\ Len(inputStringBuffer) \in Nat
        /\ DOMAIN queued = 1 .. Len(queued)
        /\ DOMAIN inputStringBuffer = 1 .. Len(inputStringBuffer)
    BY DEF TypeInv, LineTypes
  <2>2. CASE j \in 1 .. Offset
    BY <2>2 DEF BufferInv, Elements
  <2>3. CASE j \notin 1 .. Offset
    <3>1. /\ j - Offset \in DOMAIN inputStringBuffer
          /\ Offset + (j - Offset) = j
      BY <2>1, <2>3 DEF Offset, BufferInv
    <3>2. inputStringBuffer[j - Offset] = queued[j]
      BY <2>1, <3>1 DEF BufferInv
    <3> QED BY <3>1, <3>2 DEF Elements
  <2> QED BY <2>2, <2>3
<1> QED BY <1>1, LinesAlways, PTL

-----------------------------------------------------------------------------
(* Replies to the clients.                                                 *)

(* The sender is to add its line to the queue.                             *)
Adding(s) == spc[s] = "add"

(* A reply that was taken out of the queue may precede all that are in it  *)
(* or on their way into it, and is no newer than the last call of Send.    *)
Taken(x) ==
  /\ x <= replies
  /\ \A s \in Sender : Adding(s) => MayPrecede(x, line[s])
  /\ \A i \in DOMAIN outputStringBuffer : MayPrecede(x, outputStringBuffer[i])

Writing == kpc \in {"write", "write_line"}

(* The clients that the pass has gone past.                                *)
Passed(c) == \E i \in 1 .. index - 1 : i \in DOMAIN tcpClients /\ tcpClients[i] = c

(* Two calls that are under way overlap: their lines may come either way.  *)
SendersInv ==
  /\ \A s \in Sender : spc[s] # "none" => line[s] <= replies
  /\ \A r, s \in Sender :
       r # s /\ spc[r] # "none" /\ spc[s] # "none" =>
         MayPrecede(line[r], line[s])
  /\ cpc # "idle" => \A s \in Sender : spc[s] = "none"
QueueInv ==
  /\ InOrder(outputStringBuffer)
  /\ \A i \in DOMAIN outputStringBuffer :
       /\ outputStringBuffer[i] <= replies
       /\ \A s \in Sender :
            Adding(s) => MayPrecede(outputStringBuffer[i], line[s])
GotInv ==
  /\ \A c \in Client : InOrder(got[c])
  /\ \A c \in Client : \A i \in DOMAIN got[c] : Taken(got[c][i])
  /\ Writing => Taken(data)
  /\ Writing => \A c \in Client : Passed(c) \/
                   \A i \in DOMAIN got[c] : MayPrecede(got[c][i], data)
RepliesInv == QueueInv /\ GotInv

LEMMA RepliesInit == Init => RepliesInv /\ SendersInv
BY DEF Init, RepliesInv, QueueInv, GotInv, SendersInv, Taken, Writing, InOrder,
       Adding

(* No one but the senders begins or ends a call of Send, and Stop begins   *)
(* when none is under way.                                                 *)
LEMMA SendersUntouched ==
  ASSUME [Next]_vars, ~SendNext
  PROVE  UNCHANGED <<spc, line, overlap>>
<1>1. CASE ClientsNext
  BY <1>1 DEF ClientsNext, TestClientsStop, ReceiveDataFromClients, EndOfScan,
       ReadClient, EraseClient, ReceiveLine, NextClient, ReadThrows, TakeReply,
       EndOfWrite, TestClient, WriteLine, WriteThrows, CloseAllClients,
       ClientsStep, WriteStep, ClientsAt, sendVars
<1>2. CASE ClientNext
  BY <1>2 DEF ClientNext, Connect, BeginLine, FinishLine, SendTooMuch,
              Disconnect, ClientActs, sendVars
<1> QED BY <1>1, <1>2, AcceptOnly, ControllerOnlyTouches DEF Next, vars, sendVars

LEMMA SendersStep == TypeInv /\ SendersInv /\ [Next]_vars => SendersInv'
<1> SUFFICES ASSUME TypeInv, SendersInv, [Next]_vars PROVE SendersInv'
  OBVIOUS
<1>1. CASE SendNext
  <2>1. PICK s \in Sender : Send(s) \/ AddReply(s) \/ ClearReplies(s)
    BY <1>1 DEF SendNext, FinishSend
  <2>2. cpc' = cpc
    BY <1>1, SendOnly DEF controlVars
  <2>3. /\ spc \in [Sender -> SenderPC] /\ line \in [Sender -> Nat]
        /\ replies \in Nat
    BY ServerAssumption DEF TypeInv, ReplyTypes
  <2>4. CASE Send(s)
    <3>1. /\ cpc = "idle" /\ spc[s] = "none" /\ replies' = replies + 1
          /\ line' = [line EXCEPT ![s] = replies + 1]
          /\ \A q \in Sender : q # s => spc'[q] = spc[q] /\ line'[q] = line[q]
          /\ line'[s] = replies + 1
      BY <2>3, <2>4 DEF Send, SendAt
    <3>2. /\ overlap \subseteq overlap'
          /\ \A q \in Sender : spc[q] # "none" => <<line[q], replies + 1>> \in overlap'
      BY <2>4 DEF Send
    <3>3. \A q \in Sender : q # s /\ spc'[q] # "none" =>
            line[q] <= replies /\ line[q] \in Nat
      BY <2>3, <3>1 DEF SendersInv
    <3>4. \A q \in Sender : q # s /\ spc'[q] # "none" =>
            MayPrecede(line[q], line[s])' /\ MayPrecede(line[s], line[q])'
      BY <2>3, <3>1, <3>2, <3>3 DEF MayPrecede
    <3>5. \A q, r \in Sender : q # r /\ q # s /\ r # s
                                /\ spc'[q] # "none" /\ spc'[r] # "none" =>
            MayPrecede(line[q], line[r])'
      BY <3>1, <3>2 DEF SendersInv, MayPrecede
    <3>6. \A q \in Sender : spc'[q] # "none" => line'[q] <= replies'
      BY <2>3, <3>1, <3>3
    <3> QED BY <2>2, <3>1, <3>4, <3>5, <3>6 DEF SendersInv
  <2>5. CASE AddReply(s) \/ ClearReplies(s)
    <3>1. /\ UNCHANGED <<replies, overlap>> /\ spc'[s] = "none"
          /\ \A q \in Sender : q # s => spc'[q] = spc[q] /\ line'[q] = line[q]
      BY <2>3, <2>5 DEF AddReply, ClearReplies, SendAt
    <3> QED BY <2>2, <3>1 DEF SendersInv, MayPrecede
  <2> QED BY <2>1, <2>4, <2>5
<1>2. CASE ~SendNext
  <2>1. UNCHANGED <<spc, line, overlap>>
    BY <1>2, SendersUntouched
  <2>2. replies' = replies
    <3>1. CASE ClientsNext
      BY <3>1 DEF ClientsNext, TestClientsStop, ReceiveDataFromClients,
           EndOfScan, ReadClient, EraseClient, ReceiveLine, NextClient,
           ReadThrows, TakeReply, EndOfWrite, TestClient, WriteLine,
           WriteThrows, CloseAllClients, ClientsStep, WriteStep, ClientsAt
    <3>2. CASE ClientNext
      BY <3>2 DEF ClientNext, Connect, BeginLine, FinishLine, SendTooMuch,
                  Disconnect, ClientActs, queueVars
    <3> QED BY <1>2, <3>1, <3>2, AcceptOnly, ControllerOnlyTouches
            DEF Next, vars, queueVars
  <2>3. cpc' # "idle" => cpc # "idle" \/ \A s \in Sender : spc[s] = "none"
    <3>1. CASE ControllerNext
      <4>1. CASE Start \/ Stop
        BY <4>1 DEF Start, Stop, BeginStop
      <4>2. CASE StopServerSocket
        BY <4>2 DEF StopServerSocket, SocketClose, Shutdown, CloseDescriptor,
                    ForgetDescriptor
      <4>3. CASE Recv \/ JoinServerThread \/ JoinClientsThread \/ SpawnThreads
                   \/ SeeReady \/ GiveUp
        BY <4>3 DEF Recv, JoinServerThread, JoinClientsThread, SpawnThreads,
                    SeeReady, GiveUp, ControllerStep, ControllerAt
      <4> QED BY <3>1, <4>1, <4>2, <4>3 DEF ControllerNext, FinishCall
    <3>2. CASE ClientsNext
      BY <3>2 DEF ClientsNext, TestClientsStop, ReceiveDataFromClients,
           EndOfScan, ReadClient, EraseClient, ReceiveLine, NextClient,
           ReadThrows, TakeReply, EndOfWrite, TestClient, WriteLine,
           WriteThrows, CloseAllClients, ClientsStep, WriteStep, ClientsAt,
           controlVars
    <3>3. CASE ClientNext
      BY <3>3 DEF ClientNext, Connect, BeginLine, FinishLine, SendTooMuch,
                  Disconnect, ClientActs, controlVars
    <3> QED BY <1>2, <3>1, <3>2, <3>3, AcceptOnly DEF Next, vars, controlVars
  <2> QED BY <2>1, <2>2, <2>3 DEF SendersInv, MayPrecede
<1> QED BY <1>1, <1>2

LEMMA ReplyNumbers ==
  ASSUME TypeInv
  PROVE  /\ replies \in Nat /\ data \in Nat
         /\ \A i \in DOMAIN outputStringBuffer : outputStringBuffer[i] \in Nat
         /\ \A c \in Client : \A i \in DOMAIN got[c] : got[c][i] \in Nat
<1>1. /\ replies \in 0 .. MaxReplies /\ data \in Nat
      /\ outputStringBuffer \in Seq(Nat) /\ \A c \in Client : got[c] \in Seq(Nat)
  BY DEF TypeInv, ReplyTypes
<1>2. \A s \in Seq(Nat) : \A i \in DOMAIN s : s[i] \in Nat
  OBVIOUS
<1>3. replies \in Nat
  BY <1>1, ServerAssumption
<1> QED BY <1>1, <1>2, <1>3, Zenon

(* A step that leaves the replies alone, and the list during a pass.       *)
LEMMA RepliesUntouched ==
  ASSUME RepliesInv, UNCHANGED <<outputStringBuffer, replies, got>>,
         UNCHANGED <<spc, line, overlap>>,
         Writing' => Writing /\ UNCHANGED <<index, data, tcpClients>>
  PROVE  RepliesInv'
<1>1. \A x, y : MayPrecede(x, y) => MayPrecede(x, y)'
  BY DEF MayPrecede
<1>2. QueueInv'
  BY DEF RepliesInv, QueueInv, InOrder, MayPrecede, Adding
<1>3. GotInv'
  BY DEF RepliesInv, GotInv, InOrder, Taken, Passed, MayPrecede, Adding
<1> QED BY <1>2, <1>3 DEF RepliesInv

LEMMA ReplyTaken ==
  ASSUME TypeInv, RepliesInv, TakeReply
  PROVE  RepliesInv'
<1> DEFINE o == outputStringBuffer
<1>1. UNCHANGED <<replies, got, tcpClients, spc, line, overlap>>
  BY DEF TakeReply, ClientsAt, sendVars
<1>2. CASE o = <<>>
  <2>1. kpc' = "test" /\ outputStringBuffer' = outputStringBuffer
    BY <1>2 DEF TakeReply
  <2> QED BY <1>1, <2>1, RepliesUntouched DEF Writing
<1>3. CASE o # <<>>
  <2>1. /\ data' = Head(o) /\ outputStringBuffer' = Tail(o) /\ index' = 1
    BY <1>3 DEF TakeReply
  <2>2. o \in Seq(Nat)
    BY DEF TypeInv, ReplyTypes
  <2>3. /\ Len(o) \in Nat \ {0} /\ DOMAIN o = 1 .. Len(o) /\ Head(o) = o[1]
        /\ DOMAIN Tail(o) = 1 .. Len(o) - 1
        /\ \A i \in 1 .. Len(o) - 1 : Tail(o)[i] = o[i + 1]
    BY <1>3, <2>2
  <2> DEFINE u == Tail(o)
  <2>4. /\ \A i \in DOMAIN u : i + 1 \in DOMAIN o /\ u[i] = o[i + 1] /\ 1 < i + 1
        /\ 1 \in DOMAIN o
        /\ \A i, j \in DOMAIN u : i < j => i + 1 < j + 1
    BY <2>3
  <2>5. data' = o[1] /\ outputStringBuffer' = u
    BY <2>1, <2>3
  <2> HIDE DEF u
  <2>6. /\ \A i, j \in DOMAIN o : i < j => MayPrecede(o[i], o[j])
        /\ \A i \in DOMAIN o :
             /\ o[i] <= replies
             /\ \A s \in Sender : Adding(s) => MayPrecede(o[i], line[s])
    BY DEF RepliesInv, QueueInv, InOrder
  <2>7. \A c \in Client : \A i \in DOMAIN got[c] :
          /\ got[c][i] <= replies
          /\ \A s \in Sender : Adding(s) => MayPrecede(got[c][i], line[s])
          /\ \A j \in DOMAIN o : MayPrecede(got[c][i], o[j])
    BY DEF RepliesInv, GotInv, Taken
  <2> HIDE DEF o
  <2>8. QueueInv'
    <3>1. InOrder(outputStringBuffer)'
      BY <1>1, <2>4, <2>5, <2>6 DEF InOrder, MayPrecede
    <3>2. \A i \in DOMAIN u :
            /\ u[i] <= replies
            /\ \A s \in Sender : Adding(s) => MayPrecede(u[i], line[s])
      BY <2>4, <2>6
    <3> QED BY <1>1, <2>5, <3>1, <3>2 DEF QueueInv, MayPrecede, Adding
  <2>9. GotInv'
    <3>1. \A c \in Client : InOrder(got[c])'
      BY <1>1 DEF RepliesInv, GotInv, InOrder, MayPrecede
    <3>2. \A c \in Client : \A i \in DOMAIN got'[c] : Taken(got[c][i])'
      BY <1>1, <2>4, <2>5, <2>7 DEF Taken, MayPrecede, Adding
    <3>3. Taken(data)'
      BY <1>1, <2>4, <2>5, <2>6 DEF Taken, MayPrecede, Adding
    <3>4. \A c \in Client : \A i \in DOMAIN got'[c] : MayPrecede(got[c][i], data)'
      BY <1>1, <2>4, <2>5, <2>7 DEF MayPrecede
    <3> QED BY <1>1, <3>1, <3>2, <3>3, <3>4 DEF GotInv
  <2> QED BY <2>8, <2>9 DEF RepliesInv
<1> QED BY <1>2, <1>3

LEMMA ReplyWritten ==
  ASSUME TypeInv, RepliesInv, ListInv, TestClient \/ WriteLine
  PROVE  RepliesInv'
<1>1. /\ UNCHANGED <<replies, spc, line, overlap, tcpClients, data,
                     outputStringBuffer>>
      /\ Writing /\ index \in DOMAIN tcpClients
      /\ index' = index \/ index' = index + 1
  BY DEF TestClient, WriteLine, WriteStep, ClientsAt, sendVars, Writing, InList
<1>c. PICK c \in Client : c = Current
  BY <1>1, ElementOfSeq DEF TypeInv, ServerTypes, Current
<1>2. c \in Client /\ c = tcpClients[index] /\ index \in 1 .. Len(tcpClients)
      /\ Len(tcpClients) \in Nat
  BY <1>1, <1>c DEF TypeInv, ServerTypes, Current
<1>3. QueueInv'
  BY <1>1 DEF RepliesInv, QueueInv, InOrder, MayPrecede, Adding
<1>4. \A x : Taken(x) <=> Taken(x)'
  BY <1>1 DEF Taken, MayPrecede, Adding
<1>5. \A d : Passed(d) => Passed(d)'
  BY <1>1, <1>2 DEF Passed
<1>6. CASE got' = got
  <2>1. \A c0 \in Client : InOrder(got[c0])'
    BY <1>1, <1>6 DEF RepliesInv, GotInv, InOrder, MayPrecede
  <2>2. \A c0 \in Client : \A i \in DOMAIN got'[c0] : Taken(got[c0][i])'
    BY <1>1, <1>6 DEF RepliesInv, GotInv, Taken, MayPrecede, Adding
  <2>3. Taken(data)'
    BY <1>1 DEF RepliesInv, GotInv, Taken, MayPrecede, Adding
  <2>4. \A c0 \in Client : Passed(c0)' \/
          \A i \in DOMAIN got'[c0] : MayPrecede(got[c0][i], data)'
    BY <1>1, <1>5, <1>6 DEF RepliesInv, GotInv, MayPrecede
  <2> QED BY <1>3, <2>1, <2>2, <2>3, <2>4 DEF RepliesInv, GotInv
<1>7. CASE got' # got
  <2> DEFINE g == Append(got[c], data)
             n == Len(got[c])
  <2>1. index' = index + 1 /\ got' = [got EXCEPT ![c] = g]
    BY <1>7, <1>c DEF TestClient, WriteLine, WriteStep
  <2>2. /\ got \in [Client -> Seq(Nat)] /\ got[c] \in Seq(Nat) /\ data \in Nat
    BY <1>2 DEF TypeInv, ReplyTypes
  <2>3. /\ DOMAIN got[c] = 1 .. n /\ DOMAIN g = 1 .. n + 1 /\ n \in Nat
        /\ g[n + 1] = data /\ \A i \in 1 .. n : g[i] = got[c][i]
    BY <2>2
  <2>4. \A d \in Client : got'[d] = IF d = c THEN g ELSE got[d]
    BY <2>1, <2>2
  <2> HIDE DEF g, n
  <2>5. ~Passed(c)
    <3> SUFFICES ASSUME NEW i \in 1 .. index - 1, i \in DOMAIN tcpClients,
                        tcpClients[i] = c
                 PROVE  FALSE
      BY DEF Passed
    <3>1. i = index
      BY <1>1, <1>2 DEF ListInv, Distinct
    <3> QED BY <1>2, <3>1
  <2>6. Passed(c)'
    <3>1. index \in 1 .. index' - 1
      BY <1>2, <2>1
    <3> QED BY <1>1, <1>2, <3>1 DEF Passed
  <2>7. \A i \in DOMAIN got[c] : MayPrecede(got[c][i], data) /\ Taken(got[c][i])
    BY <1>1, <1>2, <2>5 DEF RepliesInv, GotInv
  <2>8. ASSUME NEW i \in DOMAIN g
        PROVE  \/ i = n + 1 /\ g[i] = data
               \/ /\ i \in DOMAIN got[c] /\ g[i] = got[c][i]
                  /\ MayPrecede(g[i], data)
    <3>1. CASE i = n + 1
      BY <2>3, <3>1
    <3>2. CASE i # n + 1
      <4>1. i \in 1 .. n
        BY <2>3, <3>2
      <4> QED BY <2>3, <2>7, <4>1
    <3> QED BY <3>1, <3>2
  <2>9. InOrder(g)
    <3> SUFFICES ASSUME NEW i \in DOMAIN g, NEW j \in DOMAIN g, i < j
                 PROVE  MayPrecede(g[i], g[j])
      BY DEF InOrder
    <3>1. i \in DOMAIN got[c] /\ g[i] = got[c][i] /\ MayPrecede(g[i], data)
      BY <2>3, <2>7
    <3>2. CASE j = n + 1 /\ g[j] = data
      BY <3>1, <3>2
    <3>3. CASE j \in DOMAIN got[c] /\ g[j] = got[c][j]
      BY <1>2, <3>1, <3>3 DEF RepliesInv, GotInv, InOrder
    <3> QED BY <2>8, <3>2, <3>3
  <2>10. Taken(data)
    BY <1>1 DEF RepliesInv, GotInv
  <2>11. \A i \in DOMAIN g : Taken(g[i])
    BY <2>7, <2>8, <2>10
  <2>12. ASSUME NEW d \in Client
         PROVE  /\ InOrder(got'[d]) /\ \A i \in DOMAIN got'[d] : Taken(got'[d][i])
                /\ Passed(d)' \/ \A i \in DOMAIN got'[d] : MayPrecede(got'[d][i], data)
    <3>1. CASE d = c
      BY <2>4, <2>6, <2>9, <2>11, <3>1
    <3>2. CASE d # c
      BY <1>1, <1>5, <2>4, <3>2 DEF RepliesInv, GotInv
    <3> QED BY <3>1, <3>2
  <2>13. Taken(data)'
    BY <1>1, <2>10 DEF Taken, MayPrecede, Adding
  <2>14. \A d \in Client : \A i \in DOMAIN got'[d] : Taken(got[d][i])'
    BY <2>12, <1>1 DEF Taken, MayPrecede, Adding
  <2>16. \A d \in Client : InOrder(got[d])'
    BY <2>12, <1>1 DEF InOrder, MayPrecede
  <2>17. \A d \in Client : Passed(d)' \/
           \A i \in DOMAIN got'[d] : MayPrecede(got[d][i], data)'
    BY <2>12, <1>1 DEF MayPrecede
  <2>15. GotInv'
    BY <2>13, <2>14, <2>16, <2>17 DEF GotInv
  <2> QED BY <1>3, <2>15 DEF RepliesInv
<1> QED BY <1>6, <1>7

(* Send, and what follows it.                                              *)
LEMMA ReplyQueued ==
  ASSUME TypeInv, SendersInv, RepliesInv, SendNext
  PROVE  RepliesInv'
<1>0. UNCHANGED <<got, index, data, tcpClients, kpc>>
  BY SendOnly DEF passVars
<1>1. \A c : Passed(c) => Passed(c)'
  BY <1>0 DEF Passed
<1>2. /\ replies \in Nat /\ data \in Nat
      /\ \A i \in DOMAIN outputStringBuffer : outputStringBuffer[i] \in Nat
      /\ \A c \in Client : \A i \in DOMAIN got[c] : got[c][i] \in Nat
  BY ReplyNumbers
<1>p. PICK s \in Sender : Send(s) \/ AddReply(s) \/ ClearReplies(s)
  BY DEF SendNext, FinishSend
<1>t. spc \in [Sender -> SenderPC] /\ line \in [Sender -> Nat]
  BY DEF TypeInv, ReplyTypes
(* What may precede another line may still: overlaps are only added.       *)
<1>m. overlap \subseteq overlap' /\ \A x, y : MayPrecede(x, y) => MayPrecede(x, y)'
  <2>1. overlap \subseteq overlap'
    BY <1>p DEF Send, AddReply, ClearReplies
  <2> QED BY <2>1 DEF MayPrecede
<1>3. ASSUME QueueInv', \A x \in Nat : Taken(x) => Taken(x)'
      PROVE  RepliesInv'
  <2>1. \A c \in Client : InOrder(got[c])'
    <3>1. \A c \in Client : \A i, j \in DOMAIN got[c] :
            i < j => MayPrecede(got[c][i], got[c][j])
      BY DEF RepliesInv, GotInv, InOrder
    <3> QED BY <1>0, <1>m, <3>1 DEF InOrder, MayPrecede
  <2>5. \A c \in Client : \A i \in DOMAIN got'[c] : Taken(got[c][i])'
    <3> SUFFICES ASSUME NEW c \in Client, NEW i \in DOMAIN got'[c]
                 PROVE  Taken(got[c][i])'
      OBVIOUS
    <3>1. i \in DOMAIN got[c] /\ got[c][i] \in Nat
      BY <1>0, <1>2
    <3>2. PICK x \in Nat : x = got[c][i]
      BY <3>1
    <3>3. Taken(x)
      BY <3>1, <3>2 DEF RepliesInv, GotInv
    <3>4. Taken(x)'
      BY <1>3, <3>3
    <3> QED BY <1>0, <3>2, <3>4 DEF Taken, MayPrecede
  <2>2. Writing' => Taken(data)'
    <3> SUFFICES ASSUME Writing' PROVE Taken(data)'
      OBVIOUS
    <3>1. Taken(data) /\ data' = data
      BY <1>0 DEF RepliesInv, GotInv, Writing
    <3> QED BY <1>2, <1>3, <3>1 DEF Taken, MayPrecede
  <2>3. Writing' => \A c \in Client : Passed(c)' \/
                      \A i \in DOMAIN got'[c] : MayPrecede(got[c][i], data)'
    <3>1. Writing => \A c \in Client : Passed(c) \/
                       \A i \in DOMAIN got[c] : MayPrecede(got[c][i], data)
      BY DEF RepliesInv, GotInv
    <3> QED BY <1>0, <1>1, <1>m, <3>1 DEF Writing, MayPrecede
  <2>4. GotInv'
    BY <2>1, <2>5, <2>2, <2>3 DEF GotInv
  <2> QED BY <1>3, <2>4 DEF RepliesInv
<1>4. CASE Send(s)
  <2>1. /\ replies' = replies + 1 /\ outputStringBuffer' = outputStringBuffer
        /\ line'[s] = replies + 1
        /\ \A q \in Sender : q # s => spc'[q] = spc[q] /\ line'[q] = line[q]
    BY <1>t, <1>4 DEF Send, SendAt
  <2>2. ASSUME NEW x \in Nat, x <= replies,
               \A q \in Sender : Adding(q) => MayPrecede(x, line[q])
        PROVE  /\ x <= replies'
               /\ \A q \in Sender : Adding(q)' => MayPrecede(x, line[q])'
    <3>1. x <= replies' /\ MayPrecede(x, line[s])'
      BY <1>2, <2>1, <2>2 DEF MayPrecede
    <3>2. \A q \in Sender : q # s /\ Adding(q)' => MayPrecede(x, line[q])'
      BY <1>m, <2>1, <2>2 DEF Adding, MayPrecede
    <3> QED BY <3>1, <3>2
  <2>3. QueueInv'
    <3>1. InOrder(outputStringBuffer)'
      BY <1>m, <2>1 DEF RepliesInv, QueueInv, InOrder, MayPrecede
    <3>2. ASSUME NEW i \in DOMAIN outputStringBuffer
          PROVE  /\ outputStringBuffer[i] <= replies'
                 /\ \A q \in Sender :
                      Adding(q)' => MayPrecede(outputStringBuffer[i], line[q])'
      <4>1. PICK x \in Nat : x = outputStringBuffer[i]
        BY <1>2
      <4>2. x <= replies /\ \A q \in Sender : Adding(q) => MayPrecede(x, line[q])
        BY <4>1 DEF RepliesInv, QueueInv
      <4>3. x <= replies' /\ \A q \in Sender : Adding(q)' => MayPrecede(x, line[q])'
        BY <2>2, <4>2
      <4> QED BY <2>1, <4>1, <4>3 DEF MayPrecede
    <3> QED BY <2>1, <3>1, <3>2 DEF QueueInv, MayPrecede
  <2>4. ASSUME NEW x \in Nat, Taken(x) PROVE Taken(x)'
    <3>1. /\ x <= replies'
          /\ \A q \in Sender : Adding(q)' => MayPrecede(x, line[q])'
      BY <2>2, <2>4 DEF Taken
    <3>2. \A i \in DOMAIN outputStringBuffer' : MayPrecede(x, outputStringBuffer[i])'
      BY <1>m, <2>1, <2>4 DEF Taken, MayPrecede
    <3> QED BY <3>1, <3>2 DEF Taken
  <2> QED BY <1>3, <2>3, <2>4
<1>c. ASSUME AddReply(s) \/ ClearReplies(s)
      PROVE  /\ replies' = replies /\ overlap' = overlap
             /\ ~Adding(s)'
             /\ \A q \in Sender : Adding(q)' =>
                  q # s /\ Adding(q) /\ line'[q] = line[q]
  BY <1>t, <1>c DEF AddReply, ClearReplies, SendAt, Adding
<1>5. CASE ClearReplies(s)
  <2>1. outputStringBuffer' = <<>>
    BY <1>5 DEF ClearReplies
  <2>2. QueueInv'
    BY <2>1 DEF QueueInv, InOrder
  <2>3. \A x \in Nat : Taken(x) => Taken(x)'
    BY <1>c, <1>5, <2>1 DEF Taken, MayPrecede
  <2> QED BY <1>3, <2>2, <2>3
<1>6. CASE AddReply(s)
  <2> DEFINE o == outputStringBuffer
             u == AddToBuffer(o, line[s])
             d == IF Len(o) >= MAXBUFFERSIZE THEN 1 ELSE 0
  <2>1. outputStringBuffer' = u /\ Adding(s) /\ line[s] \in Nat
    BY <1>t, <1>6 DEF AddReply, SendAt, Adding
  <2>2. o \in Seq(Nat) /\ Len(o) <= MAXBUFFERSIZE /\ Len(o) \in Nat
        /\ DOMAIN o = 1 .. Len(o) /\ MAXBUFFERSIZE \in Nat \ {0}
    BY ServerAssumption DEF TypeInv, ReplyTypes
  <2>3. /\ u \in Seq(Nat) /\ Len(u) = Len(o) - d + 1
        /\ \A j \in 1 .. Len(o) - d : u[j] = o[j + d]
        /\ u[Len(o) - d + 1] = line[s]
    <3>1. ASSUME NEW b \in Seq(Nat), Len(b) <= MAXBUFFERSIZE, NEW m \in Nat
          PROVE  LET v == AddToBuffer(b, m)
                     e == IF Len(b) >= MAXBUFFERSIZE THEN 1 ELSE 0
                 IN /\ v \in Seq(Nat) /\ Len(v) = Len(b) - e + 1
                    /\ \A j \in 1 .. Len(b) - e : v[j] = b[j + e]
                    /\ v[Len(b) - e + 1] = m
      BY <3>1, Buffered
    <3>2. PICK m \in Nat : m = line[s]
      BY <2>1
    <3> QED BY <2>2, <3>1, <3>2
  <2>4. d \in {0, 1} /\ d <= Len(o)
    BY <2>2
  <2> HIDE DEF d
  <2>5. DOMAIN u = 1 .. Len(o) - d + 1
    BY <2>2, <2>3, <2>4
  <2>6. /\ \A i, j \in DOMAIN o : i < j => MayPrecede(o[i], o[j])
        /\ \A i \in DOMAIN o : /\ o[i] <= replies
                              /\ \A q \in Sender :
                                   Adding(q) => MayPrecede(o[i], line[q])
    BY DEF RepliesInv, QueueInv, InOrder
  <2> HIDE DEF u
  <2>7. ASSUME NEW i \in DOMAIN u
        PROVE  \/ i = Len(o) - d + 1 /\ u[i] = line[s]
               \/ /\ i + d \in DOMAIN o /\ u[i] = o[i + d]
                  /\ MayPrecede(u[i], line[s])
    <3>1. CASE i = Len(o) - d + 1
      BY <2>3, <3>1
    <3>2. CASE i # Len(o) - d + 1
      <4>1. i \in 1 .. Len(o) - d /\ i + d \in DOMAIN o
        BY <2>2, <2>4, <2>5, <3>2
      <4> QED BY <2>1, <2>3, <2>6, <4>1
    <3> QED BY <3>1, <3>2
  <2>8. ASSUME NEW i \in DOMAIN u, NEW j \in DOMAIN u, i < j
        PROVE  MayPrecede(u[i], u[j])
    <3>1. i # Len(o) - d + 1
      BY <2>2, <2>4, <2>5, <2>8
    <3>2. i + d \in DOMAIN o /\ u[i] = o[i + d] /\ MayPrecede(u[i], line[s])
      BY <2>7, <3>1
    <3>3. CASE j + d \in DOMAIN o /\ u[j] = o[j + d]
      <4>1. i + d < j + d
        BY <2>4, <2>5, <2>8
      <4> QED BY <2>6, <3>2, <3>3, <4>1
    <3>4. CASE u[j] = line[s]
      BY <3>2, <3>4
    <3> QED BY <2>7, <3>3, <3>4
  <2>s. /\ line[s] <= replies
        /\ \A q \in Sender :
             q # s /\ Adding(q) => MayPrecede(line[s], line[q])
    BY <2>1 DEF SendersInv, Adding
  <2>9. ASSUME NEW i \in DOMAIN u
        PROVE  /\ u[i] <= replies
               /\ \A q \in Sender :
                    q # s /\ Adding(q) => MayPrecede(u[i], line[q])
    BY <2>6, <2>7, <2>s
  <2>10. QueueInv'
    <3>1. InOrder(outputStringBuffer)'
      BY <1>c, <1>6, <2>1, <2>8 DEF InOrder, MayPrecede
    <3>2. \A i \in DOMAIN u : /\ u[i] <= replies'
                             /\ \A q \in Sender :
                                  Adding(q)' => MayPrecede(u[i], line'[q])
      BY <1>c, <1>6, <2>9
    <3> QED BY <1>c, <1>6, <2>1, <3>1, <3>2 DEF QueueInv, MayPrecede
  <2>11. ASSUME NEW x \in Nat, Taken(x) PROVE Taken(x)'
    <3>1. /\ x <= replies /\ MayPrecede(x, line[s])
          /\ \A q \in Sender : Adding(q) => MayPrecede(x, line[q])
          /\ \A i \in DOMAIN o : MayPrecede(x, o[i])
      BY <2>1, <2>11 DEF Taken
    <3>2. \A i \in DOMAIN u : MayPrecede(x, u[i])
      BY <2>7, <3>1
    <3>3. \A q \in Sender : Adding(q)' => MayPrecede(x, line'[q])
      BY <1>c, <1>6, <3>1
    <3> QED BY <1>c, <1>6, <2>1, <3>1, <3>2, <3>3 DEF Taken, MayPrecede
  <2> QED BY <1>3, <2>10, <2>11
<1> QED BY <1>p, <1>4, <1>5, <1>6

(* The list and the position in it stay while a line is written, but for   *)
(* the steps of the pass itself.                                           *)
LEMMA PassKeeps ==
  ASSUME TypeInv, [Next]_vars, Writing', ~(TakeReply \/ TestClient \/ WriteLine)
  PROVE  Writing /\ UNCHANGED <<index, data, tcpClients, got, kpc>>
<1>1. CASE AcceptNext
  <2>1. UNCHANGED <<kpc, index, data, got>>
    BY <1>1, AcceptOnly DEF passVars, queueVars
  <2>2. ~AddClient
    BY <2>1 DEF AddClient, Locked, Writing
  <2>3. tcpClients' = tcpClients
    BY <1>1, <2>2
    DEF AcceptNext, OpenServerSocket, TestServerStop, PollListener,
        AcceptClient, AcceptThrows, LeaveServerLoop, CloseServerSocket,
        AcceptStep
  <2> QED BY <2>1, <2>3 DEF Writing
<1>2. CASE ClientsNext
  <2>1. kpc' \notin {"write", "write_line"}
    <3>1. CASE Looks
      BY <3>1, LooksOnly DEF TypeInv, ServerTypes
    <3>2. CASE EraseClient \/ ReceiveLine \/ CloseAllClients
      BY <3>2 DEF EraseClient, ReceiveLine, CloseAllClients, ClientsAt, passVars
    <3> QED BY <1>2, <3>1, <3>2 DEF ClientsNext, Looks
  <2> QED BY <2>1 DEF Writing
<1>3. CASE ControllerNext
  <2>1. kpc' \in {kpc, "none", "test"}
    BY <1>3 DEF ControllerNext, FinishCall, Start, Stop, BeginStop, Recv,
           StopServerSocket, JoinServerThread, JoinClientsThread, SpawnThreads,
           SeeReady, GiveUp, ControllerOnly
  <2>2. kpc' = kpc
    BY <2>1 DEF Writing
  <2> QED BY <1>3, <2>2, ControllerOnlyTouches DEF Writing
<1>4. CASE ClientNext
  <2>1. UNCHANGED <<tcpClients, queueVars, passVars>>
    BY <1>4 DEF ClientNext, Connect, BeginLine, FinishLine, SendTooMuch,
                Disconnect, ClientActs
  <2> QED BY <2>1 DEF Writing, queueVars, passVars
<1>5. CASE SendNext \/ UNCHANGED vars
  BY <1>5, SendOnly DEF Writing, vars, queueVars, passVars
<1> QED BY <1>1, <1>2, <1>3, <1>4, <1>5 DEF Next

LEMMA RepliesStep ==
  ASSUME TypeInv, ListInv, SendersInv, RepliesInv, [Next]_vars
  PROVE  RepliesInv'
<1>1. CASE TakeReply
  BY <1>1, ReplyTaken
<1>2. CASE TestClient \/ WriteLine
  BY <1>2, ReplyWritten
<1>3. CASE SendNext
  BY <1>3, ReplyQueued
<1>4. CASE ~(TakeReply \/ TestClient \/ WriteLine \/ SendNext)
  <2>1. UNCHANGED <<outputStringBuffer, replies, got>>
    <3>1. CASE AcceptNext
      BY <3>1, AcceptOnly DEF queueVars
    <3>2. CASE ClientsNext
      BY <1>4, <3>2 DEF ClientsNext, TestClientsStop, ReceiveDataFromClients,
           EndOfScan, ReadClient, EraseClient, ReceiveLine, NextClient,
           ReadThrows, EndOfWrite, WriteThrows, CloseAllClients, ClientsStep,
           ClientsAt, queueVars
    <3>3. CASE ControllerNext
      BY <3>3, ControllerOnlyTouches
    <3>4. CASE ClientNext
      BY <3>4 DEF ClientNext, Connect, BeginLine, FinishLine, SendTooMuch,
                  Disconnect, ClientActs, queueVars
    <3>5. CASE UNCHANGED vars
      BY <3>5 DEF vars, queueVars
    <3> QED BY <1>4, <3>1, <3>2, <3>3, <3>4, <3>5 DEF Next
  <2>2. UNCHANGED <<spc, line, overlap>>
    BY <1>4, SendersUntouched
  <2>3. Writing' => Writing /\ UNCHANGED <<index, data, tcpClients>>
    BY <1>4, PassKeeps
  <2> QED BY <2>1, <2>2, <2>3, RepliesUntouched
<1> QED BY <1>1, <1>2, <1>3, <1>4

(* A listed client that has gone does not come back.                       *)
LEMMA GoneForGood ==
  ASSUME TypeInv, ListInv, [Next]_vars, NEW c \in Elements(tcpClients), ~IsOpen(c)
  PROVE  ~IsOpen(c)'
<1>1. /\ c \in Client /\ served[c] = "open" /\ peer[c] # "open" /\ peer[c] # "away"
  <2>1. c \in Client
    BY ElementOfSeq DEF Elements, TypeInv, ServerTypes
  <2> QED BY <2>1 DEF ListInv, IsOpen
<1>2. peer'[c] # "open"
  <2>1. CASE UNCHANGED peer
    BY <1>1, <2>1
  <2>2. CASE ClientNext
    <3>1. PICK d \in Client : \/ Connect(d) \/ BeginLine(d) \/ FinishLine(d)
                              \/ SendTooMuch(d) \/ Disconnect(d)
      BY <2>2 DEF ClientNext
    <3>2. peer \in [Client -> Peer]
      BY DEF TypeInv, ServerTypes
    <3> QED BY <1>1, <3>1, <3>2 DEF Connect, BeginLine, FinishLine, SendTooMuch,
                                    Disconnect
  <2>3. AcceptNext => UNCHANGED peer
    BY AcceptOnly
  <2>4. ClientsNext => UNCHANGED peer
    BY DEF ClientsNext, TestClientsStop, ReceiveDataFromClients, EndOfScan,
           ReadClient, EraseClient, ReceiveLine, NextClient, ReadThrows,
           TakeReply, EndOfWrite, TestClient, WriteLine, WriteThrows,
           CloseAllClients, ClientsStep, WriteStep, ClientsAt
  <2>5. ControllerNext => UNCHANGED peer
    BY ControllerOnlyTouches DEF clientVars
  <2>6. SendNext \/ (UNCHANGED vars) => UNCHANGED peer
    BY SendOnly DEF vars, clientVars
  <2> QED BY <2>1, <2>2, <2>3, <2>4, <2>5, <2>6 DEF Next
<1> QED BY <1>2 DEF IsOpen

LEMMA WriteStepReaches ==
  ASSUME TypeInv, ListInv, WriteReachesEveryClient, [Next]_vars
  PROVE  WriteReachesEveryClient'
<1> DEFINE Reached(i) == IsOpen(tcpClients[i]) =>
                           /\ got[tcpClients[i]] # <<>>
                           /\ got[tcpClients[i]][Len(got[tcpClients[i]])] = data
<1> SUFFICES ASSUME Writing', NEW i \in 1 .. (index - 1)'
             PROVE  /\ i \in DOMAIN tcpClients'
                    /\ IsOpen(tcpClients[i])' =>
                         /\ got'[tcpClients'[i]] # <<>>
                         /\ got'[tcpClients'[i]][Len(got'[tcpClients'[i]])] = data'
  BY DEF WriteReachesEveryClient, Writing
<1>1. CASE TakeReply
  <2>1. index' = 1
    BY <1>1 DEF TakeReply, Writing
  <2> QED BY <2>1
<1>2. CASE ~(TakeReply \/ TestClient \/ WriteLine)
  <2>1. Writing /\ UNCHANGED <<index, data, tcpClients, got>>
    BY <1>2, PassKeeps
  <2>2. i \in DOMAIN tcpClients /\ Reached(i)
    BY <2>1 DEF WriteReachesEveryClient, Writing
  <2>3. PICK c \in Elements(tcpClients) : c = tcpClients[i]
    BY <2>2 DEF Elements
  <2>4. IsOpen(c)' => IsOpen(c)
    BY GoneForGood
  <2> QED BY <2>1, <2>2, <2>3, <2>4 DEF IsOpen
<1>3. CASE TestClient \/ WriteLine
  <2>1. /\ UNCHANGED <<tcpClients, data, peer, served>> /\ Writing
        /\ index \in DOMAIN tcpClients /\ (index' = index \/ index' = index + 1)
    BY <1>3 DEF TestClient, WriteLine, WriteStep, ClientsAt, Writing, InList
  <2>2. PICK c \in Client : c = tcpClients[index]
    BY <2>1, ElementOfSeq DEF TypeInv, ServerTypes
  <2>3. index \in Nat /\ got \in [Client -> Seq(Nat)] /\ data \in Nat
        /\ tcpClients \in Seq(Client)
    BY DEF TypeInv, ServerTypes, ReplyTypes
  <2>4. CASE i # index
    <3>1. i \in 1 .. index - 1
      BY <2>1, <2>3, <2>4
    <3>2. i \in DOMAIN tcpClients /\ Reached(i)
      BY <2>1, <3>1 DEF WriteReachesEveryClient, Writing
    <3>3. PICK d \in Client : d = tcpClients[i]
      BY <2>3, <3>2, ElementOfSeq
    <3>4. d # c
      BY <2>1, <2>2, <2>4, <3>2, <3>3 DEF ListInv, Distinct
    <3>5. got' = got \/ got' = [got EXCEPT ![c] = Append(got[c], data)]
      BY <1>3, <2>2 DEF TestClient, WriteLine, WriteStep, Current
    <3>6. got'[d] = got[d]
      BY <2>3, <3>4, <3>5
    <3> QED BY <2>1, <3>2, <3>3, <3>6 DEF IsOpen
  <2>5. CASE i = index
    <3>1. index' = index + 1
      BY <2>1, <2>3, <2>5
    <3>2. CASE ~IsOpen(c)
      BY <2>1, <2>2, <2>5, <3>2 DEF IsOpen
    <3>3. CASE IsOpen(c)
      <4>1. got' = [got EXCEPT ![c] = Append(got[c], data)]
        BY <1>3, <2>2, <2>3, <3>1, <3>3
        DEF TestClient, WriteLine, WriteStep, Current, IsOpen
      <4>2. got'[c] = Append(got[c], data) /\ got[c] \in Seq(Nat)
        BY <2>3, <4>1
      <4>3. got'[c] # <<>> /\ got'[c][Len(got'[c])] = data
        <5>1. \A s \in Seq(Nat), x \in Nat :
                /\ Append(s, x) # <<>>
                /\ Append(s, x)[Len(Append(s, x))] = x
          BY AppendProperties
        <5> QED BY <2>3, <4>2, <5>1
      <4> QED BY <2>1, <2>2, <2>5, <4>3
    <3> QED BY <3>2, <3>3
  <2> QED BY <2>4, <2>5
<1> QED BY <1>1, <1>2, <1>3

LEMMA RepliesAlways ==
  Spec => [](RepliesInv /\ WriteReachesEveryClient)
<1> DEFINE Inv == /\ TypeInv /\ SocketInv /\ ListInv
                  /\ SendersInv /\ RepliesInv /\ WriteReachesEveryClient
<1>1. Init => Inv
  <2>1. Init => WriteReachesEveryClient
    BY DEF Init, WriteReachesEveryClient
  <2> QED BY <2>1, InitTypes, SocketInit, ListInit, RepliesInit
<1>2. Inv /\ [Next]_vars => Inv'
  BY TypeStep, SocketStep, ListStep, SendersStep, RepliesStep,
     WriteStepReaches
<1>3. Inv => RepliesInv /\ WriteReachesEveryClient
  OBVIOUS
<1> QED BY <1>1, <1>2, <1>3, PTL DEF Spec

(* No client gets a line twice, or the line of an older call of Send after *)
(* that of a newer one, unless the two calls overlapped.                   *)
THEOREM RepliesComeInOrder == Spec => []RepliesInOrder
<1>1. RepliesInv => RepliesInOrder
  BY DEF RepliesInv, GotInv, RepliesInOrder
<1> QED BY <1>1, RepliesAlways, PTL

(* A pass that writes a reply skips no client that is still connected.     *)
THEOREM EveryClientIsReached == Spec => []WriteReachesEveryClient
BY RepliesAlways, PTL

-----------------------------------------------------------------------------
(* Who waits for whom: NeverStuck.                                         *)

(* A thread that has looked before it acts finds what it saw.              *)
GuardInv ==
  /\ apc = "accept" /\ IsListening => Backlog # {}
  /\ apc = "lock" => candidate # {}
  /\ cpc = "wait_ready" => apc # "none"

LEMMA CloseLeavesBacklog ==
  ASSUME NEW pc, NEW next, NEW done, NEW thrown,
         SocketClose(pc, next, done, thrown), IsListening'
  PROVE  IsListening /\ UNCHANGED served
<1>1. CASE Shutdown(pc, next, done, thrown)
  BY <1>1 DEF Shutdown, IsListening
<1>2. CASE CloseDescriptor(pc, next, thrown)
  BY <1>2 DEF CloseDescriptor, IsListening
<1>3. CASE ForgetDescriptor(pc, next, done)
  BY <1>3 DEF ForgetDescriptor, IsListening
<1> QED BY <1>1, <1>2, <1>3 DEF SocketClose

LEMMA GuardStep == TypeInv /\ ListInv /\ GuardInv /\ [Next]_vars => GuardInv'
<1> SUFFICES ASSUME TypeInv, ListInv, GuardInv, [Next]_vars PROVE GuardInv'
  OBVIOUS
<1>0. served \in [Client -> Served] /\ tcpClients \in Seq(Client)
  BY DEF TypeInv, ServerTypes
<1>1. CASE AcceptNext
  <2>0. cpc' = cpc
    BY <1>1, AcceptOnly DEF controlVars
  <2>1. CASE OpenServerSocket \/ TestServerStop \/ AcceptThrows \/ AddClient
               \/ LeaveServerLoop
    <3>1. apc' \notin {"none", "accept", "lock"}
      BY <2>1 DEF OpenServerSocket, TestServerStop, AcceptThrows, AddClient,
                  LeaveServerLoop, AcceptStep, AcceptAt
    <3> QED BY <2>0, <3>1 DEF GuardInv
  <2>2. CASE PollListener
    <3>1. /\ UNCHANGED <<socketVars, served>> /\ apc' \notin {"none", "lock"}
          /\ apc' = "accept" => Backlog # {}
      BY <2>2 DEF PollListener, AcceptStep, AcceptAt
    <3> QED BY <2>0, <3>1 DEF GuardInv, Backlog
  <2>3. CASE AcceptClient
    <3>1. apc' \in {"lock", "test"} /\ (apc' = "lock" => candidate' # {})
      BY <2>3 DEF AcceptClient, AcceptAt
    <3> QED BY <2>0, <3>1 DEF GuardInv
  <2>4. CASE CloseServerSocket
    <3>1. SocketClose(apc, apc', "ended", "ended")
      BY <2>4 DEF CloseServerSocket, AcceptAt
    <3>2. apc' \in {"close", "zero", "ended"}
      BY <3>1 DEF SocketClose, Shutdown, CloseDescriptor, ForgetDescriptor
    <3> QED BY <2>0, <3>2 DEF GuardInv
  <2> QED BY <1>1, <2>1, <2>2, <2>3, <2>4 DEF AcceptNext
<1>2. CASE ClientsNext
  <2>1. UNCHANGED <<socketVars, acceptVars, controlVars>>
    BY <1>2 DEF ClientsNext, TestClientsStop, ReceiveDataFromClients, EndOfScan,
           ReadClient, EraseClient, ReceiveLine, NextClient, ReadThrows,
           TakeReply, EndOfWrite, TestClient, WriteLine, WriteThrows,
           CloseAllClients, ClientsStep, WriteStep, ClientsAt
  <2>2. ASSUME NEW c \in Backlog PROVE c \in Backlog'
    <3>1. c \in Client /\ served[c] = "backlog" /\ c \notin Elements(tcpClients)
      BY <2>2 DEF Backlog, ListInv
    <3>2. CASE EraseClient
      <4>1. served' = [served EXCEPT ![Current] = "closed"]
            /\ Current \in Elements(tcpClients)
        BY <3>2 DEF EraseClient, InList, Current, Elements
      <4> QED BY <1>0, <3>1, <4>1 DEF Backlog
    <3>3. CASE CloseAllClients
      BY <1>0, <3>1, <3>3 DEF CloseAllClients, Elements, Backlog
    <3>4. CASE ~EraseClient /\ ~CloseAllClients
      <4>1. served' = served
        BY <1>2, <3>4 DEF ClientsNext, TestClientsStop, ReceiveDataFromClients,
             EndOfScan, ReadClient, ReceiveLine, NextClient, ReadThrows,
             TakeReply, EndOfWrite, TestClient, WriteLine, WriteThrows,
             ClientsStep, WriteStep
      <4> QED BY <3>1, <4>1 DEF Backlog
    <3> QED BY <3>2, <3>3, <3>4
  <2> QED BY <2>1, <2>2
          DEF GuardInv, IsListening, socketVars, acceptVars, controlVars
<1>3. CASE StopServerSocket
  <2>1. /\ UNCHANGED <<apc, candidate>> /\ cpc' # "wait_ready"
        /\ SocketClose(cpc, cpc', "join_server", "stop_failed")
    BY <1>3 DEF StopServerSocket, ControllerAt, SocketClose, Shutdown,
                CloseDescriptor, ForgetDescriptor
  <2>2. IsListening' => IsListening /\ UNCHANGED served
    BY <2>1, CloseLeavesBacklog
  <2> QED BY <2>1, <2>2 DEF GuardInv, Backlog
<1>4. CASE ControllerNext /\ ~StopServerSocket
  <2>1. /\ UNCHANGED <<listener, descriptor, served, candidate>>
        /\ \/ apc' = apc /\ (cpc' = "wait_ready" => cpc = "wait_ready")
           \/ apc' = "none" /\ cpc' = "join_clients"
           \/ apc' = "open"
    BY <1>4 DEF ControllerNext, FinishCall, Start, Stop, BeginStop, Recv,
         JoinServerThread, JoinClientsThread, SpawnThreads, SeeReady, GiveUp,
         ControllerStep, ControllerAt, ControllerOnly, socketVars
  <2> QED BY <2>1 DEF GuardInv, IsListening, Backlog
<1>5. CASE ClientNext
  <2>1. PICK c \in Client : \/ Connect(c) \/ BeginLine(c) \/ FinishLine(c)
                            \/ SendTooMuch(c) \/ Disconnect(c)
    BY <1>5 DEF ClientNext
  <2>2. UNCHANGED <<socketVars, acceptVars, controlVars>>
        /\ \/ served' = served
           \/ served' = [served EXCEPT ![c] = "backlog"]
           \/ peer[c] = "away" /\ served' = [served EXCEPT ![c] = "stranded"]
    BY <2>1 DEF Connect, BeginLine, FinishLine, SendTooMuch, Disconnect,
                ClientActs
  <2>3. Backlog # {} => Backlog' # {}
    BY <1>0, <2>2 DEF Backlog, ListInv
  <2> QED BY <2>2, <2>3
          DEF GuardInv, IsListening, socketVars, acceptVars, controlVars
<1>6. CASE SendNext \/ UNCHANGED vars
  BY <1>6, SendOnly DEF vars, socketVars, acceptVars, controlVars, GuardInv,
                        IsListening, Backlog
<1> QED BY <1>1, <1>2, <1>3, <1>4, <1>5, <1>6 DEF Next

(* The joins, the mutex and the wait for the socket never make everybody   *)
(* wait for everybody: what can hold the server up is half a line.         *)
THEOREM NobodyWaitsInACircle == Spec => []NeverStuck
<1>1. Init => TypeInv /\ SocketInv /\ ListInv /\ GuardInv
  BY InitTypes, SocketInit, ListInit DEF Init, GuardInv
<1>2. TypeInv /\ SocketInv /\ ListInv /\ GuardInv /\ [Next]_vars
        => (TypeInv /\ SocketInv /\ ListInv /\ GuardInv)'
  BY TypeStep, SocketStep, ListStep, GuardStep
<1>3. TypeInv /\ GuardInv => NeverStuck
  <2> SUFFICES ASSUME TypeInv, GuardInv, Busy, ~WaitsForLine,
                      ~AcceptReady, ~ClientsReady, ~ControllerReady
               PROVE  FALSE
    BY DEF NeverStuck
  <2>1. kpc \in {"none", "ended"}
    BY DEF TypeInv, AtClient, ClientsReady
  <2>2. ~Locked
    BY <2>1 DEF Locked
  <2>3. apc \in {"none", "ended"}
    BY <2>2 DEF GuardInv, AcceptReady
  <2>4. cpc \notin AtRest
    BY <2>1, <2>3 DEF Busy
  <2> QED BY <2>1, <2>3, <2>4 DEF GuardInv, ControllerReady
<1> QED BY <1>1, <1>2, <1>3, PTL DEF Spec

-----------------------------------------------------------------------------
(* The end of the clients thread.  With the flag up every step of the      *)
(* thread lowers this rank, read from left to right: the part of the loop  *)
(* it is in, the replies it has still to write, the clients of the list it *)
(* has still to visit in this pass, and the lines that wait to be read     *)
(* from the client it is at.                                               *)

Phase(k) == CASE k = "receive" -> 4
              [] k \in {"scan", "read"} -> 3
              [] k \in {"send", "write", "write_line"} -> 2
              [] k = "test" -> 1
              [] k \in {"close_all", "ended", "none"} -> 0
Reach(k, i, n) == CASE k \in {"scan", "write"} -> 2 * (n + 2 - i) + 1
                    [] k \in {"read", "write_line"} -> 2 * (n + 2 - i)
                    [] OTHER -> 0
RankOf(k, i, list, output, w) ==
  <<Phase(k), Len(output), Reach(k, i, Len(list)),
    IF k = "read" THEN Len(w[list[i]]) ELSE 0>>
Rank == RankOf(kpc, index, tcpClients, outputStringBuffer, wire)

Below(r, s) ==
  \/ r[1] < s[1]
  \/ r[1] = s[1] /\ r[2] < s[2]
  \/ r[1] = s[1] /\ r[2] = s[2] /\ r[3] < s[3]
  \/ r[1] = s[1] /\ r[2] = s[2] /\ r[3] = s[3] /\ r[4] < s[4]

(* Once the flag is up it stays up, every step of the clients thread       *)
(* brings it nearer to its end, and nobody can take it further away from   *)
(* it but the client it is reading from, by one more line.                 *)
PassEnds ==
  [][server_thread_flag_stop /\ kpc \notin {"none", "ended"} =>
       /\ server_thread_flag_stop'
       /\ Rank \in Nat \X Nat \X Nat \X Nat
       /\ IF ClientsNext
          THEN kpc' = "ended" \/ Below(Rank', Rank)
          ELSE Rank' = Rank \/ (kpc = "read" /\ FinishLine(Current))]_vars

(* While the flag is up and the thread runs, the controller is in Stop or  *)
(* Stop has failed: nobody is in Send (SendersInv).  The index never leaves the list by *)
(* more than one.                                                          *)
RankInv ==
  /\ server_thread_flag_stop /\ kpc # "none" =>
       cpc \in ClosePC \cup {"stop_failed", "join_server", "join_clients"}
  /\ Locked => index \in 1 .. Len(tcpClients) + 1

LEMMA RankStep == TypeInv /\ RankInv /\ [Next]_vars => RankInv'
<1> SUFFICES ASSUME TypeInv, RankInv, [Next]_vars PROVE RankInv'
  OBVIOUS
<1>0. /\ tcpClients \in Seq(Client) /\ Len(tcpClients) \in Nat /\ index \in Nat
      /\ kpc \in {"read", "write_line"} => index \in 1 .. Len(tcpClients)
  BY DEF TypeInv, ServerTypes, AtClient, InList
<1>1. CASE AcceptNext
  <2>1. UNCHANGED <<cpc, kpc, index, server_thread_flag_stop>>
    BY <1>1, AcceptOnly DEF passVars, controlVars
  <2>2. tcpClients' = tcpClients \/ ~Locked
    BY <1>1 DEF AcceptNext, OpenServerSocket, TestServerStop, PollListener,
         AcceptClient, AcceptThrows, AddClient, LeaveServerLoop,
         CloseServerSocket, AcceptStep
  <2> QED BY <2>1, <2>2 DEF RankInv, Locked
<1>2. CASE ClientsNext
  <2>1. UNCHANGED <<flagVars, controlVars>> /\ kpc # "none"
    BY <1>2 DEF ClientsNext, TestClientsStop, ReceiveDataFromClients, EndOfScan,
           ReadClient, EraseClient, ReceiveLine, NextClient, ReadThrows,
           TakeReply, EndOfWrite, TestClient, WriteLine, WriteThrows,
           CloseAllClients, ClientsStep, WriteStep, ClientsAt
  <2>2. CASE EraseClient
    <3>1. /\ kpc = "scan" /\ index \in DOMAIN tcpClients /\ index' = index
          /\ tcpClients' = Without(tcpClients, index)
      BY <2>2 DEF EraseClient, ClientsAt, InList, Without, passVars
    <3>2. Len(tcpClients') = Len(tcpClients) - 1
      BY <1>0, <3>1, WithoutOne
    <3>3. index' \in 1 .. Len(tcpClients') + 1
      BY <1>0, <3>1, <3>2
    <3> QED BY <2>1, <3>3 DEF RankInv, flagVars, controlVars
  <2>3. CASE ~EraseClient
    <3>1. \/ kpc' \notin {"scan", "read", "write", "write_line"}
          \/ /\ tcpClients' = tcpClients
             /\ \/ index' = 1
                \/ index' = index /\ Locked
                \/ index' = index + 1 /\ kpc \in {"read", "write", "write_line"}
                     /\ InList
      BY <1>0, <1>2, <2>3
         DEF ClientsNext, TestClientsStop, ReceiveDataFromClients, EndOfScan,
           ReadClient, ReceiveLine, NextClient, ReadThrows, TakeReply,
           EndOfWrite, TestClient, WriteLine, WriteThrows, CloseAllClients,
           ClientsStep, WriteStep, ClientsAt, passVars, Locked, InList
    <3>2. Locked' => index' \in 1 .. Len(tcpClients') + 1
      BY <1>0, <3>1 DEF RankInv, Locked, InList
    <3> QED BY <2>1, <3>2 DEF RankInv, flagVars, controlVars
  <2> QED BY <2>2, <2>3
<1>3. CASE ControllerNext
  <2>1. UNCHANGED <<index, tcpClients>>
    BY <1>3, ControllerOnlyTouches
  <2>2. \/ kpc' = kpc \/ kpc' = "none" \/ kpc' = "test"
    BY <1>3 DEF ControllerNext, FinishCall, Start, Stop, BeginStop, Recv,
         StopServerSocket, JoinServerThread, JoinClientsThread, SpawnThreads,
         SeeReady, GiveUp, ControllerOnly
  <2>3. server_thread_flag_stop' /\ kpc' # "none" =>
          cpc' \in ClosePC \cup {"stop_failed", "join_server", "join_clients"}
    <3>1. CASE StopServerSocket
      <4>1. SocketClose(cpc, cpc', "join_server", "stop_failed")
        BY <3>1 DEF StopServerSocket, ControllerAt
      <4>2. cpc' \in {"close", "zero", "join_server", "stop_failed"}
        BY <4>1 DEF SocketClose, Shutdown, CloseDescriptor, ForgetDescriptor
      <4> QED BY <4>2 DEF ClosePC
    <3>2. CASE Start \/ Stop
      BY <3>2 DEF Start, Stop, BeginStop, ControllerStep, ControllerAt, ClosePC
    <3>3. CASE JoinServerThread \/ JoinClientsThread \/ SpawnThreads
      BY <3>3 DEF JoinServerThread, JoinClientsThread, SpawnThreads,
                  ControllerStep, ControllerAt
    <3>4. CASE Recv \/ SeeReady \/ GiveUp
      <4>1. /\ UNCHANGED <<kpc, server_thread_flag_stop>>
            /\ cpc \in {"idle", "wait_ready"}
        BY <3>4 DEF Recv, SeeReady, GiveUp, ControllerStep, ControllerAt,
             ControllerOnly, flagVars
      <4>2. ~(server_thread_flag_stop /\ kpc # "none")
        BY <4>1 DEF RankInv, ClosePC
      <4> QED BY <4>1, <4>2
    <3> QED BY <1>3, <3>1, <3>2, <3>3, <3>4 DEF ControllerNext, FinishCall
  <2> QED BY <2>1, <2>2, <2>3 DEF RankInv, Locked
<1>4. CASE SendNext \/ ClientNext \/ UNCHANGED vars
  <2>1. UNCHANGED <<tcpClients, flagVars, passVars, controlVars>>
    BY <1>4, SendOnly DEF ClientNext, Connect, BeginLine, FinishLine, SendTooMuch,
                Disconnect, ClientActs, vars
  <2> QED BY <2>1 DEF RankInv, Locked, flagVars, passVars, controlVars
<1> QED BY <1>1, <1>2, <1>3, <1>4 DEF Next

LEMMA RankType ==
  ASSUME TypeInv, RankInv
  PROVE  Rank \in Nat \X Nat \X Nat \X Nat
<1>0. /\ tcpClients \in Seq(Client) /\ Len(tcpClients) \in Nat /\ index \in Nat
      /\ outputStringBuffer \in Seq(Nat) /\ kpc \in ClientsPC
      /\ wire \in [Client -> Seq(Line)]
  BY DEF TypeInv, ServerTypes, LineTypes, ReplyTypes
<1>1. Phase(kpc) \in Nat
  BY <1>0 DEF Phase, ClientsPC
<1>2. Reach(kpc, index, Len(tcpClients)) \in Nat
  BY <1>0 DEF RankInv, Locked, Reach
<1>3. kpc = "read" => Len(wire[tcpClients[index]]) \in Nat
  <2> SUFFICES ASSUME kpc = "read" PROVE Len(wire[tcpClients[index]]) \in Nat
    OBVIOUS
  <2>1. index \in DOMAIN tcpClients
    BY DEF TypeInv, AtClient, InList
  <2>2. tcpClients[index] \in Client
    BY <1>0, <2>1, ElementOfSeq
  <2> QED BY <1>0, <2>2
<1>4. Len(outputStringBuffer) \in Nat
  BY <1>0
<1> QED BY <1>1, <1>2, <1>3, <1>4 DEF Rank, RankOf

LEMMA Falls ==
  ASSUME NEW k, NEW i, NEW l, NEW o, NEW w,
         NEW k2, NEW i2, NEW l2, NEW o2, NEW w2,
         \/ Phase(k2) < Phase(k)
         \/ Phase(k2) = Phase(k) /\ Len(o2) < Len(o)
         \/ /\ Phase(k2) = Phase(k) /\ o2 = o
            /\ Reach(k2, i2, Len(l2)) < Reach(k, i, Len(l))
         \/ /\ k = "read" /\ k2 = "read" /\ o2 = o /\ i2 = i /\ l2 = l
            /\ Len(w2[l[i]]) < Len(w[l[i]])
  PROVE  Below(RankOf(k2, i2, l2, o2, w2), RankOf(k, i, l, o, w))
BY DEF Below, RankOf

LEMMA ClientsFall ==
  ASSUME TypeInv, RankInv, server_thread_flag_stop, ClientsNext
  PROVE  kpc' = "ended" \/ Below(Rank', Rank)
<1> DEFINE n == Len(tcpClients)
           n2 == Len(tcpClients')
<1>0. /\ tcpClients \in Seq(Client) /\ n \in Nat /\ index \in Nat
      /\ outputStringBuffer \in Seq(Nat) /\ wire \in [Client -> Seq(Line)]
      /\ kpc \in {"read", "write_line"} => index \in DOMAIN tcpClients
  BY DEF TypeInv, ServerTypes, LineTypes, ReplyTypes, AtClient, InList
<1> USE DEF ClientsAt
<1>p. ASSUME Phase(kpc') < Phase(kpc) PROVE Below(Rank', Rank)
  BY <1>p, Falls DEF Rank
<1>r. ASSUME Phase(kpc') = Phase(kpc), outputStringBuffer' = outputStringBuffer,
             Reach(kpc', index', n2) < Reach(kpc, index, n)
      PROVE  Below(Rank', Rank)
  BY <1>r, Falls DEF Rank
<1>1. CASE TestClientsStop \/ ReceiveDataFromClients \/ EndOfScan
  <2>1. \/ kpc = "test" /\ kpc' = "close_all"
        \/ kpc = "receive" /\ kpc' \in {"scan", "send"}
        \/ kpc = "scan" /\ kpc' = "send"
    BY <1>1 DEF TestClientsStop, ReceiveDataFromClients, EndOfScan, ClientsStep
  <2> QED BY <2>1, <1>p DEF Phase
<1>2. CASE ReadThrows \/ WriteThrows \/ CloseAllClients
  BY <1>2 DEF ReadThrows, WriteThrows, CloseAllClients, ClientsStep
<1>3. CASE ReadClient \/ NextClient
  <2>1. /\ UNCHANGED <<tcpClients, outputStringBuffer>>
        /\ \/ kpc = "scan" /\ kpc' = "read" /\ index' = index
           \/ kpc = "read" /\ kpc' = "scan" /\ index' = index + 1
    BY <1>3 DEF ReadClient, NextClient, ClientsStep, queueVars
  <2>2. Reach(kpc', index', n2) < Reach(kpc, index, n)
    BY <1>0, <2>1 DEF Reach
  <2>3. Phase(kpc') = Phase(kpc)
    BY <2>1 DEF Phase
  <2> QED BY <1>r, <2>1, <2>2, <2>3
<1>4. CASE EraseClient
  <2>1. /\ kpc = "scan" /\ kpc' = "scan" /\ index' = index
        /\ index \in DOMAIN tcpClients
        /\ tcpClients' = Without(tcpClients, index)
        /\ outputStringBuffer' = outputStringBuffer
    BY <1>4 DEF EraseClient, InList, Without, passVars, queueVars
  <2>2. n2 = n - 1
    BY <1>0, <2>1, WithoutOne
  <2>3. Reach(kpc', index', n2) < Reach(kpc, index, n)
    BY <1>0, <2>1, <2>2 DEF Reach
  <2> QED BY <1>r, <2>1, <2>3
<1>5. CASE ReceiveLine
  <2>1. /\ kpc = "read" /\ kpc' = "read" /\ index' = index
        /\ UNCHANGED <<tcpClients, outputStringBuffer>>
        /\ wire[Current] # <<>>
        /\ wire' = [wire EXCEPT ![Current] = Tail(wire[Current])]
    BY <1>5 DEF ReceiveLine, passVars
  <2>2. PICK c \in Client : c = Current
    BY <1>0, <2>1, ElementOfSeq DEF Current
  <2>3. wire'[c] = Tail(wire[c]) /\ wire[c] \in Seq(Line) /\ wire[c] # <<>>
    BY <1>0, <2>1, <2>2
  <2>4. Len(wire'[c]) < Len(wire[c])
    BY <2>3
  <2>5. Len(wire'[tcpClients[index]]) < Len(wire[tcpClients[index]])
    BY <2>2, <2>4 DEF Current
  <2> QED BY <2>1, <2>5, Falls DEF Rank
<1>6. CASE TakeReply
  <2>1. kpc = "send"
    BY <1>6 DEF TakeReply
  <2>2. CASE outputStringBuffer = <<>>
    <3>1. kpc' = "test"
      BY <1>6, <2>2 DEF TakeReply
    <3> QED BY <2>1, <3>1, <1>p DEF Phase
  <2>3. CASE outputStringBuffer # <<>>
    <3>1. kpc' = "write" /\ outputStringBuffer' = Tail(outputStringBuffer)
      BY <1>6, <2>3 DEF TakeReply
    <3>2. Len(outputStringBuffer') < Len(outputStringBuffer)
      BY <1>0, <2>3, <3>1
    <3>3. Phase(kpc') = Phase(kpc)
      BY <2>1, <3>1 DEF Phase
    <3> QED BY <3>2, <3>3, Falls DEF Rank
  <2> QED BY <2>2, <2>3
<1>7. CASE EndOfWrite
  <2>1. /\ kpc = "write" /\ kpc' = "send"
        /\ outputStringBuffer' = outputStringBuffer
    BY <1>7 DEF EndOfWrite, ClientsStep, queueVars
  <2>2. Reach(kpc', index', n2) = 0 /\ Reach(kpc, index, n) > 0
    BY <1>0, <2>1 DEF Reach, RankInv, Locked
  <2>3. Phase(kpc') = Phase(kpc)
    BY <2>1 DEF Phase
  <2> QED BY <1>r, <2>1, <2>2, <2>3
<1>8. CASE TestClient \/ WriteLine
  <2>1. /\ UNCHANGED <<tcpClients, outputStringBuffer>>
        /\ \/ kpc = "write" /\ kpc' = "write_line" /\ index' = index
           \/ kpc = "write" /\ kpc' = "write" /\ index' = index + 1
           \/ kpc = "write_line" /\ kpc' = "write" /\ index' = index + 1
    BY <1>8 DEF TestClient, WriteLine, WriteStep
  <2>2. Reach(kpc', index', n2) < Reach(kpc, index, n)
    BY <1>0, <2>1 DEF Reach
  <2>3. Phase(kpc') = Phase(kpc)
    BY <2>1 DEF Phase
  <2> QED BY <1>r, <2>1, <2>2, <2>3
<1> QED BY <1>1, <1>2, <1>3, <1>4, <1>5, <1>6, <1>7, <1>8 DEF ClientsNext

(* Nobody else puts the thread further from its end, but for the client it *)
(* reads from.                                                             *)
LEMMA OthersKeep ==
  ASSUME TypeInv, SendersInv, RankInv, [Next]_vars, ~ClientsNext,
         server_thread_flag_stop, kpc \notin {"none", "ended"}
  PROVE  Rank' = Rank \/ (kpc = "read" /\ FinishLine(Current))
<1>0. /\ cpc \in ClosePC \cup {"stop_failed", "join_server", "join_clients"}
      /\ wire \in [Client -> Seq(Line)]
  BY DEF RankInv, TypeInv, LineTypes
<1>1. CASE AcceptNext
  <2>1. UNCHANGED <<kpc, index, outputStringBuffer, wire>>
    BY <1>1, AcceptOnly DEF passVars, queueVars
  <2>2. tcpClients' = tcpClients \/ ~Locked
    BY <1>1 DEF AcceptNext, OpenServerSocket, TestServerStop, PollListener,
         AcceptClient, AcceptThrows, AddClient, LeaveServerLoop,
         CloseServerSocket, AcceptStep
  <2> QED BY <2>1, <2>2 DEF Rank, RankOf, Reach, Locked
<1>2. CASE ControllerNext
  <2>1. UNCHANGED <<index, tcpClients, wire>>
    BY <1>2, ControllerOnlyTouches DEF clientVars
  <2>2. \/ Start \/ Stop \/ StopServerSocket \/ JoinServerThread
    BY <1>0, <1>2 DEF ControllerNext, FinishCall, Recv, JoinClientsThread,
         SpawnThreads, SeeReady, GiveUp, ControllerStep, ControllerAt, ClosePC
  <2>3. UNCHANGED <<kpc, outputStringBuffer>>
    BY <1>2, <2>2, ControllerOnlyTouches
       DEF Start, Stop, BeginStop, StopServerSocket, JoinServerThread
  <2> QED BY <2>1, <2>3 DEF Rank
<1>3. CASE ClientNext
  <2>1. PICK c \in Client : \/ Connect(c) \/ BeginLine(c) \/ FinishLine(c)
                            \/ SendTooMuch(c) \/ Disconnect(c)
    BY <1>3 DEF ClientNext
  <2>2. UNCHANGED <<tcpClients, kpc, index, outputStringBuffer>>
    BY <2>1 DEF Connect, BeginLine, FinishLine, SendTooMuch, Disconnect,
                ClientActs, passVars, queueVars
  <2>3. CASE FinishLine(c) /\ c # Current
    <3>1. wire' = [wire EXCEPT ![c] = Append(wire[c], <<c, sent[c] + 1>>)]
      BY <2>3 DEF FinishLine
    <3>2. kpc = "read" => Current \in Client
      BY ElementOfSeq DEF TypeInv, ServerTypes, AtClient, InList, Current
    <3>3. kpc = "read" => wire'[tcpClients[index]] = wire[tcpClients[index]]
      BY <1>0, <2>3, <3>1, <3>2 DEF Current
    <3> QED BY <2>2, <3>3 DEF Rank, RankOf
  <2>4. CASE FinishLine(c) /\ c = Current
    <3>1. CASE kpc = "read"
      BY <2>4, <3>1
    <3>2. CASE kpc # "read"
      BY <2>2, <3>2 DEF Rank, RankOf
    <3> QED BY <3>1, <3>2
  <2>5. CASE Connect(c) \/ BeginLine(c) \/ SendTooMuch(c) \/ Disconnect(c)
    <3>1. wire' = wire
      BY <2>5 DEF Connect, BeginLine, SendTooMuch, Disconnect
    <3> QED BY <2>2, <3>1 DEF Rank
  <2> QED BY <2>1, <2>3, <2>4, <2>5
<1>4. CASE UNCHANGED vars
  BY <1>4 DEF vars, clientVars, queueVars, passVars, Rank
<1>5. ~SendNext
  BY <1>0 DEF SendNext, FinishSend, Send, AddReply, ClearReplies, SendAt,
              SendersInv, ClosePC
<1> QED BY <1>1, <1>2, <1>3, <1>4, <1>5 DEF Next

(* The clients thread ends after the flag is up, whatever the queues and   *)
(* the list hold, unless the client it is reading from never stops sending *)
(* (tcpserver.cpp:171-176, 184-208, 218-231).                              *)
THEOREM ClientsThreadEnds == Spec => PassEnds
<1> DEFINE A ==
      server_thread_flag_stop /\ kpc \notin {"none", "ended"} =>
        /\ server_thread_flag_stop'
        /\ Rank \in Nat \X Nat \X Nat \X Nat
        /\ IF ClientsNext
           THEN kpc' = "ended" \/ Below(Rank', Rank)
           ELSE Rank' = Rank \/ (kpc = "read" /\ FinishLine(Current))
<1>1. Init => TypeInv /\ SendersInv /\ RankInv
  <2>1. Init => RankInv
    BY DEF Init, RankInv, Locked
  <2> QED BY <2>1, InitTypes, RepliesInit
<1>2. TypeInv /\ SendersInv /\ RankInv /\ [Next]_vars
        => (TypeInv /\ SendersInv /\ RankInv)'
  BY TypeStep, SendersStep, RankStep
<1>3. TypeInv /\ SendersInv /\ RankInv /\ [Next]_vars => [A]_vars
  <2> SUFFICES ASSUME TypeInv, SendersInv, RankInv, [Next]_vars,
                      server_thread_flag_stop, kpc \notin {"none", "ended"}
               PROVE  /\ server_thread_flag_stop'
                      /\ Rank \in Nat \X Nat \X Nat \X Nat
                      /\ IF ClientsNext
                         THEN kpc' = "ended" \/ Below(Rank', Rank)
                         ELSE \/ Rank' = Rank
                              \/ kpc = "read" /\ FinishLine(Current)
    OBVIOUS
  <2>1. server_thread_flag_stop'
    <3>1. CASE SpawnThreads
      <4>1. cpc = "spawn"
        BY <3>1 DEF SpawnThreads, ControllerStep, ControllerAt
      <4> QED BY <4>1 DEF RankInv, ClosePC
    <3>2. CASE ControllerNext /\ ~SpawnThreads
      BY <3>2 DEF ControllerNext, FinishCall, Start, Stop, BeginStop, Recv,
           StopServerSocket, JoinServerThread, JoinClientsThread, SeeReady,
           GiveUp, ControllerOnly, flagVars
    <3>3. CASE AcceptNext
      BY <3>3, AcceptOnly
    <3>4. CASE ClientsNext
      BY <3>4 DEF ClientsNext, TestClientsStop, ReceiveDataFromClients,
           EndOfScan, ReadClient, EraseClient, ReceiveLine, NextClient,
           ReadThrows, TakeReply, EndOfWrite, TestClient, WriteLine,
           WriteThrows, CloseAllClients, ClientsStep, WriteStep, ClientsAt,
           flagVars
    <3>5. CASE SendNext \/ ClientNext \/ UNCHANGED vars
      BY <3>5, SendOnly DEF ClientNext, Connect, BeginLine, FinishLine,
                  SendTooMuch, Disconnect, ClientActs, vars, flagVars
    <3> QED BY <3>1, <3>2, <3>3, <3>4, <3>5 DEF Next
  <2> QED BY <2>1, RankType, ClientsFall, OthersKeep
<1> QED BY <1>1, <1>2, <1>3, PTL DEF Spec, PassEnds

-----------------------------------------------------------------------------
(* The end of the accept thread: where it is, counted in steps.            *)

AcceptRank ==
  CASE apc = "open"     -> 9  [] apc = "poll"   -> 8  [] apc = "accept" -> 7
    [] apc = "lock"     -> 6  [] apc = "test"   -> 5  [] apc = "leave"  -> 4
    [] apc = "shutdown" -> 3  [] apc = "close"  -> 2  [] apc = "zero"   -> 1
    [] apc \in {"ended", "none"} -> 0

(* Once the flag is up the accept thread ends within nine steps of its     *)
(* own, however many clients wait in the backlog, whatever Stop does to    *)
(* the socket meanwhile (tcpserver.cpp:50-59, 96-140).                     *)
AcceptEnds ==
  [][server_thread_flag_stop /\ apc \notin {"none", "ended"} =>
       /\ server_thread_flag_stop'
       /\ AcceptRank \in 1 .. 9
       /\ IF AcceptNext THEN AcceptRank' < AcceptRank
                        ELSE AcceptRank' = AcceptRank]_vars

LEMMA AcceptFalls ==
  ASSUME apc \in AcceptPC, server_thread_flag_stop, AcceptNext
  PROVE  AcceptRank' < AcceptRank
<1> USE DEF AcceptAt, AcceptStep, AcceptRank
<1>1. CASE OpenServerSocket \/ TestServerStop
  <2>1. \/ apc = "open" /\ apc' \in {"test", "ended"}
        \/ apc = "test" /\ apc' = "leave"
    BY <1>1 DEF OpenServerSocket, TestServerStop
  <2> QED BY <2>1
<1>2. CASE PollListener
  <2>1. apc = "poll" /\ apc' \in {"leave", "test", "accept"}
    BY <1>2 DEF PollListener
  <2> QED BY <2>1
<1>3. CASE AcceptClient \/ AcceptThrows \/ AddClient \/ LeaveServerLoop
  <2>1. \/ apc = "accept" /\ apc' \in {"lock", "test", "ended"}
        \/ apc = "lock" /\ apc' = "test"
        \/ apc = "leave" /\ apc' = "shutdown"
    BY <1>3 DEF AcceptClient, AcceptThrows, AddClient, LeaveServerLoop
  <2> QED BY <2>1
<1>4. CASE CloseServerSocket
  <2>1. SocketClose(apc, apc', "ended", "ended")
    BY <1>4 DEF CloseServerSocket
  <2>2. \/ apc = "shutdown" /\ apc' \in {"close", "ended"}
        \/ apc = "close" /\ apc' \in {"zero", "ended"}
        \/ apc = "zero" /\ apc' = "ended"
    BY <2>1 DEF SocketClose, Shutdown, CloseDescriptor, ForgetDescriptor
  <2> QED BY <2>2
<1> QED BY <1>1, <1>2, <1>3, <1>4 DEF AcceptNext

LEMMA AcceptKeepsPlace ==
  ASSUME SocketInv, [Next]_vars, ~AcceptNext,
         server_thread_flag_stop, apc \notin {"none", "ended"}
  PROVE  server_thread_flag_stop' /\ apc' = apc
<1>1. CASE ClientsNext
  BY <1>1 DEF ClientsNext, TestClientsStop, ReceiveDataFromClients,
       EndOfScan, ReadClient, EraseClient, ReceiveLine, NextClient,
       ReadThrows, TakeReply, EndOfWrite, TestClient, WriteLine,
       WriteThrows, CloseAllClients, ClientsStep, WriteStep, ClientsAt,
       flagVars, acceptVars
<1>2. CASE ControllerNext
  <2>1. ~SpawnThreads
    BY DEF SpawnThreads, ControllerStep, ControllerAt, SocketInv
  <2>2. ~JoinServerThread
    BY DEF JoinServerThread
  <2> QED BY <1>2, <2>1, <2>2 DEF ControllerNext, FinishCall, Start, Stop,
       BeginStop, Recv, StopServerSocket, JoinClientsThread, SeeReady,
       GiveUp, ControllerOnly, flagVars, acceptVars
<1>3. CASE SendNext \/ ClientNext \/ UNCHANGED vars
  BY <1>3, SendOnly DEF ClientNext, Connect, BeginLine, FinishLine, SendTooMuch,
              Disconnect, ClientActs, vars, flagVars, acceptVars
<1> QED BY <1>1, <1>2, <1>3 DEF Next

(* Stop's first join waits for nine steps at most of the accept thread,    *)
(* and for the mutex.                                                      *)
THEOREM AcceptThreadEnds == Spec => AcceptEnds
<1>1. Init => TypeInv /\ SocketInv
  BY InitTypes, SocketInit
<1>2. TypeInv /\ SocketInv /\ [Next]_vars => (TypeInv /\ SocketInv)'
  BY TypeStep, SocketStep
<1>3. TypeInv /\ SocketInv /\ [Next]_vars =>
        [server_thread_flag_stop /\ apc \notin {"none", "ended"} =>
           /\ server_thread_flag_stop'
           /\ AcceptRank \in 1 .. 9
           /\ IF AcceptNext THEN AcceptRank' < AcceptRank
                            ELSE AcceptRank' = AcceptRank]_vars
  <2> SUFFICES ASSUME TypeInv, SocketInv, [Next]_vars, server_thread_flag_stop,
                      apc \notin {"none", "ended"}
               PROVE  /\ server_thread_flag_stop'
                      /\ AcceptRank \in 1 .. 9
                      /\ IF AcceptNext THEN AcceptRank' < AcceptRank
                                       ELSE AcceptRank' = AcceptRank
    OBVIOUS
  <2>1. apc \in AcceptPC /\ AcceptRank \in 1 .. 9
    BY DEF TypeInv, ServerTypes, AcceptRank, AcceptPC, ClosePC
  <2>2. CASE AcceptNext
    BY <2>1, <2>2, AcceptFalls, AcceptOnly
  <2>3. CASE ~AcceptNext
    BY <2>1, <2>3, AcceptKeepsPlace DEF AcceptRank
  <2> QED BY <2>2, <2>3
<1> QED BY <1>1, <1>2, <1>3, PTL DEF Spec, AcceptEnds
=============================================================================
