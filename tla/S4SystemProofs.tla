--------------------------- MODULE S4SystemProofs ---------------------------
(***************************************************************************)
(* Proofs about S4System: the program of the terminals does what S4Server  *)
(* assumes of them, so that everything proved of S4Server holds with it,   *)
(* and the thread that waits for a list is not handed anything else.       *)
(***************************************************************************)
EXTENDS S4System, S4ServerProofs

-----------------------------------------------------------------------------
(* The terminals' side: what a terminal has, it has read on its wire.      *)

ClientOK(c, w) ==
  /\ c \in ClientType /\ c.seen <= Len(w)
  /\ c.payloadListVector # <<>> =>
       \E k \in 1..Len(w) : w[k].tag = "list" /\ w[k].names = c.payloadListVector
  /\ c.pc \in Attached => Has(w, "@")
  /\ c.pc = "readList" => c.seen > 0 /\ w[c.seen].tag = "Refresh"

ClientInv ==
  /\ client \in [Terminals -> ClientType]
  /\ \A t \in Terminals :
       /\ ClientOK(client[t], toTerminal[t])
       /\ client[t].pc # "off" => TerminalConnected(t)

SystemInv == IInv /\ AttachInv /\ ClientInv

(* What is unread is what the wire has behind the messages seen. *)
LEMMA UnreadWire ==
  ASSUME IInv, ClientInv, NEW t \in Terminals
  PROVE  /\ toTerminal[t] \in Seq(ToTerminalMsg)
         /\ client[t] \in ClientType /\ client[t].seen \in 0..Len(toTerminal[t])
         /\ Len(Unread(t)) = Len(toTerminal[t]) - client[t].seen
         /\ Unread(t) \in Seq(ToTerminalMsg)
         /\ Unread(t) # <<>> => /\ client[t].seen + 1 \in 1..Len(toTerminal[t])
                                /\ Unread(t)[1] = toTerminal[t][client[t].seen + 1]
  <1> DEFINE w == toTerminal[t]
             s == client[t].seen
  <1>1. w \in Seq(ToTerminalMsg) /\ Len(w) \in Nat
    BY DEF IInv, TypeOK, TerminalWires
  <1>2. client[t] \in ClientType /\ s \in 0..Len(w)
    <2>1. client[t] \in ClientType /\ s <= Len(w)
      BY DEF ClientInv, ClientOK
    <2>2. s \in Nat
      BY <2>1 DEF ClientType
    <2> QED
      BY <1>1, <2>1, <2>2
  <1> HIDE DEF w, s
  <1>3. CASE s = 0
    <2>1. Rest(w, s) = w
      BY <1>1, <1>3, SubSeqProperties DEF Rest
    <2> QED
      BY <1>1, <1>2, <1>3, <2>1 DEF Unread, w, s
  <1>4. CASE s \in 1..Len(w)
    <2>1. /\ Rest(w, s) \in Seq(ToTerminalMsg) /\ Len(Rest(w, s)) = Len(w) - s
          /\ \A k \in 1..(Len(w) - s) : Rest(w, s)[k] = w[s + k]
      BY <1>1, <1>4, WireType
    <2>2. Rest(w, s) # <<>> => Len(w) - s > 0
      BY <1>1, <1>4, <2>1
    <2>3. Rest(w, s) # <<>> => s + 1 \in 1..Len(w) /\ Rest(w, s)[1] = w[s + 1]
      BY <1>1, <1>4, <2>1, <2>2
    <2> QED
      BY <1>1, <1>2, <2>1, <2>3 DEF Unread, w, s
  <1> QED
    BY <1>1, <1>2, <1>3, <1>4

(* A longer wire still has what the terminal read. *)
LEMMA ClientGrows ==
  ASSUME NEW c, NEW w \in Seq(ToTerminalMsg), NEW v \in Seq(ToTerminalMsg),
         ClientOK(c, w), Grows(w, v)
  PROVE  ClientOK(c, v)
  <1>1. /\ Len(w) \in Nat /\ Len(v) \in Nat /\ Len(w) <= Len(v)
        /\ \A k \in 1..Len(w) : k \in 1..Len(v) /\ v[k] = w[k]
    BY DEF Grows
  <1>2. c \in ClientType /\ c.seen \in Nat /\ c.seen <= Len(w)
    BY DEF ClientOK, ClientType
  <1>3. c.payloadListVector # <<>> =>
          \E k \in 1..Len(v) : v[k].tag = "list" /\ v[k].names = c.payloadListVector
    BY <1>1 DEF ClientOK
  <1>4. Has(w, "@") => Has(v, "@")
    BY <1>1 DEF Has
  <1>5. c.pc = "readList" => c.seen > 0 /\ v[c.seen].tag = "Refresh"
    BY <1>1, <1>2 DEF ClientOK
  <1> QED
    BY <1>1, <1>2, <1>3, <1>4, <1>5 DEF ClientOK

-----------------------------------------------------------------------------
(* The terminals' code does what S4Server lets its environment do. *)

(* Every step of the whole is one of S4Server, or changes nothing in it.   *)
LEMMA ClientRefines ==
  ASSUME SystemInv, [SystemNext]_systemVars
  PROVE  [Next]_vars
  <1> USE DEF SystemInv
  <1>1. CASE Server
    BY <1>1 DEF Server, Devices, Next, Peers
  <1>2. CASE UNCHANGED systemVars
    BY <1>2 DEF systemVars
  <1>3. ASSUME NEW t \in Terminals, client[t].pc # "off" PROVE TerminalConnected(t)
    BY <1>3 DEF ClientInv
  <1>4. ASSUME NEW t \in Terminals, client[t].pc \in Attached
        PROVE  chosen[t] # None /\ Has(toTerminal[t], "@")
    BY <1>4 DEF ClientInv, ClientOK, AttachInv
  <1>5. ASSUME NEW t \in Terminals, User(t) PROVE [Next]_vars
    <2>1. CASE Connects(t)
      BY <2>1 DEF Connects, Next, Peers
    <2>2. CASE RefreshButton(t)
      <3>1. PressRefresh(t)
        BY <1>3, <2>2 DEF RefreshButton, PressRefresh, ServerVars, shared, stream, accept
      <3> QED
        BY <3>1 DEF Next, Peers
    <2>3. CASE DeviceConnectButton(t)
      <3> DEFINE l == client[t].payloadListVector
      <3>1. PICK k \in 1..Len(l) : /\ chosen' = [chosen EXCEPT ![t] = l[k]]
                                   /\ TerminalSends(t, [tag |-> "DeviceName", name |-> l[k]])
        BY <2>3 DEF DeviceConnectButton
      <3>2. l # <<>>
        BY <3>1
      <3>3. PICK j \in 1..Len(toTerminal[t]) :
              toTerminal[t][j].tag = "list" /\ toTerminal[t][j].names = l
        BY <3>2 DEF ClientInv, ClientOK
      <3>4. toTerminal[t][j] \in ListsSent(t)
        BY <3>3 DEF ListsSent, Members
      <3>5. PressConnect(t)
        BY <2>3, <3>1, <3>3, <3>4 DEF DeviceConnectButton, PressConnect, ServerVars
      <3> QED
        BY <3>5 DEF Next, Peers
    <2>4. CASE SendLine(t)
      <3>1. SendText(t)
        BY <1>4, <2>4 DEF SendLine, SendText, ServerVars
      <3> QED
        BY <3>1 DEF Next, Peers
    <2>5. CASE StartStopButton(t)
      BY <2>5 DEF StartStopButton
    <2> QED
      BY <1>5, <2>1, <2>2, <2>3, <2>4, <2>5 DEF User
  <1>6. ASSUME NEW t \in Terminals, Client(t) PROVE [Next]_vars
    <2>1. CASE Requests(t)
      <3>1. RequestUpdate(t)
        BY <1>4, <2>1 DEF Requests, RequestUpdate, ServerVars, Attached
      <3> QED
        BY <3>1 DEF Next, Peers
    <2>2. CASE ~Requests(t)
      BY <1>6, <2>2 DEF Client, ReadAck, ReadRefresh, DropHandshakeChunk, ReadList,
         ReadMarker, DropChunk, ReadObject, ReadText, ReadNothing, RepeatObject,
         MisreadObject
    <2> QED
      BY <2>1, <2>2
  <1> QED
    BY <1>1, <1>2, <1>5, <1>6 DEF SystemNext

-----------------------------------------------------------------------------
(* The invariant of the terminals' side, step by step. *)

(* The invariant of S4Server, over a step of its own. *)
LEMMA InvStep ==
  ASSUME IInv, [Next]_vars PROVE IInv'
  BY TypeStep, AcceptStep, RegistryStep, NameStep, HandlerStep, AnswerStep DEF IInv

(* A step moves at most one terminal's program: the others keep what they  *)
(* read, on wires that only grow.                                          *)
LEMMA OneClient ==
  ASSUME SystemInv, [Next]_vars, NEW t \in Terminals,
         client' \in [Terminals -> ClientType],
         \A u \in Terminals \ {t} : client'[u] = client[u],
         ClientOK(client'[t], toTerminal[t]),
         client'[t].pc # "off" => TerminalConnected(t) \/ TerminalConnected(t)'
  PROVE  ClientInv'
  <1> USE DEF SystemInv
  <1>3. ASSUME NEW u \in Terminals PROVE ClientOK(client'[u], toTerminal'[u])
    <2>1. ClientOK(client'[u], toTerminal[u])
      BY DEF ClientInv
    <2>2. toTerminal[u] \in Seq(ToTerminalMsg) /\ toTerminal'[u] \in Seq(ToTerminalMsg)
      BY InvStep DEF IInv, TypeOK, TerminalWires
    <2> QED
      BY <2>1, <2>2, WireGrows, ClientGrows
  <1>4. ASSUME NEW u \in Terminals, client'[u].pc # "off" PROVE TerminalConnected(u)'
    <2>1. TerminalConnected(u) \/ TerminalConnected(u)'
      BY <1>4 DEF ClientInv
    <2> QED
      BY <2>1, ConnectionStays
  <1> QED
    BY <1>3, <1>4 DEF ClientInv

(* A chunk read as text. *)
LEMMA ChunkStep ==
  ASSUME SystemInv, NEW t \in Terminals, NEW n \in 1..Len(Unread(t)), NEW pc \in ClientPc,
         ReadChunk(t, n, pc),
         pc \in Attached => client[t].pc \in Attached \/ Unread(t)[1] = Ack,
         pc = "readList" => n = 1 /\ Unread(t)[1] = [tag |-> "Refresh"]
  PROVE  ClientOK(client'[t], toTerminal[t])
  <1> USE DEF SystemInv
  <1> DEFINE c == client[t]
             d == client'[t]
             w == toTerminal[t]
  <1>1. /\ w \in Seq(ToTerminalMsg) /\ c \in ClientType /\ c.seen \in 0..Len(w)
        /\ Len(Unread(t)) = Len(w) - c.seen
        /\ c.seen + 1 \in 1..Len(w) /\ Unread(t)[1] = w[c.seen + 1]
    <2>1. Unread(t) # <<>>
      BY UnreadWire
    <2> QED
      BY <2>1, UnreadWire
  <1>2. client \in [Terminals -> ClientType]
    BY DEF ClientInv
  <1>3. /\ d.pc = pc /\ d.seen = c.seen + n /\ d.payloadListVector = c.payloadListVector
        /\ d \in ClientType
    <2>1. PICK o \in {"null", "synced", "behind", "broken"} :
            d = [[[[c EXCEPT !.pc = pc] EXCEPT !.seen = c.seen + n]
                     EXCEPT !.torn = FALSE] EXCEPT !.objectInputStream = o]
      BY <1>1, <1>2 DEF ReadChunk, ClientType
    <2> HIDE DEF d
    <2>2. c.seen + n \in Nat
      BY <1>1
    <2> QED
      BY <1>1, <2>1, <2>2 DEF ClientType
  <1> HIDE DEF d
  <1>4. d.seen <= Len(w)
    BY <1>1, <1>3
  <1>5. ClientOK(c, w)
    BY DEF ClientInv
  <1>6. d.pc \in Attached => Has(w, "@")
    BY <1>1, <1>3, <1>5 DEF ClientOK, Has, Ack
  <1>7. d.pc = "readList" => d.seen > 0 /\ w[d.seen].tag = "Refresh"
    BY <1>1, <1>3
  <1> QED
    BY <1>3, <1>4, <1>5, <1>6, <1>7 DEF ClientOK, d

(* A message read as part of the object stream, or a step without reading. *)
LEMMA ObjectStep ==
  ASSUME SystemInv, NEW t \in Terminals, client'[t] \in ClientType,
         client'[t].seen \in {client[t].seen, client[t].seen + 1},
         client'[t].seen = client[t].seen + 1 => Unread(t) # <<>>,
         client'[t].payloadListVector = client[t].payloadListVector,
         client[t].pc \in Attached, client'[t].pc # "readList"
  PROVE  ClientOK(client'[t], toTerminal[t])
  <1>1. /\ client[t].seen \in 0..Len(toTerminal[t])
        /\ Unread(t) # <<>> => client[t].seen + 1 \in 1..Len(toTerminal[t])
    BY UnreadWire DEF SystemInv
  <1>2. client'[t].seen <= Len(toTerminal[t])
    BY <1>1
  <1>3. ClientOK(client[t], toTerminal[t])
    BY DEF SystemInv, ClientInv
  <1> QED
    BY <1>2, <1>3 DEF ClientOK

(* After an exception the thread goes on or is dead. *)
LEMMA AfterExceptionType ==
  ASSUME NEW t \in Terminals PROVE AfterException(t) \in {"dead", "running"}
  BY DEF AfterException

(* The steps of a terminal's user and of its thread. *)
LEMMA TerminalStep ==
  ASSUME SystemInv, [Next]_vars, NEW t \in Terminals, User(t) \/ Client(t)
  PROVE  ClientInv'
  <1> USE DEF SystemInv
  <1> DEFINE c == client[t]
             d == client'[t]
             w == toTerminal[t]
  <1>0. /\ client \in [Terminals -> ClientType] /\ c \in ClientType /\ ClientOK(c, w)
        /\ c.pc # "off" => TerminalConnected(t)
    BY DEF ClientInv
  <1>1. /\ w \in Seq(ToTerminalMsg) /\ c.seen \in 0..Len(w)
        /\ Unread(t) # <<>> => /\ c.seen + 1 \in 1..Len(w)
                               /\ Unread(t)[1] = w[c.seen + 1]
                               /\ Unread(t)[1] \in ToTerminalMsg
    BY UnreadWire
  <1>2. DOMAIN client' = Terminals /\ \A u \in Terminals \ {t} : client'[u] = client[u]
    BY <1>0 DEF User, Client, Connects, RefreshButton, DeviceConnectButton, SendLine,
       StartStopButton, ReadAck, ReadRefresh, DropHandshakeChunk, ReadList, ReadMarker,
       DropChunk, ReadObject, ReadText, ReadNothing, RepeatObject, MisreadObject, Requests,
       ReadChunk
  <1> USE DEF ClientPc, Attached
  <1>3. ASSUME ClientOK(d, w), d.pc # "off" => TerminalConnected(t) \/ TerminalConnected(t)'
        PROVE  ClientInv'
    <2>1. d \in ClientType
      BY <1>3 DEF ClientOK
    <2>2. client' = [u \in Terminals |-> client'[u]]
      BY <1>0 DEF User, Client, Connects, RefreshButton, DeviceConnectButton, SendLine,
         StartStopButton, ReadAck, ReadRefresh, DropHandshakeChunk, ReadList, ReadMarker,
         DropChunk, ReadObject, ReadText, ReadNothing, RepeatObject, MisreadObject, Requests,
         ReadChunk
    <2>3. client' \in [Terminals -> ClientType]
      BY <1>0, <1>2, <2>1, <2>2
    <2> QED
      BY <1>2, <1>3, <2>3, OneClient
  <1>4. CASE UNCHANGED client
    BY <1>0, <1>3, <1>4
  <1>5. CASE Connects(t)
    <2>1. d.pc = "handshake" /\ ClientOK(d, w)
      BY <1>0, <1>5 DEF Connects, ClientOK, ClientType
    <2>2. TerminalConnected(t)'
      <3>1. terminalQueue \in Seq(Terminals) /\ terminalQueue' = Append(terminalQueue, t)
        BY <1>5 DEF Connects, ConnectTerminal, IInv, TypeOK, AcceptType
      <3>2. Len(terminalQueue') \in 1..Len(terminalQueue') /\ terminalQueue'[Len(terminalQueue')] = t
        BY <3>1, AppendProperties
      <3> QED
        BY <3>2 DEF TerminalConnected, Members
    <2> QED
      BY <1>3, <2>1, <2>2
  <1>6. CASE StartStopButton(t)
    <2>1. ClientOK(d, w) /\ d.pc = c.pc
      BY <1>0, <1>6 DEF StartStopButton, ClientOK, ClientType
    <2> QED
      BY <1>0, <1>3, <2>1
  <1>7. ASSUME NEW n \in 1..Len(Unread(t)), NEW pc \in ClientPc, ReadChunk(t, n, pc),
               c.pc # "off",
               pc \in Attached => c.pc \in Attached \/ Unread(t)[1] = Ack,
               pc = "readList" => n = 1 /\ Unread(t)[1] = [tag |-> "Refresh"]
        PROVE  ClientInv'
    BY <1>0, <1>3, <1>7, ChunkStep
  <1>8. CASE ReadAck(t) \/ ReadRefresh(t) \/ DropHandshakeChunk(t) \/ ReadMarker(t) \/ DropChunk(t)
    <2>1. Unread(t) # <<>> => 1 \in 1..Len(Unread(t))
      BY UnreadWire
    <2>2. CASE ReadAck(t)
      BY <1>7, <2>1, <2>2 DEF ReadAck
    <2>3. CASE ReadRefresh(t)
      BY <1>7, <2>1, <2>3 DEF ReadRefresh
    <2>4. CASE DropHandshakeChunk(t)
      BY <1>7, <2>4 DEF DropHandshakeChunk
    <2>5. CASE ReadMarker(t)
      BY <1>7, <2>5 DEF ReadMarker
    <2>6. CASE DropChunk(t)
      BY <1>7, <2>6 DEF DropChunk
    <2> QED
      BY <1>8, <2>2, <2>3, <2>4, <2>5, <2>6
  <1>9. CASE ReadList(t)
    <2> DEFINE m == Unread(t)[1]
    <2>1. m \in ToTerminalMsg /\ m.tag = "list" /\ c.seen + 1 \in 1..Len(w) /\ m = w[c.seen + 1]
      BY <1>1, <1>9 DEF ReadList
    <2>2. m.names \in Seq(DeviceNames)
      BY <2>1 DEF ToTerminalMsg, Signal, ListMsg, ObjectMsg
    <2> DEFINE l == m.names
    <2>3. d = [[[[c EXCEPT !.pc = "handshake"] EXCEPT !.seen = c.seen + 1]
                  EXCEPT !.objectInputStream = "synced"] EXCEPT !.payloadListVector = l]
      BY <1>0, <1>9 DEF ReadList, ClientType
    <2>a. l \in Seq(DeviceNames) /\ m.names = l
      BY <2>2
    <2>b. c.seen + 1 \in Nat
      BY <1>1
    <2> HIDE DEF m, d, l, w
    <2>4. /\ d \in ClientType /\ d.pc = "handshake" /\ d.seen = c.seen + 1
          /\ d.payloadListVector = m.names
      BY <1>0, <2>a, <2>b, <2>3 DEF ClientType
    <2> USE DEF w
    <2>5. ClientOK(d, w)
      BY <1>1, <2>1, <2>4 DEF ClientOK
    <2> QED
      BY <1>0, <1>3, <1>9, <2>5 DEF ReadList
  <1>10. ASSUME d \in ClientType, d.seen \in {c.seen, c.seen + 1},
                d.seen = c.seen + 1 => Unread(t) # <<>>,
                d.payloadListVector = c.payloadListVector,
                c.pc \in Attached, d.pc # "readList"
         PROVE  ClientInv'
    BY <1>0, <1>3, <1>10, ObjectStep
  <1>11. CASE ReadObject(t)
    <2> DEFINE m == Unread(t)[1]
    <2>1. m \in ToTerminalMsg /\ m.tag = "object"
      BY <1>1, <1>11 DEF ReadObject
    <2>2. Update(m) \in [conn : Payloads, at : Nat]
      BY <2>1 DEF ToTerminalMsg, Signal, ListMsg, ObjectMsg, Update
    <2>3. Append(c.payloadDataVector, Update(m)) \in Seq([conn : Payloads, at : Nat])
      BY <1>0, <2>2 DEF ClientType
    <2> DEFINE v == Append(c.payloadDataVector, Update(m))
    <2>4. d = [[[c EXCEPT !.pc = "running"] EXCEPT !.seen = c.seen + 1]
                 EXCEPT !.payloadDataVector = v]
      BY <1>0, <1>11 DEF ReadObject, ClientType
    <2>a. v \in Seq([conn : Payloads, at : Nat])
      BY <2>3
    <2>b. c.seen + 1 \in Nat
      BY <1>1
    <2> HIDE DEF m, d, v
    <2>5. /\ d \in ClientType /\ d.pc = "running" /\ d.seen = c.seen + 1
          /\ d.payloadListVector = c.payloadListVector
      BY <1>0, <2>a, <2>b, <2>4 DEF ClientType
    <2> QED
      BY <1>10, <1>11, <2>5 DEF ReadObject, d
  <1>15. CASE RepeatObject(t)
    <2>1. PICK k \in 1..Len(c.payloadDataVector) :
            d = [[[c EXCEPT !.pc = "running"] EXCEPT !.seen = c.seen + 1]
                   EXCEPT !.payloadDataVector = Append(c.payloadDataVector, c.payloadDataVector[k])]
      BY <1>0, <1>15 DEF RepeatObject, ClientType
    <2> DEFINE x == c.payloadDataVector[k]
    <2>2. x \in [conn : Payloads, at : Nat]
      <3>1. c.payloadDataVector \in Seq([conn : Payloads, at : Nat])
        BY <1>0 DEF ClientType
      <3> QED
        BY <3>1, ElementOfSeq
    <2> HIDE DEF x
    <2> DEFINE v == Append(c.payloadDataVector, x)
    <2>3. v \in Seq([conn : Payloads, at : Nat]) /\ c.seen + 1 \in Nat
      BY <1>0, <1>1, <2>2 DEF ClientType
    <2>4. d = [[[c EXCEPT !.pc = "running"] EXCEPT !.seen = c.seen + 1]
                 EXCEPT !.payloadDataVector = v]
      BY <2>1 DEF x
    <2> HIDE DEF d, v
    <2>5. /\ d \in ClientType /\ d.pc = "running" /\ d.seen = c.seen + 1
          /\ d.payloadListVector = c.payloadListVector
      BY <1>0, <2>3, <2>4 DEF ClientType
    <2> QED
      BY <1>10, <1>15, <2>5 DEF RepeatObject, d
  <1>12. CASE ReadText(t)
    <2> DEFINE s == IF Unread(t)[1] \in {Ping, Ack} THEN c.seen + 1 ELSE c.seen
               x == Unread(t)[1] \notin {Ping, Ack}
    <2>1. d = [[[[c EXCEPT !.pc = AfterException(t)] EXCEPT !.objectInputStream = "broken"]
                  EXCEPT !.seen = s] EXCEPT !.torn = x]
      BY <1>0, <1>12 DEF ReadText, ClientType
    <2>2. s \in {c.seen, c.seen + 1} /\ s \in Nat /\ x \in BOOLEAN
      BY <1>1
    <2> HIDE DEF d, s, x
    <2>3. /\ d \in ClientType /\ d.pc \in {"dead", "running"} /\ d.seen \in {c.seen, c.seen + 1}
          /\ d.payloadListVector = c.payloadListVector
      BY <1>0, <2>1, <2>2, AfterExceptionType DEF ClientType
    <2> QED
      BY <1>10, <1>12, <2>3 DEF ReadText, d
  <1>13. CASE ReadNothing(t)
    <2>1. d = [c EXCEPT !.pc = AfterException(t)]
      BY <1>0, <1>13 DEF ReadNothing
    <2> HIDE DEF d
    <2>2. /\ d \in ClientType /\ d.pc \in {"dead", "running"} /\ d.seen = c.seen
          /\ d.payloadListVector = c.payloadListVector
      BY <1>0, <2>1, AfterExceptionType DEF ClientType
    <2>3. d.seen # c.seen + 1
      BY <1>1, <2>2
    <2> QED
      BY <1>10, <1>13, <2>2, <2>3 DEF ReadNothing, d
  <1>14. CASE MisreadObject(t)
    <2>1. PICK pc \in {AfterException(t), "dead"} :
            d = [[[c EXCEPT !.pc = pc] EXCEPT !.torn = TRUE] EXCEPT !.objectInputStream = "behind"]
      BY <1>0, <1>14 DEF MisreadObject, ClientType
    <2> HIDE DEF d
    <2>2. /\ d \in ClientType /\ d.pc \in {"dead", "running"} /\ d.seen = c.seen
          /\ d.payloadListVector = c.payloadListVector
      BY <1>0, <2>1, AfterExceptionType DEF ClientType
    <2>3. d.seen # c.seen + 1
      BY <1>1, <2>2
    <2> QED
      BY <1>10, <1>14, <2>2, <2>3 DEF MisreadObject, d
  <1> QED
    BY <1>4, <1>5, <1>6, <1>8, <1>9, <1>11, <1>12, <1>13, <1>14, <1>15
    DEF User, Client, RefreshButton, DeviceConnectButton, SendLine, Requests

-----------------------------------------------------------------------------
(* The invariant of the whole is inductive. *)
LEMMA SystemStep ==
  ASSUME SystemInv, [SystemNext]_systemVars PROVE SystemInv'
  <1>1. [Next]_vars
    BY ClientRefines
  <1>2. IInv' /\ AttachInv'
    BY <1>1, InvStep, AttachStep DEF SystemInv
  <1>3. ASSUME UNCHANGED client PROVE ClientInv'
    <2>1. client \in [Terminals -> ClientType]
      BY DEF SystemInv, ClientInv
    <2>2. ASSUME NEW u \in Terminals
          PROVE  ClientOK(client'[u], toTerminal'[u])
                   /\ (client'[u].pc # "off" => TerminalConnected(u)')
      <3>1. toTerminal[u] \in Seq(ToTerminalMsg) /\ toTerminal'[u] \in Seq(ToTerminalMsg)
        BY <1>2 DEF SystemInv, IInv, TypeOK, TerminalWires
      <3>2. ClientOK(client[u], toTerminal[u])
        BY DEF SystemInv, ClientInv
      <3>3. ClientOK(client[u], toTerminal'[u])
        BY <1>1, <3>1, <3>2, WireGrows, ClientGrows DEF SystemInv
      <3>4. client[u].pc # "off" => TerminalConnected(u)'
        BY <1>1, ConnectionStays DEF SystemInv, ClientInv
      <3> QED
        BY <1>3, <3>3, <3>4
    <2> QED
      BY <1>3, <2>1, <2>2 DEF ClientInv
  <1>4. ASSUME NEW t \in Terminals, User(t) \/ Client(t) PROVE ClientInv'
    BY <1>1, <1>4, TerminalStep
  <1> QED
    BY <1>2, <1>3, <1>4 DEF SystemNext, systemVars, SystemInv

(* It holds when nobody is connected. *)
LEMMA SystemInitInv ==
  ASSUME SystemInit PROVE SystemInv
  <1>1. IInv
    BY InitInv DEF SystemInit
  <1>2. AttachInv
    BY ServerAssumption
    DEF SystemInit, Init, AttachInv, Has
  <1>3. IdleClient \in ClientType
    BY DEF IdleClient, ClientType, ClientPc
  <1>4. ASSUME NEW t \in Terminals
        PROVE  ClientOK(client[t], toTerminal[t]) /\ client[t].pc = "off"
    <2>1. client[t] = IdleClient /\ toTerminal[t] = <<>>
      BY DEF SystemInit, Init
    <2> QED
      BY <1>3, <2>1 DEF IdleClient, ClientOK, Attached
  <1>5. client \in [Terminals -> ClientType]
    BY <1>3 DEF SystemInit
  <1> QED
    BY <1>1, <1>2, <1>4, <1>5 DEF SystemInv, ClientInv

(* The invariant of the whole: the server's, that "@" only goes to a        *)
(* terminal that chose a payload, and that a terminal's thread only has     *)
(* what it read on its wire.                                               *)
THEOREM SystemInvariant == SystemSpec => []SystemInv
  BY SystemInitInv, SystemStep, PTL DEF SystemSpec

(* What SendName and DataController keep between two reads has its type,   *)
(* and neither reads more of the wire than the server wrote.               *)
THEOREM SystemTypeCorrect == SystemSpec => []SystemTypeOK
  <1>1. SystemInv => SystemTypeOK
    BY DEF SystemInv, ClientInv, ClientOK, SystemTypeOK
  <1> QED
    BY SystemInvariant, <1>1, PTL

(* The terminals' program implements the terminals S4Server assumes: it    *)
(* sends a name only from a list it was sent, and requests and text only   *)
(* after "@".  All that is proved of Spec holds of the whole system.       *)
THEOREM TerminalsKeepTheProtocol == SystemSpec => Spec
  <1>1. SystemInit => Init
    BY DEF SystemInit
  <1>2. SystemInv /\ [SystemNext]_systemVars => [Next]_vars
    BY ClientRefines
  <1> QED
    BY SystemInvariant, <1>1, <1>2, PTL DEF SystemSpec, Spec

(* GetObjectStream.getObject, which a terminal calls on a "Refresh" that   *)
(* was a chunk of its own, finds the list next on its wire: of all threads *)
(* that share streams in the server none writes between the two.           *)
THEOREM GetObjectIsSafe == SystemSpec => []GetObjectFindsAList
  <1>1. SystemInv /\ ListFollowsRefresh => GetObjectFindsAList
    <2> SUFFICES ASSUME SystemInv, ListFollowsRefresh, NEW t \in Terminals,
                        client[t].pc = "readList", Unread(t) # <<>>
                 PROVE  Unread(t)[1].tag = "list"
      BY DEF GetObjectFindsAList
    <2> DEFINE w == toTerminal[t]
               s == client[t].seen
    <2>1. /\ s + 1 \in 1..Len(w) /\ Unread(t)[1] = w[s + 1] /\ s \in 0..Len(w)
          /\ Len(w) \in Nat
      BY UnreadWire, LenProperties DEF SystemInv
    <2>2. s > 0 /\ w[s].tag = "Refresh"
      BY DEF SystemInv, ClientInv, ClientOK
    <2>3. s \in 1..Len(w) /\ s < Len(w)
      BY <2>1, <2>2
    <2>4. w[s + 1].tag = "list"
      BY <2>2, <2>3 DEF ListFollowsRefresh
    <2> QED
      BY <2>1, <2>4
  <1>2. SystemSpec => []ListFollowsRefresh
    BY TerminalsKeepTheProtocol, RefreshBringsTheList, PTL
  <1> QED
    BY SystemInvariant, <1>1, <1>2, PTL

(* The freshness of the server's answers, end to end: with the terminals'  *)
(* own code at the other end it still holds in every interleaving.         *)
THEOREM AnswersStayFreshInTheSystem == SystemSpec => []AnswersAreFresh
  BY TerminalsKeepTheProtocol, AnswersStayFresh, PTL

-----------------------------------------------------------------------------
(* The promise to the user: what a terminal shows is read off its wire, and *)
(* with one terminal nothing there is older than what came before.          *)

DisplayInv ==
  \A t \in Terminals : \A k \in 1..Len(client[t].payloadDataVector) :
    \E i \in 1..client[t].seen :
      /\ IsObject(toTerminal[t][i])
      /\ client[t].payloadDataVector[k] = Update(toTerminal[t][i])

(* Nothing is shown before the thread is through its handshake.            *)
FreshInv ==
  \A t \in Terminals : client[t].pc \notin Attached => client[t].payloadDataVector = <<>>

Lossy(c) == c.objectInputStream \in {"behind", "broken"}

(* A step that shows nothing: only a new list mends a stream that lost.    *)
ShowsNothing(c, d) ==
  /\ d.payloadDataVector = c.payloadDataVector
  /\ c.seen <= d.seen
  /\ d.pc \notin Attached => c.pc \notin Attached
  /\ Lossy(c) => Lossy(d) \/ c.pc = "readList"

(* What a step does to one terminal's program. *)
LEMMA ClientMoves ==
  ASSUME SystemInv, [SystemNext]_systemVars, NEW t \in Terminals
  PROVE  ShowsNothing(client[t], client'[t]) \/ ReadObject(t) \/ RepeatObject(t)
  <1> DEFINE c == client[t]
             d == client'[t]
  <1>0. /\ client \in [Terminals -> ClientType] /\ c \in ClientType
        /\ c.seen \in Nat /\ Len(Unread(t)) \in Nat
    <2>1. c \in ClientType /\ Unread(t) \in Seq(ToTerminalMsg)
      BY UnreadWire DEF SystemInv
    <2>2. Len(Unread(t)) \in Nat
      BY <2>1, LenProperties
    <2> QED
      BY <2>1, <2>2 DEF SystemInv, ClientInv, ClientType
  <1>1. CASE d = c
    BY <1>0, <1>1 DEF ShowsNothing
  <1>2. ASSUME NEW u \in Terminals, u # t, User(u) \/ Client(u) PROVE d = c
    BY <1>0, <1>2 DEF User, Client, Connects, RefreshButton, DeviceConnectButton, SendLine,
       StartStopButton, ReadAck, ReadRefresh, DropHandshakeChunk, ReadList, ReadMarker,
       DropChunk, ReadObject, ReadText, ReadNothing, RepeatObject, MisreadObject, Requests,
       ReadChunk
  <1>3. CASE User(t)
    <2>1. CASE Connects(t)
      <3>1. /\ c.pc = "off" /\ d.payloadDataVector = c.payloadDataVector /\ d.seen = c.seen
            /\ d.objectInputStream = c.objectInputStream
        BY <1>0, <2>1 DEF Connects, ClientType
      <3> QED
        BY <1>0, <3>1 DEF ShowsNothing, Attached, Lossy
    <2>2. CASE StartStopButton(t)
      <3>1. /\ d.pc = c.pc /\ d.payloadDataVector = c.payloadDataVector /\ d.seen = c.seen
            /\ d.objectInputStream = c.objectInputStream
        BY <1>0, <2>2 DEF StartStopButton, ClientType
      <3> QED
        BY <1>0, <3>1 DEF ShowsNothing, Lossy
    <2> QED
      BY <1>1, <1>3, <2>1, <2>2
      DEF User, RefreshButton, DeviceConnectButton, SendLine
  <1>4. ASSUME NEW n \in Nat, NEW pc, ReadChunk(t, n, pc),
               pc \notin Attached => c.pc \notin Attached
        PROVE  ShowsNothing(c, d)
    <2>1. /\ d.payloadDataVector = c.payloadDataVector /\ d.seen = c.seen + n /\ d.pc = pc
          /\ d.objectInputStream \in {c.objectInputStream, "behind"}
      BY <1>0, <1>4 DEF ReadChunk, ClientType
    <2> QED
      BY <1>0, <1>4, <2>1 DEF ShowsNothing, Lossy
  <1>5. CASE ReadAck(t) \/ ReadRefresh(t) \/ DropHandshakeChunk(t) \/ ReadMarker(t) \/ DropChunk(t)
    BY <1>0, <1>4, <1>5 DEF ReadAck, ReadRefresh, DropHandshakeChunk, ReadMarker, DropChunk, Attached
  <1>6. CASE ReadList(t)
    <2>1. /\ c.pc = "readList" /\ d.payloadDataVector = c.payloadDataVector
          /\ d.seen = c.seen + 1
      BY <1>0, <1>6 DEF ReadList, ClientType
    <2> QED
      BY <1>0, <2>1 DEF ShowsNothing, Attached
  <1>7. CASE ReadText(t) \/ MisreadObject(t)
    <2>1. /\ d.payloadDataVector = c.payloadDataVector
          /\ d.objectInputStream \in {"broken", "behind"}
      BY <1>0, <1>7 DEF ReadText, MisreadObject, ClientType
    <2>2. d.seen \in {c.seen, c.seen + 1}
      BY <1>0, <1>7 DEF ReadText, MisreadObject, ClientType
    <2>3. d.pc \in {"running", "dead"}
      BY <1>0, <1>7, AfterExceptionType DEF ReadText, MisreadObject, ClientType
    <2> QED
      BY <1>0, <2>1, <2>2, <2>3 DEF ShowsNothing, Attached, Lossy
  <1>8. CASE ReadNothing(t)
    <2>1. /\ d.payloadDataVector = c.payloadDataVector /\ d.seen = c.seen
          /\ d.objectInputStream = c.objectInputStream /\ d.pc \in {"running", "dead"}
      BY <1>0, <1>8, AfterExceptionType DEF ReadNothing, ClientType
    <2> QED
      BY <1>0, <2>1 DEF ShowsNothing, Attached, Lossy
  <1>9. CASE Requests(t)
    BY <1>1, <1>9 DEF Requests
  <1>10. CASE Client(t)
    BY <1>5, <1>6, <1>7, <1>8, <1>9, <1>10 DEF Client
  <1> QED
    BY <1>1, <1>2, <1>3, <1>10 DEF SystemNext, systemVars

(* What is appended when an object is read. *)
LEMMA ObjectRead ==
  ASSUME SystemInv, NEW t \in Terminals, ReadObject(t)
  PROVE  LET s == client[t].seen
             m == toTerminal[t][s + 1]
         IN  /\ s \in Nat /\ s + 1 \in 1..Len(toTerminal[t]) /\ IsObject(m)
             /\ client'[t].seen = s + 1 /\ UNCHANGED vars
             /\ client'[t].payloadDataVector = Append(client[t].payloadDataVector, Update(m))
             /\ \A u \in Terminals \ {t} : client'[u] = client[u]
  <1>1. /\ client \in [Terminals -> ClientType] /\ client[t] \in ClientType
        /\ client[t].seen \in Nat
    BY DEF SystemInv, ClientInv, ClientType
  <1>2. /\ Unread(t) # <<>> /\ Unread(t)[1].tag = "object" /\ UNCHANGED vars
        /\ client' = [client EXCEPT ![t].pc = "running", ![t].seen = @ + 1,
                       ![t].payloadDataVector = Append(@, Update(Unread(t)[1]))]
    BY DEF ReadObject
  <1>3. /\ client[t].seen + 1 \in 1..Len(toTerminal[t])
        /\ Unread(t)[1] = toTerminal[t][client[t].seen + 1]
    BY <1>2, UnreadWire DEF SystemInv
  <1>4. /\ client'[t].seen = client[t].seen + 1
        /\ client'[t].payloadDataVector =
             Append(client[t].payloadDataVector, Update(Unread(t)[1]))
        /\ \A u \in Terminals \ {t} : client'[u] = client[u]
    BY <1>1, <1>2 DEF ClientType
  <1> QED
    BY <1>1, <1>2, <1>3, <1>4 DEF IsObject

(* What is appended when an update read before is shown once more. *)
LEMMA ObjectRepeated ==
  ASSUME SystemInv, NEW t \in Terminals, RepeatObject(t)
  PROVE  \E k \in 1..Len(client[t].payloadDataVector) :
           /\ client'[t].payloadDataVector =
                Append(client[t].payloadDataVector, client[t].payloadDataVector[k])
           /\ client'[t].seen = client[t].seen + 1
           /\ client[t].objectInputStream = "behind"
           /\ client'[t].objectInputStream = "behind" /\ client'[t].pc = "running"
  <1>1. client \in [Terminals -> ClientType] /\ client[t] \in ClientType
    BY DEF SystemInv, ClientInv
  <1>2. PICK k \in 1..Len(client[t].payloadDataVector) :
          client' = [client EXCEPT ![t].pc = "running", ![t].seen = @ + 1,
             ![t].payloadDataVector = Append(@, client[t].payloadDataVector[k])]
    BY DEF RepeatObject
  <1>3. client[t].objectInputStream = "behind"
    BY DEF RepeatObject
  <1> QED
    BY <1>1, <1>2, <1>3 DEF ClientType

(* A thread in its handshake has shown nothing. *)
LEMMA FreshStep ==
  ASSUME SystemInv, [SystemNext]_systemVars, FreshInv PROVE FreshInv'
  <1> SUFFICES ASSUME NEW t \in Terminals, client'[t].pc \notin Attached
               PROVE  client'[t].payloadDataVector = <<>>
    BY DEF FreshInv, Attached
  <1>1. client \in [Terminals -> ClientType] /\ client[t] \in ClientType
    BY DEF SystemInv, ClientInv
  <1>2. CASE ShowsNothing(client[t], client'[t])
    BY <1>2 DEF ShowsNothing, FreshInv
  <1>3. ~ReadObject(t)
    BY <1>1 DEF ReadObject, ClientType, Attached
  <1>4. ~RepeatObject(t)
    BY ObjectRepeated DEF Attached
  <1> QED
    BY <1>2, <1>3, <1>4, ClientMoves

(* What is shown stays on the part of the wire that has been read. *)
LEMMA DisplayStep ==
  ASSUME SystemInv, [SystemNext]_systemVars, DisplayInv PROVE DisplayInv'
  <1> SUFFICES ASSUME NEW t \in Terminals, NEW k \in 1..Len(client'[t].payloadDataVector)
      PROVE  \E i \in 1..client'[t].seen :
               /\ IsObject(toTerminal'[t][i])
               /\ client'[t].payloadDataVector[k] = Update(toTerminal'[t][i])
    BY DEF DisplayInv, Update
  <1> DEFINE w == toTerminal[t]
             v == toTerminal'[t]
             shown == client[t].payloadDataVector
  <1>0. /\ client[t].seen \in 0..Len(w) /\ Len(w) \in Nat
        /\ client'[t].seen \in Nat
        /\ shown \in Seq([conn : Payloads, at : Nat])
        /\ \A i \in 1..Len(w) : i \in 1..Len(v) /\ v[i] = w[i]
    <2>1. SystemInv' /\ [Next]_vars
      BY SystemStep, ClientRefines
    <2>2. client'[t].seen \in Nat
      BY <2>1 DEF SystemInv, ClientInv, ClientType
    <2>3. client[t].seen \in 0..Len(w) /\ client[t] \in ClientType /\ w \in Seq(ToTerminalMsg)
      BY UnreadWire DEF SystemInv
    <2>4. v \in Seq(ToTerminalMsg)
      BY <2>1 DEF SystemInv, IInv, TypeOK, TerminalWires
    <2>5. Grows(w, v)
      BY <2>1, WireGrows DEF SystemInv
    <2>6. Len(w) \in Nat /\ Len(v) \in Nat
      BY <2>3, <2>4, LenProperties
    <2> HIDE DEF w, v
    <2> QED
      BY <2>2, <2>3, <2>5, <2>6 DEF Grows, ClientType
  <1>1. ASSUME NEW j \in 1..Len(shown), client[t].seen <= client'[t].seen
        PROVE  \E i \in 1..client'[t].seen : IsObject(v[i]) /\ shown[j] = Update(v[i])
    <2>1. PICK i \in 1..client[t].seen : IsObject(w[i]) /\ shown[j] = Update(w[i])
      BY DEF DisplayInv
    <2>2. i \in 1..client'[t].seen /\ i \in 1..Len(w)
      BY <1>0, <1>1, SMTT(30)
    <2> QED
      BY <1>0, <2>1, <2>2
  <1>2. CASE ShowsNothing(client[t], client'[t])
    BY <1>1, <1>2 DEF ShowsNothing
  <1>3. CASE ReadObject(t)
    <2> DEFINE s == client[t].seen
               m == w[s + 1]
    <2>1. /\ s \in Nat /\ s + 1 \in 1..Len(w) /\ IsObject(m) /\ client'[t].seen = s + 1
          /\ client'[t].payloadDataVector = Append(shown, Update(m))
      BY <1>3, ObjectRead
    <2>2. k \in 1..(Len(shown) + 1) /\ Len(shown) \in Nat
          /\ \A j \in 1..Len(shown) : client'[t].payloadDataVector[j] = shown[j]
          /\ client'[t].payloadDataVector[Len(shown) + 1] = Update(m)
      <3>1. Update(m) \in [conn : Payloads, at : Nat]
        <4>1. SystemInv'
          BY SystemStep
        <4>2. client'[t].payloadDataVector \in Seq([conn : Payloads, at : Nat])
          BY <4>1 DEF SystemInv, ClientInv, ClientType
        <4>3. Len(Append(shown, Update(m))) = Len(shown) + 1
              /\ Append(shown, Update(m))[Len(shown) + 1] = Update(m)
          BY <1>0
        <4>4. Len(shown) + 1 \in 1..Len(client'[t].payloadDataVector)
          BY <1>0, <2>1, <4>3
        <4> QED
          BY <2>1, <4>2, <4>3, <4>4, ElementOfSeq
      <3> HIDE DEF shown, m, w
      <3> QED
        BY <1>0, <2>1, <3>1, AppendProperties
    <2>3. CASE k \in 1..Len(shown)
      <3>1. client[t].seen <= client'[t].seen
        BY <2>1
      <3> QED
        BY <1>1, <2>2, <2>3, <3>1
    <2>4. CASE k = Len(shown) + 1
      <3>1. v[s + 1] = m /\ s + 1 \in 1..client'[t].seen
        BY <1>0, <2>1
      <3>2. client'[t].payloadDataVector[k] = Update(m) /\ IsObject(m)
        BY <2>1, <2>2, <2>4
      <3> HIDE DEF m, v, w, s, shown
      <3>3. /\ IsObject(v[s + 1])
            /\ client'[t].payloadDataVector[k] = Update(v[s + 1])
        BY <3>1, <3>2
      <3> QED
        BY <3>1, <3>3 DEF v
    <2> QED
      BY <2>2, <2>3, <2>4
  <1>4. CASE RepeatObject(t)
    <2>1. PICK j \in 1..Len(shown) :
            /\ client'[t].payloadDataVector = Append(shown, shown[j])
            /\ client'[t].seen = client[t].seen + 1
      BY <1>4, ObjectRepeated
    <2>2. client[t].seen <= client'[t].seen
      BY <1>0, <2>1
    <2>3. \E i \in 1..Len(shown) : client'[t].payloadDataVector[k] = shown[i]
      <3> DEFINE x == shown[j]
      <3>1. x \in [conn : Payloads, at : Nat] /\ client'[t].payloadDataVector = Append(shown, x)
        BY <1>0, <2>1, ElementOfSeq
      <3>2. x = shown[j]
        OBVIOUS
      <3> HIDE DEF x, shown
      <3>3. /\ k \in 1..(Len(shown) + 1) /\ Len(shown) \in Nat
            /\ \A i \in 1..Len(shown) : client'[t].payloadDataVector[i] = shown[i]
            /\ client'[t].payloadDataVector[Len(shown) + 1] = x
        BY <1>0, <3>1, AppendProperties
      <3> QED
        BY <3>2, <3>3
    <2> QED
      BY <1>1, <2>2, <2>3
  <1> QED
    BY <1>2, <1>3, <1>4, ClientMoves

(* One update more on the screen: an entry that is kept, and none older     *)
(* than one of the same payload shown before.                               *)
LEMMA ShowsInOrder ==
  ASSUME SystemInv, OrderInv, DisplayInv, NEW t \in Terminals, ReadObject(t)
  PROVE  \E p \in Payloads : \E k \in 1..Len(payloadDataVector[p]) :
           /\ \A j \in 1..Len(client[t].payloadDataVector) :
                client[t].payloadDataVector[j].conn = p =>
                  client[t].payloadDataVector[j].at <= k
           /\ client'[t].payloadDataVector =
                Append(client[t].payloadDataVector, [conn |-> p, at |-> k])
  <1> DEFINE w == toTerminal[t]
             s == client[t].seen
             m == w[s + 1]
             shown == client[t].payloadDataVector
  <1>1. /\ s \in Nat /\ s + 1 \in 1..Len(w) /\ IsObject(m)
        /\ client'[t].payloadDataVector = Append(shown, Update(m))
    BY ObjectRead
  <1>2. m.at \in 1..Len(payloadDataVector[m.conn]) /\ m.conn \in Payloads
    <2>1. m \in ToTerminalMsg
      BY <1>1, ElementOfSeq DEF SystemInv, IInv, TypeOK, TerminalWires
    <2>2. m.conn \in Payloads
      BY <1>1, <2>1 DEF ToTerminalMsg, Signal, ListMsg, ObjectMsg, IsObject
    <2> QED
      BY <1>1, <2>2 DEF SystemInv, IInv, AnswerInv, IsObject
  <1>3. ASSUME NEW j \in 1..Len(shown), shown[j].conn = m.conn
        PROVE  shown[j].at <= m.at
    <2>1. PICK i \in 1..s : IsObject(w[i]) /\ shown[j] = Update(w[i])
      BY DEF DisplayInv
    <2>2. w[i].conn = m.conn /\ shown[j].at = w[i].at
      BY <1>3, <2>1 DEF Update
    <2>3. Len(w) \in Nat
      BY LenProperties DEF SystemInv, IInv, TypeOK, TerminalWires
    <2>4. i \in 1..Len(w) /\ i < s + 1
      BY <1>1, <2>3
    <2> QED
      BY <1>1, <2>1, <2>2, <2>4 DEF OrderInv
  <1>4. Update(m) = [conn |-> m.conn, at |-> m.at]
    BY DEF Update
  <1> QED
    BY <1>1, <1>2, <1>3, <1>4

(* Every step of the whole is one of UpdateService, or invisible to it. *)
LEMMA ShownStep ==
  ASSUME OneTerminal, SystemInv, OrderInv, DisplayInv, FreshInv, [SystemNext]_systemVars
  PROVE  [Shown!Next]_(Shown!vars)
  <1> DEFINE kept == [p \in Payloads |-> Len(payloadDataVector[p])]
             shown == [t \in Terminals |-> client[t].payloadDataVector]
             missed == {t \in Terminals : client[t].objectInputStream \in {"behind", "broken"}}
  <1>0. /\ payloadDataVector \in [Payloads -> Seq(Seq(PayloadMsg))]
        /\ client \in [Terminals -> ClientType]
    BY DEF SystemInv, IInv, TypeOK, PayloadType, ClientInv
  <1>1. CASE UNCHANGED client /\ [Next]_vars
    <2>1. shown' = shown /\ missed' = missed
      BY <1>1
    <2>2. CASE UNCHANGED payloadDataVector
      <3>1. kept' = kept
        BY <2>2
      <3> QED
        BY <2>1, <3>1 DEF Shown!vars
    <2>3. ASSUME NEW p \in Payloads, NEW e \in Seq(PayloadMsg),
                 payloadDataVector' = [payloadDataVector EXCEPT ![p] = Append(@, e)]
          PROVE  Shown!Keep(p)
      <3>1. ASSUME NEW q \in Payloads
            PROVE  Len(payloadDataVector'[q]) =
                     IF q = p THEN Len(payloadDataVector[q]) + 1 ELSE Len(payloadDataVector[q])
        BY <1>0, <2>3, AppendProperties
      <3>2. kept' = [kept EXCEPT ![p] = @ + 1]
        BY <3>1
      <3> QED
        BY <2>1, <3>2 DEF Shown!Keep
    <2> QED
      BY <1>1, <2>2, <2>3, VectorStep DEF Shown!Next, SystemInv
  <1>2. ASSUME NEW t \in Terminals, User(t) \/ Client(t)
        PROVE  [Shown!Next]_(Shown!vars)
    <2> DEFINE c == client[t]
               d == client'[t]
    <2>1. /\ UNCHANGED payloadDataVector /\ kept' = kept
          /\ \A u \in Terminals \ {t} : client'[u] = client[u]
      <3>1. UNCHANGED payloadDataVector
        BY <1>2 DEF User, Client, Connects, ConnectTerminal, RefreshButton, DeviceConnectButton,
           SendLine, StartStopButton, ReadAck, ReadRefresh, DropHandshakeChunk, ReadList,
           ReadMarker, DropChunk, ReadObject, ReadText, ReadNothing, RepeatObject,
           MisreadObject, Requests, ServerVars, vars
      <3>2. \A u \in Terminals \ {t} : client'[u] = client[u]
        BY <1>0, <1>2 DEF User, Client, Connects, RefreshButton, DeviceConnectButton, SendLine,
           StartStopButton, ReadAck, ReadRefresh, DropHandshakeChunk, ReadList, ReadMarker,
           DropChunk, ReadObject, ReadText, ReadNothing, RepeatObject, MisreadObject, Requests,
           ReadChunk
      <3> QED
        BY <3>1, <3>2
    <2>2. CASE ReadObject(t)
      <3>0. PICK p \in Payloads : \E k \in 1..Len(payloadDataVector[p]) :
               /\ \A j \in 1..Len(c.payloadDataVector) :
                    c.payloadDataVector[j].conn = p => c.payloadDataVector[j].at <= k
               /\ d.payloadDataVector = Append(c.payloadDataVector, [conn |-> p, at |-> k])
        BY <2>2, ShowsInOrder
      <3>1. PICK k \in 1..Len(payloadDataVector[p]) :
               /\ \A j \in 1..Len(c.payloadDataVector) :
                    c.payloadDataVector[j].conn = p => c.payloadDataVector[j].at <= k
               /\ d.payloadDataVector = Append(c.payloadDataVector, [conn |-> p, at |-> k])
        BY <3>0
      <3>2. shown' = [shown EXCEPT ![t] = Append(@, [conn |-> p, at |-> k])]
        BY <2>1, <3>1
      <3>3. missed' = missed
        <4>1. d.objectInputStream = c.objectInputStream
          BY <1>0, <2>2 DEF ReadObject, ClientType
        <4> QED
          BY <2>1, <4>1
      <3>4. kept[p] = Len(payloadDataVector[p])
        OBVIOUS
      <3>5. Shown!Hand(t, p, k)
        BY <2>1, <3>1, <3>2, <3>3, <3>4 DEF Shown!Hand
      <3> QED
        BY <3>1, <3>4, <3>5 DEF Shown!Next
    <2>3. CASE RepeatObject(t)
      <3>1. PICK k \in 1..Len(c.payloadDataVector) :
               /\ d.payloadDataVector = Append(c.payloadDataVector, c.payloadDataVector[k])
               /\ c.objectInputStream = "behind" /\ d.objectInputStream = "behind"
        BY <2>3, ObjectRepeated
      <3>2. shown' = [shown EXCEPT ![t] = Append(@, shown[t][k])]
        BY <2>1, <3>1
      <3>3. missed' = missed /\ t \in missed
        BY <2>1, <3>1
      <3>4. Shown!Repeat(t)
        BY <2>1, <3>1, <3>2, <3>3 DEF Shown!Repeat
      <3> QED
        BY <3>4 DEF Shown!Next
    <2>4. CASE ShowsNothing(c, d)
      <3>1. shown' = shown
        BY <2>1, <2>4 DEF ShowsNothing
      <3>2. CASE Lossy(c) /\ ~Lossy(d)
        <4>1. missed' = missed \ {t}
          BY <2>1, <3>2 DEF Lossy
        <4>2. shown[t] = <<>>
          BY <2>4, <3>2 DEF ShowsNothing, FreshInv, Attached
        <4>3. Shown!Renew(t)
          BY <2>1, <3>1, <4>1, <4>2 DEF Shown!Renew
        <4> QED
          BY <4>3 DEF Shown!Next
      <3>3. CASE ~Lossy(c) /\ Lossy(d)
        <4>1. missed' = missed \cup {t}
          BY <2>1, <3>3 DEF Lossy
        <4>2. Shown!Lose(t)
          BY <2>1, <3>1, <4>1 DEF Shown!Lose
        <4> QED
          BY <4>2 DEF Shown!Next
      <3>4. CASE Lossy(c) <=> Lossy(d)
        <4>1. missed' = missed
          BY <2>1, <3>4 DEF Lossy
        <4> QED
          BY <2>1, <3>1, <4>1 DEF Shown!vars
      <3> QED
        BY <3>2, <3>3, <3>4
    <2> QED
      BY <2>2, <2>3, <2>4, ClientMoves
  <1> QED
    BY <1>1, <1>2, ClientRefines DEF SystemNext, systemVars

(* What any terminal shows stays on the wire it was read from. *)
LEMMA DisplayInvariant == SystemSpec => [](SystemInv /\ DisplayInv /\ FreshInv)
  <1>1. SystemInit => DisplayInv /\ FreshInv
    BY DEF SystemInit, DisplayInv, FreshInv, IdleClient
  <1>2. SystemInv /\ DisplayInv /\ [SystemNext]_systemVars => DisplayInv'
    BY DisplayStep
  <1>3. SystemInv /\ FreshInv /\ [SystemNext]_systemVars => FreshInv'
    BY FreshStep
  <1> QED
    BY <1>1, <1>2, <1>3, SystemInvariant, PTL DEF SystemSpec

(* An entry of the server that a terminal can show. *)
Stored(u) ==
  u.conn \in Payloads /\ u.at \in 1..Len(payloadDataVector[u.conn])
    /\ deviceName[u.conn] # None

(* With any number of terminals on the shared stream, an update shown by   *)
(* DataController.run is an entry that the server keeps of a payload that  *)
(* it has attached: updates may be lost or misdirected, none is invented.  *)
THEOREM ShowsOnlyStoredEntries ==
  SystemSpec => [](\A t \in Terminals : \A k \in 1..Len(client[t].payloadDataVector) :
                     Stored(client[t].payloadDataVector[k]))
  <1> DEFINE Goal == \A t \in Terminals : \A k \in 1..Len(client[t].payloadDataVector) :
                       Stored(client[t].payloadDataVector[k])
  <1>1. SystemInv /\ DisplayInv => Goal
    <2> SUFFICES ASSUME SystemInv, DisplayInv, NEW t \in Terminals,
                        NEW k \in 1..Len(client[t].payloadDataVector)
                 PROVE  Stored(client[t].payloadDataVector[k])
      OBVIOUS
    <2> DEFINE w == toTerminal[t]
    <2>1. PICK i \in 1..client[t].seen :
            IsObject(w[i]) /\ client[t].payloadDataVector[k] = Update(w[i])
      BY DEF DisplayInv
    <2>2. w \in Seq(ToTerminalMsg) /\ Len(w) \in Nat /\ client[t].seen \in 0..Len(w)
      BY UnreadWire, LenProperties DEF SystemInv
    <2>3. i \in 1..Len(w)
      BY <2>2
    <2>4. w[i] \in ToTerminalMsg
      BY <2>2, <2>3, ElementOfSeq
    <2>5. w[i].conn \in Payloads
      BY <2>1, <2>4 DEF ToTerminalMsg, Signal, ListMsg, ObjectMsg, IsObject
    <2>6. /\ w[i].at \in 1..Len(payloadDataVector[w[i].conn])
          /\ deviceName[w[i].conn] # None
      BY <2>1, <2>3 DEF SystemInv, IInv, AnswerInv, IsObject
    <2> QED
      BY <2>1, <2>5, <2>6 DEF Stored, Update
  <1> QED
    BY <1>1, DisplayInvariant, PTL

(* With one terminal, what it shows keeps the promise of UpdateService, for *)
(* any number of payloads, readings and requests: an older reading follows  *)
(* a newer one only after the stream has missed something, when a back      *)
(* reference is resolved to another update, and it was then shown before.   *)
THEOREM PromiseToTheUser ==
  ASSUME OneTerminal PROVE SystemSpec => KeepsThePromiseToTheUser
  <1>1. SystemInit => Shown!Init
    BY DEF SystemInit, Init, Shown!Init, IdleClient
  <1>2. SystemSpec => []OrderInv
    BY TerminalsKeepTheProtocol, OrderInvariant, PTL
  <1>3. SystemInv /\ OrderInv /\ DisplayInv /\ FreshInv /\ [SystemNext]_systemVars
          => [Shown!Next]_(Shown!vars)
    BY ShownStep
  <1> QED
    BY <1>1, <1>2, <1>3, DisplayInvariant, PTL
    DEF SystemSpec, KeepsThePromiseToTheUser, Shown!Spec

-----------------------------------------------------------------------------
(* Why a terminal's thread dies, and what it waits for in readObject: with  *)
(* one terminal, on whose wire markers and objects alternate.               *)

AckBehind(w) == \E k \in 1..Len(w) : \E j \in 1..(k - 1) : w[j] = Marker /\ w[k] = Ack

LossOK(c, w) ==
  /\ c.pc = "readObject" => \E j \in 1..c.seen : w[j] = Marker
  /\ c.pc = "readObject" /\ c.objectInputStream = "synced" => ObjectOwed(w, c.seen)
  /\ c.objectInputStream = "broken" => c.payloadDataVector # <<>> \/ c.pc = "dead"
  /\ c.pc = "dead" =>
       \/ c.objectInputStream = "behind" \/ AckBehind(w)
       \/ c.payloadDataVector = <<>> /\ \E j \in 1..c.seen : IsObject(w[j])

LossInv == \A t \in Terminals : LossOK(client[t], toTerminal[t])

(* All that is unread, not only its first message. *)
LEMMA UnreadMembers ==
  ASSUME IInv, ClientInv, NEW t \in Terminals
  PROVE  \A k \in 1..Len(Unread(t)) : /\ client[t].seen + k \in 1..Len(toTerminal[t])
                                      /\ Unread(t)[k] = toTerminal[t][client[t].seen + k]
  <1> DEFINE w == toTerminal[t]
             s == client[t].seen
  <1>1. w \in Seq(ToTerminalMsg) /\ Len(w) \in Nat /\ s \in 0..Len(w)
        /\ Len(Unread(t)) = Len(w) - s
    BY UnreadWire, LenProperties
  <1>2. CASE s = 0
    <2>1. Unread(t) = w
      BY <1>1, <1>2, SubSeqProperties DEF Unread, Rest
    <2> QED
      BY <1>1, <1>2, <2>1
  <1>3. CASE s \in 1..Len(w)
    <2>1. \A k \in 1..(Len(w) - s) : Rest(w, s)[k] = w[s + k]
      BY <1>1, <1>3, WireType
    <2> HIDE DEF w, s
    <2> QED
      BY <1>1, <2>1 DEF Unread, w, s
  <1> HIDE DEF s, w
  <1> QED
    BY <1>1, <1>2, <1>3 DEF s, w

(* A longer wire does not change what happened on the part read. *)
LEMMA LossGrows ==
  ASSUME NEW c, NEW w, NEW v, Len(w) \in Nat, Len(v) \in Nat, c.seen \in 0..Len(w),
         Grows(w, v), LossOK(c, w)
  PROVE  LossOK(c, v)
  <1>1. \A k \in 1..Len(w) : k \in 1..Len(v) /\ v[k] = w[k]
    BY DEF Grows
  <1>2. \A j \in 1..c.seen : v[j] = w[j]
    BY <1>1
  <1>3. ObjectOwed(w, c.seen) => ObjectOwed(v, c.seen)
    BY OwedGrows
  <1>4. AckBehind(w) => AckBehind(v)
    <2> SUFFICES ASSUME AckBehind(w) PROVE AckBehind(v)
      OBVIOUS
    <2>1. PICK k \in 1..Len(w) : \E j \in 1..(k - 1) : w[j] = Marker /\ w[k] = Ack
      BY DEF AckBehind
    <2>2. PICK j \in 1..(k - 1) : w[j] = Marker /\ w[k] = Ack
      BY <2>1
    <2>3. j \in 1..Len(w)
      OBVIOUS
    <2> QED
      BY <1>1, <2>2, <2>3 DEF AckBehind
  <1> QED
    BY <1>2, <1>3, <1>4 DEF LossOK

(* A chunk read as text that does not start with a marker, or is not read  *)
(* for one.                                                                 *)
LEMMA LossChunk ==
  ASSUME SystemInv, NEW t \in Terminals, LossOK(client[t], toTerminal[t]),
         NEW n \in 1..Len(Unread(t)), NEW pc \in ClientPc, ReadChunk(t, n, pc),
         client[t].pc # "dead", pc # "dead",
         pc = "readObject" => Unread(t)[1] = Marker
  PROVE  LossOK(client'[t], toTerminal[t])
  <1> DEFINE c == client[t]
             d == client'[t]
             w == toTerminal[t]
             r == Unread(t)
  <1>1. /\ c \in ClientType /\ client \in [Terminals -> ClientType]
        /\ c.seen \in 0..Len(w) /\ Len(w) \in Nat /\ Len(r) = Len(w) - c.seen
        /\ r \in Seq(ToTerminalMsg)
        /\ \A k \in 1..Len(r) : c.seen + k \in 1..Len(w) /\ r[k] = w[c.seen + k]
    BY UnreadWire, UnreadMembers, LenProperties DEF SystemInv, ClientInv
  <1>2. /\ d.pc = pc /\ d.seen = c.seen + n
        /\ d.payloadDataVector = c.payloadDataVector
        /\ d.objectInputStream =
             IF c.objectInputStream = "synced" /\ Carries(Chunk(r, n)) THEN "behind"
             ELSE c.objectInputStream
    BY <1>1 DEF ReadChunk, ClientType
  <1>3. d.objectInputStream = "broken" => d.payloadDataVector # <<>>
    BY <1>2 DEF LossOK
  <1>4. ASSUME pc = "readObject"
        PROVE  /\ \E j \in 1..d.seen : w[j] = Marker
               /\ d.objectInputStream = "synced" => ObjectOwed(w, d.seen)
    <2>1. c.seen + 1 \in 1..d.seen /\ w[c.seen + 1] = Marker
      <3>1. 1 \in 1..Len(r)
        BY <1>1
      <3> QED
        BY <1>1, <1>2, <1>4, <3>1
    <2>2. ASSUME d.objectInputStream = "synced", NEW i \in (c.seen + 2)..d.seen
          PROVE  w[i].tag # "object"
      <3> DEFINE k == i - c.seen
      <3>1. k \in 1..n /\ k \in 1..Len(r) /\ i = c.seen + k
        BY <1>1, <1>2, <2>2
      <3>2. ~Carries(Chunk(r, n))
        BY <1>2, <2>2
      <3>3. Len(Chunk(r, n)) = n /\ \A j \in 1..n : Chunk(r, n)[j] = r[j]
        <4> HIDE DEF r
        <4> QED
          BY <1>1, WireType DEF r
      <3> HIDE DEF k, r
      <3>4. r[k].tag # "object"
        BY <3>1, <3>2, <3>3 DEF Carries
      <3> QED
        BY <1>1, <3>1, <3>4
    <2>3. (c.seen + 1) + 1 = c.seen + 2
      BY <1>1
    <2> QED
      BY <2>1, <2>2, <2>3 DEF ObjectOwed
  <1> QED
    BY <1>2, <1>3, <1>4 DEF LossOK

(* A thread that waits for an object and meets text: nothing else than the *)
(* second "@" can be behind the marker, unless the object has been read.    *)
LEMMA TextIsAck ==
  ASSUME PairInv, QuietInv, NEW t \in Terminals, NEW s \in Nat,
         s + 1 \in 1..Len(toTerminal[t]), Len(toTerminal[t]) \in Nat,
         toTerminal[t][s + 1].tag # "object",
         \E j \in 1..s : toTerminal[t][j] = Marker
  PROVE  AckBehind(toTerminal[t]) \/ \E j \in 1..s : IsObject(toTerminal[t][j])
  <1> DEFINE w == toTerminal[t]
  <1> SUFFICES ASSUME \A j \in 1..s : ~IsObject(w[j]) PROVE AckBehind(w)
    OBVIOUS
  <1>1. PICK j \in 1..s : w[j] = Marker
    OBVIOUS
  <1>2. ObjectOwed(w, s)
    BY <1>1 DEF ObjectOwed, IsObject
  <1>3. w[s + 1] # Marker
    <2>1. w[s + 1] = Marker => ~ObjectOwed(w, (s + 1) - 1)
      BY DEF PairInv
    <2>2. (s + 1) - 1 = s
      OBVIOUS
    <2> QED
      BY <1>2, <2>1, <2>2
  <1>4. j \in 1..Len(w) /\ s + 1 \in (j + 1)..Len(w)
    OBVIOUS
  <1>5. w[s + 1] = Ack
    BY <1>1, <1>3, <1>4 DEF QuietInv, IsObject
  <1>6. j \in 1..((s + 1) - 1)
    OBVIOUS
  <1> QED
    BY <1>1, <1>5, <1>6 DEF AckBehind

(* The steps of the terminal's user and of its thread. *)
LEMMA LossTerminalStep ==
  ASSUME SystemInv, PairInv, QuietInv, NEW t \in Terminals,
         LossOK(client[t], toTerminal[t]), User(t) \/ Client(t)
  PROVE  LossOK(client'[t], toTerminal[t])
  <1> DEFINE c == client[t]
             d == client'[t]
             w == toTerminal[t]
  <1>1. /\ c \in ClientType /\ client \in [Terminals -> ClientType]
        /\ c.seen \in 0..Len(w) /\ Len(w) \in Nat
        /\ Unread(t) # <<>> => /\ 1 \in 1..Len(Unread(t)) /\ c.seen + 1 \in 1..Len(w)
                               /\ Unread(t)[1] = w[c.seen + 1]
    BY UnreadWire, LenProperties DEF SystemInv, ClientInv
  <1>2. CASE UNCHANGED client
    BY <1>2
  <1>3. CASE Connects(t)
    <2>1. /\ d.pc = "handshake" /\ c.pc = "off"
          /\ d.payloadDataVector = c.payloadDataVector
          /\ d.objectInputStream = c.objectInputStream
      BY <1>1, <1>3 DEF Connects, ClientType
    <2> QED
      BY <2>1 DEF LossOK
  <1>4. CASE StartStopButton(t)
    <2>1. /\ d.pc = c.pc /\ d.seen = c.seen
          /\ d.payloadDataVector = c.payloadDataVector
          /\ d.objectInputStream = c.objectInputStream
      BY <1>1, <1>4 DEF StartStopButton, ClientType
    <2> QED
      BY <2>1 DEF LossOK
  <1>5. CASE ReadAck(t) \/ ReadRefresh(t) \/ DropHandshakeChunk(t) \/ ReadMarker(t) \/ DropChunk(t)
    <2>1. ASSUME NEW n \in 1..Len(Unread(t)), NEW pc \in ClientPc, ReadChunk(t, n, pc),
                 c.pc # "dead", pc # "dead", pc = "readObject" => Unread(t)[1] = Marker
          PROVE  LossOK(d, w)
      BY <2>1, LossChunk
    <2>2. {"running", "readList", "handshake", "readObject"} \subseteq ClientPc
      BY DEF ClientPc
    <2>3. CASE ReadAck(t)
      BY <1>1, <2>1, <2>2, <2>3 DEF ReadAck
    <2>4. CASE ReadRefresh(t)
      BY <1>1, <2>1, <2>2, <2>4 DEF ReadRefresh
    <2>5. CASE DropHandshakeChunk(t)
      BY <1>1, <2>1, <2>2, <2>5 DEF DropHandshakeChunk
    <2>6. CASE ReadMarker(t)
      BY <1>1, <2>1, <2>2, <2>6 DEF ReadMarker
    <2>7. CASE DropChunk(t)
      BY <1>1, <2>1, <2>2, <2>7 DEF DropChunk
    <2> QED
      BY <1>5, <2>3, <2>4, <2>5, <2>6, <2>7
  <1>6. CASE ReadList(t)
    <2>1. d.pc = "handshake" /\ d.objectInputStream = "synced"
      BY <1>1, <1>6 DEF ReadList, ClientType
    <2> QED
      BY <2>1 DEF LossOK
  <1>7. CASE ReadObject(t)
    <2>1. d.pc = "running" /\ d.objectInputStream = c.objectInputStream
          /\ c.objectInputStream # "broken"
      BY <1>1, <1>7 DEF ReadObject, ClientType
    <2> QED
      BY <2>1 DEF LossOK
  <1>8. CASE ReadText(t)
    <2>1. /\ d.pc = AfterException(t) /\ d.objectInputStream = "broken"
          /\ d.payloadDataVector = c.payloadDataVector
          /\ d.seen \in {c.seen, c.seen + 1}
      BY <1>1, <1>8 DEF ReadText, ClientType
    <2>2. c.payloadDataVector = <<>> => d.pc = "dead"
      BY <2>1 DEF AfterException
    <2>3. d.pc = "dead" => c.payloadDataVector = <<>>
      BY <2>1 DEF AfterException
    <2>4. AckBehind(w) \/ \E j \in 1..c.seen : IsObject(w[j])
      BY <1>1, <1>8, TextIsAck DEF ReadText, LossOK
    <2>5. \A j \in 1..c.seen : j \in 1..d.seen
      BY <1>1, <2>1
    <2>6. d.pc # "readObject"
      BY <2>1 DEF AfterException
    <2> QED
      BY <2>1, <2>2, <2>3, <2>4, <2>5, <2>6 DEF LossOK
  <1>9. CASE ReadNothing(t)
    <2>1. c.payloadDataVector # <<>>
      BY <1>9 DEF ReadNothing, LossOK
    <2>2. d.pc = "running" /\ d.payloadDataVector = c.payloadDataVector
      BY <1>1, <1>9, <2>1 DEF ReadNothing, AfterException, ClientType
    <2> QED
      BY <2>1, <2>2 DEF LossOK
  <1>11. CASE RepeatObject(t)
    <2>1. d.pc = "running" /\ d.objectInputStream = "behind"
      BY <1>11, ObjectRepeated
    <2> QED
      BY <2>1 DEF LossOK
  <1>10. CASE MisreadObject(t)
    <2>1. d.pc # "readObject" /\ d.objectInputStream = "behind"
      BY <1>1, <1>10 DEF MisreadObject, AfterException, ClientType
    <2> QED
      BY <2>1 DEF LossOK
  <1> QED
    BY <1>2, <1>3, <1>4, <1>5, <1>6, <1>7, <1>8, <1>9, <1>10, <1>11
    DEF User, Client, RefreshButton, DeviceConnectButton, SendLine, Requests

(* No step of the whole kills a thread for another reason. *)
LEMMA LossStep ==
  ASSUME SystemInv, PairInv, QuietInv, LossInv, [SystemNext]_systemVars PROVE LossInv'
  <1> SUFFICES ASSUME NEW t \in Terminals PROVE LossOK(client'[t], toTerminal'[t])
    BY DEF LossInv, LossOK, ObjectOwed, AckBehind, IsObject, Marker, Ack
  <1>1. /\ LossOK(client[t], toTerminal[t]) /\ client[t].seen \in 0..Len(toTerminal[t])
        /\ client \in [Terminals -> ClientType]
    BY UnreadWire DEF LossInv, SystemInv, ClientInv
  <1>2. CASE client'[t] = client[t]
    <2>1. [Next]_vars /\ SystemInv'
      BY ClientRefines, SystemStep
    <2>2. toTerminal[t] \in Seq(ToTerminalMsg) /\ toTerminal'[t] \in Seq(ToTerminalMsg)
      BY <2>1 DEF SystemInv, IInv, TypeOK, TerminalWires
    <2>3. Len(toTerminal[t]) \in Nat /\ Len(toTerminal'[t]) \in Nat
      BY <2>2, LenProperties
    <2>4. Grows(toTerminal[t], toTerminal'[t])
      BY <2>1, WireGrows DEF SystemInv
    <2> QED
      BY <1>1, <1>2, <2>3, <2>4, LossGrows
  <1>3. CASE User(t) \/ Client(t)
    <2>1. UNCHANGED toTerminal
      BY <1>3 DEF User, Client, Connects, ConnectTerminal, TerminalSends, RefreshButton,
         DeviceConnectButton, SendLine, StartStopButton, ReadAck, ReadRefresh,
         DropHandshakeChunk, ReadList, ReadMarker, DropChunk, ReadObject, ReadText,
         ReadNothing, RepeatObject, MisreadObject, Requests, ServerVars, vars, wires
    <2>2. LossOK(client'[t], toTerminal[t])
      BY <1>1, <1>3, LossTerminalStep
    <2> QED
      BY <2>1, <2>2
  <1>4. ASSUME NEW u \in Terminals, u # t, User(u) \/ Client(u) PROVE client'[t] = client[t]
    BY <1>1, <1>4 DEF User, Client, Connects, RefreshButton, DeviceConnectButton, SendLine,
       StartStopButton, ReadAck, ReadRefresh, DropHandshakeChunk, ReadList, ReadMarker,
       DropChunk, ReadObject, ReadText, ReadNothing, RepeatObject, MisreadObject, Requests,
       ReadChunk
  <1> QED
    BY <1>2, <1>3, <1>4 DEF SystemNext, systemVars

(* The reasons are kept in every state. *)
LEMMA LossInvariant ==
  ASSUME OneTerminal PROVE SystemSpec => [](SystemInv /\ PairInv /\ LossInv)
  <1>1. SystemInit => LossInv
    BY DEF SystemInit, LossInv, LossOK, IdleClient
  <1>2. SystemSpec => []PairInv /\ []QuietInv
    BY TerminalsKeepTheProtocol, PairInvariant, QuietInvariant, PTL
  <1>3. SystemInv /\ PairInv /\ QuietInv /\ LossInv /\ [SystemNext]_systemVars => LossInv'
    BY LossStep
  <1> QED
    BY <1>1, <1>2, <1>3, SystemInvariant, PTL DEF SystemSpec

(* DataController.run is not killed by a server that keeps the protocol:    *)
(* with one terminal its thread dies of an exception only if one of its own *)
(* reads has swallowed an object or a list, or if the server's accept       *)
(* thread wrote the second "@" behind a marker.                             *)
THEOREM ThreadDiesOnlyAfterLoss ==
  ASSUME OneTerminal PROVE SystemSpec => []DiesOnlyAfterLoss
  <1>1. SystemInv /\ LossInv => DiesOnlyAfterLoss
    <2> SUFFICES ASSUME SystemInv, LossInv, NEW t \in Terminals, client[t].pc = "dead"
        PROVE  \/ client[t].objectInputStream = "behind" \/ LostObjects(t) \/ AckAfterMarker(t)
      BY DEF DiesOnlyAfterLoss
    <2> DEFINE w == toTerminal[t]
               n == client[t].seen
    <2>1. AckBehind(w) => AckAfterMarker(t)
      BY DEF AckBehind, AckAfterMarker
    <2>2. ASSUME client[t].payloadDataVector = <<>>, NEW j \in 1..n, IsObject(w[j])
          PROVE  LostObjects(t)
      <3>1. w \in Seq(ToTerminalMsg) /\ n \in 1..Len(w)
        BY UnreadWire, LenProperties DEF SystemInv
      <3> HIDE DEF w, n
      <3>2. /\ Chunk(w, n) \in Seq(ToTerminalMsg) /\ Len(Chunk(w, n)) = n
            /\ Chunk(w, n)[j] = w[j]
        BY <3>1, WireType
      <3>3. ObjectsIn(Chunk(w, n)) \in Seq(ToTerminalMsg) /\ ObjectsIn(Chunk(w, n)) # <<>>
        BY <2>2, <3>2, ObjectsFound
      <3>4. Len(ObjectsIn(Chunk(w, n))) > Len(client[t].payloadDataVector)
        BY <2>2, <3>3, EmptySeq, LenProperties
      <3> QED
        BY <3>4 DEF LostObjects, w, n
    <2> QED
      BY <2>1, <2>2 DEF LossInv, LossOK
  <1> QED
    BY <1>1, LossInvariant, PTL

(* readObject has no timeout: with one terminal that has lost nothing, the  *)
(* object it waits for is on the wire, or the server's thread is about to   *)
(* write it, or that thread has died for want of a stream.                  *)
THEOREM ObjectComesOrThreadDied ==
  ASSUME OneTerminal PROVE SystemSpec => []ObjectIsOnItsWay
  <1>1. SystemInv /\ PairInv /\ LossInv => ObjectIsOnItsWay
    <2> SUFFICES ASSUME SystemInv, PairInv, LossInv, NEW t \in Terminals,
                        client[t].pc = "readObject", client[t].objectInputStream = "synced",
                        \A k \in 1..Len(Unread(t)) : Unread(t)[k].tag # "object"
                 PROVE  handler[t].pc \in {"send", "writing", "noStream"}
      BY DEF ObjectIsOnItsWay
    <2> DEFINE w == toTerminal[t]
               s == client[t].seen
    <2>1. /\ s \in 0..Len(w) /\ Len(w) \in Nat /\ Len(Unread(t)) = Len(w) - s
          /\ \A k \in 1..Len(Unread(t)) : Unread(t)[k] = w[s + k]
      BY UnreadWire, UnreadMembers, LenProperties DEF SystemInv
    <2>2. ObjectOwed(w, s)
      BY DEF LossInv, LossOK
    <2> HIDE DEF w, s
    <2>3. ASSUME NEW i \in (s + 1)..Len(w) PROVE w[i].tag # "object"
      <3>1. i - s \in 1..Len(Unread(t)) /\ s + (i - s) = i
        BY <2>1
      <3> QED
        BY <2>1, <3>1
    <2>4. PICK j \in 1..s : w[j] = Marker /\ \A i \in (j + 1)..s : w[i].tag # "object"
      BY <2>2 DEF ObjectOwed
    <2>5. j \in 1..Len(w) /\ \A i \in (j + 1)..Len(w) : i \in (j + 1)..s \/ i \in (s + 1)..Len(w)
      BY <2>1
    <2>6. ObjectOwed(w, Len(w))
      BY <2>3, <2>4, <2>5 DEF ObjectOwed
    <2> QED
      BY <2>6 DEF PairInv, Owing, w
  <1> QED
    BY <1>1, LossInvariant, PTL
=============================================================================
