--------------------------- MODULE S4ServerProofs ---------------------------
(***************************************************************************)
(* Proofs about S4Server, for every number of payloads and terminals and   *)
(* every value of the bounds.                                              *)
(***************************************************************************)
EXTENDS S4Server, SequenceTheorems, WellFoundedInduction, TLAPS

-----------------------------------------------------------------------------
(* Reading a prefix of a wire leaves sequences over the same messages. *)
LEMMA WireType ==
  ASSUME NEW S, NEW w \in Seq(S), NEW n \in 1..Len(w)
  PROVE  /\ Chunk(w, n) \in Seq(S) /\ Len(Chunk(w, n)) = n
         /\ \A k \in 1..n : Chunk(w, n)[k] = w[k]
         /\ Rest(w, n) \in Seq(S) /\ Len(Rest(w, n)) = Len(w) - n
         /\ \A k \in 1..(Len(w) - n) : Rest(w, n)[k] = w[n + k]
  BY SubSeqProperties DEF Chunk, Rest

(* The text of a chunk that starts with a device name is a device name.    *)
LEMMA PayloadNameType ==
  ASSUME NEW c \in Seq(PayloadMsg), Len(c) > 0, c[1].tag = "DeviceName"
  PROVE  NameIn(c) \in DeviceNames
  <1>1. c[1] \in PayloadMsg
    OBVIOUS
  <1>2. c[1].name \in Names
    BY <1>1 DEF PayloadMsg
  <1> QED
    BY <1>2 DEF NameIn, DeviceNames

(* The text of a request chunk is a name a terminal can ask for.           *)
LEMMA WantedNameType ==
  ASSUME NEW c \in Seq(TerminalMsg), Len(c) > 0, c[1].tag = "request"
  PROVE  NameIn(c) \in WantedNames
  <1>1. c[1] \in TerminalMsg
    OBVIOUS
  <1>2. c[1].name \in DeviceNames
    BY <1>1 DEF TerminalMsg
  <1> QED
    BY <1>2 DEF NameIn, WantedNames

-----------------------------------------------------------------------------
(* The inductive invariant, part by part. *)

Attaching == {"add", "start", "addData", "setLists", "list", "dead"}

(* A connection is named once: what waits in the backlog, or is in the     *)
(* handshake, has no name yet, and what is being attached has one.         *)
AcceptInv ==
  /\ payloadAccept.pc # "accept" => payloadAccept.sock \in Payloads
  /\ payloadAccept.pc = "getPName" => deviceName[payloadAccept.sock] = None
  /\ payloadAccept.pc \in Attaching => deviceName[payloadAccept.sock] # None
  /\ \A k \in 1..Len(payloadQueue) :
       /\ deviceName[payloadQueue[k]] = None
       /\ payloadAccept.sock # payloadQueue[k]
       /\ \A j \in 1..Len(payloadQueue) : payloadQueue[j] = payloadQueue[k] => j = k
  /\ terminalAccept.pc # "accept" => terminalAccept.sock \in Terminals

RegistryInv ==
  LET n  == Len(payloadListVector)
      pc == payloadAccept.pc
  IN
  /\ Len(payloadList) =
       IF pc \in {"start", "addData", "setLists", "list", "dead"} THEN n + 1 ELSE n
  /\ Len(payloadDataList) = IF pc \in {"setLists", "list", "dead"} THEN n + 1 ELSE n
  /\ pc \in {"start", "addData", "setLists", "list", "dead"} =>
       payloadList[n + 1] = payloadAccept.sock
  /\ \A k \in 1..Len(payloadDataList) : payloadDataList[k] = payloadList[k]
  /\ \A k \in 1..n : payloadListVector[k] = deviceName[payloadDataList[k]]
  /\ \A k \in 1..Len(payloadList) : deviceName[payloadList[k]] # None
  /\ (n > 0 \/ pc \in {"list", "dead"}) => dataListSet

(* Whoever knows a name knows it from a list that was not empty. *)
NameInv ==
  /\ \A t \in Terminals :
       /\ \A k \in 1..Len(toTerminal[t]) :
            toTerminal[t][k].tag = "list" =>
              (Len(toTerminal[t][k].names) > 0 => dataListSet)
       /\ chosen[t] # None => dataListSet
       /\ \A k \in 1..Len(fromTerminal[t]) :
            fromTerminal[t][k].tag = "request" => dataListSet
       /\ handler[t].pc \notin {"off", "poll"} => dataListSet
       /\ handler[t].pc # "noList"

HandlerInv ==
  \A t \in Terminals :
    /\ handler[t].pc = "scan" \/ Busy(t) =>
         \A p \in Payloads : handler[t].since[p] <= Len(payloadDataVector[p])
    /\ Busy(t) =>
         /\ handler[t].conn \in Payloads
         /\ deviceName[handler[t].conn] = handler[t].want
         /\ deviceName[handler[t].conn] # None
         /\ handler[t].at \in 1..Len(payloadDataVector[handler[t].conn])
         /\ handler[t].since[handler[t].conn] <= handler[t].at
    /\ handler[t].pc = "writing" => handler[t].oos \in Terminals

AnswerInv ==
  \A t \in Terminals : \A k \in 1..Len(toTerminal[t]) :
    LET m == toTerminal[t][k] IN
    m.tag = "object" =>
      /\ deviceName[m.conn] = m.name /\ deviceName[m.conn] # None
      /\ m.at \in 1..Len(payloadDataVector[m.conn])
      /\ m.since <= m.at

IInv == TypeOK /\ AcceptInv /\ RegistryInv /\ NameInv /\ HandlerInv /\ AnswerInv

-----------------------------------------------------------------------------
(* A part of the type invariant is kept when its variables are. *)
LEMMA KeepType ==
  /\ SharedType /\ UNCHANGED <<ready, shared>> => SharedType'
  /\ StreamType /\ UNCHANGED stream => StreamType'
  /\ PayloadType /\ UNCHANGED <<deviceName, payloadDataVector, serving>> => PayloadType'
  /\ AcceptType /\ UNCHANGED accept => AcceptType'
  /\ PayloadWires /\ UNCHANGED <<fromPayload, toPayload>> => PayloadWires'
  /\ TerminalWires /\ UNCHANGED <<fromTerminal, toTerminal>> => TerminalWires'
  /\ PeersType /\ UNCHANGED peers => PeersType'
  BY DEF SharedType, StreamType, PayloadType, AcceptType, PayloadWires,
         TerminalWires, PeersType, shared, stream, accept, peers

(* Writing to one wire of a family of wires. *)
LEMMA WriteType ==
  ASSUME NEW D, NEW S, NEW f \in [D -> Seq(S)], NEW d, NEW m \in Seq(S)
  PROVE  [f EXCEPT ![d] = @ \o m] \in [D -> Seq(S)]
  <1>1. \A x \in D : f[x] \o m \in Seq(S)
    BY ConcatProperties
  <1> QED
    BY <1>1

(* Writing one message to one wire of a family. *)
LEMMA AppendType ==
  ASSUME NEW D, NEW S, NEW f \in [D -> Seq(S)], NEW d, NEW m \in S
  PROVE  [f EXCEPT ![d] = Append(@, m)] \in [D -> Seq(S)]
  <1>1. \A x \in D : Append(f[x], m) \in Seq(S)
    BY AppendProperties
  <1> QED
    BY <1>1

(* Reading a chunk from one wire of a family. *)
LEMMA ReadType ==
  ASSUME NEW D, NEW S, NEW f \in [D -> Seq(S)], NEW d \in D, NEW n \in 1..Len(f[d])
  PROVE  [f EXCEPT ![d] = Rest(@, n)] \in [D -> Seq(S)]
  BY WireType

(* A handler between two requests, or between two payloads of the list. *)
LEMMA NewHandlerType ==
  ASSUME NEW pc \in HandlerPc, NEW w \in WantedNames \cup {None}, NEW i \in Nat \ {0},
         NEW f \in [Payloads -> Nat]
  PROVE  Handler(pc, w, i, f) \in HandlerType
  BY DEF Handler, HandlerType

(* Moving one handler to another step. *)
LEMMA PcType ==
  ASSUME handler \in [Terminals -> HandlerType], NEW t, NEW pc \in HandlerPc
  PROVE  [handler EXCEPT ![t].pc = pc] \in [Terminals -> HandlerType]
  <1>1. \A h \in HandlerType : [h EXCEPT !.pc = pc] \in HandlerType
    BY DEF HandlerType
  <1> QED
    BY <1>1

(* What Controller's constructor starts from satisfies the invariant. *)
THEOREM InitInv == Init => IInv
  <1> SUFFICES ASSUME Init PROVE IInv
    OBVIOUS
  <1>1. TypeOK
    <2>1. SharedType
      <3>1. ready \in BOOLEAN /\ dataListSet \in BOOLEAN
        BY DEF Init
      <3>2. /\ payloadList \in Seq(Payloads) /\ payloadDataList \in Seq(Payloads)
            /\ payloadListVector \in Seq(DeviceNames)
        BY DEF Init
      <3> QED
        BY <3>1, <3>2 DEF SharedType
    <2>6. StreamType /\ PayloadType
      BY DEF Init, StreamType, PayloadType
    <2>7. PayloadWires /\ TerminalWires
      BY DEF Init, PayloadWires, TerminalWires
    <2>2. AcceptType
      BY DEF Init, AcceptType, PayloadPc, TerminalPc
    <2>3. PeersType
      BY DEF Init, PeersType
    <2>4. IdleHandler("off") \in HandlerType
      BY NewHandlerType DEF IdleHandler, HandlerPc
    <2>5. handler \in [Terminals -> HandlerType]
      BY <2>4 DEF Init
    <2> QED
      BY <2>1, <2>2, <2>3, <2>5, <2>6, <2>7 DEF TypeOK
  <1>2. AcceptInv /\ RegistryInv
    BY DEF Init, AcceptInv, RegistryInv, Attaching
  <1>3. NameInv /\ HandlerInv /\ AnswerInv
    BY DEF Init, NameInv, HandlerInv, AnswerInv, Busy, IdleHandler, Handler
  <1> QED
    BY <1>1, <1>2, <1>3 DEF IInv

-----------------------------------------------------------------------------
(* Type correctness, action by action. *)

(* The devices and the terminals only write messages of their kind. *)
LEMMA PeersTypeStep ==
  ASSUME TypeOK, Peers PROVE TypeOK'
  <1> USE DEF TypeOK
  <1>1. ASSUME NEW p \in Payloads, ConnectPayload(p) PROVE TypeOK'
    <2>1. AcceptType'
      BY <1>1 DEF ConnectPayload, AcceptType
    <2> QED
      BY <1>1, <2>1, KeepType DEF ConnectPayload, wires
  <1>2. ASSUME NEW p \in Payloads, Announce(p) PROVE TypeOK'
    <2>1. [tag |-> "DeviceName", name |-> NameOf[p]] \in PayloadMsg
      BY ServerAssumption DEF PayloadMsg
    <2>2. fromPayload' \in [Payloads -> Seq(PayloadMsg)]
      BY <1>2, <2>1, AppendType DEF Announce, PayloadWires
    <2>3. PeersType'
      BY <1>2 DEF Announce, PeersType
    <2> QED
      BY <1>2, <2>2, <2>3, KeepType DEF Announce, PayloadWires
  <1>11. ASSUME NEW p \in Payloads, OpenLink(p) PROVE TypeOK'
    <2>1. [tag |-> "open"] \in PayloadMsg
      BY DEF PayloadMsg
    <2>2. fromPayload' \in [Payloads -> Seq(PayloadMsg)]
      BY <1>11, <2>1, AppendType DEF OpenLink, PayloadWires
    <2>3. PeersType'
      BY <1>11 DEF OpenLink, PeersType
    <2> QED
      BY <1>11, <2>2, <2>3, KeepType DEF OpenLink, PayloadWires
  <1>3. ASSUME NEW p \in Payloads, SendRecord(p) PROVE TypeOK'
    <2>1. [tag |-> "record", n |-> recorded[p] + 1] \in PayloadMsg
      BY DEF PayloadMsg, PeersType
    <2>2. fromPayload' \in [Payloads -> Seq(PayloadMsg)]
      BY <1>3, <2>1, AppendType DEF SendRecord, PayloadWires
    <2>3. PeersType'
      BY <1>3 DEF SendRecord, PeersType
    <2> QED
      BY <1>3, <2>2, <2>3, KeepType DEF SendRecord, PayloadWires
  <1>4. ASSUME NEW t \in Terminals, NEW m \in TerminalMsg, TerminalSends(t, m)
        PROVE  fromTerminal' \in [Terminals -> Seq(TerminalMsg)]
    BY <1>4, AppendType DEF TerminalSends, TerminalWires
  <1>5. /\ [tag |-> "Refresh"] \in TerminalMsg /\ [tag |-> "text"] \in TerminalMsg
        /\ \A n \in DeviceNames : /\ [tag |-> "DeviceName", name |-> n] \in TerminalMsg
                                  /\ [tag |-> "request", name |-> n] \in TerminalMsg
    BY DEF TerminalMsg
  <1>6. ASSUME NEW t \in Terminals, ConnectTerminal(t) PROVE TypeOK'
    <2>1. AcceptType'
      BY <1>6 DEF ConnectTerminal, AcceptType
    <2>2. PeersType'
      BY <1>6 DEF ConnectTerminal, PeersType
    <2> QED
      BY <1>4, <1>5, <1>6, <2>1, <2>2, KeepType DEF ConnectTerminal, TerminalWires
  <1>7. ASSUME NEW t \in Terminals, PressRefresh(t) PROVE TypeOK'
    <2>1. PeersType'
      BY <1>7 DEF PressRefresh, PeersType
    <2> QED
      BY <1>4, <1>5, <1>7, <2>1, KeepType DEF PressRefresh, TerminalWires
  <1>8. ASSUME NEW t \in Terminals, PressConnect(t) PROVE TypeOK'
    <2>1. PICK list \in ListsSent(t) : \E k \in 1..Len(list.names) :
            /\ chosen' = [chosen EXCEPT ![t] = list.names[k]]
            /\ TerminalSends(t, [tag |-> "DeviceName", name |-> list.names[k]])
      BY <1>8 DEF PressConnect
    <2>2. PICK k \in 1..Len(list.names) :
            /\ chosen' = [chosen EXCEPT ![t] = list.names[k]]
            /\ TerminalSends(t, [tag |-> "DeviceName", name |-> list.names[k]])
      BY <2>1
    <2>3. list \in ToTerminalMsg /\ list.tag = "list"
      BY DEF ListsSent, Members, TerminalWires
    <2>4. list.names \in Seq(DeviceNames)
      BY <2>3 DEF ToTerminalMsg, Signal, ListMsg, ObjectMsg
    <2>5. list.names[k] \in DeviceNames
      BY <2>4
    <2>6. PeersType'
      BY <1>8, <2>2, <2>5 DEF PressConnect, PeersType
    <2> QED
      BY <1>4, <1>5, <1>8, <2>2, <2>5, <2>6, KeepType DEF PressConnect, TerminalWires
  <1>9. ASSUME NEW t \in Terminals, RequestUpdate(t) PROVE TypeOK'
    <2>1. chosen[t] \in DeviceNames
      BY <1>9 DEF RequestUpdate, PeersType
    <2>2. PeersType'
      BY <1>9 DEF RequestUpdate, PeersType
    <2> QED
      BY <1>4, <1>5, <1>9, <2>1, <2>2, KeepType DEF RequestUpdate, TerminalWires
  <1>10. ASSUME NEW t \in Terminals, SendText(t) PROVE TypeOK'
    <2>1. PeersType'
      BY <1>10 DEF SendText, PeersType
    <2> QED
      BY <1>4, <1>5, <1>10, <2>1, KeepType DEF SendText, TerminalWires
  <1> QED
    BY <1>1, <1>2, <1>3, <1>6, <1>7, <1>8, <1>9, <1>10, <1>11 DEF Peers

(* Accepting a payload, getPName and attachPayload keep the types. *)
LEMMA PayloadAcceptTypeStep ==
  ASSUME TypeOK, AcceptInv, RegistryInv, PayloadAcceptThread PROVE TypeOK'
  <1> USE DEF TypeOK
  <1>1. CASE AcceptPayload
    <2>1. AcceptType'
      BY <1>1 DEF AcceptPayload, AcceptType, PayloadPc
    <2> QED
      BY <1>1, <2>1, KeepType DEF AcceptPayload, wires
  <1>2. CASE PingPayload
    <2>1. AcceptType'
      BY <1>2 DEF PingPayload, AcceptType
    <2>2. Ping \in Signal
      BY DEF Ping, Signal
    <2>3. PayloadWires'
      BY <1>2, <2>2, AppendType DEF PingPayload, PayloadWires
    <2> QED
      BY <1>2, <2>1, <2>3, KeepType DEF PingPayload
  <1>10. CASE SkipGreeting
    <2> DEFINE p == payloadAccept.sock
    <2>1. p \in Payloads
      BY <1>10 DEF SkipGreeting, AcceptInv
    <2>2. PICK n \in 1..Len(fromPayload[p]) :
            fromPayload' = [fromPayload EXCEPT ![p] = Rest(@, n)]
      BY <1>10 DEF SkipGreeting
    <2>3. PayloadWires'
      BY <1>10, <2>1, <2>2, ReadType DEF SkipGreeting, PayloadWires
    <2> QED
      BY <1>10, <2>3, KeepType DEF SkipGreeting
  <1>3. CASE ReadPayloadName
    <2> DEFINE p == payloadAccept.sock
    <2>1. p \in Payloads
      BY <1>3 DEF ReadPayloadName, AcceptInv
    <2>2. PICK n \in 1..Len(fromPayload[p]) :
            /\ fromPayload[p][1].tag = "DeviceName"
            /\ deviceName' = [deviceName EXCEPT ![p] = NameIn(Chunk(fromPayload[p], n))]
            /\ fromPayload' = [fromPayload EXCEPT ![p] = Rest(@, n)]
      BY <1>3 DEF ReadPayloadName
    <2>3. NameIn(Chunk(fromPayload[p], n)) \in DeviceNames
      <3>1. fromPayload[p] \in Seq(PayloadMsg)
        BY <2>1 DEF PayloadWires
      <3>2. /\ Chunk(fromPayload[p], n) \in Seq(PayloadMsg)
            /\ Len(Chunk(fromPayload[p], n)) = n
            /\ Chunk(fromPayload[p], n)[1] = fromPayload[p][1]
        BY <3>1, WireType
      <3> QED
        BY <2>2, <3>2, PayloadNameType
    <2>4. PayloadType'
      BY <1>3, <2>2, <2>3 DEF ReadPayloadName, PayloadType
    <2>5. fromPayload' \in [Payloads -> Seq(PayloadMsg)]
      BY <2>1, <2>2, ReadType DEF PayloadWires
    <2>6. Ack \in Signal /\ <<Ack, Ping>> \in Seq(Signal)
      BY DEF Ack, Ping, Signal
    <2>7. toPayload' \in [Payloads -> Seq(Signal)]
      <3>1. CASE toPayload' = [toPayload EXCEPT ![p] = Append(@, Ack)]
        BY <2>6, <3>1, AppendType DEF PayloadWires
      <3>2. CASE toPayload' = [toPayload EXCEPT ![p] = @ \o <<Ack, Ping>>]
        BY <2>6, <3>2, WriteType DEF PayloadWires
      <3> QED
        BY <1>3, <3>1, <3>2 DEF ReadPayloadName
    <2>8. AcceptType'
      BY <1>3 DEF ReadPayloadName, AcceptType, PayloadPc
    <2> QED
      BY <1>3, <2>4, <2>5, <2>7, <2>8, KeepType DEF ReadPayloadName, PayloadWires
  <1>4. CASE AddPayload
    <2>1. AcceptType'
      BY <1>4 DEF AddPayload, AcceptType, PayloadPc
    <2>2. SharedType'
      BY <1>4 DEF AddPayload, SharedType, AcceptInv
    <2> QED
      BY <1>4, <2>1, <2>2, KeepType DEF AddPayload, wires
  <1>5. CASE StartPayload
    <2>1. AcceptType'
      BY <1>5 DEF StartPayload, AcceptType, PayloadPc
    <2>2. PayloadType'
      BY <1>5 DEF StartPayload, PayloadType, AcceptInv
    <2> QED
      BY <1>5, <2>1, <2>2, KeepType DEF StartPayload, wires
  <1>6. CASE AddDataController
    <2>1. AcceptType'
      BY <1>6 DEF AddDataController, AcceptType, PayloadPc
    <2>2. SharedType'
      BY <1>6 DEF AddDataController, SharedType, AcceptInv
    <2> QED
      BY <1>6, <2>1, <2>2, KeepType DEF AddDataController, wires
  <1>7. CASE SetLists
    <2>1. AcceptType'
      BY <1>7 DEF SetLists, AcceptType, PayloadPc
    <2>2. SharedType'
      BY <1>7 DEF SetLists, SharedType
    <2> QED
      BY <1>7, <2>1, <2>2, KeepType DEF SetLists, wires
  <1>8. CASE ListPayload
    <2>1. AcceptType'
      BY <1>8 DEF ListPayload, AcceptType, PayloadPc
    <2>2. payloadList[Len(payloadList)] = payloadAccept.sock
      BY <1>8 DEF ListPayload, RegistryInv, SharedType
    <2>3. deviceName[payloadAccept.sock] \in DeviceNames
      BY <1>8 DEF ListPayload, AcceptInv, Attaching, PayloadType
    <2>4. SharedType'
      BY <1>8, <2>2, <2>3 DEF ListPayload, LastPayload, SharedType
    <2> QED
      BY <1>8, <2>1, <2>4, KeepType DEF ListPayload, wires
  <1>9. CASE ListPayloadThrows
    <2>1. AcceptType'
      BY <1>9 DEF ListPayloadThrows, AcceptType, PayloadPc
    <2> QED
      BY <1>9, <2>1, KeepType DEF ListPayloadThrows, wires
  <1> QED
    BY <1>1, <1>2, <1>3, <1>4, <1>5, <1>6, <1>7, <1>8, <1>9, <1>10
    DEF PayloadAcceptThread

(* PayloadDataController.run keeps the types. *)
LEMMA PayloadThreadTypeStep ==
  ASSUME TypeOK, NEW p \in Payloads, PayloadThread(p) PROVE TypeOK'
  <1> USE DEF TypeOK
  <1>1. CASE StoreRecord(p)
    <2>1. PICK n \in 1..Len(fromPayload[p]) :
            /\ payloadDataVector' = [payloadDataVector EXCEPT ![p] =
                                       Append(@, Chunk(fromPayload[p], n))]
            /\ fromPayload' = [fromPayload EXCEPT ![p] = Rest(@, n)]
      BY <1>1 DEF StoreRecord
    <2>2. Chunk(fromPayload[p], n) \in Seq(PayloadMsg)
      BY WireType DEF PayloadWires
    <2>3. payloadDataVector' \in [Payloads -> Seq(Seq(PayloadMsg))]
      BY <2>1, <2>2, AppendType DEF PayloadType
    <2>4. PayloadType'
      BY <1>1, <2>3 DEF StoreRecord, PayloadType
    <2>5. fromPayload' \in [Payloads -> Seq(PayloadMsg)]
      BY <2>1, ReadType DEF PayloadWires
    <2> QED
      BY <1>1, <2>4, <2>5, KeepType DEF StoreRecord, PayloadWires
  <1>2. CASE DropPayloadChunk(p)
    <2>1. fromPayload' \in [Payloads -> Seq(PayloadMsg)]
      BY <1>2, ReadType DEF DropPayloadChunk, PayloadWires
    <2> QED
      BY <1>2, <2>1, KeepType DEF DropPayloadChunk, PayloadWires
  <1> QED
    BY <1>1, <1>2 DEF PayloadThread

(* Accepting a terminal, getPName and attachTerminal keep the types. *)
LEMMA TerminalAcceptTypeStep ==
  ASSUME TypeOK, AcceptInv, TerminalAcceptThread PROVE TypeOK'
  <1> USE DEF TypeOK
  <1> DEFINE t == terminalAccept.sock
  <1>1. CASE AcceptTerminal
    <2>1. ready \in BOOLEAN /\ Head(terminalQueue) \in Terminals
          /\ Tail(terminalQueue) \in Seq(Terminals)
      BY <1>1 DEF AcceptTerminal, AcceptType, SharedType
    <2>2. AcceptType'
      BY <1>1, <2>1 DEF AcceptTerminal, AcceptType, TerminalPc
    <2> QED
      BY <1>1, <2>2, KeepType DEF AcceptTerminal, wires
  <1>2. CASE PingTerminal
    <2>1. AcceptType'
      BY <1>2, SMTT(30) DEF PingTerminal, AcceptType
    <2>2. Ping \in ToTerminalMsg
      BY DEF Ping, Signal, ToTerminalMsg
    <2>3. TerminalWires'
      BY <1>2, <2>2, AppendType DEF PingTerminal, TerminalWires
    <2> QED
      BY <1>2, <2>1, <2>3, KeepType DEF PingTerminal
  <1>3. CASE AnswerRefresh
    <2>1. t \in Terminals
      BY <1>3 DEF AnswerRefresh, AcceptInv
    <2>2. fromTerminal' \in [Terminals -> Seq(TerminalMsg)]
      <3>1. PICK n \in 1..Len(fromTerminal[t]) :
              fromTerminal' = [fromTerminal EXCEPT ![t] = Rest(@, n)]
        BY <1>3 DEF AnswerRefresh
      <3> QED
        BY <2>1, <3>1, ReadType DEF TerminalWires
    <2>3. [tag |-> "Refresh"] \in ToTerminalMsg
      BY DEF Signal, ToTerminalMsg
    <2>4. toTerminal' \in [Terminals -> Seq(ToTerminalMsg)]
      BY <1>3, <2>3, AppendType DEF AnswerRefresh, TerminalWires
    <2>5. AcceptType'
      BY <1>3, <2>1 DEF AnswerRefresh, AcceptType, TerminalPc
    <2> QED
      BY <1>3, <2>2, <2>4, <2>5, KeepType DEF AnswerRefresh, TerminalWires
  <1>8. CASE SendList
    <2>1. t \in Terminals
      BY <1>8 DEF SendList, AcceptInv
    <2>2. [tag |-> "list", names |-> ListNow] \in ToTerminalMsg
      <3>1. ListNow \in Seq(DeviceNames)
        BY DEF SharedType, ListNow
      <3> QED
        BY <3>1 DEF ListMsg, ToTerminalMsg
    <2>3. TerminalWires'
      <3> DEFINE l == [tag |-> "list", names |-> ListNow]
      <3>1. /\ toTerminal' = [toTerminal EXCEPT ![t] = Append(@, l)]
            /\ fromTerminal' = fromTerminal
            /\ l \in ToTerminalMsg
        BY <1>8, <2>2 DEF SendList
      <3> HIDE DEF l
      <3>2. toTerminal' \in [Terminals -> Seq(ToTerminalMsg)]
        BY <3>1, AppendType DEF TerminalWires
      <3> QED
        BY <3>1, <3>2 DEF TerminalWires
    <2>4. AcceptType'
      BY <1>8, <2>1 DEF SendList, AcceptType, TerminalPc
    <2> QED
      BY <1>8, <2>3, <2>4, KeepType DEF SendList
  <1>4. CASE ReadTerminalName
    <2>1. t \in Terminals
      BY <1>4 DEF ReadTerminalName, AcceptInv
    <2>2. fromTerminal' \in [Terminals -> Seq(TerminalMsg)]
      <3>1. PICK n \in 1..Len(fromTerminal[t]) :
              fromTerminal' = [fromTerminal EXCEPT ![t] = Rest(@, n)]
        BY <1>4 DEF ReadTerminalName
      <3> QED
        BY <2>1, <3>1, ReadType DEF TerminalWires
    <2>3. Ack \in ToTerminalMsg /\ <<Ack, Ping>> \in Seq(ToTerminalMsg)
      BY DEF Ack, Ping, Signal, ToTerminalMsg
    <2>4. toTerminal' \in [Terminals -> Seq(ToTerminalMsg)]
      <3>1. CASE toTerminal' = [toTerminal EXCEPT ![t] = Append(@, Ack)]
        BY <2>3, <3>1, AppendType DEF TerminalWires
      <3>2. CASE toTerminal' = [toTerminal EXCEPT ![t] = @ \o <<Ack, Ping>>]
        BY <2>3, <3>2, WriteType DEF TerminalWires
      <3> QED
        BY <1>4, <3>1, <3>2 DEF ReadTerminalName
    <2>5. AcceptType'
      BY <1>4 DEF ReadTerminalName, AcceptType, TerminalPc
    <2> QED
      BY <1>4, <2>2, <2>4, <2>5, KeepType DEF ReadTerminalName, TerminalWires
  <1>5. CASE StartTerminal
    <2>1. AcceptType'
      BY <1>5 DEF StartTerminal, AcceptType, TerminalPc
    <2>2. handler' \in [Terminals -> HandlerType]
      BY <1>5, PcType DEF StartTerminal, HandlerPc
    <2> QED
      BY <1>5, <2>1, <2>2, KeepType DEF StartTerminal, wires
  <1>6. CASE AckTerminal
    <2>1. AcceptType'
      BY <1>6 DEF AckTerminal, AcceptType, TerminalPc
    <2>2. Ack \in ToTerminalMsg
      BY DEF Ack, Signal, ToTerminalMsg
    <2>3. TerminalWires'
      BY <1>6, <2>2, AppendType DEF AckTerminal, TerminalWires
    <2> QED
      BY <1>6, <2>1, <2>3, KeepType DEF AckTerminal
  <1>7. CASE PublishStream
    <2>1. AcceptType'
      BY <1>7 DEF PublishStream, AcceptType, TerminalPc
    <2>2. StreamType'
      BY <1>7 DEF PublishStream, StreamType, AcceptType
    <2> QED
      BY <1>7, <2>1, <2>2, KeepType DEF PublishStream, wires
  <1> QED
    BY <1>1, <1>2, <1>3, <1>4, <1>5, <1>6, <1>7, <1>8 DEF TerminalAcceptThread

(* TerminalDataController.run and terminalRequestForUpdate keep the types: *)
(* the index get(size - 1) is never negative.                              *)
LEMMA TerminalThreadTypeStep ==
  ASSUME TypeOK, HandlerInv, NEW t \in Terminals, TerminalThread(t) PROVE TypeOK'
  <1> USE DEF TypeOK
  <1> DEFINE HandlersOK == handler' \in [Terminals -> HandlerType]
  <1>1. CASE StartScan(t)
    <2>1. PICK n \in 1..Len(fromTerminal[t]) :
            /\ fromTerminal[t][1].tag = "request"
            /\ handler' = [handler EXCEPT ![t] =
                 Handler("scan", NameIn(Chunk(fromTerminal[t], n)), 1,
                         [p \in Payloads |-> Len(payloadDataVector[p])])]
            /\ fromTerminal' = [fromTerminal EXCEPT ![t] = Rest(@, n)]
      BY <1>1 DEF StartScan
    <2>2. NameIn(Chunk(fromTerminal[t], n)) \in WantedNames
      <3>1. fromTerminal[t] \in Seq(TerminalMsg)
        BY DEF TerminalWires
      <3>2. /\ Chunk(fromTerminal[t], n) \in Seq(TerminalMsg)
            /\ Len(Chunk(fromTerminal[t], n)) = n
            /\ Chunk(fromTerminal[t], n)[1] = fromTerminal[t][1]
        BY <3>1, WireType
      <3> QED
        BY <2>1, <3>2, WantedNameType
    <2>3. [p \in Payloads |-> Len(payloadDataVector[p])] \in [Payloads -> Nat]
      BY DEF PayloadType
    <2>4. Handler("scan", NameIn(Chunk(fromTerminal[t], n)), 1,
                  [p \in Payloads |-> Len(payloadDataVector[p])]) \in HandlerType
      BY <2>2, <2>3, NewHandlerType DEF HandlerPc
    <2>5. HandlersOK
      BY <2>1, <2>4
    <2>6. fromTerminal' \in [Terminals -> Seq(TerminalMsg)]
      BY <2>1, ReadType DEF TerminalWires
    <2> QED
      BY <1>1, <2>5, <2>6, KeepType DEF StartScan, TerminalWires, HandlerUnchanged
  <1>2. CASE DropTerminalChunk(t)
    <2>1. fromTerminal' \in [Terminals -> Seq(TerminalMsg)]
      <3>1. PICK n \in 1..Len(fromTerminal[t]) :
              fromTerminal' = [fromTerminal EXCEPT ![t] = Rest(@, n)]
        BY <1>2 DEF DropTerminalChunk
      <3> QED
        BY <3>1, ReadType DEF TerminalWires
    <2> QED
      BY <1>2, <2>1, KeepType DEF DropTerminalChunk, TerminalWires, HandlerUnchanged
  <1>3. CASE EndScan(t)
    <2>1. IdleHandler("poll") \in HandlerType
      BY NewHandlerType DEF IdleHandler, HandlerPc
    <2>2. HandlersOK
      BY <1>3, <2>1 DEF EndScan
    <2> QED
      BY <1>3, <2>2, KeepType DEF EndScan, HandlerUnchanged
  <1>4. CASE SkipPayload(t)
    <2>1. \A h \in HandlerType : [h EXCEPT !.i = @ + 1] \in HandlerType
      BY DEF HandlerType
    <2>2. HandlersOK
      BY <1>4, <2>1 DEF SkipPayload
    <2> QED
      BY <1>4, <2>2, KeepType DEF SkipPayload, HandlerUnchanged
  <1>5. CASE PickNewest(t)
    <2> DEFINE p == payloadDataList[handler[t].i]
    <2>1. p \in Payloads
      BY <1>5 DEF PickNewest, Candidate, SharedType, HandlerType
    <2>2. Len(payloadDataVector[p]) \in Nat
      BY <2>1 DEF PayloadType
    <2>3. \A h \in HandlerType, q \in Payloads, n \in Nat :
            [[[h EXCEPT !.pc = "attach"] EXCEPT !.conn = q] EXCEPT !.at = n] \in HandlerType
      BY DEF HandlerType, HandlerPc
    <2>4. handler' = [handler EXCEPT ![t] =
            [[[@ EXCEPT !.pc = "attach"] EXCEPT !.conn = p]
               EXCEPT !.at = Len(payloadDataVector[p])]]
      BY <1>5 DEF PickNewest, Newest
    <2>5. HandlersOK
      BY <2>1, <2>2, <2>3, <2>4
    <2> QED
      BY <1>5, <2>5, KeepType DEF PickNewest, HandlerUnchanged
  <1>6. CASE ScanThrows(t)
    <2>1. HandlersOK
      BY <1>6, PcType DEF ScanThrows, HandlerPc
    <2> QED
      BY <1>6, <2>1, KeepType DEF ScanThrows, HandlerUnchanged
  <1>7. CASE AttachSocket(t)
    <2>1. HandlersOK
      BY <1>7, PcType DEF AttachSocket, HandlerPc
    <2>2. StreamType'
      BY <1>7 DEF AttachSocket, StreamType
    <2> QED
      BY <1>7, <2>1, <2>2, KeepType DEF AttachSocket, HandlerUnchanged
  <1>8. CASE NewWriter(t)
    <2>1. HandlersOK
      BY <1>8, PcType DEF NewWriter, HandlerPc
    <2>2. StreamType'
      BY <1>8 DEF NewWriter, StreamType
    <2> QED
      BY <1>8, <2>1, <2>2, KeepType DEF NewWriter, HandlerUnchanged
  <1>9. CASE PrintMarker(t)
    <2>1. HandlersOK
      BY <1>9, PcType DEF PrintMarker, HandlerPc
    <2>2. StreamType'
      BY <1>9 DEF PrintMarker, StreamType
    <2> QED
      BY <1>9, <2>1, <2>2, KeepType DEF PrintMarker, HandlerUnchanged
  <1>10. CASE FlushMarker(t)
    <2>1. HandlersOK
      BY <1>10, PcType DEF FlushMarker, HandlerPc
    <2>2. StreamType'
      BY <1>10 DEF FlushMarker, StreamType
    <2>3. Marker \in ToTerminalMsg /\ streamWriter.buffered \in Nat
      BY DEF Marker, Signal, ToTerminalMsg, StreamType
    <2>4. [k \in 1..streamWriter.buffered |-> Marker] \in Seq(ToTerminalMsg)
      BY <2>3
    <2>5. toTerminal' \in [Terminals -> Seq(ToTerminalMsg)]
      BY <1>10, <2>4, WriteType DEF FlushMarker, TerminalWires
    <2> QED
      BY <1>10, <2>1, <2>2, <2>5, KeepType DEF FlushMarker, HandlerUnchanged, TerminalWires
  <1>11. CASE BeginWrite(t)
    <2> DEFINE o == objectOutputStream
    <2>1. o \in Terminals
      BY <1>11 DEF BeginWrite, StreamType
    <2>2. \A h \in HandlerType, b \in BOOLEAN :
            /\ [[[h EXCEPT !.pc = "writing"] EXCEPT !.oos = o] EXCEPT !.mixed = b]
                 \in HandlerType
            /\ [h EXCEPT !.mixed = b] \in HandlerType
      BY <2>1 DEF HandlerType, HandlerPc
    <2>3. handler' = [u \in Terminals |->
            IF u = t
            THEN [[[handler[t] EXCEPT !.pc = "writing"] EXCEPT !.oos = o]
                    EXCEPT !.mixed = \E v \in Terminals : WritingTo(v, o)]
            ELSE [handler[u] EXCEPT !.mixed = handler[u].mixed \/ WritingTo(u, o)]]
      BY <1>11 DEF BeginWrite
    <2>4. HandlersOK
      BY <2>2, <2>3
    <2> QED
      BY <1>11, <2>4, KeepType DEF BeginWrite, HandlerUnchanged
  <1>12. CASE SendThrows(t)
    <2>1. HandlersOK
      BY <1>12, PcType DEF SendThrows, HandlerPc
    <2> QED
      BY <1>12, <2>1, KeepType DEF SendThrows, HandlerUnchanged
  <1>13. CASE EndWrite(t)
    <2>1. /\ handler[t].conn \in Payloads /\ handler[t].oos \in Terminals
          /\ handler[t].want # None
      BY <1>13 DEF EndWrite, HandlerInv, Busy
    <2>2. ObjectOf(t) \in ObjectMsg
      BY <2>1 DEF ObjectOf, ObjectMsg, HandlerType
    <2>3. toTerminal' \in [Terminals -> Seq(ToTerminalMsg)]
      BY <1>13, <2>2, AppendType DEF EndWrite, TerminalWires, ToTerminalMsg
    <2>4. handler[t] \in HandlerType
      OBVIOUS
    <2>5. Handler("scan", handler[t].want, handler[t].i + 1, handler[t].since)
            \in HandlerType
      BY <2>4, NewHandlerType DEF HandlerType, HandlerPc
    <2>6. HandlersOK
      BY <1>13, <2>5 DEF EndWrite
    <2> QED
      BY <1>13, <2>3, <2>6, KeepType DEF EndWrite, HandlerUnchanged, TerminalWires
  <1> QED
    BY <1>1, <1>2, <1>3, <1>4, <1>5, <1>6, <1>7, <1>8, <1>9, <1>10, <1>11, <1>12, <1>13
    DEF TerminalThread, Serve

(* Every step of the server or of its peers keeps the types. *)
LEMMA TypeStep ==
  ASSUME IInv, [Next]_vars PROVE TypeOK'
  <1> USE DEF IInv
  <1>1. CASE FinishController
    <2>1. SharedType'
      BY <1>1 DEF FinishController, TypeOK, SharedType, shared
    <2> QED
      BY <1>1, <2>1, KeepType DEF FinishController, TypeOK, wires
  <1>2. CASE UNCHANGED vars
    BY <1>2, KeepType DEF vars, TypeOK, wires
  <1> QED
    BY <1>1, <1>2, PeersTypeStep, PayloadAcceptTypeStep, TerminalAcceptTypeStep,
       PayloadThreadTypeStep, TerminalThreadTypeStep DEF Next

-----------------------------------------------------------------------------
(* What each kind of step leaves alone. *)

(* The peers touch only their wires and their own counters. *)
LEMMA PeersFrame ==
  ASSUME Peers
  PROVE  UNCHANGED <<ready, shared, stream, deviceName, payloadDataVector, serving,
                     handler, payloadAccept, terminalAccept, toPayload, toTerminal>>
  BY DEF Peers, ConnectPayload, Announce, OpenLink, SendRecord, ConnectTerminal, PressRefresh,
         PressConnect, RequestUpdate, SendText, shared, stream, accept, wires

(* ConnectPayloadSocket touches neither the streams nor the handlers. *)
LEMMA PayloadAcceptFrame ==
  ASSUME PayloadAcceptThread
  PROVE  UNCHANGED <<ready, stream, payloadDataVector, terminalQueue, terminalAccept,
                     handler, fromTerminal, toTerminal, peers>>
  BY DEF PayloadAcceptThread, AcceptPayload, PingPayload, SkipGreeting, ReadPayloadName, AddPayload,
         StartPayload, AddDataController, SetLists, ListPayload, ListPayloadThrows,
         shared, stream, accept, wires

(* ConnectTerminalSocket touches neither the lists nor the payloads. *)
LEMMA TerminalAcceptFrame ==
  ASSUME TerminalAcceptThread
  PROVE  UNCHANGED <<ready, shared, streamSocket, streamWriter, deviceName, serving,
                     payloadDataVector, payloadQueue, payloadAccept, fromPayload,
                     toPayload, peers>>
  BY DEF TerminalAcceptThread, AcceptTerminal, PingTerminal, AnswerRefresh, SendList,
         ReadTerminalName, StartTerminal, AckTerminal, PublishStream,
         shared, stream, accept, wires

(* PayloadDataController touches its own wire and its own vector. *)
LEMMA PayloadThreadFrame ==
  ASSUME NEW p \in Payloads, PayloadThread(p)
  PROVE  UNCHANGED <<ready, shared, stream, deviceName, accept, serving, handler,
                     toPayload, fromTerminal, toTerminal, peers>>
  BY DEF PayloadThread, StoreRecord, DropPayloadChunk

(* TerminalDataController only reads the lists and objectOutputStream. *)
LEMMA TerminalThreadFrame ==
  ASSUME NEW t \in Terminals, TerminalThread(t)
  PROVE  UNCHANGED <<ready, shared, deviceName, payloadDataVector, accept, serving,
                     fromPayload, toPayload, peers, objectOutputStream>>
  BY DEF TerminalThread, StartScan, DropTerminalChunk, Serve, EndScan, SkipPayload,
         PickNewest, ScanThrows, AttachSocket, NewWriter, PrintMarker, FlushMarker,
         BeginWrite, SendThrows, EndWrite, HandlerUnchanged, stream

-----------------------------------------------------------------------------
(* ServerSocket.accept hands out each connection once, and getPName names  *)
(* it once.                                                                *)
LEMMA AcceptStep ==
  ASSUME IInv, [Next]_vars PROVE AcceptInv'
  <1> USE DEF IInv
  <1>1. CASE UNCHANGED <<deviceName, payloadQueue, payloadAccept, terminalAccept>>
    BY <1>1 DEF AcceptInv
  <1>2. ASSUME NEW p \in Payloads, ConnectPayload(p) PROVE AcceptInv'
    <2>1. /\ payloadQueue \in Seq(Payloads) /\ payloadQueue' = Append(payloadQueue, p)
          /\ UNCHANGED <<deviceName, payloadAccept, terminalAccept>>
      BY <1>2 DEF ConnectPayload, TypeOK, AcceptType
    <2>2. deviceName[p] = None /\ payloadAccept.sock # p
          /\ \A k \in 1..Len(payloadQueue) : payloadQueue[k] # p
      BY <1>2 DEF ConnectPayload, PayloadConnected, Members
    <2> QED
      BY <2>1, <2>2 DEF AcceptInv
  <1>3. CASE AcceptPayload
    <2>1. /\ payloadQueue \in Seq(Payloads) /\ payloadQueue # <<>>
          /\ payloadQueue' = Tail(payloadQueue)
          /\ payloadAccept'.pc = "getPName" /\ payloadAccept'.sock = payloadQueue[1]
          /\ UNCHANGED <<deviceName, terminalAccept>>
      BY <1>3 DEF AcceptPayload, TypeOK, AcceptType
    <2>2. /\ payloadQueue[1] \in Payloads /\ Len(payloadQueue) > 0
          /\ Len(payloadQueue') = Len(payloadQueue) - 1
          /\ \A k \in 1..Len(payloadQueue') : payloadQueue'[k] = payloadQueue[k + 1]
      BY <2>1
    <2> QED
      BY <2>1, <2>2 DEF AcceptInv, Attaching
  <1>4. CASE ReadPayloadName
    <2> DEFINE p == payloadAccept.sock
    <2>1. p \in Payloads /\ payloadAccept.pc = "getPName"
      BY <1>4 DEF ReadPayloadName, AcceptInv
    <2>2. PICK n \in 1..Len(fromPayload[p]) :
            /\ fromPayload[p][1].tag = "DeviceName"
            /\ deviceName' = [deviceName EXCEPT ![p] = NameIn(Chunk(fromPayload[p], n))]
      BY <1>4 DEF ReadPayloadName
    <2>3. deviceName'[p] # None
      <3>1. fromPayload[p] \in Seq(PayloadMsg)
        BY <2>1 DEF TypeOK, PayloadWires
      <3>2. /\ Chunk(fromPayload[p], n) \in Seq(PayloadMsg)
            /\ Len(Chunk(fromPayload[p], n)) = n
            /\ Chunk(fromPayload[p], n)[1] = fromPayload[p][1]
        BY <3>1, WireType
      <3>3. NameIn(Chunk(fromPayload[p], n)) \in DeviceNames
        BY <2>2, <3>2, PayloadNameType
      <3> QED
        BY <2>1, <2>2, <3>3, NullIsNoName DEF TypeOK, PayloadType
    <2> QED
      BY <1>4, <2>1, <2>2, <2>3, SMTT(30)
      DEF ReadPayloadName, AcceptInv, Attaching, TypeOK, PayloadType, AcceptType
  <1>5. CASE PingPayload \/ AddPayload \/ StartPayload \/ AddDataController \/ SetLists
             \/ ListPayload \/ ListPayloadThrows
    <2>1. payloadAccept \in [pc : PayloadPc, sock : Payloads \cup {None}, pings : Nat]
      BY DEF TypeOK, AcceptType
    <2>2. UNCHANGED <<deviceName, payloadQueue, terminalAccept>>
      BY <1>5 DEF PingPayload, AddPayload, StartPayload, AddDataController, SetLists,
                  ListPayload, ListPayloadThrows, accept
    <2>3. CASE PingPayload
      BY <2>1, <2>2, <2>3 DEF PingPayload, AcceptInv, Attaching
    <2>4. CASE AddPayload \/ StartPayload \/ AddDataController \/ SetLists
               \/ ListPayloadThrows
      <3>1. /\ payloadAccept.pc \in Attaching /\ payloadAccept'.pc \in Attaching
            /\ payloadAccept'.sock = payloadAccept.sock
        BY <2>1, <2>4 DEF AddPayload, StartPayload, AddDataController, SetLists,
                          ListPayloadThrows, Attaching
      <3> QED
        BY <2>2, <3>1 DEF AcceptInv, Attaching
    <2>5. CASE ListPayload
      <3>1. payloadAccept'.pc = "accept" /\ payloadAccept'.sock = None
        BY <2>1, <2>5 DEF ListPayload, LastPayload
      <3>2. \A k \in 1..Len(payloadQueue) : payloadQueue[k] # None
        BY ServerAssumption DEF TypeOK, AcceptType
      <3> QED
        BY <2>2, <3>1, <3>2 DEF AcceptInv, Attaching
    <2> QED
      BY <1>5, <2>3, <2>4, <2>5
  <1>6. CASE TerminalAcceptThread
    <2>1. UNCHANGED <<deviceName, payloadQueue, payloadAccept>>
      BY <1>6, TerminalAcceptFrame
    <2>2. terminalAccept'.pc # "accept" => terminalAccept'.sock \in Terminals
      <3>1. terminalAccept \in [pc : TerminalPc, sock : Terminals \cup {None},
                                list : BOOLEAN, pings : Nat, oos : Terminals \cup {None}]
        BY DEF TypeOK, AcceptType
      <3>2. CASE AcceptTerminal
        <4>1. terminalAccept'.sock = Head(terminalQueue)
          BY <3>2 DEF AcceptTerminal
        <4>2. Head(terminalQueue) \in Terminals
          BY <3>2 DEF AcceptTerminal, TypeOK, AcceptType
        <4> QED
          BY <4>1, <4>2
      <3>3. CASE PingTerminal \/ AnswerRefresh \/ SendList \/ ReadTerminalName
                 \/ StartTerminal \/ AckTerminal
        <4>1. /\ terminalAccept.pc # "accept"
              /\ terminalAccept'.sock = terminalAccept.sock
          BY <3>1, <3>3 DEF PingTerminal, AnswerRefresh, SendList, ReadTerminalName,
                            StartTerminal, AckTerminal
        <4> QED
          BY <4>1 DEF AcceptInv
      <3>4. CASE PublishStream
        BY <3>1, <3>4 DEF PublishStream
      <3> QED
        BY <1>6, <3>2, <3>3, <3>4 DEF TerminalAcceptThread
    <2> QED
      BY <2>1, <2>2 DEF AcceptInv
  <1>12. CASE SkipGreeting
    BY <1>1, <1>12 DEF SkipGreeting, accept
  <1>7. CASE FinishController
    BY <1>1, <1>7 DEF FinishController, accept
  <1>8. CASE UNCHANGED vars
    BY <1>1, <1>8 DEF vars, accept
  <1>9. ASSUME Peers, ~\E p \in Payloads : ConnectPayload(p) PROVE AcceptInv'
    BY <1>1, <1>9 DEF Peers, Announce, OpenLink, SendRecord, ConnectTerminal, PressRefresh,
         PressConnect, RequestUpdate, SendText, accept
  <1>10. ASSUME NEW p \in Payloads, PayloadThread(p) PROVE AcceptInv'
    BY <1>1, <1>10, PayloadThreadFrame DEF accept
  <1>11. ASSUME NEW t \in Terminals, TerminalThread(t) PROVE AcceptInv'
    BY <1>1, <1>11, TerminalThreadFrame DEF accept
  <1> QED
    BY <1>2, <1>3, <1>4, <1>5, <1>6, <1>7, <1>8, <1>9, <1>10, <1>11, <1>12
    DEF Next, PayloadAcceptThread

-----------------------------------------------------------------------------
(* Where the messages of a wire come from: written messages are the old    *)
(* ones and the new ones, a reader only removes some.                      *)

(* The messages of a wire after a write of several messages. *)
LEMMA WriteMembers ==
  ASSUME NEW D, NEW S, NEW f \in [D -> Seq(S)], NEW d, NEW m \in Seq(S),
         NEW g, g = [f EXCEPT ![d] = @ \o m]
  PROVE  \A x \in D : \A k \in 1..Len(g[x]) :
           \/ k \in 1..Len(f[x]) /\ g[x][k] = f[x][k]
           \/ \E j \in 1..Len(m) : g[x][k] = m[j]
  <1> SUFFICES ASSUME NEW x \in D, NEW k \in 1..Len(g[x])
               PROVE  \/ k \in 1..Len(f[x]) /\ g[x][k] = f[x][k]
                      \/ \E j \in 1..Len(m) : g[x][k] = m[j]
    OBVIOUS
  <1>1. CASE x # d
    BY <1>1
  <1>2. CASE x = d
    <2>1. g[x] = f[x] \o m /\ f[x] \in Seq(S)
      BY <1>2
    <2>2. /\ Len(g[x]) = Len(f[x]) + Len(m) /\ Len(f[x]) \in Nat /\ Len(m) \in Nat
          /\ \A i \in 1..Len(f[x]) + Len(m) :
               g[x][i] = IF i <= Len(f[x]) THEN f[x][i] ELSE m[i - Len(f[x])]
      <3>1. Len(f[x]) \in Nat /\ Len(m) \in Nat
        BY <2>1
      <3>2. /\ Len(f[x] \o m) = Len(f[x]) + Len(m)
            /\ \A i \in 1..Len(f[x]) + Len(m) :
                 (f[x] \o m)[i] = IF i <= Len(f[x]) THEN f[x][i] ELSE m[i - Len(f[x])]
        BY <2>1, ConcatProperties
      <3>3. g[x] = f[x] \o m
        BY <2>1
      <3> QED
        BY <3>1, <3>2, <3>3
    <2>3. CASE k <= Len(f[x])
      BY <2>1, <2>2, <2>3
    <2>4. CASE k > Len(f[x])
      <3>1. k - Len(f[x]) \in 1..Len(m) /\ g[x][k] = m[k - Len(f[x])]
        BY <2>1, <2>2, <2>4
      <3> QED
        BY <3>1
    <2> QED
      BY <2>2, <2>3, <2>4
  <1> QED
    BY <1>1, <1>2

(* The messages of a wire after a write of one message. *)
LEMMA AppendMembers ==
  ASSUME NEW D, NEW S, NEW f \in [D -> Seq(S)], NEW d, NEW m \in S,
         NEW g, g = [f EXCEPT ![d] = Append(@, m)]
  PROVE  \A x \in D : \A k \in 1..Len(g[x]) :
           \/ k \in 1..Len(f[x]) /\ g[x][k] = f[x][k]
           \/ g[x][k] = m
  <1> SUFFICES ASSUME NEW x \in D, NEW k \in 1..Len(g[x])
               PROVE  \/ k \in 1..Len(f[x]) /\ g[x][k] = f[x][k]
                      \/ g[x][k] = m
    OBVIOUS
  <1>1. f[x] \in Seq(S)
    OBVIOUS
  <1>2. CASE x # d
    BY <1>2
  <1>3. CASE x = d
    BY <1>1, <1>3
  <1> QED
    BY <1>2, <1>3

(* The messages of a wire after a read. *)
LEMMA ReadMembers ==
  ASSUME NEW D, NEW S, NEW f \in [D -> Seq(S)], NEW d \in D, NEW n \in 1..Len(f[d]),
         NEW g, g = [f EXCEPT ![d] = Rest(@, n)]
  PROVE  \A x \in D : \A k \in 1..Len(g[x]) :
           \E j \in 1..Len(f[x]) : g[x][k] = f[x][j]
  <1> SUFFICES ASSUME NEW x \in D, NEW k \in 1..Len(g[x])
               PROVE  \E j \in 1..Len(f[x]) : g[x][k] = f[x][j]
    OBVIOUS
  <1>1. CASE x # d
    BY <1>1
  <1>2. CASE x = d
    <2>1. g[x] = Rest(f[d], n) /\ f[d] \in Seq(S) /\ Len(f[d]) \in Nat
      BY <1>2
    <2>2. /\ Len(Rest(f[d], n)) = Len(f[d]) - n
          /\ \A i \in 1..(Len(f[d]) - n) : Rest(f[d], n)[i] = f[d][n + i]
      BY <2>1, WireType
    <2>3. k \in 1..(Len(f[d]) - n)
      BY <2>1, <2>2
    <2>4. n + k \in 1..Len(f[x]) /\ g[x][k] = f[x][n + k]
      BY <1>2, <2>1, <2>2, <2>3
    <2> QED
      BY <2>4
  <1> QED
    BY <1>1, <1>2

-----------------------------------------------------------------------------
(* Names are given once, entries are only added, and payloadDataList stays. *)
LEMMA RegistryGrows ==
  ASSUME IInv, [Next]_vars
  PROVE  /\ dataListSet => dataListSet'
         /\ \A p \in Payloads :
              /\ deviceName[p] # None => deviceName'[p] = deviceName[p]
              /\ Len(payloadDataVector[p]) <= Len(payloadDataVector'[p])
  <1> USE DEF IInv
  <1>1. CASE UNCHANGED <<shared, deviceName, payloadDataVector>>
    BY <1>1 DEF shared, TypeOK, PayloadType
  <1>2. CASE PayloadAcceptThread
    <2>1. UNCHANGED payloadDataVector
      BY <1>2, PayloadAcceptFrame
    <2>2. dataListSet => dataListSet'
      BY <1>2 DEF PayloadAcceptThread, AcceptPayload, PingPayload, SkipGreeting, ReadPayloadName,
           AddPayload, StartPayload, AddDataController, SetLists, ListPayload,
           ListPayloadThrows, shared
    <2>3. \/ UNCHANGED deviceName
          \/ ReadPayloadName
      BY <1>2 DEF PayloadAcceptThread, AcceptPayload, PingPayload, SkipGreeting,
           AddPayload, StartPayload, AddDataController, SetLists, ListPayload,
           ListPayloadThrows
    <2>4. ASSUME ReadPayloadName, NEW p \in Payloads, deviceName[p] # None
          PROVE  deviceName'[p] = deviceName[p]
      BY <2>4 DEF ReadPayloadName, AcceptInv, TypeOK, PayloadType
    <2>5. \A p \in Payloads : Len(payloadDataVector[p]) \in Nat
      BY DEF TypeOK, PayloadType
    <2> QED
      BY <2>1, <2>2, <2>3, <2>4, <2>5
  <1>3. ASSUME NEW q \in Payloads, PayloadThread(q)
        PROVE  \A p \in Payloads : Len(payloadDataVector[p]) <= Len(payloadDataVector'[p])
    <2>1. payloadDataVector \in [Payloads -> Seq(Seq(PayloadMsg))]
      BY DEF TypeOK, PayloadType
    <2>2. CASE UNCHANGED payloadDataVector
      BY <2>1, <2>2
    <2>3. CASE StoreRecord(q)
      <3>1. PICK n \in 1..Len(fromPayload[q]) :
              payloadDataVector' = [payloadDataVector EXCEPT ![q] =
                                      Append(@, Chunk(fromPayload[q], n))]
        BY <2>3 DEF StoreRecord
      <3> QED
        BY <2>1, <3>1
    <2> QED
      BY <1>3, <2>2, <2>3 DEF PayloadThread, DropPayloadChunk
  <1>4. ASSUME NEW q \in Payloads, PayloadThread(q)
        PROVE  UNCHANGED <<shared, deviceName>>
    BY <1>4, PayloadThreadFrame
  <1>5. CASE FinishController
    BY <1>1, <1>5 DEF FinishController
  <1>6. CASE UNCHANGED vars
    BY <1>1, <1>6 DEF vars
  <1>7. CASE TerminalAcceptThread
    BY <1>1, <1>7, TerminalAcceptFrame
  <1>8. CASE Peers
    BY <1>1, <1>8, PeersFrame
  <1>9. ASSUME NEW t \in Terminals, TerminalThread(t)
        PROVE  UNCHANGED <<shared, deviceName, payloadDataVector>>
    BY <1>9, TerminalThreadFrame
  <1>10. CASE \E q \in Payloads : PayloadThread(q)
    BY <1>3, <1>4, <1>10 DEF shared
  <1> QED
    BY <1>1, <1>2, <1>5, <1>6, <1>7, <1>8, <1>9, <1>10 DEF Next

-----------------------------------------------------------------------------
(* attachPayload and UPDatePayloadList keep the three vectors in step. *)
LEMMA RegistryStep ==
  ASSUME IInv, [Next]_vars PROVE RegistryInv'
  <1> USE DEF IInv
  <1>1. CASE UNCHANGED <<shared, payloadAccept, deviceName>>
    BY <1>1 DEF RegistryInv, shared
  <1>2. CASE PayloadAcceptThread
    <2> DEFINE n == Len(payloadListVector)
               a == payloadAccept
    <2>0. /\ payloadList \in Seq(Payloads) /\ payloadDataList \in Seq(Payloads)
          /\ payloadListVector \in Seq(DeviceNames) /\ n \in Nat
          /\ deviceName \in [Payloads -> DeviceNames \cup {None}]
          /\ a \in [pc : PayloadPc, sock : Payloads \cup {None}, pings : Nat]
      BY DEF TypeOK, SharedType, PayloadType, AcceptType
    <2>1. CASE AcceptPayload
      BY <2>1 DEF AcceptPayload, RegistryInv, shared
    <2>2. CASE PingPayload
      BY <2>0, <2>2 DEF PingPayload, RegistryInv, shared
    <2>3. CASE ReadPayloadName
      <3>1. /\ a.pc = "getPName" /\ a'.pc = "add" /\ UNCHANGED shared
            /\ \A p \in Payloads : deviceName[p] # None => deviceName'[p] = deviceName[p]
        BY <2>0, <2>3, RegistryGrows DEF ReadPayloadName
      <3>2. /\ \A k \in 1..Len(payloadList) : payloadList[k] \in Payloads
            /\ \A k \in 1..Len(payloadDataList) : payloadDataList[k] \in Payloads
        BY <2>0
      <3>3. \A k \in 1..Len(payloadList) : deviceName'[payloadList[k]] = deviceName[payloadList[k]]
        BY <3>1, <3>2 DEF RegistryInv
      <3>4. Len(payloadList) = n /\ Len(payloadDataList) = n
        BY <3>1 DEF RegistryInv
      <3> QED
        BY <2>0, <3>1, <3>3, <3>4 DEF RegistryInv, shared
    <2>4. CASE AddPayload
      <3>1. /\ a.pc = "add" /\ a'.pc = "start" /\ a'.sock = a.sock
            /\ payloadList' = Append(payloadList, a.sock)
            /\ UNCHANGED <<payloadDataList, payloadListVector, dataListSet, deviceName>>
        BY <2>0, <2>4 DEF AddPayload
      <3>2. a.sock \in Payloads /\ deviceName[a.sock] # None
        BY <3>1 DEF AcceptInv, Attaching
      <3>3. Len(payloadList) = n /\ Len(payloadDataList) = n
        BY <3>1 DEF RegistryInv
      <3> QED
        BY <2>0, <3>1, <3>2, <3>3 DEF RegistryInv
    <2>5. CASE StartPayload
      BY <2>0, <2>5 DEF StartPayload, RegistryInv, shared
    <2>6. CASE AddDataController
      <3>1. /\ a.pc = "addData" /\ a'.pc = "setLists" /\ a'.sock = a.sock
            /\ payloadDataList' = Append(payloadDataList, a.sock)
            /\ UNCHANGED <<payloadList, payloadListVector, dataListSet, deviceName>>
        BY <2>0, <2>6 DEF AddDataController
      <3>2. a.sock \in Payloads
        BY <3>1 DEF AcceptInv
      <3>3. /\ Len(payloadList) = n + 1 /\ Len(payloadDataList) = n
            /\ payloadList[n + 1] = a.sock
        BY <3>1 DEF RegistryInv
      <3> QED
        BY <2>0, <3>1, <3>2, <3>3 DEF RegistryInv
    <2>7. CASE SetLists
      BY <2>0, <2>7 DEF SetLists, RegistryInv
    <2>8. CASE ListPayload
      <3>1. /\ a.pc = "list" /\ a'.pc = "accept"
            /\ payloadListVector' =
                 Append(payloadListVector, deviceName[payloadList[Len(payloadList)]])
            /\ UNCHANGED <<payloadList, payloadDataList, dataListSet, deviceName>>
        BY <2>0, <2>8 DEF ListPayload, LastPayload
      <3>2. /\ Len(payloadList) = n + 1 /\ Len(payloadDataList) = n + 1
            /\ payloadDataList[n + 1] = payloadList[n + 1] /\ dataListSet
        BY <2>0, <3>1 DEF RegistryInv
      <3>3. deviceName[payloadList[n + 1]] \in DeviceNames
        BY <2>0, <3>2 DEF RegistryInv
      <3> QED
        BY <2>0, <3>1, <3>2, <3>3 DEF RegistryInv
    <2>9. CASE ListPayloadThrows
      BY <2>0, <2>9 DEF ListPayloadThrows, RegistryInv, shared
    <2>10. CASE SkipGreeting
      BY <1>1, <2>10 DEF SkipGreeting, accept
    <2> QED
      BY <1>2, <2>1, <2>2, <2>3, <2>4, <2>5, <2>6, <2>7, <2>8, <2>9, <2>10
      DEF PayloadAcceptThread
  <1>3. CASE FinishController
    BY <1>1, <1>3 DEF FinishController, accept
  <1>4. CASE UNCHANGED vars
    BY <1>1, <1>4 DEF vars, accept
  <1>5. CASE TerminalAcceptThread
    BY <1>1, <1>5, TerminalAcceptFrame
  <1>6. CASE Peers
    BY <1>1, <1>6, PeersFrame
  <1>7. ASSUME NEW p \in Payloads, PayloadThread(p) PROVE RegistryInv'
    BY <1>1, <1>7, PayloadThreadFrame DEF accept
  <1>8. ASSUME NEW t \in Terminals, TerminalThread(t) PROVE RegistryInv'
    BY <1>1, <1>8, TerminalThreadFrame DEF accept
  <1> QED
    BY <1>2, <1>3, <1>4, <1>5, <1>6, <1>7, <1>8 DEF Next

-----------------------------------------------------------------------------
(* What a step can add to the wires of a terminal. *)
LEMMA ToTerminalWrite ==
  ASSUME toTerminal \in [Terminals -> Seq(ToTerminalMsg)], NEW d,
         NEW m \in Seq(ToTerminalMsg), toTerminal' = [toTerminal EXCEPT ![d] = @ \o m],
         NEW t \in Terminals, NEW k \in 1..Len(toTerminal'[t])
  PROVE  \/ k \in 1..Len(toTerminal[t]) /\ toTerminal'[t][k] = toTerminal[t][k]
         \/ \E j \in 1..Len(m) : toTerminal'[t][k] = m[j]
  <1>1. \A x \in Terminals : \A i \in 1..Len(toTerminal'[x]) :
          \/ i \in 1..Len(toTerminal[x]) /\ toTerminal'[x][i] = toTerminal[x][i]
          \/ \E j \in 1..Len(m) : toTerminal'[x][i] = m[j]
    BY WriteMembers
  <1> QED
    BY <1>1

(* Writing one message to a terminal. *)
LEMMA ToTerminalAppend ==
  ASSUME toTerminal \in [Terminals -> Seq(ToTerminalMsg)], NEW d,
         NEW m \in ToTerminalMsg, toTerminal' = [toTerminal EXCEPT ![d] = Append(@, m)],
         NEW t \in Terminals, NEW k \in 1..Len(toTerminal'[t])
  PROVE  \/ k \in 1..Len(toTerminal[t]) /\ toTerminal'[t][k] = toTerminal[t][k]
         \/ toTerminal'[t][k] = m
  <1>1. \A x \in Terminals : \A i \in 1..Len(toTerminal'[x]) :
          \/ i \in 1..Len(toTerminal[x]) /\ toTerminal'[x][i] = toTerminal[x][i]
          \/ toTerminal'[x][i] = m
    BY AppendMembers
  <1> QED
    BY <1>1

(* Reading a chunk from a terminal leaves messages it had sent. *)
LEMMA FromTerminalRead ==
  ASSUME fromTerminal \in [Terminals -> Seq(TerminalMsg)], NEW d \in Terminals,
         NEW n \in 1..Len(fromTerminal[d]),
         fromTerminal' = [fromTerminal EXCEPT ![d] = Rest(@, n)],
         NEW t \in Terminals, NEW k \in 1..Len(fromTerminal'[t])
  PROVE  \E j \in 1..Len(fromTerminal[t]) : fromTerminal'[t][k] = fromTerminal[t][j]
  <1>1. \A x \in Terminals : \A i \in 1..Len(fromTerminal'[x]) :
          \E j \in 1..Len(fromTerminal[x]) : fromTerminal'[x][i] = fromTerminal[x][j]
    BY ReadMembers, SMTT(30)
  <1> QED
    BY <1>1

(* A terminal is sent signals, the list of payloads, and objects; a marker *)
(* only by the shared writer while it writes to that terminal.             *)
LEMMA ToTerminalStep ==
  ASSUME IInv, [Next]_vars, NEW t \in Terminals, NEW k \in 1..Len(toTerminal'[t])
  PROVE  \/ k \in 1..Len(toTerminal[t]) /\ toTerminal'[t][k] = toTerminal[t][k]
         \/ toTerminal'[t][k] \in Signal /\ (toTerminal'[t][k] = Marker => t = streamWriter.to)
         \/ /\ toTerminal'[t][k].tag = "list"
            /\ toTerminal'[t][k].names \in {payloadListVector, <<>>}
         \/ \E u \in Terminals : EndWrite(u) /\ toTerminal'[t][k] = ObjectOf(u)
  <1> USE DEF IInv
  <1>0. toTerminal \in [Terminals -> Seq(ToTerminalMsg)]
    BY DEF TypeOK, TerminalWires
  <1>1. CASE UNCHANGED toTerminal
    BY <1>1
  <1>2. CASE TerminalAcceptThread
    <2> DEFINE d == terminalAccept.sock
    <2> DEFINE Plain == Signal \ {Marker}
    <2>1. Ack \in Plain /\ Ping \in Plain /\ Plain \subseteq ToTerminalMsg
      BY DEF Ack, Ping, Marker, Signal, ToTerminalMsg
    <2>2. CASE \E m \in Plain : toTerminal' = [toTerminal EXCEPT ![d] = Append(@, m)]
      <3>1. PICK m \in Plain : toTerminal' = [toTerminal EXCEPT ![d] = Append(@, m)]
        BY <2>2
      <3>2. m \in ToTerminalMsg
        BY <2>1
      <3> QED
        BY <1>0, <3>1, <3>2, ToTerminalAppend
    <2>3. CASE toTerminal' = [toTerminal EXCEPT ![d] = @ \o <<Ack, Ping>>]
      <3>1. /\ <<Ack, Ping>> \in Seq(ToTerminalMsg)
            /\ \A j \in 1..Len(<<Ack, Ping>>) : <<Ack, Ping>>[j] \in Plain
        BY <2>1
      <3> QED
        BY <1>0, <2>3, <3>1, ToTerminalWrite
    <2>4. CASE AnswerRefresh
      <3>1. [tag |-> "Refresh"] \in Plain
        BY DEF Signal, Marker
      <3> QED
        BY <2>2, <2>4, <3>1 DEF AnswerRefresh
    <2>7. CASE SendList
      <3> DEFINE l == [tag |-> "list", names |-> ListNow]
      <3>1. l \in ToTerminalMsg /\ l.tag = "list" /\ l.names \in {payloadListVector, <<>>}
        BY DEF TypeOK, SharedType, ListNow, ToTerminalMsg, ListMsg
      <3>2. toTerminal' = [toTerminal EXCEPT ![d] = Append(@, l)]
        BY <2>7 DEF SendList
      <3> HIDE DEF l
      <3> QED
        BY <1>0, <3>1, <3>2, ToTerminalAppend
    <2>5. CASE PingTerminal \/ AckTerminal
      BY <2>1, <2>2, <2>5 DEF PingTerminal, AckTerminal
    <2>6. CASE ReadTerminalName
      BY <2>1, <2>2, <2>3, <2>6 DEF ReadTerminalName
    <2> QED
      BY <1>1, <1>2, <2>4, <2>5, <2>6, <2>7
      DEF TerminalAcceptThread, AcceptTerminal, StartTerminal, PublishStream, wires
  <1>3. ASSUME NEW u \in Terminals, FlushMarker(u)
        PROVE  \/ k \in 1..Len(toTerminal[t]) /\ toTerminal'[t][k] = toTerminal[t][k]
               \/ toTerminal'[t][k] \in Signal /\ t = streamWriter.to
    <2> DEFINE m == [j \in 1..streamWriter.buffered |-> Marker]
    <2>1. /\ streamWriter.buffered \in Nat /\ Marker \in Signal
          /\ Signal \subseteq ToTerminalMsg
      BY DEF TypeOK, StreamType, Marker, Signal, ToTerminalMsg
    <2>2. m \in Seq(ToTerminalMsg) /\ \A j \in 1..Len(m) : m[j] \in Signal
      BY <2>1
    <2>3. toTerminal' = [toTerminal EXCEPT ![streamWriter.to] = @ \o m]
      BY <1>3 DEF FlushMarker
    <2>4. t # streamWriter.to => toTerminal'[t] = toTerminal[t]
      BY <1>0, <2>3
    <2> HIDE DEF m
    <2> QED
      BY <1>0, <2>2, <2>3, <2>4, ToTerminalWrite, SMTT(30)
  <1>4. ASSUME NEW u \in Terminals, EndWrite(u)
        PROVE  \/ k \in 1..Len(toTerminal[t]) /\ toTerminal'[t][k] = toTerminal[t][k]
               \/ toTerminal'[t][k] = ObjectOf(u)
    <2>1. ObjectOf(u) \in ToTerminalMsg
      <3>1. handler[u] \in HandlerType /\ handler[u].conn \in Payloads /\ Busy(u)
            /\ handler[u].want # None
        BY <1>4, NullIsNoName DEF TypeOK, EndWrite, HandlerInv, Busy
      <3>2. handler[u].want \in WantedNames /\ handler[u].since[handler[u].conn] \in Nat
        BY <3>1 DEF HandlerType
      <3> QED
        BY <3>1, <3>2 DEF HandlerType, ObjectOf, ObjectMsg, ToTerminalMsg
    <2>2. toTerminal' = [toTerminal EXCEPT ![handler[u].oos] = Append(@, ObjectOf(u))]
      BY <1>4 DEF EndWrite
    <2> QED
      BY <1>0, <2>1, <2>2, ToTerminalAppend
  <1>5. ASSUME NEW u \in Terminals, TerminalThread(u)
        PROVE  FlushMarker(u) \/ EndWrite(u) \/ UNCHANGED toTerminal
    BY <1>5 DEF TerminalThread, Serve, StartScan, DropTerminalChunk,
       EndScan, SkipPayload, PickNewest, ScanThrows, AttachSocket, NewWriter,
       PrintMarker, BeginWrite, SendThrows
  <1>6. CASE FinishController
    BY <1>1, <1>6 DEF FinishController, wires
  <1>7. CASE UNCHANGED vars
    BY <1>1, <1>7 DEF vars, wires
  <1>8. ASSUME NEW p \in Payloads, PayloadThread(p) PROVE UNCHANGED toTerminal
    BY <1>8, PayloadThreadFrame
  <1> QED
    BY <1>1, <1>2, <1>3, <1>4, <1>5, <1>6, <1>7, <1>8, PeersFrame, PayloadAcceptFrame
    DEF Next

(* A terminal asks for updates only of a name it has chosen.               *)
LEMMA FromTerminalStep ==
  ASSUME IInv, [Next]_vars, NEW t \in Terminals, NEW k \in 1..Len(fromTerminal'[t]),
         fromTerminal'[t][k].tag = "request"
  PROVE  \/ \E j \in 1..Len(fromTerminal[t]) : fromTerminal[t][j].tag = "request"
         \/ RequestUpdate(t)
  <1> USE DEF IInv
  <1>0. /\ fromTerminal \in [Terminals -> Seq(TerminalMsg)]
        /\ toTerminal \in [Terminals -> Seq(ToTerminalMsg)]
        /\ chosen \in [Terminals -> DeviceNames \cup {None}]
    BY DEF TypeOK, TerminalWires, PeersType
  <1>1. CASE UNCHANGED fromTerminal
    BY <1>1
  <1>2. CASE \E d \in Terminals : \E n \in 1..Len(fromTerminal[d]) :
               fromTerminal' = [fromTerminal EXCEPT ![d] = Rest(@, n)]
    <2>1. \E j \in 1..Len(fromTerminal[t]) : fromTerminal'[t][k] = fromTerminal[t][j]
      BY <1>0, <1>2, FromTerminalRead
    <2> QED
      BY <2>1
  <1>3. ASSUME NEW d \in Terminals, NEW m \in TerminalMsg, TerminalSends(d, m)
        PROVE  \/ \E j \in 1..Len(fromTerminal[t]) : fromTerminal'[t][k] = fromTerminal[t][j]
               \/ d = t /\ fromTerminal'[t][k] = m
    <2>1. fromTerminal' = [fromTerminal EXCEPT ![d] = Append(@, m)]
      BY <1>3 DEF TerminalSends
    <2>2. \A x \in Terminals : \A i \in 1..Len(fromTerminal'[x]) :
            \/ i \in 1..Len(fromTerminal[x]) /\ fromTerminal'[x][i] = fromTerminal[x][i]
            \/ fromTerminal'[x][i] = m
      BY <1>0, <2>1, AppendMembers
    <2>3. d # t => fromTerminal'[t] = fromTerminal[t]
      BY <1>0, <2>1
    <2> QED
      BY <2>2, <2>3
  <1>4. CASE Peers
    <2>1. ASSUME NEW d \in Terminals, ConnectTerminal(d) \/ PressRefresh(d) \/ SendText(d)
          PROVE  \E m \in TerminalMsg : m.tag # "request" /\ TerminalSends(d, m)
      BY <2>1 DEF ConnectTerminal, PressRefresh, SendText, TerminalMsg
    <2>2. ASSUME NEW d \in Terminals, PressConnect(d)
          PROVE  \E m \in TerminalMsg : m.tag # "request" /\ TerminalSends(d, m)
      <3>1. PICK list \in ListsSent(d) : \E i \in 1..Len(list.names) :
              TerminalSends(d, [tag |-> "DeviceName", name |-> list.names[i]])
        BY <2>2 DEF PressConnect
      <3>2. list \in ToTerminalMsg /\ list.tag = "list"
        BY <1>0 DEF ListsSent, Members
      <3>3. list.names \in Seq(DeviceNames)
        BY <3>2 DEF ToTerminalMsg, Signal, ListMsg, ObjectMsg
      <3>4. PICK i \in 1..Len(list.names) :
              TerminalSends(d, [tag |-> "DeviceName", name |-> list.names[i]])
        BY <3>1
      <3> DEFINE m == [tag |-> "DeviceName", name |-> list.names[i]]
      <3>5. m \in TerminalMsg /\ m.tag # "request"
        BY <3>3 DEF TerminalMsg
      <3> QED
        BY <3>4, <3>5
    <2>3. ASSUME NEW d \in Terminals, RequestUpdate(d)
          PROVE  \E m \in TerminalMsg : TerminalSends(d, m)
      <3>1. chosen[d] # None /\ chosen[d] \in DeviceNames
        BY <1>0, <2>3 DEF RequestUpdate
      <3>2. [tag |-> "request", name |-> chosen[d]] \in TerminalMsg
        BY <3>1 DEF TerminalMsg
      <3> QED
        BY <2>3, <3>1, <3>2 DEF RequestUpdate
    <2>4. \/ UNCHANGED fromTerminal
          \/ \E d \in Terminals : \/ ConnectTerminal(d) \/ PressRefresh(d) \/ SendText(d)
                                  \/ PressConnect(d) \/ RequestUpdate(d)
      BY <1>4 DEF Peers, ConnectPayload, Announce, OpenLink, SendRecord, wires
    <2> QED
      BY <1>1, <1>3, <2>1, <2>2, <2>3, <2>4
  <1>5. CASE TerminalAcceptThread
    <2>1. CASE AnswerRefresh \/ ReadTerminalName
      <3>1. terminalAccept.sock \in Terminals
        BY <2>1 DEF AnswerRefresh, ReadTerminalName, AcceptInv
      <3> QED
        BY <1>2, <2>1, <3>1 DEF AnswerRefresh, ReadTerminalName
    <2> QED
      BY <1>1, <1>5, <2>1 DEF TerminalAcceptThread, AcceptTerminal, PingTerminal,
         SendList, StartTerminal, AckTerminal, PublishStream, wires
  <1>6. ASSUME NEW u \in Terminals, TerminalThread(u)
        PROVE  \/ UNCHANGED fromTerminal
               \/ \E n \in 1..Len(fromTerminal[u]) :
                    fromTerminal' = [fromTerminal EXCEPT ![u] = Rest(@, n)]
    <2>1. CASE StartScan(u) \/ DropTerminalChunk(u)
      BY <2>1 DEF StartScan, DropTerminalChunk
    <2>2. CASE Serve(u)
      BY <2>2 DEF Serve, EndScan, SkipPayload, PickNewest,
         ScanThrows, AttachSocket, NewWriter, PrintMarker, FlushMarker, BeginWrite,
         SendThrows, EndWrite
    <2> QED
      BY <1>6, <2>1, <2>2 DEF TerminalThread
  <1>7. CASE FinishController
    BY <1>1, <1>7 DEF FinishController, wires
  <1>8. CASE UNCHANGED vars
    BY <1>1, <1>8 DEF vars, wires
  <1>9. ASSUME NEW p \in Payloads, PayloadThread(p) PROVE UNCHANGED fromTerminal
    BY <1>9, PayloadThreadFrame
  <1> QED
    BY <1>1, <1>2, <1>4, <1>5, <1>6, <1>7, <1>8, <1>9, PayloadAcceptFrame DEF Next

-----------------------------------------------------------------------------
(* What a step can do to one handler thread. *)

SameRequest(t) ==
  /\ handler'[t].want = handler[t].want /\ handler'[t].since = handler[t].since
  /\ handler'[t].conn = handler[t].conn /\ handler'[t].at = handler[t].at

Sending == {"writer", "print", "flush", "send"}

Moves(t) ==
  \/ handler'[t].pc = "poll"
  \/ SameRequest(t) /\ handler'[t].pc = handler[t].pc /\ handler'[t].oos = handler[t].oos
  \/ SameRequest(t) /\ Busy(t) /\ handler'[t].pc \in Sending
  \/ SameRequest(t) /\ Busy(t) /\ handler'[t].pc = "writing" /\ handler'[t].oos \in Terminals
  \/ /\ handler[t].pc = "scan" \/ Busy(t)
     /\ handler'[t].pc = "scan" /\ handler'[t].since = handler[t].since
  \/ /\ handler[t].pc = "scan" \/ Busy(t)
     /\ handler'[t].pc \in {"noEntry", "noList", "noStream"}
     /\ handler'[t].pc = "noList" => ~dataListSet
  \/ /\ StartScan(t) /\ handler'[t].pc = "scan"
     /\ handler'[t].since = [p \in Payloads |-> Len(payloadDataVector[p])]
  \/ /\ handler[t].pc = "scan" /\ handler'[t].pc = "attach"
     /\ handler'[t].since = handler[t].since /\ handler'[t].want = handler[t].want
     /\ handler'[t].conn \in Payloads
     /\ deviceName[handler'[t].conn] = handler[t].want
     /\ deviceName[handler'[t].conn] # None
     /\ handler'[t].at = Len(payloadDataVector[handler'[t].conn])
     /\ payloadDataVector[handler'[t].conn] # <<>>

(* A step of one terminal's thread moves every thread as Moves says. *)
LEMMA ServeMoves ==
  ASSUME IInv, NEW u \in Terminals, TerminalThread(u), NEW t \in Terminals PROVE Moves(t)
  <1> USE DEF IInv
  <1>0. handler \in [Terminals -> HandlerType] /\ handler[t] \in HandlerType
    BY DEF TypeOK
  <1>1. CASE handler'[t] = handler[t]
    BY <1>1 DEF Moves, SameRequest
  <1>3. CASE StartScan(u)
    <2>1. t = u => /\ handler'[t].pc = "scan"
                   /\ handler'[t].since = [p \in Payloads |-> Len(payloadDataVector[p])]
      BY <1>0, <1>3 DEF StartScan, Handler
    <2>2. t # u => handler'[t] = handler[t]
      BY <1>0, <1>3 DEF StartScan
    <2> QED
      BY <1>1, <1>3, <2>1, <2>2 DEF Moves
  <1>4. CASE DropTerminalChunk(u)
    BY <1>1, <1>4 DEF DropTerminalChunk
  <1>5. CASE EndScan(u)
    <2>1. IF t = u THEN handler'[t].pc = "poll" ELSE handler'[t] = handler[t]
      BY <1>0, <1>5 DEF EndScan, IdleHandler, Handler
    <2> QED
      BY <1>1, <2>1 DEF Moves
  <1>6. CASE SkipPayload(u)
    <2>1. IF t = u
          THEN handler[t].pc = "scan" /\ handler'[t].pc = "scan"
               /\ handler'[t].since = handler[t].since
          ELSE handler'[t] = handler[t]
      BY <1>0, <1>6 DEF SkipPayload, HandlerType
    <2> QED
      BY <1>1, <2>1 DEF Moves
  <1>7. CASE EndWrite(u)
    <2>1. IF t = u
          THEN handler[t].pc = "writing" /\ handler'[t].pc = "scan"
               /\ handler'[t].since = handler[t].since
          ELSE handler'[t] = handler[t]
      BY <1>0, <1>7 DEF EndWrite, Handler
    <2> QED
      BY <1>1, <2>1 DEF Moves, Busy
  <1>8. CASE ScanThrows(u) \/ SendThrows(u)
    <2>1. IF t = u
          THEN /\ handler[t].pc \in {"scan", "send"}
               /\ handler'[t].pc \in {"noEntry", "noList", "noStream"}
               /\ handler'[t].pc = "noList" => ~dataListSet
          ELSE handler'[t] = handler[t]
      <3>1. CASE ScanThrows(u)
        BY <1>0, <3>1 DEF ScanThrows, HandlerType
      <3>2. CASE SendThrows(u)
        BY <1>0, <3>2 DEF SendThrows, HandlerType
      <3> QED
        BY <1>8, <3>1, <3>2
    <2> QED
      BY <1>1, <2>1 DEF Moves, Busy
  <1>9. CASE AttachSocket(u) \/ NewWriter(u) \/ PrintMarker(u) \/ FlushMarker(u)
    <2>1. \A pc : [handler[t] EXCEPT !.pc = pc].pc = pc
      BY <1>0 DEF HandlerType
    <2>2. PICK pc \in Sending : handler' = [handler EXCEPT ![u] = [@ EXCEPT !.pc = pc]]
      BY <1>9 DEF AttachSocket, NewWriter, PrintMarker, FlushMarker, Sending
    <2>3. handler[u].pc \in {"attach", "writer", "print", "flush"}
      BY <1>9 DEF AttachSocket, NewWriter, PrintMarker, FlushMarker
    <2>4. t = u => handler'[t] = [handler[t] EXCEPT !.pc = pc]
      BY <1>0, <2>2
    <2>5. t = u => handler'[t].pc = pc /\ SameRequest(t)
      BY <1>0, <2>1, <2>4 DEF SameRequest, HandlerType
    <2>6. t # u => handler'[t] = handler[t]
      BY <1>0, <2>2
    <2> QED
      BY <1>1, <2>3, <2>5, <2>6 DEF Moves, Busy
  <1>10. CASE PickNewest(u)
    <2> DEFINE p == payloadDataList[handler[u].i]
    <2>1. p \in Payloads
      BY <1>10 DEF PickNewest, Candidate, TypeOK, SharedType, HandlerType
    <2>2. handler[u].i \in 1..Len(payloadDataList)
      BY <1>10 DEF PickNewest, Candidate, TypeOK, HandlerType
    <2>3. payloadDataList[handler[u].i] = payloadList[handler[u].i]
          /\ handler[u].i \in 1..Len(payloadList)
      BY <2>2 DEF RegistryInv, TypeOK, SharedType
    <2>4. deviceName[p] # None
      BY <2>3 DEF RegistryInv
    <2>5. /\ handler[u].pc = "scan" /\ deviceName[p] = handler[u].want
          /\ payloadDataVector[p] # <<>>
      BY <1>10 DEF PickNewest, Candidate
    <2>6. handler' = [handler EXCEPT ![u] =
            [[[@ EXCEPT !.pc = "attach"] EXCEPT !.conn = p]
               EXCEPT !.at = Len(payloadDataVector[p])]]
      BY <1>10 DEF PickNewest, Newest
    <2>8. ASSUME t = u
          PROVE  /\ handler'[t].pc = "attach" /\ handler'[t].conn = p
                 /\ handler'[t].at = Len(payloadDataVector[p])
                 /\ handler'[t].want = handler[t].want
                 /\ handler'[t].since = handler[t].since
      <3>1. handler'[t] = [[[handler[t] EXCEPT !.pc = "attach"] EXCEPT !.conn = p]
                             EXCEPT !.at = Len(payloadDataVector[p])]
        BY <1>0, <2>6, <2>8
      <3> QED
        BY <1>0, <3>1 DEF HandlerType
    <2>9. t # u => handler'[t] = handler[t]
      BY <1>0, <2>6
    <2> QED
      BY <1>1, <2>1, <2>4, <2>5, <2>8, <2>9 DEF Moves
  <1>11. CASE BeginWrite(u)
    <2>1. objectOutputStream \in Terminals /\ handler[u].pc = "send"
      BY <1>11 DEF BeginWrite, TypeOK, StreamType
    <2>2. CASE t = u
      <3>1. handler'[t] = [handler[t] EXCEPT !.pc = "writing", !.oos = objectOutputStream,
                              !.mixed = \E v \in Terminals : WritingTo(v, objectOutputStream)]
        BY <1>11, <2>2 DEF BeginWrite
      <3>2. SameRequest(t) /\ handler'[t].pc = "writing"
            /\ handler'[t].oos = objectOutputStream
        BY <1>0, <3>1 DEF SameRequest, HandlerType
      <3> QED
        BY <2>1, <2>2, <3>2 DEF Moves, Busy
    <2>3. CASE t # u
      <3>1. handler'[t] = [handler[t] EXCEPT !.mixed = @ \/ WritingTo(t, objectOutputStream)]
        BY <1>11, <2>3 DEF BeginWrite
      <3>2. SameRequest(t) /\ handler'[t].pc = handler[t].pc
            /\ handler'[t].oos = handler[t].oos
        BY <1>0, <3>1 DEF SameRequest, HandlerType
      <3> QED
        BY <3>2 DEF Moves
    <2> QED
      BY <2>2, <2>3
  <1>12. CASE Serve(u)
    BY <1>5, <1>6, <1>7, <1>8, <1>9, <1>10, <1>11, <1>12 DEF Serve
  <1> QED
    BY <1>3, <1>4, <1>12 DEF TerminalThread

(* Every step moves every TerminalDataController thread as Moves says. *)
LEMMA HandlerMoves ==
  ASSUME IInv, [Next]_vars, NEW t \in Terminals PROVE Moves(t)
  <1> USE DEF IInv
  <1>0. handler \in [Terminals -> HandlerType] /\ handler[t] \in HandlerType
    BY DEF TypeOK
  <1>1. CASE handler'[t] = handler[t]
    BY <1>1 DEF Moves, SameRequest
  <1>2. CASE TerminalAcceptThread
    <2>1. CASE StartTerminal
      <3>1. handler'[t].pc = "poll" \/ handler'[t] = handler[t]
        BY <1>0, <2>1 DEF StartTerminal, HandlerType
      <3> QED
        BY <1>1, <3>1 DEF Moves
    <2> QED
      BY <1>1, <1>2, <2>1 DEF TerminalAcceptThread, AcceptTerminal, PingTerminal,
         AnswerRefresh, SendList, ReadTerminalName, AckTerminal, PublishStream
  <1>3. ASSUME NEW p \in Payloads, PayloadThread(p) PROVE UNCHANGED handler
    BY <1>3, PayloadThreadFrame
  <1>4. CASE FinishController
    BY <1>1, <1>4 DEF FinishController
  <1>5. CASE UNCHANGED vars
    BY <1>1, <1>5 DEF vars
  <1> QED
    BY <1>1, <1>2, <1>3, <1>4, <1>5, PeersFrame, PayloadAcceptFrame, ServeMoves DEF Next

-----------------------------------------------------------------------------
(* A name travels from a list to the user and back in requests only when   *)
(* the lists are set.                                                      *)
LEMMA NameStep ==
  ASSUME IInv, [Next]_vars PROVE NameInv'
  <1> USE DEF IInv
  <1>0. /\ toTerminal \in [Terminals -> Seq(ToTerminalMsg)]
        /\ chosen \in [Terminals -> DeviceNames \cup {None}]
    BY DEF TypeOK, TerminalWires, PeersType
  <1>1. dataListSet => dataListSet'
    BY RegistryGrows
  <1> SUFFICES ASSUME NEW t \in Terminals
      PROVE  /\ \A k \in 1..Len(toTerminal'[t]) :
                  toTerminal'[t][k].tag = "list" =>
                    (Len(toTerminal'[t][k].names) > 0 => dataListSet')
             /\ chosen'[t] # None => dataListSet'
             /\ \A k \in 1..Len(fromTerminal'[t]) :
                  fromTerminal'[t][k].tag = "request" => dataListSet'
             /\ handler'[t].pc \notin {"off", "poll"} => dataListSet'
             /\ handler'[t].pc # "noList"
    BY DEF NameInv
  <1>2. ASSUME NEW k \in 1..Len(toTerminal'[t]), toTerminal'[t][k].tag = "list",
               Len(toTerminal'[t][k].names) > 0
        PROVE  dataListSet'
    <2>1. CASE k \in 1..Len(toTerminal[t]) /\ toTerminal'[t][k] = toTerminal[t][k]
      BY <1>1, <1>2, <2>1 DEF NameInv
    <2>2. CASE toTerminal'[t][k] \in Signal
      BY <1>2, <2>2 DEF Signal
    <2>3. CASE toTerminal'[t][k].names \in {payloadListVector, <<>>}
      BY <1>1, <1>2, <2>3 DEF RegistryInv, TypeOK, SharedType
    <2>4. CASE \E u \in Terminals : toTerminal'[t][k] = ObjectOf(u)
      BY <1>2, <2>4 DEF ObjectOf
    <2> QED
      BY <2>1, <2>2, <2>3, <2>4, ToTerminalStep
  <1>3. ASSUME chosen'[t] # None PROVE dataListSet'
    <2>1. CASE UNCHANGED chosen
      BY <1>1, <1>3, <2>1 DEF NameInv
    <2>2. ASSUME NEW d \in Terminals, PressConnect(d) PROVE dataListSet'
      <3>1. PICK list \in ListsSent(d) : \E k \in 1..Len(list.names) : TRUE
        BY <2>2 DEF PressConnect
      <3>2. PICK k \in 1..Len(toTerminal[d]) :
              toTerminal[d][k] = list /\ list.tag = "list"
        BY DEF ListsSent, Members
      <3>3. list \in ToTerminalMsg
        BY <1>0, <3>2
      <3>4. list.names \in Seq(DeviceNames)
        BY <3>2, <3>3 DEF ToTerminalMsg, Signal, ListMsg, ObjectMsg
      <3>5. Len(list.names) > 0
        BY <3>1, <3>4
      <3> QED
        BY <1>1, <3>2, <3>5 DEF NameInv
    <2>3. CASE Peers
      BY <2>1, <2>2, <2>3 DEF Peers, ConnectPayload, Announce, OpenLink, SendRecord,
         ConnectTerminal, PressRefresh, RequestUpdate, SendText, peers
    <2>4. ASSUME ~Peers PROVE UNCHANGED chosen
      BY <2>4, PayloadAcceptFrame, TerminalAcceptFrame, PayloadThreadFrame,
         TerminalThreadFrame DEF Next, FinishController, vars, peers
    <2> QED
      BY <2>1, <2>3, <2>4
  <1>4. ASSUME NEW k \in 1..Len(fromTerminal'[t]), fromTerminal'[t][k].tag = "request"
        PROVE  dataListSet'
    BY <1>1, <1>4, FromTerminalStep DEF NameInv, RequestUpdate
  <1>5. ASSUME handler'[t].pc \notin {"off", "poll"} PROVE dataListSet'
    <2>1. CASE handler[t].pc = "scan" \/ Busy(t) \/ handler'[t].pc = handler[t].pc
      BY <1>1, <1>5, <2>1 DEF NameInv, Busy
    <2>2. CASE StartScan(t)
      <3>1. 1 \in 1..Len(fromTerminal[t]) /\ fromTerminal[t][1].tag = "request"
        BY <2>2 DEF StartScan, TypeOK, TerminalWires
      <3> QED
        BY <1>1, <3>1 DEF NameInv
    <2> QED
      BY <1>5, <2>1, <2>2, HandlerMoves DEF Moves
  <1>6. handler'[t].pc # "noList"
    <2>1. ASSUME handler[t].pc = "scan" \/ Busy(t) PROVE dataListSet
      BY <2>1 DEF NameInv, Busy
    <2>2. handler[t].pc # "noList"
      BY DEF NameInv
    <2> QED
      BY <2>1, <2>2, HandlerMoves DEF Moves, Sending
  <1> QED
    BY <1>2, <1>3, <1>4, <1>5, <1>6

-----------------------------------------------------------------------------
(* What a thread of terminalRequestForUpdate has read stays true while     *)
(* others run.                                                             *)
LEMMA HandlerStep ==
  ASSUME IInv, [Next]_vars PROVE HandlerInv'
  <1> USE DEF IInv
  <1> SUFFICES ASSUME NEW t \in Terminals
      PROVE  /\ (handler'[t].pc = "scan" \/ Busy(t)') =>
                  \A p \in Payloads : handler'[t].since[p] <= Len(payloadDataVector'[p])
             /\ Busy(t)' =>
                  /\ handler'[t].conn \in Payloads
                  /\ deviceName'[handler'[t].conn] = handler'[t].want
                  /\ deviceName'[handler'[t].conn] # None
                  /\ handler'[t].at \in 1..Len(payloadDataVector'[handler'[t].conn])
                  /\ handler'[t].since[handler'[t].conn] <= handler'[t].at
             /\ handler'[t].pc = "writing" => handler'[t].oos \in Terminals
    BY DEF HandlerInv
  <1> DEFINE Held(h) == h.pc \in Sending \cup {"attach", "writing"}
             Bounded(h) == \A p \in Payloads : h.since[p] <= Len(payloadDataVector'[p])
             Entry(h) == /\ h.conn \in Payloads
                         /\ deviceName'[h.conn] = h.want /\ deviceName'[h.conn] # None
                         /\ h.at \in 1..Len(payloadDataVector'[h.conn])
                         /\ h.since[h.conn] <= h.at
  <1>0. /\ handler[t] \in HandlerType
        /\ \A p \in Payloads : /\ handler[t].since[p] \in Nat
                               /\ Len(payloadDataVector[p]) \in Nat
                               /\ Len(payloadDataVector'[p]) \in Nat
                               /\ Len(payloadDataVector[p]) <= Len(payloadDataVector'[p])
    BY RegistryGrows, TypeStep DEF TypeOK, PayloadType, HandlerType
  <1>1. \A p \in Payloads : deviceName[p] # None => deviceName'[p] = deviceName[p]
    BY RegistryGrows
  <1>2. handler[t].pc = "scan" \/ Busy(t) => Bounded(handler[t])
    BY <1>0 DEF HandlerInv
  <1>3. Busy(t) => Entry(handler[t])
    BY <1>0, <1>1 DEF HandlerInv
  <1>4. handler[t].pc = "writing" => handler[t].oos \in Terminals
    BY DEF HandlerInv
  <1>5. Busy(t)' <=> Held(handler'[t])
    BY DEF Busy, Sending
  <1>6. Busy(t) <=> Held(handler[t])
    BY DEF Busy, Sending
  <1>7. /\ (handler'[t].pc = "scan" \/ Held(handler'[t])) => Bounded(handler'[t])
        /\ Held(handler'[t]) => Entry(handler'[t])
        /\ handler'[t].pc = "writing" => handler'[t].oos \in Terminals
    <2>a. ASSUME SameRequest(t), Busy(t) PROVE Bounded(handler'[t]) /\ Entry(handler'[t])
      BY <1>2, <1>3, <2>a DEF SameRequest
    <2>1. CASE /\ SameRequest(t) /\ handler'[t].pc = handler[t].pc
               /\ handler'[t].oos = handler[t].oos
      <3>1. handler[t].pc = "scan" => Bounded(handler'[t])
        BY <1>2, <2>1 DEF SameRequest
      <3>2. Held(handler'[t]) => Bounded(handler'[t]) /\ Entry(handler'[t])
        BY <1>6, <2>a, <2>1
      <3> HIDE DEF Bounded, Entry, Held
      <3> QED
        BY <1>4, <2>1, <3>1, <3>2
    <2>6. CASE SameRequest(t) /\ Busy(t) /\ handler'[t].pc \in Sending
      BY <2>a, <2>6 DEF Sending
    <2>7. CASE /\ SameRequest(t) /\ Busy(t)
               /\ handler'[t].pc = "writing" /\ handler'[t].oos \in Terminals
      BY <2>a, <2>7
    <2>2. CASE handler'[t].pc \in {"poll", "noEntry", "noList", "noStream"}
      BY <2>2 DEF Sending
    <2>3. CASE /\ handler[t].pc = "scan" \/ Busy(t)
               /\ handler'[t].pc = "scan" /\ handler'[t].since = handler[t].since
      BY <1>2, <2>3 DEF Sending
    <2>4. CASE /\ handler'[t].pc = "scan"
               /\ handler'[t].since = [p \in Payloads |-> Len(payloadDataVector[p])]
      BY <1>0, <2>4 DEF Sending
    <2>5. CASE /\ handler[t].pc = "scan" /\ handler'[t].pc = "attach"
               /\ handler'[t].since = handler[t].since /\ handler'[t].want = handler[t].want
               /\ handler'[t].conn \in Payloads
               /\ deviceName[handler'[t].conn] = handler[t].want
               /\ deviceName[handler'[t].conn] # None
               /\ handler'[t].at = Len(payloadDataVector[handler'[t].conn])
               /\ payloadDataVector[handler'[t].conn] # <<>>
      <3> DEFINE c == handler'[t].conn
      <3>1. Bounded(handler'[t])
        BY <1>2, <2>5
      <3>2. handler[t].since[c] <= Len(payloadDataVector[c])
        BY <2>5 DEF HandlerInv
      <3>3. Len(payloadDataVector[c]) > 0
        BY <2>5 DEF TypeOK, PayloadType
      <3>4. Entry(handler'[t])
        BY <1>0, <1>1, <2>5, <3>2, <3>3
      <3> QED
        BY <2>5, <3>1, <3>4
    <2> QED
      BY <2>1, <2>2, <2>3, <2>4, <2>5, <2>6, <2>7, HandlerMoves DEF Moves
  <1> QED
    BY <1>5, <1>7

(* An object that has been written stays right, and a new one is right     *)
(* when written.                                                           *)
LEMMA AnswerStep ==
  ASSUME IInv, [Next]_vars PROVE AnswerInv'
  <1> USE DEF IInv
  <1> DEFINE Right(m) == /\ deviceName'[m.conn] = m.name /\ deviceName'[m.conn] # None
                         /\ m.at \in 1..Len(payloadDataVector'[m.conn])
                         /\ m.since <= m.at
  <1>0. \A p \in Payloads : /\ Len(payloadDataVector[p]) \in Nat
                            /\ Len(payloadDataVector'[p]) \in Nat
                            /\ Len(payloadDataVector[p]) <= Len(payloadDataVector'[p])
                            /\ deviceName[p] # None => deviceName'[p] = deviceName[p]
    BY RegistryGrows, TypeStep DEF TypeOK, PayloadType
  <1> SUFFICES ASSUME NEW t \in Terminals, NEW k \in 1..Len(toTerminal'[t]),
                      toTerminal'[t][k].tag = "object"
               PROVE  Right(toTerminal'[t][k])
    BY DEF AnswerInv
  <1>1. CASE k \in 1..Len(toTerminal[t]) /\ toTerminal'[t][k] = toTerminal[t][k]
    <2> DEFINE m == toTerminal[t][k]
    <2>1. m \in ToTerminalMsg /\ m.tag = "object"
      BY <1>1 DEF TypeOK, TerminalWires
    <2>2. m.conn \in Payloads
      BY <2>1 DEF ToTerminalMsg, Signal, ListMsg, ObjectMsg
    <2>3. /\ deviceName[m.conn] = m.name /\ deviceName[m.conn] # None
          /\ m.at \in 1..Len(payloadDataVector[m.conn])
          /\ m.since <= m.at
      BY <1>1, <2>1 DEF AnswerInv
    <2> HIDE DEF m
    <2>4. Right(m)
      BY <1>0, <2>2, <2>3
    <2> QED
      BY <1>1, <2>4 DEF m
  <1>2. ASSUME NEW u \in Terminals, EndWrite(u), toTerminal'[t][k] = ObjectOf(u)
        PROVE  Right(toTerminal'[t][k])
    <2> DEFINE h == handler[u]
    <2>1. /\ h.conn \in Payloads /\ deviceName[h.conn] = h.want /\ deviceName[h.conn] # None
          /\ h.at \in 1..Len(payloadDataVector[h.conn]) /\ h.since[h.conn] <= h.at
      BY <1>2 DEF EndWrite, HandlerInv, Busy
    <2>2. LET m == ObjectOf(u) IN
          m.conn = h.conn /\ m.name = h.want /\ m.at = h.at /\ m.since = h.since[h.conn]
      BY DEF ObjectOf
    <2> HIDE DEF h
    <2>3. Right(ObjectOf(u))
      BY <1>0, <2>1, <2>2
    <2> QED
      BY <1>2, <2>3
  <1>3. CASE toTerminal'[t][k] \in Signal
    BY <1>3 DEF Signal
  <1> QED
    BY <1>1, <1>2, <1>3, ToTerminalStep

-----------------------------------------------------------------------------
(* The parts of IInv hold together in every reachable state: Controller's  *)
(* lists, the names and wires of the peers and the handler threads.        *)
THEOREM InductiveInvariant == Spec => []IInv
  <1>1. IInv /\ [Next]_vars => IInv'
    BY TypeStep, AcceptStep, RegistryStep, NameStep, HandlerStep, AnswerStep DEF IInv
  <1> QED
    BY InitInv, <1>1, PTL DEF Spec

(* Type correctness: every variable keeps its type, among them the indices *)
(* and stream references the server's threads use without a check.         *)
THEOREM TypeCorrect == Spec => []TypeOK
  BY InductiveInvariant, PTL DEF IInv

(* The three vectors that attachPayload extends one after the other, with  *)
(* other threads reading between, agree position by position.              *)
THEOREM RegistryIsConsistent == Spec => []RegistryConsistent
  <1>1. IInv => RegistryConsistent
    <2> SUFFICES ASSUME IInv PROVE RegistryConsistent
      OBVIOUS
    <2>1. /\ Len(payloadListVector) \in Nat /\ Len(payloadList) \in Nat
          /\ Len(payloadDataList) \in Nat
      BY DEF IInv, TypeOK, SharedType
    <2> QED
      BY <2>1 DEF IInv, RegistryInv, RegistryConsistent
  <1> QED
    BY InductiveInvariant, <1>1, PTL

(* The field payloadDataList of Controller, which nothing initialises, is  *)
(* never null when terminalRequestForUpdate takes its size.                *)
THEOREM RegistryIsNeverNull == Spec => []NoNullRegistry
  <1>1. IInv => NoNullRegistry
    BY DEF IInv, NameInv, NoNullRegistry
  <1> QED
    BY InductiveInvariant, <1>1, PTL

(* Every object written by terminalRequestForUpdate is of a payload of the *)
(* name asked for, and at least as new as the request, in every interleaving*)
(* with the threads that store records and attach payloads.                *)
THEOREM AnswersStayFresh == Spec => []AnswersAreFresh
  <1>1. IInv => AnswersAreFresh
    BY DEF IInv, AnswerInv, AnswersAreFresh, Objects, Members
  <1> QED
    BY InductiveInvariant, <1>1, PTL

-----------------------------------------------------------------------------
(* The markers: the shared stream is only ever pointed at a terminal that  *)
(* has asked.                                                              *)

HasAsked(t) == chosen[t] # None /\ written[t] > 0

MarkerInv ==
  /\ \A t \in Terminals :
       /\ \A k \in 1..Len(toTerminal[t]) : toTerminal[t][k] = Marker => HasAsked(t)
       /\ \A k \in 1..Len(fromTerminal[t]) : fromTerminal[t][k].tag = "request" => HasAsked(t)
       /\ handler[t].pc = "scan" \/ Busy(t) => HasAsked(t)
  /\ streamSocket # None => HasAsked(streamSocket)
  /\ streamWriter.to # None => HasAsked(streamWriter.to)

(* Nobody has been written a marker at first. *)
LEMMA MarkerInit ==
  ASSUME Init PROVE MarkerInv
  BY DEF Init, MarkerInv, IdleHandler, Handler, Busy

(* Nothing takes back a choice or a write. *)
LEMMA AskedStays ==
  ASSUME IInv, [Next]_vars, NEW t \in Terminals, HasAsked(t) PROVE HasAsked(t)'
  <1>0. /\ chosen \in [Terminals -> DeviceNames \cup {None}]
        /\ written \in [Terminals -> Nat]
    BY DEF IInv, TypeOK, PeersType
  <1>1. CASE UNCHANGED <<chosen, written>>
    BY <1>1 DEF HasAsked
  <1>2. CASE Peers
    <2>1. ASSUME NEW d \in Terminals, PressConnect(d) PROVE HasAsked(t)'
      BY <1>0, <2>1 DEF PressConnect, HasAsked
    <2>2. ASSUME NEW d \in Terminals, RequestUpdate(d) \/ SendText(d) PROVE HasAsked(t)'
      <3>1. chosen' = chosen /\ written' = [written EXCEPT ![d] = @ + 1]
        BY <2>2 DEF RequestUpdate, SendText
      <3> QED
        BY <1>0, <3>1 DEF HasAsked
    <2> QED
      BY <1>1, <1>2, <2>1, <2>2 DEF Peers, ConnectPayload, Announce, OpenLink, SendRecord,
         ConnectTerminal, PressRefresh, peers
  <1>3. ASSUME ~Peers PROVE UNCHANGED <<chosen, written>>
    BY <1>3, PayloadAcceptFrame, TerminalAcceptFrame, PayloadThreadFrame,
       TerminalThreadFrame DEF Next, FinishController, vars, peers
  <1> QED
    BY <1>1, <1>2, <1>3

(* Whoever has a request on the wire has asked. *)
LEMMA RequestStep ==
  ASSUME IInv, [Next]_vars, MarkerInv, NEW t \in Terminals, NEW k \in 1..Len(fromTerminal'[t]),
         fromTerminal'[t][k].tag = "request"
  PROVE  HasAsked(t)'
  <1>0. /\ chosen \in [Terminals -> DeviceNames \cup {None}]
        /\ written \in [Terminals -> Nat]
    BY DEF IInv, TypeOK, PeersType
  <1>1. CASE \E j \in 1..Len(fromTerminal[t]) : fromTerminal[t][j].tag = "request"
    BY <1>1, AskedStays DEF MarkerInv
  <1>2. CASE RequestUpdate(t)
    BY <1>0, <1>2 DEF RequestUpdate, HasAsked
  <1> QED
    BY <1>1, <1>2, FromTerminalStep

(* A thread writes its marker to the terminal attached last to the stream,
   and whoever attaches has been asked: every step keeps that. *)
LEMMA MarkerStep ==
  ASSUME IInv, [Next]_vars, MarkerInv PROVE MarkerInv'
  <1> USE DEF MarkerInv
  <1>0. /\ handler \in [Terminals -> HandlerType] /\ StreamType
        /\ toTerminal \in [Terminals -> Seq(ToTerminalMsg)]
        /\ fromTerminal \in [Terminals -> Seq(TerminalMsg)]
    BY DEF IInv, TypeOK, TerminalWires
  <1>1. ASSUME NEW t \in Terminals, NEW k \in 1..Len(toTerminal'[t]), toTerminal'[t][k] = Marker
        PROVE  HasAsked(t)'
    <2>1. \/ k \in 1..Len(toTerminal[t]) /\ toTerminal[t][k] = Marker
          \/ t = streamWriter.to
      <3>1. Marker.tag = "PayloadUpdate" /\ \A u \in Terminals : ObjectOf(u).tag = "object"
        BY DEF Marker, ObjectOf
      <3> QED
        BY <1>1, <3>1, ToTerminalStep
    <2>2. t # None
      BY ServerAssumption DEF ServerAssumption
    <2> QED
      BY <2>1, <2>2, AskedStays
  <1>2. ASSUME NEW t \in Terminals, NEW k \in 1..Len(fromTerminal'[t]),
               fromTerminal'[t][k].tag = "request"
        PROVE  HasAsked(t)'
    BY <1>2, RequestStep
  <1>3. ASSUME NEW t \in Terminals, handler'[t].pc = "scan" \/ Busy(t)'
        PROVE  HasAsked(t)'
    <2>1. CASE handler[t].pc = "scan" \/ Busy(t)
      BY <2>1, AskedStays
    <2>2. CASE StartScan(t)
      <3>1. 1 \in 1..Len(fromTerminal[t]) /\ fromTerminal[t][1].tag = "request"
        BY <1>0, <2>2 DEF StartScan
      <3> QED
        BY <3>1, AskedStays
    <2>3. handler[t].pc = "scan" \/ Busy(t) \/ StartScan(t)
      BY <1>3, HandlerMoves DEF Moves, Busy
    <2> QED
      BY <2>1, <2>2, <2>3
  <1>4. /\ streamSocket' # None => HasAsked(streamSocket)'
        /\ streamWriter'.to # None => HasAsked(streamWriter.to)'
    <2>1. \/ streamSocket' = streamSocket
          \/ \E t \in Terminals : Busy(t) /\ streamSocket' = t
      <3>1. ASSUME NEW t \in Terminals, TerminalThread(t)
            PROVE  streamSocket' = streamSocket \/ (Busy(t) /\ streamSocket' = t)
        BY <3>1 DEF TerminalThread, StartScan, DropTerminalChunk, Serve, EndScan, SkipPayload,
           PickNewest, ScanThrows, AttachSocket, NewWriter, PrintMarker, FlushMarker,
           BeginWrite, SendThrows, EndWrite, stream, Busy
      <3> QED
        BY <3>1, PeersFrame, PayloadAcceptFrame, TerminalAcceptFrame, PayloadThreadFrame
        DEF Next, FinishController, vars, stream
    <2>2. streamWriter'.to \in {streamWriter.to, streamSocket}
      <3>1. ASSUME NEW t \in Terminals, TerminalThread(t)
            PROVE  \/ streamWriter' = streamWriter
                   \/ streamWriter' = [to |-> streamSocket, buffered |-> 0]
                   \/ \E n : streamWriter' = [streamWriter EXCEPT !.buffered = n]
        BY <3>1 DEF TerminalThread, StartScan, DropTerminalChunk, Serve, EndScan, SkipPayload,
           PickNewest, ScanThrows, AttachSocket, NewWriter, PrintMarker, FlushMarker,
           BeginWrite, SendThrows, EndWrite, stream
      <3>2. \A n : [streamWriter EXCEPT !.buffered = n].to = streamWriter.to
        BY <1>0 DEF StreamType
      <3>3. ASSUME NEW t \in Terminals, TerminalThread(t)
            PROVE  streamWriter'.to \in {streamWriter.to, streamSocket}
        <4>1. CASE \E n : streamWriter' = [streamWriter EXCEPT !.buffered = n]
          <5>1. PICK n : streamWriter' = [streamWriter EXCEPT !.buffered = n]
            BY <4>1
          <5> QED
            BY <3>2, <5>1
        <4>2. CASE streamWriter' = [to |-> streamSocket, buffered |-> 0]
          BY <4>2
        <4> QED
          BY <3>1, <3>3, <4>1, <4>2
      <3> QED
        BY <3>3, PeersFrame, PayloadAcceptFrame, TerminalAcceptFrame, PayloadThreadFrame
        DEF Next, FinishController, vars, stream
    <2>3. streamSocket \in Terminals \cup {None} /\ streamWriter.to \in Terminals \cup {None}
      BY <1>0 DEF StreamType
    <2>4. \A t \in Terminals : HasAsked(t) => HasAsked(t)'
      BY AskedStays
    <2> QED
      BY <2>1, <2>2, <2>3, <2>4 DEF HasAsked
  <1> QED
    BY <1>1, <1>2, <1>3, <1>4

(* What tells the messages to a terminal apart. *)
LEMMA MessageKinds ==
  ASSUME NEW m \in ToTerminalMsg
  PROVE  /\ m.tag \in {"#", "@", "Refresh", "PayloadUpdate", "list", "object"}
         /\ m.tag = "PayloadUpdate" => m = Marker
         /\ m.tag = "@" => m = Ack
  <1>1. m \in Signal => m = [tag |-> m.tag] /\ m.tag \in {"#", "@", "Refresh", "PayloadUpdate"}
    BY DEF Signal
  <1>2. m \in ListMsg => m.tag = "list"
    BY DEF ListMsg
  <1>3. m \in ObjectMsg => m.tag = "object"
    BY DEF ObjectMsg
  <1> QED
    BY <1>1, <1>2, <1>3 DEF ToTerminalMsg, Marker, Ack

(* attachSocket and streamOut are called on a stream that every terminal's *)
(* thread shares: a "PayloadUpdate" reaches only terminals that have asked. *)
THEOREM NoMarkerUnasked == Spec => []NoUnaskedMarker
  <1>1. IInv /\ MarkerInv => NoUnaskedMarker
    <2> SUFFICES ASSUME IInv, MarkerInv, NEW t \in Terminals, Has(toTerminal[t], "PayloadUpdate")
                 PROVE  chosen[t] # None /\ written[t] > 0
      BY DEF NoUnaskedMarker
    <2>1. PICK k \in 1..Len(toTerminal[t]) : toTerminal[t][k].tag = "PayloadUpdate"
      BY DEF Has
    <2>2. toTerminal[t][k] \in ToTerminalMsg
      BY DEF IInv, TypeOK, TerminalWires
    <2>3. toTerminal[t][k] = Marker
      BY <2>1, <2>2, MessageKinds
    <2> QED
      BY <2>3 DEF MarkerInv, HasAsked
  <1>2. Init => MarkerInv
    BY MarkerInit
  <1>3. IInv /\ MarkerInv /\ [Next]_vars => MarkerInv'
    BY MarkerStep
  <1> QED
    BY <1>1, <1>2, <1>3, InductiveInvariant, PTL DEF Spec

-----------------------------------------------------------------------------
(* What a step of S4Server writes to the terminals. *)

Acking(t)   == terminalAccept.sock = t /\ (ReadTerminalName \/ AckTerminal)
Greeting(t) == terminalAccept.sock = t /\ terminalAccept.pc = "getPName"

(* Which step writes a message x to terminal d. *)
WrittenBy(d, x) ==
  /\ x.tag = "@" => Acking(d)
  /\ x.tag = "Refresh" => AnswerRefresh
  /\ x.tag \in {"#", "Refresh"} => Greeting(d)
  /\ x.tag = "list" => SendList /\ terminalAccept.sock = d
  /\ x.tag = "PayloadUpdate" => streamWriter.to = d /\ \E u \in Terminals : FlushMarker(u)
  /\ x.tag = "object" => \E u \in Terminals : EndWrite(u) /\ handler[u].oos = d

Writes(d, m) ==
  /\ toTerminal' = [toTerminal EXCEPT ![d] = @ \o m]
  /\ \A k \in 1..Len(m) : WrittenBy(d, m[k])

(* Every write goes behind what was written before: "@" to the terminal    *)
(* being attached, "#", "Refresh" and lists to the one in getPName.        *)
LEMMA WireStep ==
  ASSUME IInv, [Next]_vars
  PROVE  \/ UNCHANGED toTerminal
         \/ \E d \in Terminals \cup {None} : \E m \in Seq(ToTerminalMsg) : Writes(d, m)
  <1> USE DEF IInv
  <1> DEFINE Goal == \E d \in Terminals \cup {None} :
                       \E m \in Seq(ToTerminalMsg) : Writes(d, m)
  <1>0. toTerminal \in [Terminals -> Seq(ToTerminalMsg)]
    BY DEF TypeOK, TerminalWires
  <1>1. ASSUME NEW d \in Terminals \cup {None}, NEW x \in ToTerminalMsg,
               WrittenBy(d, x),
               toTerminal' = [toTerminal EXCEPT ![d] = Append(@, x)]
        PROVE  Goal
    <2>1. \A s \in Seq(ToTerminalMsg) : Append(s, x) = s \o <<x>>
      BY <1>1, AppendIsConcat
    <2>2. toTerminal' = [toTerminal EXCEPT ![d] = @ \o <<x>>]
      BY <1>0, <1>1, <2>1
    <2>3. <<x>> \in Seq(ToTerminalMsg) /\ \A k \in 1..Len(<<x>>) : WrittenBy(d, <<x>>[k])
      BY <1>1
    <2> QED
      BY <2>2, <2>3 DEF Writes
  <1>2. CASE TerminalAcceptThread
    <2> DEFINE d == terminalAccept.sock
    <2>0. d \in Terminals \cup {None}
      BY DEF TypeOK, AcceptType
    <2>1. /\ Ack \in ToTerminalMsg /\ Ping \in ToTerminalMsg
          /\ Ack.tag = "@" /\ Ping.tag = "#"
      BY DEF Ack, Ping, Signal, ToTerminalMsg
    <2>2. CASE PingTerminal
      <3>1. WrittenBy(d, Ping)
        BY <2>1, <2>2 DEF PingTerminal, WrittenBy, Greeting
      <3> QED
        BY <1>1, <2>0, <2>1, <2>2, <3>1 DEF PingTerminal
    <2>3. CASE AckTerminal
      <3>1. WrittenBy(d, Ack)
        BY <2>1, <2>3 DEF WrittenBy, Acking
      <3> QED
        BY <1>1, <2>0, <2>1, <2>3, <3>1 DEF AckTerminal
    <2>4. CASE ReadTerminalName
      <3>0. WrittenBy(d, Ack) /\ WrittenBy(d, Ping)
        <4>1. Acking(d) /\ Greeting(d)
          BY <2>4 DEF Acking, Greeting, ReadTerminalName
        <4> QED
          BY <2>1, <4>1 DEF WrittenBy
      <3>1. CASE toTerminal' = [toTerminal EXCEPT ![d] = Append(@, Ack)]
        BY <1>1, <2>0, <2>1, <3>0, <3>1
      <3>2. CASE toTerminal' = [toTerminal EXCEPT ![d] = @ \o <<Ack, Ping>>]
        <4>1. <<Ack, Ping>> \in Seq(ToTerminalMsg)
          BY <2>1
        <4>2. \A k \in 1..Len(<<Ack, Ping>>) : WrittenBy(d, <<Ack, Ping>>[k])
          BY <3>0
        <4> QED
          BY <2>0, <3>2, <4>1, <4>2 DEF Writes
      <3> QED
        BY <2>4, <3>1, <3>2 DEF ReadTerminalName
    <2>5. CASE AnswerRefresh
      <3>1. [tag |-> "Refresh"] \in ToTerminalMsg
        BY DEF ToTerminalMsg, Signal
      <3>2. WrittenBy(d, [tag |-> "Refresh"])
        BY <2>5 DEF AnswerRefresh, WrittenBy, Greeting
      <3> QED
        BY <1>1, <2>0, <2>5, <3>1, <3>2 DEF AnswerRefresh
    <2>6. CASE SendList
      <3> DEFINE l == [tag |-> "list", names |-> ListNow]
      <3>1. l \in ToTerminalMsg /\ l.tag = "list"
        BY DEF TypeOK, SharedType, ListNow, ToTerminalMsg, ListMsg
      <3>2. toTerminal' = [toTerminal EXCEPT ![d] = Append(@, l)]
        BY <2>6 DEF SendList
      <3> HIDE DEF l
      <3>3. WrittenBy(d, l)
        BY <2>6, <3>1 DEF WrittenBy
      <3> QED
        BY <1>1, <2>0, <3>1, <3>2, <3>3
    <2> QED
      BY <1>2, <2>2, <2>3, <2>4, <2>5, <2>6
      DEF TerminalAcceptThread, AcceptTerminal, StartTerminal, PublishStream, wires
  <1>3. ASSUME NEW u \in Terminals, FlushMarker(u) PROVE Goal
    <2> DEFINE m == [j \in 1..streamWriter.buffered |-> Marker]
    <2>1. /\ streamWriter.buffered \in Nat /\ streamWriter.to \in Terminals \cup {None}
          /\ Marker \in ToTerminalMsg /\ Marker.tag = "PayloadUpdate"
      BY DEF TypeOK, StreamType, Marker, Signal, ToTerminalMsg
    <2>2. m \in Seq(ToTerminalMsg) /\ \A j \in 1..Len(m) : m[j].tag = "PayloadUpdate"
      BY <2>1
    <2>3. toTerminal' = [toTerminal EXCEPT ![streamWriter.to] = @ \o m]
      BY <1>3 DEF FlushMarker
    <2> HIDE DEF m
    <2>4. \A k \in 1..Len(m) : WrittenBy(streamWriter.to, m[k])
      BY <1>3, <2>2 DEF WrittenBy
    <2> QED
      BY <2>1, <2>2, <2>3, <2>4 DEF Writes
  <1>4. ASSUME NEW u \in Terminals, EndWrite(u) PROVE Goal
    <2>1. ObjectOf(u) \in ToTerminalMsg /\ ObjectOf(u).tag = "object"
      <3>1. handler[u] \in HandlerType /\ handler[u].conn \in Payloads /\ Busy(u)
            /\ handler[u].want # None
        BY <1>4, NullIsNoName DEF TypeOK, EndWrite, HandlerInv, Busy
      <3>2. handler[u].want \in WantedNames /\ handler[u].since[handler[u].conn] \in Nat
        BY <3>1 DEF HandlerType
      <3> QED
        BY <3>1, <3>2 DEF HandlerType, ObjectOf, ObjectMsg, ToTerminalMsg
    <2>2. handler[u].oos \in Terminals
      BY <1>4 DEF EndWrite, HandlerInv
    <2>3. toTerminal' = [toTerminal EXCEPT ![handler[u].oos] = Append(@, ObjectOf(u))]
      BY <1>4 DEF EndWrite
    <2>4. WrittenBy(handler[u].oos, ObjectOf(u))
      BY <1>4, <2>1 DEF WrittenBy
    <2> QED
      BY <1>1, <2>1, <2>2, <2>3, <2>4
  <1>5. ASSUME NEW u \in Terminals, TerminalThread(u)
        PROVE  FlushMarker(u) \/ EndWrite(u) \/ UNCHANGED toTerminal
    BY <1>5 DEF TerminalThread, Serve, StartScan, DropTerminalChunk,
       EndScan, SkipPayload, PickNewest, ScanThrows, AttachSocket, NewWriter,
       PrintMarker, BeginWrite, SendThrows
  <1>6. CASE FinishController \/ UNCHANGED vars
    BY <1>6 DEF FinishController, vars, wires
  <1>7. ASSUME NEW p \in Payloads, PayloadThread(p) PROVE UNCHANGED toTerminal
    BY <1>7, PayloadThreadFrame
  <1> QED
    BY <1>2, <1>3, <1>4, <1>5, <1>6, <1>7, PeersFrame, PayloadAcceptFrame DEF Next

Grows(w, v) == Len(w) <= Len(v) /\ \A k \in 1..Len(w) : v[k] = w[k]

(* One write, seen from every terminal. *)
LEMMA WriteGrows ==
  ASSUME toTerminal \in [Terminals -> Seq(ToTerminalMsg)],
         NEW d, NEW m \in Seq(ToTerminalMsg), Writes(d, m), NEW t \in Terminals
  PROVE  /\ Grows(toTerminal[t], toTerminal'[t])
         /\ \A k \in 1..Len(toTerminal'[t]) :
              k \in 1..Len(toTerminal[t]) \/ WrittenBy(t, toTerminal'[t][k])
  <1> DEFINE w == toTerminal[t]
             v == toTerminal'[t]
  <1>0. w \in Seq(ToTerminalMsg)
    OBVIOUS
  <1>1. CASE t # d
    <2>1. v = w
      BY <1>1 DEF Writes
    <2>2. Grows(w, v)
      BY <1>0, <2>1, LenProperties DEF Grows
    <2> QED
      BY <2>1, <2>2
  <1>2. CASE t = d
    <2>1. v = w \o m
      BY <1>2 DEF Writes
    <2> HIDE DEF w, v
    <2>2. /\ Len(v) = Len(w) + Len(m) /\ Len(w) \in Nat /\ Len(m) \in Nat
          /\ \A k \in 1..Len(w) : v[k] = w[k]
          /\ \A k \in 1..Len(m) : v[Len(w) + k] = m[k]
          /\ \A k \in (Len(w) + 1)..Len(v) : v[k] = m[k - Len(w)]
      BY <1>0, <2>1, ConcatProperties
    <2>3. Grows(w, v)
      BY <2>2 DEF Grows
    <2>5. ASSUME NEW k \in 1..Len(v), k \notin 1..Len(w) PROVE WrittenBy(t, v[k])
      <3>1. k - Len(w) \in 1..Len(m) /\ v[k] = m[k - Len(w)]
        BY <2>2, <2>5
      <3> QED
        BY <1>2, <3>1 DEF Writes
    <2> QED
      BY <1>2, <2>3, <2>5 DEF Writes, w, v
  <1> QED
    BY <1>1, <1>2

(* The same of any step of S4Server. *)
LEMMA WireGrows ==
  ASSUME IInv, [Next]_vars, NEW t \in Terminals
  PROVE  /\ Grows(toTerminal[t], toTerminal'[t])
         /\ \A k \in 1..Len(toTerminal'[t]) :
              k \in 1..Len(toTerminal[t]) \/ WrittenBy(t, toTerminal'[t][k])
  <1>1. toTerminal \in [Terminals -> Seq(ToTerminalMsg)]
    BY DEF IInv, TypeOK, TerminalWires
  <1>2. CASE UNCHANGED toTerminal
    <2>1. toTerminal[t] \in Seq(ToTerminalMsg)
      BY <1>1
    <2>2. Grows(toTerminal[t], toTerminal'[t])
      BY <1>2, <2>1, LenProperties DEF Grows
    <2> QED
      BY <1>2, <2>2
  <1> QED
    BY <1>1, <1>2, WireStep, WriteGrows

-----------------------------------------------------------------------------
(* Who is attached has chosen a payload, and stays connected.              *)

AttachInv ==
  /\ \A t \in Terminals :
       /\ Has(toTerminal[t], "@") => chosen[t] # None
       /\ Has(fromTerminal[t], "DeviceName") => chosen[t] # None
       /\ terminalAccept.sock = t /\ terminalAccept.pc \in {"start", "ack", "publish"} =>
            chosen[t] # None
       /\ terminalAccept.sock = t /\ terminalAccept.pc \in {"ack", "publish"} =>
            handler[t].pc # "off"
       /\ terminalAccept.pc = "accept" => terminalAccept.sock # t

(* Once chosen, a name is not forgotten. *)
LEMMA ChosenStays ==
  ASSUME IInv, [Next]_vars, NEW t \in Terminals, chosen[t] # None
  PROVE  chosen'[t] # None
  <1> USE DEF IInv
  <1>0. chosen \in [Terminals -> DeviceNames \cup {None}]
    BY DEF TypeOK, PeersType
  <1>1. CASE Peers
    <2>1. ASSUME NEW d \in Terminals, PressConnect(d) PROVE chosen'[t] # None
      <3>1. d # t /\ \E name : chosen' = [chosen EXCEPT ![d] = name]
        BY <2>1 DEF PressConnect
      <3> QED
        BY <1>0, <3>1
    <2> QED
      BY <1>1, <2>1 DEF Peers, ConnectPayload, Announce, OpenLink, SendRecord,
         ConnectTerminal, PressRefresh, RequestUpdate, SendText, peers
  <1>2. CASE FinishController \/ UNCHANGED vars
    BY <1>2 DEF FinishController, vars, peers
  <1>3. ASSUME NEW p \in Payloads, PayloadThread(p) PROVE UNCHANGED chosen
    BY <1>3, PayloadThreadFrame DEF peers
  <1>4. ASSUME NEW u \in Terminals, TerminalThread(u) PROVE UNCHANGED chosen
    BY <1>4, TerminalThreadFrame DEF peers
  <1>5. PayloadAcceptThread \/ TerminalAcceptThread => UNCHANGED chosen
    BY PayloadAcceptFrame, TerminalAcceptFrame DEF peers
  <1> QED
    BY <1>1, <1>2, <1>3, <1>4, <1>5 DEF Next

(* A "DeviceName" on the wire was there before, or is of a name chosen now *)
(* from a list.                                                            *)
LEMMA DeviceNameStep ==
  ASSUME IInv, [Next]_vars, NEW t \in Terminals, Has(fromTerminal'[t], "DeviceName")
  PROVE  \/ Has(fromTerminal[t], "DeviceName")
         \/ chosen'[t] # None /\ Has(toTerminal[t], "list")
  <1> USE DEF IInv
  <1>0. /\ fromTerminal \in [Terminals -> Seq(TerminalMsg)]
        /\ toTerminal \in [Terminals -> Seq(ToTerminalMsg)]
        /\ chosen \in [Terminals -> DeviceNames \cup {None}]
    BY DEF TypeOK, TerminalWires, PeersType
  <1>a. PICK k \in 1..Len(fromTerminal'[t]) : fromTerminal'[t][k].tag = "DeviceName"
    BY DEF Has
  <1>1. CASE UNCHANGED fromTerminal
    BY <1>1
  <1>2. CASE \E d \in Terminals : \E n \in 1..Len(fromTerminal[d]) :
               fromTerminal' = [fromTerminal EXCEPT ![d] = Rest(@, n)]
    <2>1. \E j \in 1..Len(fromTerminal[t]) : fromTerminal'[t][k] = fromTerminal[t][j]
      BY <1>0, <1>2, FromTerminalRead
    <2> QED
      BY <1>a, <2>1 DEF Has
  <1>3. ASSUME NEW d \in Terminals, NEW m \in TerminalMsg, TerminalSends(d, m)
        PROVE  \/ \E j \in 1..Len(fromTerminal[t]) : fromTerminal'[t][k] = fromTerminal[t][j]
               \/ d = t /\ fromTerminal'[t][k] = m
    <2>1. fromTerminal' = [fromTerminal EXCEPT ![d] = Append(@, m)]
      BY <1>3 DEF TerminalSends
    <2>2. \A x \in Terminals : \A i \in 1..Len(fromTerminal'[x]) :
            \/ i \in 1..Len(fromTerminal[x]) /\ fromTerminal'[x][i] = fromTerminal[x][i]
            \/ fromTerminal'[x][i] = m
      BY <1>0, <2>1, AppendMembers
    <2>3. d # t => fromTerminal'[t] = fromTerminal[t]
      BY <1>0, <2>1
    <2> QED
      BY <2>2, <2>3
  <1>4. CASE Peers
    <2>1. ASSUME NEW d \in Terminals, ConnectTerminal(d) \/ PressRefresh(d) \/ SendText(d)
          PROVE  \E m \in TerminalMsg : m.tag # "DeviceName" /\ TerminalSends(d, m)
      BY <2>1 DEF ConnectTerminal, PressRefresh, SendText, TerminalMsg
    <2>2. ASSUME NEW d \in Terminals, PressConnect(d)
          PROVE  /\ chosen'[d] # None /\ Has(toTerminal[d], "list")
                 /\ \E m \in TerminalMsg : TerminalSends(d, m)
      <3>1. PICK list \in ListsSent(d) : \E i \in 1..Len(list.names) :
              /\ chosen' = [chosen EXCEPT ![d] = list.names[i]]
              /\ TerminalSends(d, [tag |-> "DeviceName", name |-> list.names[i]])
        BY <2>2 DEF PressConnect
      <3>2. /\ list \in ToTerminalMsg /\ list.tag = "list"
            /\ Has(toTerminal[d], "list")
        BY <1>0 DEF ListsSent, Members, Has
      <3>3. list.names \in Seq(DeviceNames)
        BY <3>2 DEF ToTerminalMsg, Signal, ListMsg, ObjectMsg
      <3>4. PICK i \in 1..Len(list.names) :
              /\ chosen' = [chosen EXCEPT ![d] = list.names[i]]
              /\ TerminalSends(d, [tag |-> "DeviceName", name |-> list.names[i]])
        BY <3>1
      <3>5. list.names[i] \in DeviceNames /\ list.names[i] # None
        BY <3>3, NullIsNoName
      <3>6. [tag |-> "DeviceName", name |-> list.names[i]] \in TerminalMsg
        BY <3>5 DEF TerminalMsg
      <3> QED
        BY <1>0, <3>2, <3>4, <3>5, <3>6
    <2>3. ASSUME NEW d \in Terminals, RequestUpdate(d)
          PROVE  \E m \in TerminalMsg : m.tag # "DeviceName" /\ TerminalSends(d, m)
      <3>1. chosen[d] # None /\ chosen[d] \in DeviceNames
        BY <1>0, <2>3 DEF RequestUpdate
      <3>2. [tag |-> "request", name |-> chosen[d]] \in TerminalMsg
        BY <3>1 DEF TerminalMsg
      <3> QED
        BY <2>3, <3>2 DEF RequestUpdate
    <2>4. \/ UNCHANGED fromTerminal
          \/ \E d \in Terminals : \/ ConnectTerminal(d) \/ PressRefresh(d) \/ SendText(d)
                                  \/ PressConnect(d) \/ RequestUpdate(d)
      BY <1>4 DEF Peers, ConnectPayload, Announce, OpenLink, SendRecord, wires
    <2> QED
      BY <1>1, <1>3, <1>a, <2>1, <2>2, <2>3, <2>4 DEF Has
  <1>5. CASE TerminalAcceptThread
    <2>1. CASE AnswerRefresh \/ ReadTerminalName
      <3>1. terminalAccept.sock \in Terminals
        BY <2>1 DEF AnswerRefresh, ReadTerminalName, AcceptInv
      <3> QED
        BY <1>2, <2>1, <3>1 DEF AnswerRefresh, ReadTerminalName
    <2> QED
      BY <1>1, <1>5, <2>1 DEF TerminalAcceptThread, AcceptTerminal, PingTerminal,
         SendList, StartTerminal, AckTerminal, PublishStream, wires
  <1>6. ASSUME NEW u \in Terminals, TerminalThread(u)
        PROVE  \/ UNCHANGED fromTerminal
               \/ \E n \in 1..Len(fromTerminal[u]) :
                    fromTerminal' = [fromTerminal EXCEPT ![u] = Rest(@, n)]
    <2>1. CASE StartScan(u) \/ DropTerminalChunk(u)
      BY <2>1 DEF StartScan, DropTerminalChunk
    <2>2. CASE Serve(u)
      BY <2>2 DEF Serve, EndScan, SkipPayload, PickNewest,
         ScanThrows, AttachSocket, NewWriter, PrintMarker, FlushMarker, BeginWrite,
         SendThrows, EndWrite
    <2> QED
      BY <1>6, <2>1, <2>2 DEF TerminalThread
  <1>7. CASE FinishController \/ UNCHANGED vars
    BY <1>1, <1>7 DEF FinishController, vars, wires
  <1>9. ASSUME NEW p \in Payloads, PayloadThread(p) PROVE UNCHANGED fromTerminal
    BY <1>9, PayloadThreadFrame
  <1> QED
    BY <1>1, <1>2, <1>4, <1>5, <1>6, <1>7, <1>9, PayloadAcceptFrame DEF Next

(* A TerminalDataController, once started, is never "off" again. *)
LEMMA HandlerStays ==
  ASSUME IInv, [Next]_vars, NEW t \in Terminals, handler[t].pc # "off"
  PROVE  handler'[t].pc # "off"
  <1>1. Moves(t)
    BY HandlerMoves
  <1> QED
    BY <1>1 DEF Moves, Sending

(* Only the thread of port 2001 moves its own state. *)
LEMMA AcceptMoves ==
  ASSUME IInv, [Next]_vars
  PROVE  TerminalAcceptThread \/ UNCHANGED terminalAccept
  <1>1. CASE FinishController \/ UNCHANGED vars
    BY <1>1 DEF FinishController, vars, accept
  <1>2. ASSUME NEW p \in Payloads, PayloadThread(p) PROVE UNCHANGED terminalAccept
    BY <1>2, PayloadThreadFrame DEF accept
  <1>3. ASSUME NEW u \in Terminals, TerminalThread(u) PROVE UNCHANGED terminalAccept
    BY <1>3, TerminalThreadFrame DEF accept
  <1> QED
    BY <1>1, <1>2, <1>3, PeersFrame, PayloadAcceptFrame DEF Next

(* A terminal is attached after it chose, and answered by a running thread. *)
LEMMA AttachStep ==
  ASSUME IInv, AttachInv, [Next]_vars PROVE AttachInv'
  <1> SUFFICES ASSUME NEW t \in Terminals
      PROVE  /\ Has(toTerminal'[t], "@") => chosen'[t] # None
             /\ Has(fromTerminal'[t], "DeviceName") => chosen'[t] # None
             /\ terminalAccept'.sock = t /\ terminalAccept'.pc \in {"start", "ack", "publish"}
                  => chosen'[t] # None
             /\ terminalAccept'.sock = t /\ terminalAccept'.pc \in {"ack", "publish"} =>
                  handler'[t].pc # "off"
             /\ terminalAccept'.pc = "accept" => terminalAccept'.sock # t
    BY DEF AttachInv
  <1> DEFINE a == terminalAccept
  <1>0. a \in [pc : TerminalPc, sock : Terminals \cup {None}, list : BOOLEAN,
               pings : Nat, oos : Terminals \cup {None}]
    BY DEF IInv, TypeOK, AcceptType
  <1>1. chosen[t] # None => chosen'[t] # None
    BY ChosenStays
  <1>2. ReadTerminalName /\ a.sock = t => Has(fromTerminal[t], "DeviceName")
    <2> SUFFICES ASSUME ReadTerminalName, a.sock = t PROVE Has(fromTerminal[t], "DeviceName")
      OBVIOUS
    <2>1. PICK n \in 1..Len(fromTerminal[t]) : fromTerminal[t][1].tag = "DeviceName"
      BY DEF ReadTerminalName
    <2>2. fromTerminal[t] \in Seq(TerminalMsg)
      BY DEF IInv, TypeOK, TerminalWires
    <2>3. 1 \in 1..Len(fromTerminal[t])
      BY <2>1, <2>2
    <2> QED
      BY <2>1, <2>3 DEF Has
  <1>3. Has(toTerminal'[t], "@") => chosen'[t] # None
    <2>1. Acking(t) => chosen[t] # None
      BY <1>2 DEF Acking, AttachInv, AckTerminal
    <2>2. Has(toTerminal'[t], "@") => Has(toTerminal[t], "@") \/ Acking(t)
      BY WireGrows DEF Has, Grows, WrittenBy
    <2> QED
      BY <1>1, <2>1, <2>2 DEF AttachInv
  <1>4. Has(fromTerminal'[t], "DeviceName") => chosen'[t] # None
    BY <1>1, DeviceNameStep DEF AttachInv
  <1>6. CASE UNCHANGED terminalAccept
    BY <1>1, <1>3, <1>4, <1>6, HandlerStays DEF AttachInv
  <1>7. CASE AcceptTerminal
    <2>1. a'.pc = "getPName"
      BY <1>7 DEF AcceptTerminal
    <2> QED
      BY <1>3, <1>4, <2>1
  <1>8. CASE PingTerminal \/ AnswerRefresh \/ SendList
    <2>1. a'.pc \in {"getPName", "sendList"}
      BY <1>0, <1>8 DEF PingTerminal, AnswerRefresh, SendList
    <2> QED
      BY <1>3, <1>4, <2>1
  <1>9. CASE ReadTerminalName
    <2>1. a'.pc = "start" /\ a'.sock = a.sock
      BY <1>0, <1>9 DEF ReadTerminalName
    <2> QED
      BY <1>1, <1>2, <1>3, <1>4, <1>9, <2>1 DEF AttachInv
  <1>10. CASE StartTerminal
    <2>1. a'.pc = "ack" /\ a'.sock = a.sock /\ a.pc = "start"
      BY <1>0, <1>10 DEF StartTerminal
    <2>2. handler \in [Terminals -> HandlerType]
      BY DEF IInv, TypeOK
    <2>3. a.sock = t => handler'[t].pc = "poll"
      BY <1>10, <2>2 DEF StartTerminal, HandlerType
    <2> QED
      BY <1>1, <1>3, <1>4, <2>1, <2>3 DEF AttachInv
  <1>11. CASE AckTerminal
    <2>1. a'.pc = "publish" /\ a'.sock = a.sock /\ a.pc = "ack"
      BY <1>0, <1>11 DEF AckTerminal
    <2> QED
      BY <1>1, <1>3, <1>4, <2>1, HandlerStays DEF AttachInv
  <1>12. CASE PublishStream
    <2>1. a'.pc = "accept"
      BY <1>0, <1>12 DEF PublishStream
    <2>2. a'.sock = None /\ None # t
      BY <1>0, <1>12, ServerAssumption DEF PublishStream
    <2> QED
      BY <1>3, <1>4, <2>1, <2>2
  <1> QED
    BY <1>6, <1>7, <1>8, <1>9, <1>10, <1>11, <1>12, AcceptMoves DEF TerminalAcceptThread

(* Only connecting and accepting move the backlog of port 2001. *)
LEMMA QueueMoves ==
  ASSUME IInv, [Next]_vars
  PROVE  AcceptTerminal \/ (\E d \in Terminals : ConnectTerminal(d)) \/ UNCHANGED terminalQueue
  <1>1. CASE Peers
    BY <1>1 DEF Peers, ConnectPayload, Announce, OpenLink, SendRecord,
       PressRefresh, PressConnect, RequestUpdate, SendText, accept
  <1>2. CASE TerminalAcceptThread
    BY <1>2 DEF TerminalAcceptThread, PingTerminal, AnswerRefresh, SendList,
       ReadTerminalName, StartTerminal, AckTerminal, PublishStream
  <1>3. CASE FinishController \/ UNCHANGED vars
    BY <1>3 DEF FinishController, vars, accept
  <1>4. ASSUME NEW p \in Payloads, PayloadThread(p) PROVE UNCHANGED terminalQueue
    BY <1>4, PayloadThreadFrame DEF accept
  <1>5. ASSUME NEW u \in Terminals, TerminalThread(u) PROVE UNCHANGED terminalQueue
    BY <1>5, TerminalThreadFrame DEF accept
  <1> QED
    BY <1>1, <1>2, <1>3, <1>4, <1>5, PayloadAcceptFrame DEF Next

(* A connected terminal stays connected: in the backlog, then in the hands *)
(* of the accept thread, then in those of its own.                         *)
LEMMA ConnectionStays ==
  ASSUME IInv, AttachInv, [Next]_vars, NEW t \in Terminals, TerminalConnected(t)
  PROVE  TerminalConnected(t)'
  <1> DEFINE a == terminalAccept
  <1>0. /\ a \in [pc : TerminalPc, sock : Terminals \cup {None}, list : BOOLEAN,
                  pings : Nat, oos : Terminals \cup {None}]
        /\ terminalQueue \in Seq(Terminals)
    BY DEF IInv, TypeOK, AcceptType
  <1>1. CASE handler[t].pc # "off"
    BY <1>1, HandlerStays DEF TerminalConnected
  <1>2. CASE a.sock = t
    <2>1. CASE AcceptTerminal
      <3>1. a.pc = "accept"
        BY <2>1 DEF AcceptTerminal
      <3> QED
        BY <1>2, <3>1 DEF AttachInv
    <2>2. CASE PublishStream
      <3>1. handler[t].pc # "off"
        BY <1>2, <2>2 DEF PublishStream, AttachInv
      <3> QED
        BY <1>1, <3>1
    <2>3. CASE PingTerminal \/ AnswerRefresh \/ SendList \/ ReadTerminalName
               \/ StartTerminal \/ AckTerminal
      <3>1. a'.sock = a.sock
        BY <1>0, <2>3 DEF PingTerminal, AnswerRefresh, SendList, ReadTerminalName,
           StartTerminal, AckTerminal
      <3> QED
        BY <1>2, <3>1 DEF TerminalConnected
    <2> QED
      BY <1>2, <2>1, <2>2, <2>3, AcceptMoves DEF TerminalAcceptThread, TerminalConnected
  <1>3. CASE t \in Members(terminalQueue)
    <2>1. PICK k \in 1..Len(terminalQueue) : terminalQueue[k] = t
      BY <1>3 DEF Members
    <2>2. CASE AcceptTerminal
      <3>1. a'.sock = Head(terminalQueue) /\ terminalQueue' = Tail(terminalQueue)
        BY <2>2 DEF AcceptTerminal
      <3>2. CASE k = 1
        BY <1>0, <2>1, <3>1, <3>2 DEF TerminalConnected
      <3>3. CASE k # 1
        <4>1. /\ k - 1 \in 1..Len(Tail(terminalQueue))
              /\ Tail(terminalQueue)[k - 1] = terminalQueue[k]
          BY <1>0, <2>1, <3>3
        <4> QED
          BY <2>1, <3>1, <4>1 DEF TerminalConnected, Members
      <3> QED
        BY <3>2, <3>3
    <2>3. CASE UNCHANGED terminalQueue
      BY <1>3, <2>3 DEF TerminalConnected
    <2>4. ASSUME NEW d \in Terminals, ConnectTerminal(d) PROVE TerminalConnected(t)'
      <3>1. terminalQueue' = Append(terminalQueue, d)
        BY <2>4 DEF ConnectTerminal
      <3>2. k \in 1..Len(terminalQueue') /\ terminalQueue'[k] = t
        BY <1>0, <2>1, <2>4, <3>1, AppendProperties
      <3> QED
        BY <3>2 DEF TerminalConnected, Members
    <2> QED
      BY <2>2, <2>3, <2>4, QueueMoves
  <1> QED
    BY <1>1, <1>2, <1>3 DEF TerminalConnected

-----------------------------------------------------------------------------
(* A connection is in one place: the backlog, the accept thread or its own. *)

(* A TerminalDataController thread is started by the accept thread only.   *)
LEMMA ThreadStarts ==
  ASSUME IInv, [Next]_vars, NEW t \in Terminals, handler[t].pc = "off", handler'[t].pc # "off"
  PROVE  StartTerminal /\ terminalAccept.sock = t
  <1>0. handler \in [Terminals -> HandlerType] /\ handler[t] \in HandlerType
    BY DEF IInv, TypeOK
  <1>1. handler' # handler
    OBVIOUS
  <1>2. ASSUME NEW u \in Terminals, TerminalThread(u) PROVE FALSE
    <2>1. u # t
      BY <1>2 DEF TerminalThread, StartScan, DropTerminalChunk, Serve, EndScan, SkipPayload,
         PickNewest, ScanThrows, AttachSocket, NewWriter, PrintMarker, FlushMarker,
         BeginWrite, SendThrows, EndWrite
    <2>2. CASE BeginWrite(u)
      <3>1. handler'[t] = [handler[t] EXCEPT !.mixed = @ \/ WritingTo(t, objectOutputStream)]
        BY <2>1, <2>2 DEF BeginWrite
      <3> QED
        BY <1>0, <3>1 DEF HandlerType
    <2>3. ~BeginWrite(u) => handler'[t] = handler[t]
      BY <1>0, <1>2, <2>1 DEF TerminalThread, StartScan, DropTerminalChunk, Serve, EndScan,
         SkipPayload, PickNewest, ScanThrows, AttachSocket, NewWriter, PrintMarker,
         FlushMarker, SendThrows, EndWrite
    <2> QED
      BY <2>2, <2>3
  <1>3. CASE TerminalAcceptThread
    <2>1. StartTerminal
      BY <1>1, <1>3 DEF TerminalAcceptThread, AcceptTerminal, PingTerminal, AnswerRefresh,
         SendList, ReadTerminalName, AckTerminal, PublishStream
    <2>2. terminalAccept.sock = t
      BY <1>0, <2>1 DEF StartTerminal
    <2> QED
      BY <2>1, <2>2
  <1>4. ASSUME NEW p \in Payloads, PayloadThread(p) PROVE FALSE
    BY <1>1, <1>4, PayloadThreadFrame
  <1> QED
    BY <1>1, <1>2, <1>3, <1>4, PeersFrame, PayloadAcceptFrame DEF Next, FinishController, vars

Handshake == {"getPName", "sendList", "start"}

ConnectionInv ==
  /\ \A k \in 1..Len(terminalQueue) :
       /\ handler[terminalQueue[k]].pc = "off"
       /\ terminalAccept.sock # terminalQueue[k]
       /\ \A j \in 1..Len(terminalQueue) : terminalQueue[j] = terminalQueue[k] => j = k
  /\ terminalAccept.pc \in Handshake => handler[terminalAccept.sock].pc = "off"

(* ServerSocket.accept hands out each terminal's connection once. *)
LEMMA ConnectionStep ==
  ASSUME IInv, ConnectionInv, [Next]_vars PROVE ConnectionInv'
  <1> USE DEF ConnectionInv, Handshake
  <1> DEFINE a == terminalAccept
             q == terminalQueue
  <1>0. /\ a \in [pc : TerminalPc, sock : Terminals \cup {None}, list : BOOLEAN,
                  pings : Nat, oos : Terminals \cup {None}]
        /\ q \in Seq(Terminals) /\ Len(q) \in Nat
        /\ \A k \in 1..Len(q) : q[k] \in Terminals
        /\ a.pc # "accept" => a.sock \in Terminals
        /\ None \notin Terminals
    BY ServerAssumption DEF IInv, TypeOK, AcceptType, AcceptInv, ServerAssumption
  <1>1. CASE AcceptTerminal
    <2>1. /\ q # <<>> /\ q' = Tail(q) /\ a'.sock = Head(q) /\ handler' = handler
      BY <1>1 DEF AcceptTerminal
    <2>2. 1 \in 1..Len(q) /\ a'.sock = q[1]
      BY <1>0, <2>1
    <2>3. ASSUME NEW k \in 1..Len(q') PROVE k + 1 \in 1..Len(q) /\ q'[k] = q[k + 1] /\ k + 1 # 1
      BY <1>0, <2>1, <2>3
    <2>4. ASSUME NEW k \in 1..Len(q')
          PROVE  /\ handler'[q'[k]].pc = "off" /\ a'.sock # q'[k]
                 /\ \A j \in 1..Len(q') : q'[j] = q'[k] => j = k
      <3>1. handler[q[k + 1]].pc = "off" /\ q[1] # q[k + 1]
        BY <2>2, <2>3
      <3>2. ASSUME NEW j \in 1..Len(q'), q'[j] = q'[k] PROVE j = k
        <4>1. j + 1 = k + 1
          BY <2>3, <3>2
        <4> QED
          BY <4>1
      <3> QED
        BY <2>1, <2>2, <2>3, <3>1, <3>2
    <2> QED
      BY <2>1, <2>2, <2>4
  <1>2. ASSUME NEW d \in Terminals, ConnectTerminal(d) PROVE ConnectionInv'
    <2>1. /\ q' = Append(q, d) /\ a' = a /\ handler' = handler
          /\ a.sock # d /\ handler[d].pc = "off"
          /\ \A k \in 1..Len(q) : q[k] # d
      BY <1>2 DEF ConnectTerminal, TerminalConnected, Members
    <2>2. /\ Len(q') = Len(q) + 1 /\ q'[Len(q) + 1] = d
          /\ \A k \in 1..Len(q) : q'[k] = q[k]
      BY <1>0, <2>1, AppendProperties
    <2>3. ASSUME NEW k \in 1..Len(q')
          PROVE  /\ handler'[q'[k]].pc = "off" /\ a'.sock # q'[k]
                 /\ \A j \in 1..Len(q') : q'[j] = q'[k] => j = k
      BY <1>0, <2>1, <2>2
    <2> QED
      BY <2>1, <2>3
  <1>3. CASE UNCHANGED terminalQueue /\ ~AcceptTerminal
    <2>1. \/ a'.sock = a.sock /\ (a'.pc \in Handshake =>
                                   a.pc \in Handshake /\ ~StartTerminal)
          \/ a'.sock = None /\ a'.pc = "accept"
      <3>1. CASE UNCHANGED terminalAccept
        <4>1. StartTerminal => a'.pc = "ack"
          BY <1>0 DEF StartTerminal
        <4> QED
          BY <3>1, <4>1
      <3>2. CASE PingTerminal \/ AnswerRefresh \/ SendList \/ ReadTerminalName
        BY <1>0, <3>2 DEF PingTerminal, AnswerRefresh, SendList, ReadTerminalName, StartTerminal
      <3>3. CASE StartTerminal \/ AckTerminal \/ PublishStream
        BY <1>0, <3>3 DEF StartTerminal, AckTerminal, PublishStream
      <3> QED
        BY <1>3, <3>1, <3>2, <3>3, AcceptMoves DEF TerminalAcceptThread
    <2>2. ASSUME NEW k \in 1..Len(q) PROVE handler'[q[k]].pc = "off" /\ a'.sock # q[k]
      <3>1. q[k] \in Terminals /\ handler[q[k]].pc = "off" /\ a.sock # q[k]
        BY <1>0
      <3> QED
        BY <1>0, <2>1, <3>1, ThreadStarts
    <2>3. a'.pc \in Handshake => handler'[a'.sock].pc = "off"
      <3> SUFFICES ASSUME a'.pc \in Handshake PROVE handler'[a'.sock].pc = "off"
        OBVIOUS
      <3>1. a'.sock = a.sock /\ a.pc \in Handshake /\ ~StartTerminal
        BY <2>1
      <3>2. a.sock \in Terminals /\ handler[a.sock].pc = "off"
        BY <1>0, <3>1
      <3> QED
        BY <3>1, <3>2, ThreadStarts
    <2> QED
      BY <1>3, <2>2, <2>3
  <1> QED
    BY <1>1, <1>2, <1>3, QueueMoves

-----------------------------------------------------------------------------
(* The stream: a list brings one, and no name is sent without a list.      *)

Published(t) ==
  \/ objectOutputStream # None
  \/ terminalAccept.sock = t /\ terminalAccept.pc \in {"ack", "publish"}

Listed(t) == Has(toTerminal[t], "list") \/ Has(fromTerminal[t], "DeviceName")

StreamInv ==
  /\ \A t \in Terminals :
       /\ Listed(t) =>
            handler[t].pc # "off" \/ (terminalAccept.sock = t /\ terminalAccept.oos # None)
       /\ handler[t].pc # "off" => Published(t)
  /\ terminalAccept.pc \in {"start", "ack", "publish"} => terminalAccept.oos # None

(* Whoever has been sent a list, or has chosen from one, was listed before *)
(* or is being answered now.                                               *)
LEMMA ListedStep ==
  ASSUME IInv, [Next]_vars, NEW t \in Terminals, Listed(t)'
  PROVE  Listed(t) \/ (SendList /\ terminalAccept.sock = t)
  <1>1. CASE Has(toTerminal'[t], "list")
    <2>1. PICK k \in 1..Len(toTerminal'[t]) : toTerminal'[t][k].tag = "list"
      BY <1>1 DEF Has
    <2>2. CASE k \in 1..Len(toTerminal[t])
      BY <2>1, <2>2, WireGrows DEF Grows, Has, Listed
    <2>3. CASE k \notin 1..Len(toTerminal[t])
      BY <2>1, <2>3, WireGrows DEF WrittenBy
    <2> QED
      BY <2>2, <2>3
  <1>2. CASE Has(fromTerminal'[t], "DeviceName")
    BY <1>2, DeviceNameStep DEF Listed
  <1> QED
    BY <1>1, <1>2 DEF Listed

(* The shared stream is only replaced by the accept thread, and then by one *)
(* that getPName made.                                                      *)
LEMMA StreamReplaced ==
  ASSUME [Next]_vars
  PROVE  \/ objectOutputStream' = objectOutputStream
         \/ PublishStream /\ objectOutputStream' = terminalAccept.oos
  <1>1. CASE TerminalAcceptThread
    BY <1>1 DEF TerminalAcceptThread, AcceptTerminal, PingTerminal, AnswerRefresh, SendList,
       ReadTerminalName, StartTerminal, AckTerminal, PublishStream, stream
  <1> QED
    BY <1>1, PeersFrame, PayloadAcceptFrame, PayloadThreadFrame, TerminalThreadFrame
    DEF Next, FinishController, vars, stream

(* A thread runs before its stream is published, but not without one. *)
LEMMA StreamStep ==
  ASSUME IInv, AttachInv, ConnectionInv, StreamInv, [Next]_vars PROVE StreamInv'
  <1> DEFINE a == terminalAccept
  <1>0. /\ a \in [pc : TerminalPc, sock : Terminals \cup {None}, list : BOOLEAN,
                  pings : Nat, oos : Terminals \cup {None}]
        /\ a.pc # "accept" => a.sock \in Terminals
        /\ None \notin Terminals
    BY ServerAssumption DEF IInv, TypeOK, AcceptType, AcceptInv, ServerAssumption
  <1>1. ReadTerminalName => a.oos # None
    <2> SUFFICES ASSUME ReadTerminalName PROVE a.oos # None
      OBVIOUS
    <2>1. /\ a.pc = "getPName" /\ a.sock \in Terminals
          /\ \E n \in 1..Len(fromTerminal[a.sock]) : fromTerminal[a.sock][1].tag = "DeviceName"
      BY <1>0 DEF ReadTerminalName
    <2>2. fromTerminal[a.sock] \in Seq(TerminalMsg)
      BY <2>1 DEF IInv, TypeOK, TerminalWires
    <2>3. Listed(a.sock)
      BY <2>1, <2>2 DEF Has, Listed
    <2>4. handler[a.sock].pc = "off"
      BY <2>1 DEF ConnectionInv, Handshake
    <2> QED
      BY <2>1, <2>3, <2>4 DEF StreamInv
  <1>2. /\ a'.pc \in {"start", "ack", "publish"} => a'.oos # None
        /\ \/ a'.sock = a.sock /\ (a.oos # None => a'.oos # None)
           \/ AcceptTerminal /\ a.sock \notin Terminals
           \/ PublishStream /\ a.pc = "publish" /\ a'.pc = "accept"
        /\ SendList => a'.sock = a.sock /\ a'.oos = a.sock /\ a.sock # None
        /\ \/ a'.pc = a.pc
           \/ StartTerminal /\ a'.pc = "ack" /\ a'.sock = a.sock
           \/ AckTerminal /\ a.pc = "ack" /\ a'.pc = "publish" /\ a'.sock = a.sock
           \/ PublishStream
           \/ a.pc \in {"accept", "getPName", "sendList"} /\ a'.pc \notin {"ack", "publish"}
    <2>1. CASE UNCHANGED terminalAccept
      <3>1. ~SendList \/ a.oos = a.sock
        BY <1>0, <2>1 DEF SendList
      <3>2. SendList => a.sock \in Terminals
        BY <1>0 DEF SendList
      <3> QED
        BY <1>0, <2>1, <3>1, <3>2 DEF StreamInv
    <2>2. CASE AcceptTerminal
      <3>1. /\ a.pc = "accept" /\ a'.pc = "getPName" /\ ~SendList
            /\ a.sock \notin Terminals
        BY <2>2 DEF AcceptTerminal, SendList, AttachInv
      <3> QED
        BY <2>2, <3>1
    <2>3. CASE PingTerminal \/ AnswerRefresh
      BY <1>0, <2>3 DEF PingTerminal, AnswerRefresh, SendList
    <2>4. CASE SendList
      BY <1>0, <2>4 DEF SendList
    <2>5. CASE ReadTerminalName
      BY <1>0, <1>1, <2>5 DEF ReadTerminalName, SendList
    <2>6. CASE StartTerminal \/ AckTerminal
      BY <1>0, <2>6 DEF StartTerminal, AckTerminal, SendList, StreamInv
    <2>7. CASE PublishStream
      BY <1>0, <2>7 DEF PublishStream, SendList
    <2> QED
      BY <2>1, <2>2, <2>3, <2>4, <2>5, <2>6, <2>7, AcceptMoves DEF TerminalAcceptThread
  <1>3. ASSUME NEW t \in Terminals, Listed(t)'
        PROVE  handler'[t].pc # "off" \/ (a'.sock = t /\ a'.oos # None)
    <2>1. CASE handler[t].pc # "off"
      BY <2>1, HandlerStays
    <2>2. CASE SendList /\ a.sock = t
      BY <1>2, <2>2
    <2>3. CASE a.sock = t /\ a.oos # None
      <3>1. CASE PublishStream /\ a.pc = "publish"
        BY <2>1, <2>3, <3>1 DEF AttachInv
      <3> QED
        BY <1>2, <2>3, <3>1
    <2> QED
      BY <1>3, <2>1, <2>2, <2>3, ListedStep DEF StreamInv
  <1>4. ASSUME NEW t \in Terminals, handler'[t].pc # "off" PROVE Published(t)'
    <2>1. objectOutputStream # None => objectOutputStream' # None
      <3>1. PublishStream => a.oos # None
        BY DEF PublishStream, StreamInv
      <3> QED
        BY <3>1, StreamReplaced
    <2>2. CASE handler[t].pc = "off"
      <3>1. StartTerminal /\ a.sock = t
        BY <1>4, <2>2, ThreadStarts
      <3>2. a'.pc = "ack" /\ a'.sock = t
        BY <1>0, <3>1 DEF StartTerminal
      <3> QED
        BY <3>2 DEF Published
    <2>3. CASE handler[t].pc # "off" /\ a.sock = t /\ a.pc \in {"ack", "publish"}
      <3>1. CASE PublishStream
        <4>1. objectOutputStream' # None
          BY <3>1 DEF PublishStream, StreamInv
        <4> QED
          BY <4>1 DEF Published
      <3>2. CASE ~PublishStream
        <4>1. a'.sock = t
          <5>1. ~AcceptTerminal
            BY <2>3 DEF AcceptTerminal
          <5> QED
            BY <1>2, <2>3, <3>2, <5>1
        <4>2. a'.pc \in {"ack", "publish"}
          BY <1>2, <2>3, <3>2
        <4> QED
          BY <4>1, <4>2 DEF Published
      <3> QED
        BY <3>1, <3>2
    <2> QED
      BY <2>1, <2>2, <2>3 DEF StreamInv, Published
  <1> QED
    BY <1>2, <1>3, <1>4 DEF StreamInv

(* Where the connections and their streams are, in every state. *)
LEMMA StreamInvariant == Spec => [](AttachInv /\ ConnectionInv /\ StreamInv)
  <1>1. Init => AttachInv
    BY ServerAssumption DEF Init, AttachInv, Has, IdleHandler, Handler,
       ServerAssumption
  <1>2. Init => ConnectionInv /\ StreamInv
    BY DEF Init, ConnectionInv, Handshake, StreamInv, Listed, Has, IdleHandler, Handler
  <1>3. IInv /\ AttachInv /\ [Next]_vars => AttachInv'
    BY AttachStep
  <1>4. IInv /\ ConnectionInv /\ [Next]_vars => ConnectionInv'
    BY ConnectionStep
  <1>5. IInv /\ AttachInv /\ ConnectionInv /\ StreamInv /\ [Next]_vars => StreamInv'
    BY StreamStep
  <1> QED
    BY <1>1, <1>2, <1>3, <1>4, <1>5, InductiveInvariant, PTL DEF Spec

(* A TerminalDataController dies for want of an objectOutputStream only if *)
(* its thread, which its constructor starts, was faster than the rest of   *)
(* attachTerminal: with any number of terminals, refreshing as they like.  *)
THEOREM StreamIsMissingOnlyAtFirst == Spec => StreamMissingOnlyAtFirst
  <1>1. ASSUME StreamInv, NEW t \in Terminals, SendThrows(t)
        PROVE  terminalAccept.sock = t /\ terminalAccept.pc \in {"ack", "publish"}
    BY <1>1 DEF SendThrows, StreamInv, Published
  <1>2. StreamInv /\ [Next]_vars =>
          [\A t \in Terminals : SendThrows(t) =>
             terminalAccept.sock = t /\ terminalAccept.pc \in {"ack", "publish"}]_vars
    BY <1>1
  <1> QED
    BY <1>2, StreamInvariant, PTL DEF Spec, StreamMissingOnlyAtFirst

-----------------------------------------------------------------------------
(* Every stream a handler thread can write to leads to a terminal whose own *)
(* thread runs: no terminal is written to by another thread while the accept *)
(* thread still speaks with it.                                             *)

Runs(x) == x # None => handler[x].pc # "off"

StreamsRun ==
  /\ Runs(objectOutputStream) /\ Runs(streamSocket) /\ Runs(streamWriter.to)
  /\ \A u \in Terminals : Runs(handler[u].oos)
  /\ terminalAccept.pc # "accept" => terminalAccept.oos \in {None, terminalAccept.sock}

(* Every step keeps it: a thread leaves "off" once and for all, and the      *)
(* accept thread publishes a terminal's stream only after it has started    *)
(* the terminal's thread (ConnectTerminalSocket.java:49-52).                *)
LEMMA StreamsRunStep ==
  ASSUME IInv, AttachInv, StreamsRun, [Next]_vars PROVE StreamsRun'
  <1> DEFINE a == terminalAccept
  <1>0. /\ a \in [pc : TerminalPc, sock : Terminals \cup {None}, list : BOOLEAN,
                  pings : Nat, oos : Terminals \cup {None}]
        /\ a.pc # "accept" => a.sock \in Terminals
        /\ None \notin Terminals
        /\ handler \in [Terminals -> HandlerType]
        /\ StreamType
    BY ServerAssumption DEF IInv, TypeOK, AcceptType, AcceptInv, ServerAssumption
  <1>1. ASSUME NEW x \in Terminals \cup {None}, Runs(x) PROVE x # None => handler'[x].pc # "off"
    BY <1>1, HandlerStays DEF Runs
  <1>2. ASSUME NEW u \in Terminals, handler[u].pc # "off" PROVE handler'[u].pc # "off"
    BY <1>2, HandlerStays
  <1>3. Runs(objectOutputStream)'
    <2>1. CASE objectOutputStream' = objectOutputStream
      BY <1>0, <1>1, <2>1 DEF StreamsRun, StreamType, Runs
    <2>2. CASE PublishStream /\ objectOutputStream' = a.oos
      <3>1. /\ a.pc = "publish" /\ a.sock \in Terminals /\ a.oos \in {None, a.sock}
            /\ handler[a.sock].pc # "off"
        BY <1>0, <2>2 DEF PublishStream, StreamsRun, AttachInv
      <3> QED
        BY <1>2, <2>2, <3>1 DEF Runs
    <2> QED
      BY <2>1, <2>2, StreamReplaced
  <1>4. ASSUME UNCHANGED <<streamSocket, streamWriter>>
        PROVE  Runs(streamSocket)' /\ Runs(streamWriter.to)'
    BY <1>0, <1>1, <1>4 DEF StreamsRun, StreamType, Runs
  <1>5. ASSUME UNCHANGED handler PROVE \A u \in Terminals : Runs(handler[u].oos)'
    BY <1>0, <1>5 DEF StreamsRun, Runs
  <1>6. CASE TerminalAcceptThread
    <2>1. UNCHANGED <<streamSocket, streamWriter>>
      BY <1>6, TerminalAcceptFrame
    <2>2. \A u \in Terminals : handler'[u].oos = handler[u].oos
      <3>1. CASE StartTerminal
        <4>1. handler' = [handler EXCEPT ![a.sock].pc = "poll"]
          BY <3>1 DEF StartTerminal
        <4> QED
          BY <1>0, <4>1 DEF HandlerType
      <3>2. StartTerminal \/ UNCHANGED handler
        BY <1>6 DEF TerminalAcceptThread, AcceptTerminal, PingTerminal, AnswerRefresh,
           SendList, ReadTerminalName, AckTerminal, PublishStream
      <3> QED
        BY <3>1, <3>2
    <2>3. \A u \in Terminals : Runs(handler[u].oos)'
      <3> SUFFICES ASSUME NEW u \in Terminals PROVE Runs(handler[u].oos)'
        OBVIOUS
      <3>1. handler[u].oos \in Terminals \cup {None} /\ Runs(handler[u].oos)
        BY <1>0 DEF StreamsRun, HandlerType
      <3> QED
        BY <1>1, <2>2, <3>1 DEF Runs
    <2>4. a'.pc # "accept" => a'.oos \in {None, a'.sock}
      <3>1. CASE AcceptTerminal
        BY <3>1 DEF AcceptTerminal
      <3>2. CASE PublishStream
        BY <1>0, <3>2 DEF PublishStream
      <3>3. CASE SendList
        BY <1>0, <3>3 DEF SendList
      <3>4. CASE PingTerminal \/ AnswerRefresh \/ ReadTerminalName
        <4>1. a.pc # "accept" /\ a'.oos = a.oos /\ a'.sock = a.sock
          BY <1>0, <3>4 DEF PingTerminal, AnswerRefresh, ReadTerminalName
        <4> QED
          BY <4>1 DEF StreamsRun
      <3>5. CASE StartTerminal \/ AckTerminal
        <4>1. a.pc # "accept" /\ a'.oos = a.oos /\ a'.sock = a.sock
          BY <1>0, <3>5 DEF StartTerminal, AckTerminal
        <4> QED
          BY <4>1 DEF StreamsRun
      <3> QED
        BY <1>6, <3>1, <3>2, <3>3, <3>4, <3>5 DEF TerminalAcceptThread
    <2> QED
      BY <1>3, <1>4, <2>1, <2>3, <2>4 DEF StreamsRun
  <1>7. ASSUME NEW t \in Terminals, TerminalThread(t) PROVE StreamsRun'
    <2>1. a' = a
      BY <1>7, TerminalThreadFrame DEF accept
    <2>2. Runs(streamSocket)' /\ Runs(streamWriter.to)'
      <3>1. CASE AttachSocket(t)
        <4>1. handler[t].pc # "off" /\ streamSocket' = t /\ streamWriter' = streamWriter
          BY <3>1 DEF AttachSocket
        <4>2. streamWriter.to \in Terminals \cup {None} /\ Runs(streamWriter.to)
          BY <1>0 DEF StreamsRun, StreamType
        <4> QED
          BY <1>1, <1>2, <4>1, <4>2 DEF Runs
      <3>2. CASE NewWriter(t)
        <4>1. streamSocket' = streamSocket /\ streamWriter'.to = streamSocket
          BY <3>2 DEF NewWriter
        <4>2. streamSocket \in Terminals \cup {None} /\ Runs(streamSocket)
          BY <1>0 DEF StreamsRun, StreamType
        <4> QED
          BY <1>1, <4>1, <4>2 DEF Runs
      <3>3. CASE ~AttachSocket(t) /\ ~NewWriter(t)
        <4>1. streamSocket' = streamSocket /\ streamWriter'.to = streamWriter.to
          <5>1. CASE PrintMarker(t) \/ FlushMarker(t)
            BY <1>0, <5>1 DEF PrintMarker, FlushMarker, StreamType
          <5>2. PrintMarker(t) \/ FlushMarker(t) \/ UNCHANGED <<streamSocket, streamWriter>>
            BY <1>7, <3>3 DEF TerminalThread, Serve, StartScan, DropTerminalChunk, EndScan,
               SkipPayload, PickNewest, ScanThrows, BeginWrite, SendThrows, EndWrite, stream
          <5> QED
            BY <5>1, <5>2
        <4>2. /\ streamSocket \in Terminals \cup {None} /\ Runs(streamSocket)
              /\ streamWriter.to \in Terminals \cup {None} /\ Runs(streamWriter.to)
          BY <1>0 DEF StreamsRun, StreamType
        <4> QED
          BY <1>1, <4>1, <4>2 DEF Runs
      <3> QED
        BY <3>1, <3>2, <3>3
    <2>3. ASSUME NEW u \in Terminals
          PROVE  handler'[u].oos \in {None, handler[u].oos, objectOutputStream}
      <3>1. CASE BeginWrite(t)
        BY <1>0, <3>1 DEF BeginWrite, HandlerType
      <3>2. CASE StartScan(t) \/ EndScan(t) \/ EndWrite(t)
        <4>1. \A pc, want, i, since : Handler(pc, want, i, since).oos = None
          BY DEF Handler
        <4>2. \E pc, want, i, since :
                handler' = [handler EXCEPT ![t] = Handler(pc, want, i, since)]
          <5>1. CASE StartScan(t)
            <6>1. PICK n \in 1..Len(fromTerminal[t]) :
                    handler' = [handler EXCEPT ![t] =
                      Handler("scan", NameIn(Chunk(fromTerminal[t], n)), 1,
                              [p \in Payloads |-> Len(payloadDataVector[p])])]
              BY <5>1 DEF StartScan
            <6> QED
              BY <6>1
          <5>2. CASE EndScan(t)
            BY <5>2 DEF EndScan, IdleHandler
          <5>3. CASE EndWrite(t)
            BY <5>3 DEF EndWrite
          <5> QED
            BY <3>2, <5>1, <5>2, <5>3
        <4> QED
          BY <1>0, <4>1, <4>2
      <3>3. CASE PickNewest(t) \/ SkipPayload(t)
        BY <1>0, <3>3 DEF PickNewest, SkipPayload, HandlerType
      <3>4. CASE ScanThrows(t) \/ SendThrows(t)
        BY <1>0, <3>4 DEF ScanThrows, SendThrows, HandlerType
      <3>5. CASE AttachSocket(t) \/ NewWriter(t) \/ PrintMarker(t) \/ FlushMarker(t)
        BY <1>0, <3>5 DEF AttachSocket, NewWriter, PrintMarker, FlushMarker, HandlerType
      <3>6. CASE DropTerminalChunk(t)
        BY <3>6 DEF DropTerminalChunk
      <3> QED
        BY <1>7, <3>1, <3>2, <3>3, <3>4, <3>5, <3>6 DEF TerminalThread, Serve
    <2>4. ASSUME NEW u \in Terminals PROVE Runs(handler[u].oos)'
      <3>1. /\ handler[u].oos \in Terminals \cup {None} /\ Runs(handler[u].oos)
            /\ objectOutputStream \in Terminals \cup {None} /\ Runs(objectOutputStream)
        BY <1>0 DEF StreamsRun, HandlerType, StreamType
      <3> QED
        BY <1>1, <2>3, <3>1 DEF Runs
    <2> QED
      BY <1>3, <2>1, <2>2, <2>4 DEF StreamsRun
  <1>8. CASE UNCHANGED <<streamSocket, streamWriter, handler, terminalAccept>>
    BY <1>3, <1>4, <1>5, <1>8 DEF StreamsRun
  <1>9. ASSUME NEW p \in Payloads, PayloadThread(p)
        PROVE  UNCHANGED <<streamSocket, streamWriter, handler, terminalAccept>>
    BY <1>9, PayloadThreadFrame DEF stream, accept
  <1>10. CASE Peers \/ PayloadAcceptThread \/ FinishController \/ UNCHANGED vars
    BY <1>8, <1>10, PeersFrame, PayloadAcceptFrame
    DEF FinishController, vars, stream, accept
  <1> QED
    BY <1>6, <1>7, <1>8, <1>9, <1>10 DEF Next

(* So in every reachable state each output stream the server holds or       *)
(* writes to leads to a terminal whose handler thread has been started.     *)
LEMMA StreamsLeadToRunning == Spec => []StreamsRun
  <1>1. Init => StreamsRun
    BY DEF Init, StreamsRun, Runs, IdleHandler, Handler
  <1>2. IInv /\ AttachInv /\ StreamsRun /\ [Next]_vars => StreamsRun'
    BY StreamsRunStep
  <1> QED
    BY <1>1, <1>2, InductiveInvariant, StreamInvariant, PTL DEF Spec

(* While a terminal waits for its list the accept thread does nothing else *)
(* and all that can be written to it is that list.                         *)
LEMMA OnlyTheList ==
  ASSUME IInv, ConnectionInv, StreamsRun, [Next]_vars, NEW t \in Terminals,
         terminalAccept.sock = t, terminalAccept.pc = "sendList"
  PROVE  /\ \A k \in 1..Len(toTerminal'[t]) :
              k \in 1..Len(toTerminal[t]) \/ toTerminal'[t][k].tag = "list"
         /\ SendList \/ UNCHANGED terminalAccept
         /\ SendList => Len(toTerminal'[t]) = Len(toTerminal[t]) + 1
  <1>1. toTerminal \in [Terminals -> Seq(ToTerminalMsg)] /\ TypeOK'
    BY TypeStep DEF IInv, TypeOK, TerminalWires
  <1>2. handler[t].pc = "off"
    BY DEF ConnectionInv, Handshake
  <1>3. ASSUME NEW k \in 1..Len(toTerminal'[t]), k \notin 1..Len(toTerminal[t])
        PROVE  toTerminal'[t][k].tag = "list"
    <2> DEFINE x == toTerminal'[t][k]
    <2>1. WrittenBy(t, x)
      BY <1>3, WireGrows
    <2>2. x \in ToTerminalMsg
      BY <1>1, <1>3, ElementOfSeq DEF TypeOK, TerminalWires
    <2> HIDE DEF x
    <2>3. x.tag \notin {"@", "#", "Refresh"}
      BY <2>1 DEF WrittenBy, Acking, Greeting, ReadTerminalName, AckTerminal
    <2>4. x.tag \notin {"PayloadUpdate", "object"}
      <3>0. t # None
        BY ServerAssumption DEF ServerAssumption
      <3>1. streamWriter.to # t
        BY <1>2, <3>0 DEF StreamsRun, Runs
      <3>2. \A u \in Terminals : handler[u].oos # t
        BY <1>2, <3>0 DEF StreamsRun, Runs
      <3> QED
        BY <2>1, <3>1, <3>2 DEF WrittenBy
    <2>5. x.tag \in {"@", "#", "Refresh", "PayloadUpdate", "list", "object"}
      BY <2>2 DEF ToTerminalMsg, Signal, ListMsg, ObjectMsg
    <2> QED
      BY <2>3, <2>4, <2>5 DEF x
  <1>4. SendList \/ UNCHANGED terminalAccept
    BY AcceptMoves DEF TerminalAcceptThread, AcceptTerminal, PingTerminal, AnswerRefresh,
       ReadTerminalName, StartTerminal, AckTerminal, PublishStream
  <1>5. SendList => Len(toTerminal'[t]) = Len(toTerminal[t]) + 1
    BY <1>1 DEF SendList
  <1> QED
    BY <1>3, <1>4, <1>5

(* The two writes that answer a "Refresh" reach the terminal next to each  *)
(* other, with any number of terminals and threads: a "Refresh" is followed *)
(* by a list, or is the last thing written and its list is about to be.    *)
THEOREM RefreshBringsTheList == Spec => []ListFollowsRefresh
  <1>1. Init => ListFollowsRefresh
    BY DEF Init, ListFollowsRefresh
  <1>2. IInv /\ ConnectionInv /\ StreamsRun /\ ListFollowsRefresh /\ [Next]_vars
          => ListFollowsRefresh'
    <2> SUFFICES ASSUME IInv, ConnectionInv, StreamsRun, ListFollowsRefresh, [Next]_vars,
                        NEW t \in Terminals, NEW k \in 1..Len(toTerminal'[t]),
                        toTerminal'[t][k].tag = "Refresh"
                 PROVE  IF k < Len(toTerminal'[t]) THEN toTerminal'[t][k + 1].tag = "list"
                        ELSE terminalAccept'.sock = t /\ terminalAccept'.pc = "sendList"
      BY DEF ListFollowsRefresh
    <2> DEFINE w == toTerminal[t]
               v == toTerminal'[t]
    <2>1. /\ toTerminal \in [Terminals -> Seq(ToTerminalMsg)]
          /\ w \in Seq(ToTerminalMsg) /\ Len(w) \in Nat
          /\ v \in Seq(ToTerminalMsg) /\ Len(v) \in Nat
      BY TypeStep DEF IInv, TypeOK, TerminalWires
    <2>2. Grows(w, v) /\ \A i \in 1..Len(v) : i \in 1..Len(w) \/ WrittenBy(t, v[i])
      BY WireGrows
    <2>3. CASE k \in 1..Len(w) /\ k < Len(w)
      <3>1. w[k].tag = "Refresh" /\ k + 1 \in 1..Len(w)
        BY <2>1, <2>2, <2>3 DEF Grows
      <3>2. w[k + 1].tag = "list" /\ v[k + 1] = w[k + 1] /\ k < Len(v)
        BY <2>1, <2>2, <2>3, <3>1 DEF Grows, ListFollowsRefresh
      <3> QED
        BY <3>2
    <2>4. CASE k \in 1..Len(w) /\ k = Len(w)
      <3>1. w[k].tag = "Refresh"
        BY <2>2, <2>4 DEF Grows
      <3>2. terminalAccept.sock = t /\ terminalAccept.pc = "sendList"
        BY <2>1, <2>4, <3>1 DEF ListFollowsRefresh
      <3>3. CASE k < Len(v)
        <4>1. k + 1 \in 1..Len(v) /\ k + 1 \notin 1..Len(w)
          BY <2>1, <2>4, <3>3
        <4> QED
          BY <3>2, <3>3, <4>1, OnlyTheList
      <3>4. CASE ~(k < Len(v))
        <4>1. ~SendList
          BY <2>1, <2>4, <3>2, <3>4, OnlyTheList
        <4> QED
          BY <3>2, <3>4, <4>1, OnlyTheList
      <3> QED
        BY <3>3, <3>4
    <2>5. CASE k \notin 1..Len(w)
      <3>1. AnswerRefresh /\ terminalAccept.sock = t
        BY <2>2, <2>5 DEF WrittenBy, Greeting
      <3>2. /\ terminalAccept'.sock = t /\ terminalAccept'.pc = "sendList"
        BY <3>1 DEF AnswerRefresh, IInv, TypeOK, AcceptType
      <3>3. Len(v) = Len(w) + 1
        BY <2>1, <3>1 DEF AnswerRefresh
      <3> QED
        BY <2>1, <2>5, <3>2, <3>3
    <2> QED
      BY <2>1, <2>3, <2>4, <2>5
  <1> QED
    BY <1>1, <1>2, InductiveInvariant, StreamInvariant, StreamsLeadToRunning, PTL DEF Spec

-----------------------------------------------------------------------------
(* With one terminal, whose thread is then the only one that writes         *)
(* objects, no older entry of a payload follows a newer one on the wire.    *)

OneTerminal == \A t, u \in Terminals : t = u

IsObject(m) == m.tag = "object"

OrderInv ==
  \A t \in Terminals :
    LET w == toTerminal[t] IN
    /\ \A k, l \in 1..Len(w) :
         k < l /\ IsObject(w[k]) /\ IsObject(w[l]) /\ w[k].conn = w[l].conn
           => w[k].at <= w[l].at
    /\ Busy(t) => \A k \in 1..Len(w) :
         IsObject(w[k]) /\ w[k].conn = handler[t].conn => w[k].at <= handler[t].at

(* What EndWrite does when there is one terminal. *)
LEMMA ObjectWritten ==
  ASSUME OneTerminal, IInv, NEW t \in Terminals, NEW u \in Terminals, EndWrite(u)
  PROVE  /\ u = t /\ toTerminal'[t] = Append(toTerminal[t], ObjectOf(t))
         /\ handler'[t].pc = "scan" /\ handler[t].pc = "writing"
  <1> USE DEF IInv
  <1>1. u = t
    BY DEF OneTerminal
  <1>2. handler[t].oos = t /\ handler[t].pc = "writing"
    BY <1>1 DEF OneTerminal, EndWrite, HandlerInv
  <1>3. toTerminal \in [Terminals -> Seq(ToTerminalMsg)] /\ handler \in [Terminals -> HandlerType]
    BY DEF TypeOK, TerminalWires
  <1>4. toTerminal' = [toTerminal EXCEPT ![t] = Append(@, ObjectOf(t))]
    BY <1>1, <1>2 DEF EndWrite
  <1>5. handler'[t].pc = "scan"
    BY <1>1, <1>3 DEF EndWrite, Handler
  <1> QED
    BY <1>1, <1>2, <1>3, <1>4, <1>5

(* No step of any thread puts an entry behind a newer one. *)
LEMMA OrderStep ==
  ASSUME OneTerminal, IInv, [Next]_vars, OrderInv PROVE OrderInv'
  <1> SUFFICES ASSUME NEW t \in Terminals
      PROVE  /\ \A k, l \in 1..Len(toTerminal'[t]) :
                  k < l /\ IsObject(toTerminal'[t][k]) /\ IsObject(toTerminal'[t][l])
                  /\ toTerminal'[t][k].conn = toTerminal'[t][l].conn
                    => toTerminal'[t][k].at <= toTerminal'[t][l].at
             /\ Busy(t)' => \A k \in 1..Len(toTerminal'[t]) :
                  IsObject(toTerminal'[t][k]) /\ toTerminal'[t][k].conn = handler'[t].conn
                    => toTerminal'[t][k].at <= handler'[t].at
    BY DEF OrderInv
  <1> DEFINE w == toTerminal[t]
             v == toTerminal'[t]
             h == handler[t]
             g == handler'[t]
  <1>0. /\ w \in Seq(ToTerminalMsg) /\ Len(w) \in Nat /\ h \in HandlerType
        /\ v \in Seq(ToTerminalMsg) /\ Len(v) \in Nat
    BY TypeStep DEF IInv, TypeOK, TerminalWires
  <1>1. /\ \A k, l \in 1..Len(w) :
             k < l /\ IsObject(w[k]) /\ IsObject(w[l]) /\ w[k].conn = w[l].conn
               => w[k].at <= w[l].at
        /\ Busy(t) => \A k \in 1..Len(w) :
             IsObject(w[k]) /\ w[k].conn = h.conn => w[k].at <= h.at
    BY DEF OrderInv
  <1>2. CASE \E u \in Terminals : EndWrite(u)
    <2> DEFINE o == ObjectOf(t)
    <2>1. v = Append(w, o) /\ g.pc = "scan" /\ h.pc = "writing"
      BY <1>2, ObjectWritten
    <2>2. o.conn = h.conn /\ o.at = h.at
      BY DEF ObjectOf
    <2> HIDE DEF o, w, v, h, g
    <2>3. Busy(t) /\ ~Busy(t)'
      BY <2>1 DEF Busy, h, g
    <2>4. /\ Len(v) = Len(w) + 1 /\ v[Len(w) + 1] = o
          /\ \A k \in 1..Len(w) : v[k] = w[k]
      BY <1>0, <2>1
    <2>5. ASSUME NEW k \in 1..Len(v), NEW l \in 1..Len(v), k < l,
                 IsObject(v[k]), IsObject(v[l]), v[k].conn = v[l].conn
          PROVE  v[k].at <= v[l].at
      <3>1. k \in 1..Len(w)
        BY <1>0, <2>4, <2>5
      <3>2. CASE l \in 1..Len(w)
        BY <1>1, <2>4, <2>5, <3>1, <3>2
      <3>3. CASE l = Len(w) + 1
        BY <1>1, <2>2, <2>3, <2>4, <2>5, <3>1, <3>3
      <3> QED
        BY <1>0, <2>4, <3>2, <3>3
    <2> QED
      BY <2>3, <2>5 DEF v
  <1>3. CASE ~ \E u \in Terminals : EndWrite(u)
    <2>1. ASSUME NEW k \in 1..Len(v), IsObject(v[k])
          PROVE  k \in 1..Len(w) /\ v[k] = w[k]
      <3>1. \A m \in Signal : ~IsObject(m)
        BY DEF Signal, IsObject
      <3> QED
        BY <1>3, <2>1, <3>1, ToTerminalStep DEF IsObject
    <2>2. ASSUME Busy(t)', NEW k \in 1..Len(w), IsObject(w[k]), w[k].conn = g.conn
          PROVE  w[k].at <= g.at
      <3>1. CASE Busy(t) /\ SameRequest(t)
        BY <1>1, <2>2, <3>1 DEF SameRequest
      <3>2. CASE g.at = Len(payloadDataVector[g.conn])
        BY <2>2, <3>2 DEF IInv, AnswerInv, IsObject
      <3>3. \/ Busy(t) /\ SameRequest(t)
            \/ g.at = Len(payloadDataVector[g.conn])
        BY <2>2, HandlerMoves DEF Moves, Busy, Sending
      <3> QED
        BY <3>1, <3>2, <3>3
    <2> HIDE DEF w, v, h, g
    <2> QED
      BY <1>1, <2>1, <2>2 DEF v, g
  <1> QED
    BY <1>2, <1>3

(* The order holds in every state. *)
LEMMA OrderInvariant ==
  ASSUME OneTerminal PROVE Spec => []OrderInv
  <1>1. Init => OrderInv
    BY DEF Init, OrderInv, IdleHandler, Handler, Busy
  <1>2. IInv /\ OrderInv /\ [Next]_vars => OrderInv'
    BY OrderStep
  <1> QED
    BY <1>1, <1>2, InductiveInvariant, PTL DEF Spec

-----------------------------------------------------------------------------
(* With one terminal, markers and objects alternate on its wire.           *)

(* Message n + 1 is an object to come, or the one that was to come. *)
LEMMA OwedNext ==
  ASSUME NEW w, NEW n \in Nat
  PROVE  ObjectOwed(w, n + 1) <=>
           w[n + 1] = Marker \/ (ObjectOwed(w, n) /\ ~IsObject(w[n + 1]))
  <1>1. ASSUME w[n + 1] = Marker PROVE ObjectOwed(w, n + 1)
    BY <1>1 DEF ObjectOwed
  <1>2. ASSUME ObjectOwed(w, n), ~IsObject(w[n + 1]) PROVE ObjectOwed(w, n + 1)
    <2>1. PICK j \in 1..n : w[j] = Marker /\ \A i \in (j + 1)..n : w[i].tag # "object"
      BY <1>2 DEF ObjectOwed
    <2>2. \A i \in (j + 1)..(n + 1) : w[i].tag # "object"
      BY <1>2, <2>1 DEF IsObject
    <2> QED
      BY <2>1, <2>2 DEF ObjectOwed
  <1>3. ASSUME ObjectOwed(w, n + 1), w[n + 1] # Marker
        PROVE  ObjectOwed(w, n) /\ ~IsObject(w[n + 1])
    <2>1. PICK j \in 1..(n + 1) :
            w[j] = Marker /\ \A i \in (j + 1)..(n + 1) : w[i].tag # "object"
      BY <1>3 DEF ObjectOwed
    <2>2. j \in 1..n /\ n + 1 \in (j + 1)..(n + 1)
      BY <1>3, <2>1
    <2> QED
      BY <2>1, <2>2 DEF ObjectOwed, IsObject
  <1> QED
    BY <1>1, <1>2, <1>3

(* What is owed after the first messages does not depend on the rest. *)
LEMMA OwedGrows ==
  ASSUME NEW w, NEW v, Len(w) \in Nat, Grows(w, v), NEW n \in 0..Len(w)
  PROVE  ObjectOwed(v, n) <=> ObjectOwed(w, n)
  <1>1. \A j \in 1..n : v[j] = w[j] /\ \A i \in (j + 1)..n : v[i] = w[i]
    BY DEF Grows
  <1> QED
    BY <1>1 DEF ObjectOwed

(* Messages that are no updates change nothing. *)
LEMMA OwedStays ==
  ASSUME NEW w, NEW v, Len(w) \in Nat, Len(v) \in Nat, Grows(w, v),
         \A k \in 1..Len(v) : k \in 1..Len(w) \/ (v[k] # Marker /\ ~IsObject(v[k]))
  PROVE  ObjectOwed(v, Len(v)) <=> ObjectOwed(w, Len(w))
  <1>1. ASSUME ObjectOwed(v, Len(v)) PROVE ObjectOwed(w, Len(w))
    <2>1. PICK j \in 1..Len(v) : v[j] = Marker /\ \A i \in (j + 1)..Len(v) : v[i].tag # "object"
      BY <1>1 DEF ObjectOwed
    <2>2. j \in 1..Len(w) /\ w[j] = Marker
      BY <2>1 DEF Grows
    <2>3. ASSUME NEW i \in (j + 1)..Len(w) PROVE w[i].tag # "object"
      <3>1. i \in (j + 1)..Len(v) /\ v[i] = w[i]
        BY <2>2 DEF Grows
      <3> QED
        BY <2>1, <3>1
    <2> QED
      BY <2>2, <2>3 DEF ObjectOwed
  <1>2. ASSUME ObjectOwed(w, Len(w)) PROVE ObjectOwed(v, Len(v))
    <2>1. PICK j \in 1..Len(w) : w[j] = Marker /\ \A i \in (j + 1)..Len(w) : w[i].tag # "object"
      BY <1>2 DEF ObjectOwed
    <2>2. j \in 1..Len(v) /\ v[j] = Marker
      BY <2>1 DEF Grows
    <2>3. ASSUME NEW i \in (j + 1)..Len(v) PROVE v[i].tag # "object"
      <3>1. CASE i \in 1..Len(w)
        <4>1. i \in (j + 1)..Len(w) /\ v[i] = w[i]
          BY <3>1 DEF Grows
        <4> QED
          BY <2>1, <4>1
      <3>2. CASE i \notin 1..Len(w)
        <4>1. i \in 1..Len(v)
          BY <2>2
        <4> QED
          BY <3>2, <4>1 DEF IsObject
      <3> QED
        BY <3>1, <3>2
    <2> QED
      BY <2>2, <2>3 DEF ObjectOwed
  <1> QED
    BY <1>1, <1>2

Owing == {"send", "writing", "noStream"}

PairInv ==
  \A t \in Terminals :
    LET w  == toTerminal[t]
        pc == handler[t].pc
    IN
    /\ \A k \in 1..Len(w) : /\ w[k] = Marker => ~ObjectOwed(w, k - 1)
                            /\ IsObject(w[k]) => ObjectOwed(w, k - 1)
    /\ ObjectOwed(w, Len(w)) <=> pc \in Owing
    /\ streamWriter.buffered = IF pc = "flush" THEN 1 ELSE 0
    /\ pc = "writer" => streamSocket = t
    /\ pc \in {"print", "flush"} => streamWriter.to = t

(* What FlushMarker does when there is one terminal. *)
LEMMA MarkerWritten ==
  ASSUME OneTerminal, IInv, PairInv, NEW t \in Terminals, NEW u \in Terminals, FlushMarker(u)
  PROVE  /\ u = t /\ toTerminal'[t] = Append(toTerminal[t], Marker)
         /\ handler[t].pc = "flush" /\ handler'[t].pc = "send"
         /\ streamWriter'.buffered = 0
  <1> USE DEF IInv
  <1>1. u = t
    BY DEF OneTerminal
  <1>2. handler[t].pc = "flush" /\ streamWriter.to = t /\ streamWriter.buffered = 1
    BY <1>1 DEF FlushMarker, PairInv
  <1>3. /\ toTerminal \in [Terminals -> Seq(ToTerminalMsg)] /\ handler \in [Terminals -> HandlerType]
        /\ StreamType
    BY DEF TypeOK, TerminalWires
  <1>4. toTerminal'[t] = Append(toTerminal[t], Marker)
    <2> DEFINE m == [k \in 1..1 |-> Marker]
    <2>1. toTerminal'[t] = toTerminal[t] \o m
      BY <1>2, <1>3 DEF FlushMarker
    <2>2. m = <<Marker>>
      OBVIOUS
    <2>3. Marker \in ToTerminalMsg
      BY DEF Marker, Signal, ToTerminalMsg
    <2> HIDE DEF m
    <2> QED
      BY <1>3, <2>1, <2>2, <2>3, AppendIsConcat
  <1>5. handler'[t].pc = "send"
    BY <1>1, <1>3 DEF FlushMarker, HandlerType
  <1>6. streamWriter'.buffered = 0
    BY <1>3 DEF FlushMarker, StreamType
  <1> QED
    BY <1>1, <1>2, <1>4, <1>5, <1>6

Resting == {"off", "poll", "scan", "attach", "noEntry", "noList"}

StreamStill == UNCHANGED <<streamSocket, streamWriter>>

PairMoves(t) ==
  LET pc == handler[t].pc
      to == handler'[t].pc
  IN
  \/ StreamStill /\ to = pc
  \/ StreamStill /\ pc \in Resting /\ to \in Resting
  \/ StreamStill /\ pc \in Owing /\ to \in Owing
  \/ /\ pc = "attach" /\ to = "writer" /\ streamSocket' = t
     /\ streamWriter' = streamWriter
  \/ /\ pc = "writer" /\ to = "print"
     /\ streamWriter' = [to |-> streamSocket, buffered |-> 0]
  \/ /\ pc = "print" /\ to = "flush" /\ streamWriter'.to = streamWriter.to
     /\ streamWriter'.buffered = streamWriter.buffered + 1

(* What the only thread does, but for its two writes. *)
LEMMA OnlyThreadMoves ==
  ASSUME OneTerminal, IInv, ConnectionInv, [Next]_vars, NEW t \in Terminals,
         \A u \in Terminals : ~FlushMarker(u) /\ ~EndWrite(u)
  PROVE  PairMoves(t)
  <1>0. handler \in [Terminals -> HandlerType] /\ handler[t] \in HandlerType /\ StreamType
    BY DEF IInv, TypeOK
  <1>1. CASE UNCHANGED handler /\ StreamStill
    BY <1>1 DEF PairMoves
  <1>2. CASE TerminalAcceptThread
    <2>1. StreamStill
      BY <1>2, TerminalAcceptFrame DEF StreamStill
    <2>2. CASE StartTerminal
      <3>1. /\ terminalAccept.sock \in Terminals /\ handler[terminalAccept.sock].pc = "off"
        BY <2>2 DEF StartTerminal, IInv, AcceptInv, ConnectionInv, Handshake
      <3>2. terminalAccept.sock = t
        BY <3>1 DEF OneTerminal
      <3>3. handler'[t].pc = "poll"
        BY <1>0, <2>2, <3>2 DEF StartTerminal, HandlerType
      <3> QED
        BY <2>1, <3>1, <3>2, <3>3 DEF PairMoves, Resting
    <2> QED
      BY <1>1, <1>2, <2>1, <2>2 DEF TerminalAcceptThread, AcceptTerminal, PingTerminal,
         AnswerRefresh, SendList, ReadTerminalName, AckTerminal, PublishStream
  <1>3. CASE TerminalThread(t)
    <2>1. \A pc : [handler[t] EXCEPT !.pc = pc].pc = pc
      BY <1>0 DEF HandlerType
    <2>2. CASE StartScan(t) \/ EndScan(t)
      <3>1. handler[t].pc \in {"poll", "scan"} /\ handler'[t].pc \in {"poll", "scan"}
        BY <1>0, <2>2 DEF StartScan, EndScan, IdleHandler, Handler
      <3>2. StreamStill
        BY <2>2 DEF StartScan, EndScan, stream, StreamStill
      <3> QED
        BY <3>1, <3>2 DEF PairMoves, Resting
    <2>3. CASE DropTerminalChunk(t)
      BY <1>1, <2>3 DEF DropTerminalChunk, stream, StreamStill
    <2>4. CASE SkipPayload(t) \/ PickNewest(t) \/ ScanThrows(t)
      <3>1. handler[t].pc = "scan" /\ handler'[t].pc \in Resting
        <4>1. CASE SkipPayload(t)
          BY <1>0, <4>1 DEF SkipPayload, Resting, HandlerType
        <4>2. CASE PickNewest(t)
          <5>1. PICK p, n : handler' = [handler EXCEPT ![t].pc = "attach", ![t].conn = p,
                                                       ![t].at = n]
            BY <4>2 DEF PickNewest
          <5> QED
            BY <1>0, <4>2, <5>1 DEF PickNewest, Resting, HandlerType
        <4>3. CASE ScanThrows(t)
          BY <1>0, <4>3 DEF ScanThrows, Resting, HandlerType
        <4> QED
          BY <2>4, <4>1, <4>2, <4>3
      <3>2. StreamStill
        BY <2>4 DEF SkipPayload, PickNewest, ScanThrows, stream, StreamStill
      <3> QED
        BY <3>1, <3>2 DEF PairMoves, Resting
    <2>5. CASE AttachSocket(t)
      BY <1>0, <2>1, <2>5 DEF AttachSocket, PairMoves
    <2>6. CASE NewWriter(t)
      BY <1>0, <2>1, <2>6 DEF NewWriter, PairMoves
    <2>7. CASE PrintMarker(t)
      <3>1. /\ streamWriter'.to = streamWriter.to
            /\ streamWriter'.buffered = streamWriter.buffered + 1
        BY <1>0, <2>7 DEF PrintMarker, StreamType
      <3> QED
        BY <1>0, <2>1, <2>7, <3>1 DEF PrintMarker, PairMoves
    <2>8. CASE BeginWrite(t) \/ SendThrows(t)
      <3>1. handler[t].pc = "send" /\ handler'[t].pc \in Owing
        <4>1. CASE BeginWrite(t)
          <5>1. handler'[t] = [handler[t] EXCEPT !.pc = "writing", !.oos = objectOutputStream,
                                 !.mixed = \E v \in Terminals : WritingTo(v, objectOutputStream)]
            BY <4>1 DEF BeginWrite
          <5>2. handler'[t].pc = "writing"
            BY <1>0, <5>1 DEF HandlerType
          <5> QED
            BY <4>1, <5>2 DEF BeginWrite, Owing
        <4>2. CASE SendThrows(t)
          BY <1>0, <2>1, <4>2 DEF SendThrows, Owing
        <4> QED
          BY <2>8, <4>1, <4>2
      <3>2. StreamStill
        BY <2>8 DEF BeginWrite, SendThrows, stream, StreamStill
      <3> QED
        BY <3>1, <3>2 DEF PairMoves, Owing
    <2> QED
      BY <1>3, <2>2, <2>3, <2>4, <2>5, <2>6, <2>7, <2>8 DEF TerminalThread, Serve
  <1>4. ASSUME NEW u \in Terminals, TerminalThread(u) PROVE TerminalThread(t)
    BY <1>4 DEF OneTerminal
  <1> QED
    BY <1>1, <1>2, <1>3, <1>4, PeersFrame, PayloadAcceptFrame, PayloadThreadFrame
    DEF Next, FinishController, vars, stream, StreamStill

(* Another message on a wire on which markers and objects alternate. *)
LEMMA PairAppend ==
  ASSUME NEW w \in Seq(ToTerminalMsg), NEW m \in ToTerminalMsg, NEW v, v = Append(w, m),
         \A k \in 1..Len(w) : /\ w[k] = Marker => ~ObjectOwed(w, k - 1)
                              /\ IsObject(w[k]) => ObjectOwed(w, k - 1),
         m = Marker => ~ObjectOwed(w, Len(w)),
         IsObject(m) => ObjectOwed(w, Len(w))
  PROVE  /\ \A k \in 1..Len(v) : /\ v[k] = Marker => ~ObjectOwed(v, k - 1)
                                 /\ IsObject(v[k]) => ObjectOwed(v, k - 1)
         /\ ObjectOwed(v, Len(v)) <=> m = Marker \/ (ObjectOwed(w, Len(w)) /\ ~IsObject(m))
  <1>1. /\ Len(w) \in Nat /\ Len(v) = Len(w) + 1 /\ v[Len(w) + 1] = m
        /\ \A k \in 1..Len(w) : v[k] = w[k]
    BY AppendProperties
  <1>2. Grows(w, v)
    BY <1>1 DEF Grows
  <1>3. \A n \in 0..Len(w) : ObjectOwed(v, n) <=> ObjectOwed(w, n)
    BY <1>1, <1>2, OwedGrows
  <1>4. ASSUME NEW k \in 1..Len(v)
        PROVE  /\ v[k] = Marker => ~ObjectOwed(v, k - 1)
               /\ IsObject(v[k]) => ObjectOwed(v, k - 1)
    <2>1. k - 1 \in 0..Len(w)
      BY <1>1
    <2>2. CASE k \in 1..Len(w)
      BY <1>1, <1>3, <2>1, <2>2
    <2>3. CASE k = Len(w) + 1
      <3>1. k - 1 = Len(w) /\ v[k] = m
        BY <1>1, <2>3
      <3> QED
        BY <1>3, <2>1, <3>1
    <2> QED
      BY <1>1, <2>2, <2>3
  <1>5. Len(w) \in 0..Len(w)
    BY <1>1
  <1> QED
    BY <1>1, <1>3, <1>4, <1>5, OwedNext

(* Every marker is flushed, once, before its object is written. *)
LEMMA PairStep ==
  ASSUME OneTerminal, IInv, ConnectionInv, PairInv, [Next]_vars PROVE PairInv'
  <1> SUFFICES ASSUME NEW t \in Terminals
      PROVE  /\ \A k \in 1..Len(toTerminal'[t]) :
                  /\ toTerminal'[t][k] = Marker => ~ObjectOwed(toTerminal'[t], k - 1)
                  /\ IsObject(toTerminal'[t][k]) => ObjectOwed(toTerminal'[t], k - 1)
             /\ ObjectOwed(toTerminal'[t], Len(toTerminal'[t])) <=> handler'[t].pc \in Owing
             /\ streamWriter'.buffered = IF handler'[t].pc = "flush" THEN 1 ELSE 0
             /\ handler'[t].pc = "writer" => streamSocket' = t
             /\ handler'[t].pc \in {"print", "flush"} => streamWriter'.to = t
    BY DEF PairInv
  <1> DEFINE w  == toTerminal[t]
             v  == toTerminal'[t]
             pc == handler[t].pc
             to == handler'[t].pc
  <1>0. /\ w \in Seq(ToTerminalMsg) /\ Len(w) \in Nat
        /\ v \in Seq(ToTerminalMsg) /\ Len(v) \in Nat
        /\ handler \in [Terminals -> HandlerType]
        /\ streamWriter \in [to : Terminals \cup {None}, buffered : Nat]
    <2>1. TypeOK /\ TypeOK'
      BY TypeStep DEF IInv
    <2>2. w \in Seq(ToTerminalMsg) /\ v \in Seq(ToTerminalMsg)
      BY <2>1 DEF TypeOK, TerminalWires
    <2> QED
      BY <2>1, <2>2, LenProperties DEF TypeOK, StreamType
  <1>1. /\ \A k \in 1..Len(w) : /\ w[k] = Marker => ~ObjectOwed(w, k - 1)
                                /\ IsObject(w[k]) => ObjectOwed(w, k - 1)
        /\ ObjectOwed(w, Len(w)) <=> pc \in Owing
        /\ streamWriter.buffered = IF pc = "flush" THEN 1 ELSE 0
        /\ pc = "writer" => streamSocket = t
        /\ pc \in {"print", "flush"} => streamWriter.to = t
    BY DEF PairInv
  <1>2. CASE \E u \in Terminals : EndWrite(u)
    <2>1. PICK u \in Terminals : EndWrite(u)
      BY <1>2
    <2>2. v = Append(w, ObjectOf(t)) /\ to = "scan" /\ pc = "writing"
      BY <2>1, ObjectWritten
    <2>3. IsObject(ObjectOf(t)) /\ ObjectOf(t) # Marker
      BY DEF ObjectOf, IsObject, Marker
    <2>4. ObjectOf(t) \in ToTerminalMsg
      BY <1>0, <2>2, AppendProperties, ElementOfSeq
    <2>5. streamWriter' = streamWriter
      BY <2>1 DEF EndWrite, stream
    <2> HIDE DEF w, v
    <2>6. /\ \A k \in 1..Len(v) : /\ v[k] = Marker => ~ObjectOwed(v, k - 1)
                                  /\ IsObject(v[k]) => ObjectOwed(v, k - 1)
          /\ ~ObjectOwed(v, Len(v))
      BY <1>0, <1>1, <2>2, <2>3, <2>4, PairAppend DEF Owing
    <2> QED
      BY <1>1, <2>2, <2>5, <2>6 DEF v, Owing
  <1>3. CASE \E u \in Terminals : FlushMarker(u)
    <2>1. v = Append(w, Marker) /\ pc = "flush" /\ to = "send" /\ streamWriter'.buffered = 0
      BY <1>3, MarkerWritten
    <2>2. Marker \in ToTerminalMsg /\ ~IsObject(Marker)
      BY DEF Marker, IsObject, Signal, ToTerminalMsg
    <2> HIDE DEF w, v
    <2>3. /\ \A k \in 1..Len(v) : /\ v[k] = Marker => ~ObjectOwed(v, k - 1)
                                  /\ IsObject(v[k]) => ObjectOwed(v, k - 1)
          /\ ObjectOwed(v, Len(v))
      BY <1>0, <1>1, <2>1, <2>2, PairAppend DEF Owing
    <2> QED
      BY <2>1, <2>3 DEF v, Owing
  <1>4. CASE \A u \in Terminals : ~FlushMarker(u) /\ ~EndWrite(u)
    <2>1. Grows(w, v)
      BY WireGrows
    <2>2. ASSUME NEW k \in 1..Len(v), k \notin 1..Len(w)
          PROVE  v[k] # Marker /\ ~IsObject(v[k])
      <3>1. WrittenBy(t, v[k])
        BY <2>2, WireGrows
      <3> QED
        BY <1>4, <3>1 DEF WrittenBy, Marker, IsObject
    <2> HIDE DEF w, v
    <2>3. ObjectOwed(v, Len(v)) <=> ObjectOwed(w, Len(w))
      BY <1>0, <2>1, <2>2, OwedStays
    <2>4. ASSUME NEW k \in 1..Len(v)
          PROVE  /\ v[k] = Marker => ~ObjectOwed(v, k - 1)
                 /\ IsObject(v[k]) => ObjectOwed(v, k - 1)
      <3>1. CASE k \in 1..Len(w)
        <4>1. v[k] = w[k] /\ k - 1 \in 0..Len(w)
          BY <1>0, <2>1, <3>1 DEF Grows
        <4>2. ObjectOwed(v, k - 1) <=> ObjectOwed(w, k - 1)
          BY <1>0, <2>1, <4>1, OwedGrows
        <4> QED
          BY <1>1, <3>1, <4>1, <4>2
      <3> QED
        BY <2>2, <3>1
    <2>5. PairMoves(t)
      BY <1>4, OnlyThreadMoves
    <2>6. /\ to \in Owing <=> pc \in Owing
          /\ streamWriter'.buffered = IF to = "flush" THEN 1 ELSE 0
          /\ to = "writer" => streamSocket' = t
          /\ to \in {"print", "flush"} => streamWriter'.to = t
      BY <1>0, <1>1, <2>5 DEF PairMoves, StreamStill, Resting, Owing
    <2> QED
      BY <1>1, <2>3, <2>4, <2>6 DEF v
  <1> QED
    BY <1>2, <1>3, <1>4

(* Markers and objects alternate in every state. *)
LEMMA PairInvariant ==
  ASSUME OneTerminal PROVE Spec => []PairInv
  <1>1. Init => PairInv
    BY DEF Init, PairInv, ObjectOwed, IdleHandler, Handler, Owing
  <1>2. IInv /\ ConnectionInv /\ PairInv /\ [Next]_vars => PairInv'
    BY PairStep
  <1> QED
    BY <1>1, <1>2, InductiveInvariant, StreamInvariant, PTL DEF Spec

(* A "PayloadUpdate" and the object behind it go over two streams, a       *)
(* PrintWriter and an ObjectOutputStream made for each other only by the   *)
(* order of the calls: with one terminal they still alternate on its wire. *)
THEOREM MarkersAndObjectsAlternate ==
  ASSUME OneTerminal PROVE Spec => []MarkersMatchObjects
  <1>1. PairInv => MarkersMatchObjects
    BY DEF PairInv, MarkersMatchObjects, IsObject
  <1> QED
    BY <1>1, PairInvariant, PTL

(* Behind a marker there are only updates and the second "@": a terminal   *)
(* that has been sent one has left getPName for good.                      *)
QuietInv ==
  \A t \in Terminals : \A k \in 1..Len(toTerminal[t]) :
    toTerminal[t][k] = Marker =>
      /\ handler[t].pc # "off"
      /\ \A i \in (k + 1)..Len(toTerminal[t]) :
           toTerminal[t][i] \in {Marker, Ack} \/ IsObject(toTerminal[t][i])

(* No step writes anything else behind a marker. *)
LEMMA QuietStep ==
  ASSUME OneTerminal, IInv, ConnectionInv, QuietInv, [Next]_vars PROVE QuietInv'
  <1> SUFFICES ASSUME NEW t \in Terminals, NEW k \in 1..Len(toTerminal'[t]),
                      toTerminal'[t][k] = Marker
      PROVE  /\ handler'[t].pc # "off"
             /\ \A i \in (k + 1)..Len(toTerminal'[t]) :
                  toTerminal'[t][i] \in {Marker, Ack} \/ IsObject(toTerminal'[t][i])
    BY DEF QuietInv, IsObject, Marker, Ack
  <1> DEFINE w == toTerminal[t]
             v == toTerminal'[t]
  <1>0. /\ w \in Seq(ToTerminalMsg) /\ Len(w) \in Nat
        /\ v \in Seq(ToTerminalMsg) /\ Len(v) \in Nat
    <2>1. TypeOK /\ TypeOK'
      BY TypeStep DEF IInv
    <2>2. w \in Seq(ToTerminalMsg) /\ v \in Seq(ToTerminalMsg)
      BY <2>1 DEF TypeOK, TerminalWires
    <2> QED
      BY <2>2, LenProperties
  <1>1. Grows(w, v) /\ \A i \in 1..Len(v) : i \in 1..Len(w) \/ WrittenBy(t, v[i])
    BY WireGrows
  <1>2. handler[t].pc # "off"
    <2>1. CASE k \in 1..Len(w)
      BY <1>1, <2>1 DEF QuietInv, Grows
    <2>2. CASE k \notin 1..Len(w)
      <3>1. PICK u \in Terminals : FlushMarker(u)
        BY <1>1, <2>2 DEF WrittenBy, Marker
      <3> QED
        BY <3>1 DEF OneTerminal, FlushMarker
    <2> QED
      BY <2>1, <2>2
  <1>3. handler'[t].pc # "off"
    BY <1>2, HandlerStays
  <1>4. ~Greeting(t) /\ ~(SendList /\ terminalAccept.sock = t)
    BY <1>2 DEF Greeting, SendList, ConnectionInv, Handshake
  <1>5. ASSUME NEW i \in (k + 1)..Len(v)
        PROVE  v[i] \in {Marker, Ack} \/ IsObject(v[i])
    <2>1. i \in 1..Len(v)
      BY <1>0
    <2>2. CASE i \in 1..Len(w)
      <3>1. /\ k \in 1..Len(w) /\ i \in (k + 1)..Len(w)
            /\ v[i] = w[i] /\ v[k] = w[k]
        BY <1>0, <1>1, <2>2 DEF Grows
      <3> QED
        BY <3>1 DEF QuietInv
    <2>3. CASE i \notin 1..Len(w)
      <3>1. v[i].tag \notin {"#", "Refresh", "list"}
        BY <1>1, <1>4, <2>1, <2>3 DEF WrittenBy
      <3>2. v[i] \in ToTerminalMsg
        BY <1>0, <2>1, ElementOfSeq
      <3> QED
        BY <3>1, <3>2, MessageKinds DEF IsObject
    <2> QED
      BY <2>2, <2>3
  <1> QED
    BY <1>3, <1>5

(* Nothing but updates and "@" is behind a marker in any state. *)
LEMMA QuietInvariant ==
  ASSUME OneTerminal PROVE Spec => []QuietInv
  <1>1. Init => QuietInv
    BY DEF Init, QuietInv
  <1>2. IInv /\ ConnectionInv /\ QuietInv /\ [Next]_vars => QuietInv'
    BY QuietStep
  <1> QED
    BY <1>1, <1>2, InductiveInvariant, StreamInvariant, PTL DEF Spec

-----------------------------------------------------------------------------
(* The objects on a wire. *)

(* A set that has 0, and with a number the next, has all of them. *)
LEMMA CountUp ==
  ASSUME NEW n \in Nat, NEW S, 0 \in S, \A k \in 0..(n - 1) : k \in S => k + 1 \in S
  PROVE  0..n \subseteq S
  <1> DEFINE R == {ss \in Nat \X Nat : ss[1] < ss[2]}
             T == (0..n) \ S
  <1>1. IsWellFoundedOn(R, Nat)
    BY NatLessThanWellFounded DEF OpToRel
  <1>2. SUFFICES ASSUME T # {} PROVE FALSE
    OBVIOUS
  <1> HIDE DEF R
  <1>3. PICK m \in T : \A k \in T : ~(<<k, m>> \in R)
    <2>1. T \subseteq Nat
      OBVIOUS
    <2> HIDE DEF T
    <2> QED
      BY <1>1, <1>2, <2>1, WFMin
  <1>4. m \in 1..n /\ m - 1 \in 0..(n - 1) /\ m \notin S /\ m - 1 < m
    BY <1>3
  <1>5. <<m - 1, m>> \in R
    BY <1>4 DEF R
  <1>6. m - 1 \in S
    BY <1>3, <1>4, <1>5
  <1>7. (m - 1) + 1 = m
    BY <1>4
  <1> QED
    BY <1>4, <1>6, <1>7

(* The function in the definition of ObjectsIn, for the first n messages. *)
Kept(s, m) == IF m.tag = "object" THEN Append(s, m) ELSE s

Sift(g, w, n) == g = [i \in 0..n |-> IF i = 0 THEN <<>> ELSE Kept(g[i - 1], w[i])]

(* There is such a function for every wire, and ObjectsIn is its last value. *)
LEMMA SiftExists ==
  ASSUME NEW w, Len(w) \in Nat
  PROVE  \E g : Sift(g, w, Len(w)) /\ ObjectsIn(w) = g[Len(w)]
  <1> DEFINE S == {n \in Nat : \E g : Sift(g, w, n)}
  <1>1. 0 \in S
    <2> DEFINE g == [i \in 0..0 |-> <<>>]
    <2>1. \A i \in 0..0 : i = 0
      OBVIOUS
    <2>2. g = [i \in 0..0 |-> IF i = 0 THEN <<>> ELSE Kept(g[i - 1], w[i])]
      BY <2>1, Zenon
    <2> QED
      BY <2>2 DEF Sift
  <1>2. ASSUME NEW k \in 0..(Len(w) - 1), k \in S PROVE k + 1 \in S
    <2>1. PICK g : Sift(g, w, k)
      BY <1>2
    <2> DEFINE h == [i \in 0..(k + 1) |-> IF i = k + 1 THEN Kept(g[k], w[k + 1]) ELSE g[i]]
    <2>2. ASSUME NEW i \in 0..(k + 1)
          PROVE  h[i] = IF i = 0 THEN <<>> ELSE Kept(h[i - 1], w[i])
      <3>1. CASE i = k + 1
        <4>1. i - 1 = k /\ k \in 0..(k + 1) /\ k # k + 1 /\ i # 0
          BY <3>1
        <4>2. h[i] = Kept(g[k], w[k + 1]) /\ h[i - 1] = g[k]
          BY <3>1, <4>1
        <4> QED
          BY <3>1, <4>1, <4>2
      <3>2. CASE i # k + 1 /\ i # 0
        <4>1. i \in 0..k /\ i - 1 \in 0..(k + 1) /\ i - 1 # k + 1
          BY <3>2
        <4>2. h[i] = g[i] /\ h[i - 1] = g[i - 1]
          BY <3>2, <4>1
        <4>3. g[i] = Kept(g[i - 1], w[i])
          BY <2>1, <3>2, <4>1 DEF Sift
        <4> QED
          BY <3>2, <4>2, <4>3
      <3>3. CASE i # k + 1 /\ i = 0
        <4>1. i \in 0..k /\ h[i] = g[i]
          BY <3>3
        <4> QED
          BY <2>1, <3>3, <4>1 DEF Sift
      <3> QED
        BY <3>1, <3>2, <3>3
    <2>3. Sift(h, w, k + 1)
      BY <2>2 DEF Sift
    <2> HIDE DEF h
    <2> QED
      BY <2>3
  <1>3. Len(w) \in S
    <2> HIDE DEF S
    <2>1. 0..Len(w) \subseteq S
      BY <1>1, <1>2, CountUp
    <2> QED
      BY <2>1
  <1>4. ObjectsIn(w) = (CHOOSE g : Sift(g, w, Len(w)))[Len(w)]
    BY DEF ObjectsIn, Sift, Kept
  <1> QED
    BY <1>3, <1>4

(* A longer wire is sifted alike in the part it shares. *)
LEMMA SiftGrows ==
  ASSUME NEW w, NEW v, NEW n \in Nat, NEW m \in Nat, NEW g, NEW h,
         Sift(g, w, n), Sift(h, v, m), n <= m, \A k \in 1..n : v[k] = w[k]
  PROVE  h[n] = g[n]
  <1> DEFINE S == {k \in 0..n : h[k] = g[k]}
  <1>1. 0 \in S
    BY DEF Sift
  <1>2. ASSUME NEW k \in 0..(n - 1), k \in S PROVE k + 1 \in S
    <2>1. /\ k + 1 \in 0..n /\ k + 1 \in 0..m /\ k + 1 # 0 /\ (k + 1) - 1 = k
          /\ k + 1 \in 1..n
      OBVIOUS
    <2>2. g[k + 1] = Kept(g[k], w[k + 1]) /\ h[k + 1] = Kept(h[k], v[k + 1])
      BY <2>1 DEF Sift
    <2> QED
      BY <1>2, <2>1, <2>2
  <1>3. 0..n \subseteq S
    <2> HIDE DEF S
    <2> QED
      BY <1>1, <1>2, CountUp
  <1> QED
    BY <1>3

(* Messages that are no objects add nothing. *)
LEMMA SiftStays ==
  ASSUME NEW v, NEW n \in Nat, NEW m \in Nat, NEW h, Sift(h, v, m), n <= m,
         \A k \in (n + 1)..m : v[k].tag # "object"
  PROVE  h[m] = h[n]
  <1> DEFINE S == {k \in Nat : n + k <= m => h[n + k] = h[n]}
  <1>1. 0 \in S
    OBVIOUS
  <1>2. ASSUME NEW k \in 0..((m - n) - 1), k \in S PROVE k + 1 \in S
    <2>1. /\ n + (k + 1) \in (n + 1)..m /\ n + (k + 1) \in 0..m /\ n + (k + 1) # 0
          /\ (n + (k + 1)) - 1 = n + k /\ n + k <= m
      OBVIOUS
    <2>2. h[n + (k + 1)] = Kept(h[n + k], v[n + (k + 1)])
      BY <2>1 DEF Sift
    <2> QED
      BY <1>2, <2>1, <2>2 DEF Kept
  <1>3. m - n \in S
    <2> HIDE DEF S
    <2>1. 0..(m - n) \subseteq S
      BY <1>1, <1>2, CountUp
    <2> QED
      BY <2>1
  <1> QED
    BY <1>3

(* What is kept are the objects of the wire, and all of them. *)
LEMMA SiftMembers ==
  ASSUME NEW w \in Seq(ToTerminalMsg), NEW g, Sift(g, w, Len(w))
  PROVE  /\ g[Len(w)] \in Seq(ToTerminalMsg)
         /\ \A k \in 1..Len(g[Len(w)]) : \E i \in 1..Len(w) : IsObject(w[i]) /\ g[Len(w)][k] = w[i]
         /\ \A i \in 1..Len(w) : IsObject(w[i]) => g[Len(w)] # <<>>
  <1> DEFINE Found(n) ==
               /\ g[n] \in Seq(ToTerminalMsg)
               /\ \A k \in 1..Len(g[n]) : \E i \in 1..n : IsObject(w[i]) /\ g[n][k] = w[i]
               /\ \A i \in 1..n : IsObject(w[i]) => g[n] # <<>>
             S == {n \in 0..Len(w) : Found(n)}
  <1>0. Len(w) \in Nat
    OBVIOUS
  <1>1. 0 \in S
    <2>1. g[0] = <<>>
      BY <1>0 DEF Sift
    <2>2. g[0] \in Seq(ToTerminalMsg) /\ 1..Len(g[0]) = {} /\ 1..0 = {}
      BY <2>1
    <2>3. Found(0)
      BY <2>2
    <2> HIDE DEF Found
    <2> QED
      BY <1>0, <2>3
  <1>2. ASSUME NEW n \in 0..(Len(w) - 1), Found(n) PROVE Found(n + 1)
    <2> DEFINE m == w[n + 1]
               s == g[n]
    <2>1. n + 1 \in 1..Len(w) /\ (n + 1) - 1 = n /\ n + 1 # 0 /\ n + 1 \in 0..Len(w)
      BY <1>0
    <2>2. g[n + 1] = Kept(s, m) /\ m \in ToTerminalMsg
      BY <2>1, ElementOfSeq DEF Sift
    <2>3. CASE ~IsObject(m)
      <3>1. g[n + 1] = s
        BY <2>2, <2>3 DEF Kept, IsObject
      <3>2. \A i \in 1..(n + 1) : IsObject(w[i]) => i \in 1..n
        BY <2>3
      <3>3. \A i \in 1..n : i \in 1..(n + 1)
        OBVIOUS
      <3> QED
        BY <1>2, <3>1, <3>2, <3>3
    <2>4. CASE IsObject(m)
      <3>1. g[n + 1] = Append(s, m) /\ s \in Seq(ToTerminalMsg)
        BY <1>2, <2>2, <2>4 DEF Kept, IsObject
      <3> HIDE DEF s, m
      <3>2. /\ Append(s, m) \in Seq(ToTerminalMsg) /\ Len(Append(s, m)) = Len(s) + 1
            /\ Append(s, m)[Len(s) + 1] = m /\ Len(s) \in Nat
            /\ \A k \in 1..Len(s) : Append(s, m)[k] = s[k]
        BY <2>2, <3>1, AppendProperties
      <3>3. g[n + 1] # <<>>
        BY <3>1, <3>2
      <3>4. ASSUME NEW k \in 1..Len(g[n + 1])
            PROVE  \E i \in 1..(n + 1) : IsObject(w[i]) /\ g[n + 1][k] = w[i]
        <4>1. CASE k \in 1..Len(s)
          <5>1. PICK i \in 1..n : IsObject(w[i]) /\ s[k] = w[i]
            BY <1>2, <4>1 DEF s
          <5>2. i \in 1..(n + 1)
            OBVIOUS
          <5> QED
            BY <3>1, <3>2, <4>1, <5>1, <5>2
        <4>2. CASE k = Len(s) + 1
          <5>1. n + 1 \in 1..(n + 1) /\ g[n + 1][k] = w[n + 1]
            BY <3>1, <3>2, <4>2 DEF m
          <5> QED
            BY <2>4, <5>1 DEF m
        <4> QED
          BY <3>1, <3>2, <4>1, <4>2
      <3> QED
        BY <3>1, <3>2, <3>3, <3>4
    <2> QED
      BY <2>3, <2>4
  <1>3. Len(w) \in S
    <2>1. \A n \in 0..(Len(w) - 1) : n \in S => n + 1 \in S
      <3> SUFFICES ASSUME NEW n \in 0..(Len(w) - 1), n \in S PROVE n + 1 \in S
        OBVIOUS
      <3>1. n + 1 \in 0..Len(w)
        BY <1>0
      <3>2. Found(n)
        OBVIOUS
      <3>3. Found(n + 1)
        BY <1>2, <3>2
      <3> QED
        BY <3>1, <3>3
    <2> HIDE DEF S
    <2>2. 0..Len(w) \subseteq S
      BY <1>0, <1>1, <2>1, CountUp
    <2> QED
      BY <1>0, <2>2
  <1> QED
    BY <1>3

(* ObjectsIn, on a wire and on one that is longer. *)
LEMMA ObjectsFound ==
  ASSUME NEW w \in Seq(ToTerminalMsg)
  PROVE  /\ ObjectsIn(w) \in Seq(ToTerminalMsg)
         /\ \A k \in 1..Len(ObjectsIn(w)) :
              \E i \in 1..Len(w) : IsObject(w[i]) /\ ObjectsIn(w)[k] = w[i]
         /\ \A i \in 1..Len(w) : IsObject(w[i]) => ObjectsIn(w) # <<>>
  <1>1. PICK g : Sift(g, w, Len(w)) /\ ObjectsIn(w) = g[Len(w)]
    BY SiftExists, LenProperties
  <1> QED
    BY <1>1, SiftMembers

(* A wire that grows by messages that are no objects has the same objects. *)
LEMMA ObjectsStay ==
  ASSUME NEW w, NEW v, Len(w) \in Nat, Len(v) \in Nat, Grows(w, v),
         \A k \in 1..Len(v) : k \in 1..Len(w) \/ ~IsObject(v[k])
  PROVE  ObjectsIn(v) = ObjectsIn(w)
  <1>1. PICK g : Sift(g, w, Len(w)) /\ ObjectsIn(w) = g[Len(w)]
    BY SiftExists
  <1>2. PICK h : Sift(h, v, Len(v)) /\ ObjectsIn(v) = h[Len(v)]
    BY SiftExists
  <1>3. h[Len(w)] = g[Len(w)]
    BY <1>1, <1>2, SiftGrows DEF Grows
  <1>4. h[Len(v)] = h[Len(w)]
    <2> DEFINE n == Len(w)
               m == Len(v)
    <2>1. /\ n \in Nat /\ m \in Nat /\ n <= m /\ Sift(h, v, m)
          /\ \A k \in (n + 1)..m : v[k].tag # "object"
      BY <1>2 DEF IsObject, Grows
    <2> HIDE DEF n, m
    <2>2. h[m] = h[n]
      BY <2>1, SiftStays
    <2> QED
      BY <2>2 DEF n, m
  <1> QED
    BY <1>1, <1>2, <1>3, <1>4

(* An object at the end of a wire is the last of its objects. *)
LEMMA ObjectsAppend ==
  ASSUME NEW w \in Seq(ToTerminalMsg), NEW m \in ToTerminalMsg, IsObject(m)
  PROVE  ObjectsIn(Append(w, m)) = Append(ObjectsIn(w), m)
  <1> DEFINE v == Append(w, m)
             n == Len(w)
  <1>1. /\ n \in Nat /\ Len(v) = n + 1 /\ v[n + 1] = m
        /\ \A k \in 1..n : v[k] = w[k]
    BY AppendProperties
  <1> HIDE DEF v
  <1>2. PICK g : Sift(g, w, n) /\ ObjectsIn(w) = g[n]
    BY <1>1, SiftExists
  <1>3. PICK h : Sift(h, v, n + 1) /\ ObjectsIn(v) = h[n + 1]
    BY <1>1, SiftExists
  <1> HIDE DEF n
  <1>4. h[n] = g[n]
    BY <1>1, <1>2, <1>3, SiftGrows
  <1>5. h[n + 1] = Kept(h[n], v[n + 1])
    <2>1. n + 1 \in 0..(n + 1) /\ n + 1 # 0 /\ (n + 1) - 1 = n
      BY <1>1
    <2> QED
      BY <1>3, <2>1 DEF Sift
  <1> QED
    BY <1>1, <1>2, <1>3, <1>4, <1>5 DEF Kept, IsObject, v

(* A step keeps every entry and adds at most one; one that does leaves the  *)
(* wires of the terminals alone.                                            *)
LEMMA VectorStep ==
  ASSUME IInv, [Next]_vars
  PROVE  \/ UNCHANGED payloadDataVector
         \/ /\ UNCHANGED toTerminal
            /\ \E p \in Payloads : \E e \in Seq(PayloadMsg) :
                 payloadDataVector' = [payloadDataVector EXCEPT ![p] = Append(@, e)]
  <1>1. ASSUME NEW p \in Payloads, StoreRecord(p)
        PROVE  \E e \in Seq(PayloadMsg) :
                 payloadDataVector' = [payloadDataVector EXCEPT ![p] = Append(@, e)]
    <2>1. fromPayload \in [Payloads -> Seq(PayloadMsg)]
      BY DEF IInv, TypeOK, PayloadWires
    <2>2. PICK n \in 1..Len(fromPayload[p]) :
            payloadDataVector' = [payloadDataVector EXCEPT ![p] =
                                    Append(@, Chunk(fromPayload[p], n))]
      BY <1>1 DEF StoreRecord
    <2>3. Chunk(fromPayload[p], n) \in Seq(PayloadMsg)
      BY <2>1, WireType
    <2> QED
      BY <2>2, <2>3
  <1>2. ASSUME NEW p \in Payloads, PayloadThread(p), ~UNCHANGED payloadDataVector
        PROVE  StoreRecord(p) /\ UNCHANGED toTerminal
    BY <1>2, PayloadThreadFrame DEF PayloadThread, DropPayloadChunk
  <1> QED
    BY <1>1, <1>2, PeersFrame, PayloadAcceptFrame, TerminalAcceptFrame, TerminalThreadFrame
    DEF Next, FinishController, vars

(* One object more on the only terminal's wire is one answer more. *)
LEMMA AnswerAdded ==
  ASSUME OneTerminal, IInv, OrderInv, NEW t \in Terminals, EndWrite(t)
  PROVE  LET p == handler[t].conn
             k == handler[t].at
         IN  /\ p \in Payloads /\ k \in 1..Len(payloadDataVector[p])
             /\ \A j \in 1..Len(Answers(t)) : Answers(t)[j].conn = p => Answers(t)[j].at <= k
             /\ Answers(t)' = Append(Answers(t), [conn |-> p, at |-> k])
  <1> DEFINE w == toTerminal[t]
             o == ObjectsIn(w)
             m == ObjectOf(t)
             p == handler[t].conn
             k == handler[t].at
  <1>1. Busy(t) /\ p \in Payloads /\ k \in 1..Len(payloadDataVector[p])
    BY DEF EndWrite, Busy, IInv, HandlerInv
  <1>2. toTerminal'[t] = Append(w, m)
    BY ObjectWritten
  <1>3. w \in Seq(ToTerminalMsg) /\ toTerminal'[t] \in Seq(ToTerminalMsg)
    <2>1. toTerminal' = [toTerminal EXCEPT ![t] = Append(@, m)]
      BY DEF OneTerminal, EndWrite, IInv, HandlerInv
    <2>2. [Next]_vars
      BY DEF Next, TerminalThread, Serve
    <2>3. TypeOK /\ TypeOK'
      BY <2>2, TypeStep DEF IInv
    <2> QED
      BY <2>3 DEF TypeOK, TerminalWires
  <1>4. m \in ToTerminalMsg /\ IsObject(m) /\ m.conn = p /\ m.at = k
    <2>1. IsObject(m) /\ m.conn = p /\ m.at = k
      BY DEF ObjectOf, IsObject
    <2> HIDE DEF m, w
    <2>2. Len(w) + 1 \in 1..Len(Append(w, m)) /\ Append(w, m)[Len(w) + 1] = m
      BY <1>3
    <2> QED
      BY <1>2, <1>3, <2>1, <2>2, ElementOfSeq
  <1>5. /\ o \in Seq(ToTerminalMsg)
        /\ \A j \in 1..Len(o) : \E i \in 1..Len(w) : IsObject(w[i]) /\ o[j] = w[i]
    BY <1>3, ObjectsFound
  <1>6. ObjectsIn(toTerminal'[t]) = Append(o, m)
    BY <1>2, <1>3, <1>4, ObjectsAppend
  <1>7. ASSUME NEW j \in 1..Len(Answers(t)), Answers(t)[j].conn = p
        PROVE  Answers(t)[j].at <= k
    <2>1. j \in 1..Len(o) /\ Answers(t)[j] = [conn |-> o[j].conn, at |-> o[j].at]
      BY <1>5 DEF Answers
    <2>2. PICK i \in 1..Len(w) : IsObject(w[i]) /\ o[j] = w[i]
      BY <1>5, <2>1
    <2> QED
      BY <1>1, <1>7, <2>1, <2>2 DEF OrderInv
  <1>8. Answers(t)' = Append(Answers(t), [conn |-> p, at |-> k])
    <2> DEFINE a == [j \in 1..Len(o) |-> [conn |-> o[j].conn, at |-> o[j].at]]
               x == [conn |-> p, at |-> k]
               q == Append(o, m)
               b == [j \in 1..Len(q) |-> [conn |-> q[j].conn, at |-> q[j].at]]
    <2>1. Answers(t) = a /\ Answers(t)' = b
      BY <1>6 DEF Answers
    <2>2. /\ Len(o) \in Nat /\ Len(q) = Len(o) + 1 /\ q[Len(o) + 1] = m
          /\ \A j \in 1..Len(o) : q[j] = o[j]
      <3> HIDE DEF o, m
      <3> QED
        BY <1>4, <1>5, AppendProperties
    <2> HIDE DEF o, m, q
    <2>3. Len(a) = Len(o) /\ Append(a, x) = [j \in 1..(Len(o) + 1) |-> IF j = Len(o) + 1 THEN x ELSE a[j]]
      BY <2>2
    <2>4. b = Append(a, x)
      <3>1. ASSUME NEW j \in 1..(Len(o) + 1)
            PROVE  b[j] = IF j = Len(o) + 1 THEN x ELSE a[j]
        BY <1>4, <2>2
      <3> HIDE DEF a, x
      <3> QED
        BY <2>2, <2>3, <3>1
    <2> QED
      BY <2>1, <2>4
  <1> QED
    BY <1>1, <1>7, <1>8

(* Every step of the server is one of UpdateService, or invisible to it.   *)
LEMMA ServiceStep ==
  ASSUME OneTerminal, IInv, OrderInv, [Next]_vars
  PROVE  [Service!Next]_(Service!vars)
  <1> DEFINE kept == [p \in Payloads |-> Len(payloadDataVector[p])]
             answers == [t \in Terminals |-> Answers(t)]
  <1>0. payloadDataVector \in [Payloads -> Seq(Seq(PayloadMsg))]
    BY DEF IInv, TypeOK, PayloadType
  <1>1. ASSUME NEW t \in Terminals, EndWrite(t)
        PROVE  \E c \in Terminals, p \in Payloads :
                 \E k \in 1..kept[p] : Service!Hand(c, p, k)
    <2> DEFINE p == handler[t].conn
               k == handler[t].at
    <2>1. /\ p \in Payloads /\ k \in 1..Len(payloadDataVector[p])
          /\ \A j \in 1..Len(Answers(t)) : Answers(t)[j].conn = p => Answers(t)[j].at <= k
          /\ Answers(t)' = Append(Answers(t), [conn |-> p, at |-> k])
      BY <1>1, AnswerAdded
    <2>2. UNCHANGED payloadDataVector
      BY <1>1 DEF EndWrite, HandlerUnchanged
    <2>3. Terminals = {t}
      BY DEF OneTerminal
    <2> HIDE DEF p, k
    <2>4. answers' = [answers EXCEPT ![t] = Append(@, [conn |-> p, at |-> k])]
      BY <2>1, <2>3
    <2>5. kept' = kept /\ kept[p] = Len(payloadDataVector[p])
      BY <2>1, <2>2
    <2>6. Service!Hand(t, p, k)
      BY <2>1, <2>4, <2>5 DEF Service!Hand
    <2> QED
      BY <2>1, <2>5, <2>6
  <1>2. CASE \A t \in Terminals : ~EndWrite(t)
    <2>1. ASSUME NEW t \in Terminals PROVE Answers(t)' = Answers(t)
      <3> DEFINE w == toTerminal[t]
                 v == toTerminal'[t]
      <3>1. Len(w) \in Nat /\ Len(v) \in Nat
        <4>1. TypeOK /\ TypeOK'
          BY TypeStep DEF IInv
        <4>2. w \in Seq(ToTerminalMsg) /\ v \in Seq(ToTerminalMsg)
          BY <4>1 DEF TypeOK, TerminalWires
        <4> QED
          BY <4>2, LenProperties
      <3>2. Grows(w, v) /\ \A i \in 1..Len(v) : i \in 1..Len(w) \/ WrittenBy(t, v[i])
        BY WireGrows
      <3>3. \A i \in 1..Len(v) : i \in 1..Len(w) \/ ~IsObject(v[i])
        BY <1>2, <3>2 DEF WrittenBy, IsObject
      <3> HIDE DEF w, v
      <3>4. ObjectsIn(v) = ObjectsIn(w)
        BY <3>1, <3>2, <3>3, ObjectsStay
      <3> QED
        BY <3>4 DEF Answers, w, v
    <2>2. answers' = answers
      BY <2>1
    <2>3. CASE UNCHANGED payloadDataVector
      <3>1. kept' = kept
        BY <2>3
      <3> QED
        BY <2>2, <3>1 DEF Service!vars
    <2>4. ASSUME NEW p \in Payloads, NEW e \in Seq(PayloadMsg),
                 payloadDataVector' = [payloadDataVector EXCEPT ![p] = Append(@, e)]
          PROVE  Service!Keep(p)
      <3>1. ASSUME NEW q \in Payloads
            PROVE  Len(payloadDataVector'[q]) =
                     IF q = p THEN Len(payloadDataVector[q]) + 1 ELSE Len(payloadDataVector[q])
        BY <1>0, <2>4, AppendProperties
      <3>2. kept' = [kept EXCEPT ![p] = @ + 1]
        BY <3>1
      <3> QED
        BY <2>2, <3>2 DEF Service!Keep
    <2> QED
      BY <2>3, <2>4, VectorStep DEF Service!Next
  <1> QED
    BY <1>1, <1>2 DEF Service!Next

(* With one terminal the server implements UpdateService: it keeps every   *)
(* entry, and what it writes to the terminal are entries it has kept, never *)
(* an older one of a payload behind a newer one.                            *)
THEOREM ServerKeepsThePromise ==
  ASSUME OneTerminal PROVE Spec => KeepsThePromise
  <1>1. Init => Service!Init
    <2> SUFFICES ASSUME Init PROVE Service!Init
      OBVIOUS
    <2>1. ASSUME NEW t \in Terminals PROVE Answers(t) = <<>>
      <3>1. toTerminal[t] = <<>>
        BY DEF Init
      <3>2. <<>> \in Seq(ToTerminalMsg) /\ 1..Len(<<>>) = {}
        OBVIOUS
      <3>3. /\ ObjectsIn(<<>>) \in Seq(ToTerminalMsg)
            /\ \A k \in 1..Len(ObjectsIn(<<>>)) : FALSE
        BY <3>2, ObjectsFound
      <3>4. Len(ObjectsIn(<<>>)) = 0
        BY <3>3, LenProperties
      <3> QED
        BY <3>1, <3>4 DEF Answers
    <2>2. payloadDataVector = [p \in Payloads |-> <<>>]
      BY DEF Init
    <2> QED
      BY <2>1, <2>2 DEF Service!Init
  <1>2. IInv /\ OrderInv /\ [Next]_vars => [Service!Next]_(Service!vars)
    BY ServiceStep
  <1> QED
    BY <1>1, <1>2, InductiveInvariant, OrderInvariant, PTL
    DEF Spec, KeepsThePromise, Service!Spec
=============================================================================
