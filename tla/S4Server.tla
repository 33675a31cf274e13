------------------------------ MODULE S4Server ------------------------------
(***************************************************************************)
(* The ground-station server: the two accept threads (payloads on port     *)
(* 2000, terminals on port 2001), one PayloadDataController thread per     *)
(* payload connection, one TerminalDataController thread per terminal, and *)
(* the state they share through the Controller.  No lock protects any of   *)
(* it, so every Java statement that touches shared state is an action.     *)
(*                                                                         *)
(* A wire is the sequence of the messages written to it and not read yet;  *)
(* one message stands for one write.  StreamIn takes whatever has arrived, *)
(* so a reader consumes any non-empty prefix of the wire as one chunk.     *)
(* What the server has written is kept whole (toPayload, toTerminal): the  *)
(* peers are the environment here and their reads need no state.           *)
(***************************************************************************)
EXTENDS Integers, Sequences

CONSTANTS
  Payloads,      \* connections made by payloads (a reconnect is a new one)
  Terminals,     \* connections made by terminals
  Names,         \* device names configured in the payloads
  NameOf,        \* NameOf[p]: the name the device behind p announces
  None,          \* null
  EarlyPeers,    \* may a peer connect before Controller's constructor is done
  MaxPings,      \* bound: "#" sent in one handshake
  MaxAnnounce,   \* bound: names and "open" lines of one payload connection
  MaxRecords,    \* bound: telemetry records of one payload connection
  MaxRefresh,    \* bound: "Refresh" sent by one terminal
  MaxWrites      \* bound: what one terminal writes after its handshake

ASSUME ServerAssumption ==
  /\ NameOf \in [Payloads -> Names]
  /\ None \notin Payloads /\ None \notin Terminals
  /\ EarlyPeers \in BOOLEAN
  /\ {MaxPings, MaxAnnounce, MaxRecords, MaxRefresh, MaxWrites} \subseteq Nat

-----------------------------------------------------------------------------
(* Messages.  A chunk of several messages is one string to the code, which *)
(* strips the first prefix and takes all the rest for the name: NameIn.    *)

PayloadMsg == [tag : {"DeviceName"}, name : Names] \cup [tag : {"record"}, n : Nat]
                \cup [tag : {"open"}]

DeviceNames == Names \cup Seq(PayloadMsg)

ASSUME NullIsNoName == None \notin DeviceNames

TerminalMsg == [tag : {"Refresh", "text"}]
                 \cup [tag : {"DeviceName", "request"}, name : DeviceNames]

WantedNames == DeviceNames \cup Seq(TerminalMsg)

NameIn(chunk) == IF Len(chunk) = 1 THEN chunk[1].name ELSE chunk

Signal == [tag : {"#", "@", "Refresh", "PayloadUpdate"}]

ListMsg == [tag : {"list"}, names : Seq(DeviceNames)]

(* A serialized PayloadData: entry `at` of connection `conn`.  The other   *)
(* fields are history: who asked, for what name, how many entries conn had *)
(* when the request was read, whether another write was interleaved.       *)
ObjectMsg == [tag : {"object"}, conn : Payloads, at : Nat, asker : Terminals,
              name : WantedNames, since : Nat, mixed : BOOLEAN]

ToTerminalMsg == Signal \cup ListMsg \cup ObjectMsg

Ack    == [tag |-> "@"]
Ping   == [tag |-> "#"]
Marker == [tag |-> "PayloadUpdate"]

-----------------------------------------------------------------------------
VARIABLES
  ready,             \* Controller's constructor has made the shared objects
  payloadList, payloadDataList, payloadListVector,
  dataListSet,       \* controller.payloadDataList is no longer null
  objectOutputStream,\* the shared stream: the terminal it writes to, or None
  streamSocket,      \* streamOut.socket of the shared SendStreamOut
  streamWriter,      \* streamOut.out: where it writes, and what it buffers
  deviceName,        \* name of each payload connection, None before getPName
  payloadDataVector, \* entries of each PayloadDataController
  payloadQueue, payloadAccept,    \* backlog and thread of port 2000
  terminalQueue, terminalAccept,  \* backlog and thread of port 2001
  serving,           \* payload connections whose thread has been started
  handler,           \* the TerminalDataController threads
  fromPayload, toPayload, fromTerminal, toTerminal,    \* the wires
  announced, recorded, refreshed, chosen, written    \* the environment

shared == <<payloadList, payloadDataList, payloadListVector, dataListSet>>
stream == <<objectOutputStream, streamSocket, streamWriter>>
accept == <<payloadQueue, payloadAccept, terminalQueue, terminalAccept>>
wires  == <<fromPayload, toPayload, fromTerminal, toTerminal>>
peers  == <<announced, recorded, refreshed, chosen, written>>

vars == <<ready, shared, stream, deviceName, payloadDataVector, accept,
          serving, handler, wires, peers>>

Handler(pc, want, i, since) ==
  [pc |-> pc, want |-> want, i |-> i, since |-> since,
   conn |-> None, at |-> 0, mixed |-> FALSE, oos |-> None]

IdleHandler(pc) == Handler(pc, None, 1, [p \in Payloads |-> 0])

Init ==
  /\ ready = FALSE
  /\ payloadList = <<>> /\ payloadDataList = <<>> /\ payloadListVector = <<>>
  /\ dataListSet = FALSE
  /\ objectOutputStream = None
  /\ streamSocket = None
  /\ streamWriter = [to |-> None, buffered |-> 0]
  /\ deviceName = [p \in Payloads |-> None]
  /\ payloadDataVector = [p \in Payloads |-> <<>>]
  /\ payloadQueue = <<>> /\ terminalQueue = <<>>
  /\ payloadAccept = [pc |-> "accept", sock |-> None, pings |-> 0]
  /\ terminalAccept = [pc |-> "accept", sock |-> None, list |-> FALSE, pings |-> 0,
                       oos |-> None]
  /\ serving = {}
  /\ handler = [t \in Terminals |-> IdleHandler("off")]
  /\ fromPayload = [p \in Payloads |-> <<>>]
  /\ toPayload = [p \in Payloads |-> <<>>]
  /\ fromTerminal = [t \in Terminals |-> <<>>]
  /\ toTerminal = [t \in Terminals |-> <<>>]
  /\ announced = [p \in Payloads |-> 0]
  /\ recorded = [p \in Payloads |-> 0]
  /\ refreshed = [t \in Terminals |-> 0]
  /\ chosen = [t \in Terminals |-> None]
  /\ written = [t \in Terminals |-> 0]

Members(s) == {s[k] : k \in 1..Len(s)}
Has(s, tag) == \E k \in 1..Len(s) : s[k].tag = tag

-----------------------------------------------------------------------------
(* The peers (environment).  Until it has read "@" a device announces its  *)
(* name, on a timer or for every "#" (emulator, sketch), and the sketch    *)
(* writes "open" to its radio, which hands it on once it is connected;     *)
(* then it writes whole records.  A terminal sends "Refresh" when it     *)
(* connects and on the Refresh button, "DeviceName" with a name of a list  *)
(* it was sent when the user presses Connect, and update requests for that *)
(* name, or text the user types, once it has been sent "@".                *)

MayConnect == ready \/ EarlyPeers

PayloadConnected(p) ==
  \/ p \in Members(payloadQueue)
  \/ payloadAccept.sock = p
  \/ deviceName[p] # None

ConnectPayload(p) ==
  /\ MayConnect /\ ~PayloadConnected(p)
  /\ payloadQueue' = Append(payloadQueue, p)
  /\ UNCHANGED <<ready, shared, stream, deviceName, payloadDataVector,
                 payloadAccept, terminalQueue, terminalAccept, serving, handler,
                 wires, peers>>

Announce(p) ==
  /\ PayloadConnected(p) /\ recorded[p] = 0 /\ announced[p] < MaxAnnounce
  /\ announced' = [announced EXCEPT ![p] = @ + 1]
  /\ fromPayload' = [fromPayload EXCEPT ![p] =
                       Append(@, [tag |-> "DeviceName", name |-> NameOf[p]])]
  /\ UNCHANGED <<ready, shared, stream, deviceName, payloadDataVector, accept,
                 serving, handler, toPayload, fromTerminal, toTerminal,
                 recorded, refreshed, chosen, written>>

OpenLink(p) ==
  /\ PayloadConnected(p) /\ recorded[p] = 0 /\ announced[p] < MaxAnnounce
  /\ announced' = [announced EXCEPT ![p] = @ + 1]
  /\ fromPayload' = [fromPayload EXCEPT ![p] = Append(@, [tag |-> "open"])]
  /\ UNCHANGED <<ready, shared, stream, deviceName, payloadDataVector, accept,
                 serving, handler, toPayload, fromTerminal, toTerminal,
                 recorded, refreshed, chosen, written>>

SendRecord(p) ==
  /\ Has(toPayload[p], "@") /\ recorded[p] < MaxRecords
  /\ recorded' = [recorded EXCEPT ![p] = @ + 1]
  /\ fromPayload' = [fromPayload EXCEPT ![p] =
                       Append(@, [tag |-> "record", n |-> recorded[p] + 1])]
  /\ UNCHANGED <<ready, shared, stream, deviceName, payloadDataVector, accept,
                 serving, handler, toPayload, fromTerminal, toTerminal,
                 announced, refreshed, chosen, written>>

TerminalConnected(t) ==
  \/ t \in Members(terminalQueue)
  \/ terminalAccept.sock = t
  \/ handler[t].pc # "off"

TerminalSends(t, msg) == fromTerminal' = [fromTerminal EXCEPT ![t] = Append(@, msg)]

ConnectTerminal(t) ==
  /\ MayConnect /\ ~TerminalConnected(t)
  /\ terminalQueue' = Append(terminalQueue, t)
  /\ refreshed' = [refreshed EXCEPT ![t] = 1]
  /\ TerminalSends(t, [tag |-> "Refresh"])
  /\ UNCHANGED <<ready, shared, stream, deviceName, payloadDataVector,
                 payloadQueue, payloadAccept, terminalAccept, serving, handler,
                 fromPayload, toPayload, toTerminal,
                 announced, recorded, chosen, written>>

PressRefresh(t) ==
  /\ TerminalConnected(t) /\ chosen[t] = None /\ refreshed[t] < MaxRefresh
  /\ refreshed' = [refreshed EXCEPT ![t] = @ + 1]
  /\ TerminalSends(t, [tag |-> "Refresh"])
  /\ UNCHANGED <<ready, shared, stream, deviceName, payloadDataVector, accept,
                 serving, handler, fromPayload, toPayload, toTerminal,
                 announced, recorded, chosen, written>>

ListsSent(t) == {m \in Members(toTerminal[t]) : m.tag = "list"}

PressConnect(t) ==
  /\ chosen[t] = None
  /\ \E list \in ListsSent(t) : \E k \in 1..Len(list.names) :
       /\ chosen' = [chosen EXCEPT ![t] = list.names[k]]
       /\ TerminalSends(t, [tag |-> "DeviceName", name |-> list.names[k]])
  /\ UNCHANGED <<ready, shared, stream, deviceName, payloadDataVector, accept,
                 serving, handler, fromPayload, toPayload, toTerminal,
                 announced, recorded, refreshed, written>>

RequestUpdate(t) ==
  /\ chosen[t] # None /\ Has(toTerminal[t], "@") /\ written[t] < MaxWrites
  /\ written' = [written EXCEPT ![t] = @ + 1]
  /\ TerminalSends(t, [tag |-> "request", name |-> chosen[t]])
  /\ UNCHANGED <<ready, shared, stream, deviceName, payloadDataVector, accept,
                 serving, handler, fromPayload, toPayload, toTerminal,
                 announced, recorded, refreshed, chosen>>

SendText(t) ==
  /\ chosen[t] # None /\ Has(toTerminal[t], "@") /\ written[t] < MaxWrites
  /\ written' = [written EXCEPT ![t] = @ + 1]
  /\ TerminalSends(t, [tag |-> "text"])
  /\ UNCHANGED <<ready, shared, stream, deviceName, payloadDataVector, accept,
                 serving, handler, fromPayload, toPayload, toTerminal,
                 announced, recorded, refreshed, chosen>>

-----------------------------------------------------------------------------
(* Reading a wire: any non-empty prefix is what StreamIn returns. *)

Chunk(wire, n) == SubSeq(wire, 1, n)
Rest(wire, n)  == SubSeq(wire, n + 1, Len(wire))

(* The rest of Controller's constructor, after the accept threads started. *)
FinishController ==
  /\ ~ready
  /\ ready' = TRUE
  /\ UNCHANGED <<shared, stream, deviceName, payloadDataVector, accept, serving,
                 handler, wires, peers>>

-----------------------------------------------------------------------------
(* ConnectPayloadSocket: accept, getPName, attachPayload. *)

AcceptPayload ==
  /\ payloadAccept.pc = "accept" /\ payloadQueue # <<>>
  /\ payloadQueue' = Tail(payloadQueue)
  /\ payloadAccept' = [pc |-> "getPName", sock |-> Head(payloadQueue), pings |-> 0]
  /\ UNCHANGED <<ready, shared, stream, deviceName, payloadDataVector,
                 terminalQueue, terminalAccept, serving, handler, wires, peers>>

PingPayload ==
  /\ payloadAccept.pc = "getPName" /\ payloadAccept.pings < MaxPings
  /\ payloadAccept' = [payloadAccept EXCEPT !.pings = @ + 1]
  /\ toPayload' = [toPayload EXCEPT ![payloadAccept.sock] = Append(@, Ping)]
  /\ UNCHANGED <<ready, shared, stream, deviceName, payloadDataVector,
                 payloadQueue, terminalQueue, terminalAccept, serving, handler,
                 fromPayload, fromTerminal, toTerminal, peers>>

(* A chunk that does not start with a name is dropped, and a name behind   *)
(* an "open" with it.                                                      *)
SkipGreeting ==
  LET p == payloadAccept.sock IN
  /\ payloadAccept.pc = "getPName"
  /\ \E n \in 1..Len(fromPayload[p]) :
       /\ fromPayload[p][1].tag # "DeviceName"
       /\ fromPayload' = [fromPayload EXCEPT ![p] = Rest(@, n)]
  /\ UNCHANGED <<ready, shared, stream, deviceName, payloadDataVector, accept,
                 serving, handler, toPayload, fromTerminal, toTerminal, peers>>

(* The ping timer is still read after the name has been found.             *)
ReadPayloadName ==
  LET p == payloadAccept.sock IN
  /\ payloadAccept.pc = "getPName"
  /\ \E n \in 1..Len(fromPayload[p]) :
       /\ fromPayload[p][1].tag = "DeviceName"
       /\ deviceName' = [deviceName EXCEPT ![p] = NameIn(Chunk(fromPayload[p], n))]
       /\ fromPayload' = [fromPayload EXCEPT ![p] = Rest(@, n)]
  /\ payloadAccept' = [payloadAccept EXCEPT !.pc = "add"]
  /\ \/ toPayload' = [toPayload EXCEPT ![p] = Append(@, Ack)]
     \/ /\ payloadAccept.pings < MaxPings
        /\ toPayload' = [toPayload EXCEPT ![p] = @ \o <<Ack, Ping>>]
  /\ UNCHANGED <<ready, shared, stream, payloadDataVector, payloadQueue,
                 terminalQueue, terminalAccept, serving, handler,
                 fromTerminal, toTerminal, peers>>

AddPayload ==
  /\ payloadAccept.pc = "add"
  /\ payloadList' = Append(payloadList, payloadAccept.sock)
  /\ payloadAccept' = [payloadAccept EXCEPT !.pc = "start"]
  /\ UNCHANGED <<ready, payloadDataList, payloadListVector, dataListSet, stream,
                 deviceName, payloadDataVector, payloadQueue, terminalQueue,
                 terminalAccept, serving, handler, wires, peers>>

StartPayload ==
  /\ payloadAccept.pc = "start"
  /\ serving' = serving \cup {payloadAccept.sock}
  /\ payloadAccept' = [payloadAccept EXCEPT !.pc = "addData"]
  /\ UNCHANGED <<ready, shared, stream, deviceName, payloadDataVector,
                 payloadQueue, terminalQueue, terminalAccept, handler, wires,
                 peers>>

(* Mutant of AddDataController: the newest payload goes to the front.      *)
AddDataControllerFirst ==
  /\ payloadAccept.pc = "addData"
  /\ payloadDataList' = <<payloadAccept.sock>> \o payloadDataList
  /\ payloadAccept' = [payloadAccept EXCEPT !.pc = "setLists"]
  /\ UNCHANGED <<ready, payloadList, payloadListVector, dataListSet, stream,
                 deviceName, payloadDataVector, payloadQueue, terminalQueue,
                 terminalAccept, serving, handler, wires, peers>>

AddDataController ==
  /\ payloadAccept.pc = "addData"
  /\ payloadDataList' = Append(payloadDataList, payloadAccept.sock)
  /\ payloadAccept' = [payloadAccept EXCEPT !.pc = "setLists"]
  /\ UNCHANGED <<ready, payloadList, payloadListVector, dataListSet, stream,
                 deviceName, payloadDataVector, payloadQueue, terminalQueue,
                 terminalAccept, serving, handler, wires, peers>>

(* Mutants of SetLists: without the first assignment, without the rest.    *)
SetListsForgetful ==
  /\ payloadAccept.pc = "setLists"
  /\ payloadAccept' = [payloadAccept EXCEPT !.pc = "list"]
  /\ UNCHANGED <<ready, shared, stream, deviceName, payloadDataVector, payloadQueue,
                 terminalQueue, terminalAccept, serving, handler, wires, peers>>

SetListsReturns ==
  /\ payloadAccept.pc = "setLists"
  /\ dataListSet' = TRUE
  /\ payloadAccept' = [payloadAccept EXCEPT !.pc = "accept", !.sock = None]
  /\ UNCHANGED <<ready, payloadList, payloadDataList, payloadListVector, stream,
                 deviceName, payloadDataVector, payloadQueue, terminalQueue,
                 terminalAccept, serving, handler, wires, peers>>

(* UPDatePayloadList, in two steps: it stores the vectors in the Controller *)
(* (from then on the threads see them), then extends the list for terminals *)
(* with the name of the last payload.  Before the constructor has made that *)
(* list the second step throws and the accept thread is gone.               *)
SetLists ==
  /\ payloadAccept.pc = "setLists"
  /\ dataListSet' = TRUE
  /\ payloadAccept' = [payloadAccept EXCEPT !.pc = "list"]
  /\ UNCHANGED <<ready, payloadList, payloadDataList, payloadListVector, stream,
                 deviceName, payloadDataVector, payloadQueue, terminalQueue,
                 terminalAccept, serving, handler, wires, peers>>

LastPayload == payloadList[Len(payloadList)]

ListPayload ==
  /\ payloadAccept.pc = "list" /\ ready
  /\ payloadListVector' =
       Append(payloadListVector, deviceName[LastPayload])
  /\ payloadAccept' = [payloadAccept EXCEPT !.pc = "accept", !.sock = None]
  /\ UNCHANGED <<ready, payloadList, payloadDataList, dataListSet, stream,
                 deviceName, payloadDataVector, payloadQueue, terminalQueue,
                 terminalAccept, serving, handler, wires, peers>>

ListPayloadThrows ==
  /\ payloadAccept.pc = "list" /\ ~ready
  /\ payloadAccept' = [payloadAccept EXCEPT !.pc = "dead"]
  /\ UNCHANGED <<ready, shared, stream, deviceName, payloadDataVector,
                 payloadQueue, terminalQueue, terminalAccept, serving, handler,
                 wires, peers>>

PayloadAcceptThread ==
  \/ AcceptPayload \/ PingPayload \/ SkipGreeting \/ ReadPayloadName \/ AddPayload
  \/ StartPayload
  \/ AddDataController \/ SetLists \/ ListPayload \/ ListPayloadThrows

-----------------------------------------------------------------------------
(* PayloadDataController.run: a chunk that starts with a record becomes one *)
(* entry, whatever was coalesced behind it; any other chunk is dropped.     *)

StoreRecord(p) ==
  /\ p \in serving
  /\ \E n \in 1..Len(fromPayload[p]) :
       /\ fromPayload[p][1].tag = "record"
       /\ payloadDataVector' = [payloadDataVector EXCEPT ![p] =
                                  Append(@, Chunk(fromPayload[p], n))]
       /\ fromPayload' = [fromPayload EXCEPT ![p] = Rest(@, n)]
  /\ UNCHANGED <<ready, shared, stream, deviceName, accept, serving, handler,
                 toPayload, fromTerminal, toTerminal, peers>>

DropPayloadChunk(p) ==
  /\ p \in serving
  /\ \E n \in 1..Len(fromPayload[p]) :
       /\ fromPayload[p][1].tag # "record"
       /\ fromPayload' = [fromPayload EXCEPT ![p] = Rest(@, n)]
  /\ UNCHANGED <<ready, shared, stream, deviceName, payloadDataVector, accept,
                 serving, handler, toPayload, fromTerminal, toTerminal, peers>>

PayloadThread(p) == StoreRecord(p) \/ DropPayloadChunk(p)

-----------------------------------------------------------------------------
(* ConnectTerminalSocket: accept, getPName, attachTerminal. *)

AcceptTerminal ==
  /\ terminalAccept.pc = "accept" /\ terminalQueue # <<>>
  /\ terminalQueue' = Tail(terminalQueue)
  /\ terminalAccept' = [pc |-> "getPName", sock |-> Head(terminalQueue),
                        list |-> ready, pings |-> 0, oos |-> None]
  /\ UNCHANGED <<ready, shared, stream, deviceName, payloadDataVector,
                 payloadQueue, payloadAccept, serving, handler, wires, peers>>

PingTerminal ==
  /\ terminalAccept.pc = "getPName" /\ terminalAccept.pings < MaxPings
  /\ terminalAccept' = [terminalAccept EXCEPT !.pings = @ + 1]
  /\ toTerminal' = [toTerminal EXCEPT ![terminalAccept.sock] = Append(@, Ping)]
  /\ UNCHANGED <<ready, shared, stream, deviceName, payloadDataVector,
                 payloadQueue, payloadAccept, terminalQueue, serving, handler,
                 fromPayload, toPayload, fromTerminal, peers>>

(* Mutant of AnswerRefresh: a name is answered with another list.          *)
AnswerAnything ==
  LET t == terminalAccept.sock IN
  /\ terminalAccept.pc = "getPName"
  /\ \E n \in 1..Len(fromTerminal[t]) :
       fromTerminal' = [fromTerminal EXCEPT ![t] = Rest(@, n)]
  /\ toTerminal' = [toTerminal EXCEPT ![t] = Append(@, [tag |-> "Refresh"])]
  /\ terminalAccept' = [terminalAccept EXCEPT !.pc = "sendList"]
  /\ UNCHANGED <<ready, shared, stream, deviceName, payloadDataVector,
                 payloadQueue, payloadAccept, terminalQueue, serving, handler,
                 fromPayload, toPayload, peers>>

(* Mutant of AnswerRefresh: the accept thread writes on the SendStreamOut   *)
(* all terminals' threads share, not on one of its own.                    *)
AnswerOnShared ==
  LET t == terminalAccept.sock IN
  /\ terminalAccept.pc = "getPName"
  /\ \E n \in 1..Len(fromTerminal[t]) :
       /\ fromTerminal[t][1].tag = "Refresh"
       /\ fromTerminal' = [fromTerminal EXCEPT ![t] = Rest(@, n)]
  /\ toTerminal' = [toTerminal EXCEPT ![t] = Append(@, [tag |-> "Refresh"])]
  /\ streamSocket' = t /\ streamWriter' = [to |-> t, buffered |-> 0]
  /\ terminalAccept' = [terminalAccept EXCEPT !.pc = "sendList"]
  /\ UNCHANGED <<ready, shared, objectOutputStream, deviceName, payloadDataVector,
                 payloadQueue, payloadAccept, terminalQueue, serving, handler,
                 fromPayload, toPayload, peers>>

(* "Refresh" is answered in two writes, this one and SendList.             *)
AnswerRefresh ==
  LET t == terminalAccept.sock IN
  /\ terminalAccept.pc = "getPName"
  /\ \E n \in 1..Len(fromTerminal[t]) :
       /\ fromTerminal[t][1].tag = "Refresh"
       /\ fromTerminal' = [fromTerminal EXCEPT ![t] = Rest(@, n)]
  /\ toTerminal' = [toTerminal EXCEPT ![t] = Append(@, [tag |-> "Refresh"])]
  /\ terminalAccept' = [terminalAccept EXCEPT !.pc = "sendList"]
  /\ UNCHANGED <<ready, shared, stream, deviceName, payloadDataVector,
                 payloadQueue, payloadAccept, terminalQueue, serving, handler,
                 fromPayload, toPayload, peers>>

(* The list as it is now, which may be longer than when "Refresh" was      *)
(* read, in a new ObjectOutputStream, whose header is flushed with it; the *)
(* last stream is kept.  A list captured before the constructor had made   *)
(* it is null, which a terminal treats as an empty one.                    *)
ListNow == IF terminalAccept.list THEN payloadListVector ELSE <<>>

SendList ==
  /\ terminalAccept.pc = "sendList"
  /\ toTerminal' = [toTerminal EXCEPT ![terminalAccept.sock] =
                      Append(@, [tag |-> "list", names |-> ListNow])]
  /\ terminalAccept' = [terminalAccept EXCEPT !.pc = "getPName",
                                              !.oos = terminalAccept.sock]
  /\ UNCHANGED <<ready, shared, stream, deviceName, payloadDataVector,
                 payloadQueue, payloadAccept, terminalQueue, serving, handler,
                 fromPayload, toPayload, fromTerminal, peers>>

ReadTerminalName ==
  LET t == terminalAccept.sock IN
  /\ terminalAccept.pc = "getPName"
  /\ \E n \in 1..Len(fromTerminal[t]) :
       /\ fromTerminal[t][1].tag = "DeviceName"
       /\ fromTerminal' = [fromTerminal EXCEPT ![t] = Rest(@, n)]
  /\ terminalAccept' = [terminalAccept EXCEPT !.pc = "start"]
  /\ \/ toTerminal' = [toTerminal EXCEPT ![t] = Append(@, Ack)]
     \/ /\ terminalAccept.pings < MaxPings
        /\ toTerminal' = [toTerminal EXCEPT ![t] = @ \o <<Ack, Ping>>]
  /\ UNCHANGED <<ready, shared, stream, deviceName, payloadDataVector,
                 payloadQueue, payloadAccept, terminalQueue, serving, handler,
                 fromPayload, toPayload, peers>>

(* new TerminalDataController: its constructor starts the thread and then  *)
(* writes "@" a second time.  The shared stream is replaced after that.    *)
StartTerminal ==
  /\ terminalAccept.pc = "start"
  /\ handler' = [handler EXCEPT ![terminalAccept.sock].pc = "poll"]
  /\ terminalAccept' = [terminalAccept EXCEPT !.pc = "ack"]
  /\ UNCHANGED <<ready, shared, stream, deviceName, payloadDataVector,
                 payloadQueue, payloadAccept, terminalQueue, serving, wires,
                 peers>>

AckTerminal ==
  /\ terminalAccept.pc = "ack"
  /\ toTerminal' = [toTerminal EXCEPT ![terminalAccept.sock] = Append(@, Ack)]
  /\ terminalAccept' = [terminalAccept EXCEPT !.pc = "publish"]
  /\ UNCHANGED <<ready, shared, stream, deviceName, payloadDataVector,
                 payloadQueue, payloadAccept, terminalQueue, serving, handler,
                 fromPayload, toPayload, fromTerminal, peers>>

(* Mutant of PublishStream: the shared stream is not replaced.             *)
PublishNothing ==
  /\ terminalAccept.pc = "publish"
  /\ terminalAccept' = [terminalAccept EXCEPT !.pc = "accept", !.sock = None]
  /\ UNCHANGED <<ready, shared, stream, deviceName, payloadDataVector, payloadQueue,
                 payloadAccept, terminalQueue, serving, handler, wires, peers>>

PublishStream ==
  /\ terminalAccept.pc = "publish"
  /\ objectOutputStream' = terminalAccept.oos
  /\ terminalAccept' = [terminalAccept EXCEPT !.pc = "accept", !.sock = None]
  /\ UNCHANGED <<ready, shared, streamSocket, streamWriter, deviceName,
                 payloadDataVector, payloadQueue, payloadAccept, terminalQueue,
                 serving, handler, wires, peers>>

TerminalAcceptThread ==
  \/ AcceptTerminal \/ PingTerminal \/ AnswerRefresh \/ SendList
  \/ ReadTerminalName \/ StartTerminal \/ AckTerminal \/ PublishStream

-----------------------------------------------------------------------------
(* TerminalDataController.run and Controller.terminalRequestForUpdate.     *)

HandlerUnchanged == <<ready, shared, deviceName, payloadDataVector, accept,
                      serving, fromPayload, toPayload, peers>>

StartScan(t) ==
  /\ handler[t].pc = "poll"
  /\ \E n \in 1..Len(fromTerminal[t]) :
       /\ fromTerminal[t][1].tag = "request"
       /\ handler' = [handler EXCEPT ![t] =
            Handler("scan", NameIn(Chunk(fromTerminal[t], n)), 1,
                    [p \in Payloads |-> Len(payloadDataVector[p])])]
       /\ fromTerminal' = [fromTerminal EXCEPT ![t] = Rest(@, n)]
  /\ UNCHANGED <<HandlerUnchanged, stream, toTerminal>>

(* Text typed by the user, and whatever was coalesced behind it. *)
DropTerminalChunk(t) ==
  /\ handler[t].pc = "poll"
  /\ \E n \in 1..Len(fromTerminal[t]) :
       /\ fromTerminal[t][1].tag # "request"
       /\ fromTerminal' = [fromTerminal EXCEPT ![t] = Rest(@, n)]
  /\ UNCHANGED <<HandlerUnchanged, handler, stream, toTerminal>>

(* Mutant of Candidate: an off-by-one in the size test.                    *)
CandidateOfTwo(t) ==
  /\ handler[t].i <= Len(payloadDataList)
  /\ deviceName[payloadDataList[handler[t].i]] = handler[t].want
  /\ Len(payloadDataVector[payloadDataList[1]]) > 1

(* The condition of the loop's if: whether the *first* payload has data.   *)
Candidate(t) ==
  /\ handler[t].i <= Len(payloadDataList)
  /\ deviceName[payloadDataList[handler[t].i]] = handler[t].want
  /\ payloadDataVector[payloadDataList[1]] # <<>>

EndScan(t) ==
  /\ handler[t].pc = "scan" /\ dataListSet
  /\ handler[t].i > Len(payloadDataList)
  /\ handler' = [handler EXCEPT ![t] = IdleHandler("poll")]
  /\ UNCHANGED <<HandlerUnchanged, stream, fromTerminal, toTerminal>>

(* Mutant of SkipPayload: the loop does not advance.                       *)
SkipNothing(t) ==
  /\ handler[t].pc = "scan" /\ dataListSet
  /\ handler[t].i <= Len(payloadDataList) /\ ~Candidate(t)
  /\ UNCHANGED <<HandlerUnchanged, handler, stream, fromTerminal, toTerminal>>

SkipPayload(t) ==
  /\ handler[t].pc = "scan" /\ dataListSet
  /\ handler[t].i <= Len(payloadDataList) /\ ~Candidate(t)
  /\ handler' = [handler EXCEPT ![t].i = @ + 1]
  /\ UNCHANGED <<HandlerUnchanged, stream, fromTerminal, toTerminal>>

(* Mutants of Newest: two too low, the entry before, the loop's own index. *)
NewestButTwo(t) == Len(payloadDataVector[payloadDataList[handler[t].i]]) - 2
NewestButOne(t) ==
  LET n == Len(payloadDataVector[payloadDataList[handler[t].i]]) IN
  IF n > 1 THEN n - 1 ELSE n
NewestByIndex(t) == handler[t].i

Newest(t) == Len(payloadDataVector[payloadDataList[handler[t].i]])

PickNewest(t) ==
  /\ handler[t].pc = "scan" /\ dataListSet /\ Candidate(t)
  /\ LET p == payloadDataList[handler[t].i] IN
       /\ payloadDataVector[p] # <<>>
       /\ handler' = [handler EXCEPT ![t].pc = "attach", ![t].conn = p,
                                     ![t].at = Newest(t)]
  /\ UNCHANGED <<HandlerUnchanged, stream, fromTerminal, toTerminal>>

(* get(-1) of an empty vector, or a null payloadDataList: nothing catches  *)
(* the exception and the thread is gone.                                   *)
ScanThrows(t) ==
  /\ handler[t].pc = "scan"
  /\ dataListSet =>
       Candidate(t) /\ payloadDataVector[payloadDataList[handler[t].i]] = <<>>
  /\ handler' = [handler EXCEPT ![t].pc = IF dataListSet THEN "noEntry" ELSE "noList"]
  /\ UNCHANGED <<HandlerUnchanged, stream, fromTerminal, toTerminal>>

(* Mutant of AttachSocket: the marker follows the object.                  *)
AttachLast(t) ==
  /\ handler[t].pc = "attach"
  /\ streamSocket' = objectOutputStream
  /\ handler' = [handler EXCEPT ![t].pc = "writer"]
  /\ UNCHANGED <<HandlerUnchanged, objectOutputStream, streamWriter,
                 fromTerminal, toTerminal>>

AttachSocket(t) ==
  /\ handler[t].pc = "attach"
  /\ streamSocket' = t
  /\ handler' = [handler EXCEPT ![t].pc = "writer"]
  /\ UNCHANGED <<HandlerUnchanged, objectOutputStream, streamWriter,
                 fromTerminal, toTerminal>>

NewWriter(t) ==
  /\ handler[t].pc = "writer"
  /\ streamWriter' = [to |-> streamSocket, buffered |-> 0]
  /\ handler' = [handler EXCEPT ![t].pc = "print"]
  /\ UNCHANGED <<HandlerUnchanged, objectOutputStream, streamSocket,
                 fromTerminal, toTerminal>>

(* Mutant of PrintMarker: the text is printed twice.                       *)
PrintTwice(t) ==
  /\ handler[t].pc = "print"
  /\ streamWriter' = [streamWriter EXCEPT !.buffered = @ + 2]
  /\ handler' = [handler EXCEPT ![t].pc = "flush"]
  /\ UNCHANGED <<HandlerUnchanged, objectOutputStream, streamSocket,
                 fromTerminal, toTerminal>>

PrintMarker(t) ==
  /\ handler[t].pc = "print"
  /\ streamWriter' = [streamWriter EXCEPT !.buffered = @ + 1]
  /\ handler' = [handler EXCEPT ![t].pc = "flush"]
  /\ UNCHANGED <<HandlerUnchanged, objectOutputStream, streamSocket,
                 fromTerminal, toTerminal>>

(* Mutant of FlushMarker: println without flush.                           *)
ForgetFlush(t) ==
  /\ handler[t].pc = "flush"
  /\ handler' = [handler EXCEPT ![t].pc = "send"]
  /\ UNCHANGED <<HandlerUnchanged, stream, fromTerminal, toTerminal>>

FlushMarker(t) ==
  /\ handler[t].pc = "flush"
  /\ toTerminal' = [toTerminal EXCEPT ![streamWriter.to] =
                      @ \o [k \in 1..streamWriter.buffered |-> Marker]]
  /\ streamWriter' = [streamWriter EXCEPT !.buffered = 0]
  /\ handler' = [handler EXCEPT ![t].pc = "send"]
  /\ UNCHANGED <<HandlerUnchanged, objectOutputStream, streamSocket, fromTerminal>>

(* writeObject on the shared stream is not atomic: writes of two threads   *)
(* that overlap on one stream are both marked as mixed.                    *)
WritingTo(u, o) == handler[u].pc = "writing" /\ handler[u].oos = o

BeginWrite(t) ==
  /\ handler[t].pc = "send" /\ objectOutputStream # None
  /\ LET o == objectOutputStream IN
       handler' = [u \in Terminals |->
         IF u = t
         THEN [handler[t] EXCEPT !.pc = "writing", !.oos = o,
                                 !.mixed = \E v \in Terminals : WritingTo(v, o)]
         ELSE [handler[u] EXCEPT !.mixed = @ \/ WritingTo(u, o)]]
  /\ UNCHANGED <<HandlerUnchanged, stream, fromTerminal, toTerminal>>

SendThrows(t) ==
  /\ handler[t].pc = "send" /\ objectOutputStream = None
  /\ handler' = [handler EXCEPT ![t].pc = "noStream"]
  /\ UNCHANGED <<HandlerUnchanged, stream, fromTerminal, toTerminal>>

ObjectOf(t) ==
  [tag |-> "object", conn |-> handler[t].conn, at |-> handler[t].at, asker |-> t,
   name |-> handler[t].want, since |-> handler[t].since[handler[t].conn],
   mixed |-> handler[t].mixed]

(* Mutant of EndWrite: writeObject without flush.                          *)
EndWriteUnflushed(t) ==
  /\ handler[t].pc = "writing"
  /\ handler' = [handler EXCEPT ![t] = Handler("scan", @.want, @.i + 1, @.since)]
  /\ UNCHANGED <<HandlerUnchanged, stream, fromTerminal, toTerminal>>

EndWrite(t) ==
  /\ handler[t].pc = "writing"
  /\ toTerminal' = [toTerminal EXCEPT ![handler[t].oos] = Append(@, ObjectOf(t))]
  /\ handler' = [handler EXCEPT ![t] = Handler("scan", @.want, @.i + 1, @.since)]
  /\ UNCHANGED <<HandlerUnchanged, stream, fromTerminal>>

Serve(t) ==
  \/ EndScan(t) \/ SkipPayload(t) \/ PickNewest(t) \/ ScanThrows(t)
  \/ AttachSocket(t) \/ NewWriter(t) \/ PrintMarker(t) \/ FlushMarker(t)
  \/ BeginWrite(t) \/ SendThrows(t) \/ EndWrite(t)

TerminalThread(t) == StartScan(t) \/ DropTerminalChunk(t) \/ Serve(t)

-----------------------------------------------------------------------------
Peers ==
  \/ \E p \in Payloads : \/ ConnectPayload(p) \/ Announce(p) \/ OpenLink(p)
                         \/ SendRecord(p)
  \/ \E t \in Terminals : \/ ConnectTerminal(t) \/ PressRefresh(t)
                          \/ PressConnect(t) \/ RequestUpdate(t)
                          \/ SendText(t)

Next ==
  \/ FinishController \/ PayloadAcceptThread \/ TerminalAcceptThread \/ Peers
  \/ \E p \in Payloads : PayloadThread(p)
  \/ \E t \in Terminals : TerminalThread(t)

Spec == Init /\ [][Next]_vars

(* The JVM runs every thread; nothing makes a peer do anything. *)
FairSpec ==
  /\ Spec
  /\ WF_vars(FinishController)
  /\ WF_vars(PayloadAcceptThread) /\ WF_vars(TerminalAcceptThread)
  /\ \A p \in Payloads : WF_vars(PayloadThread(p))
  /\ \A t \in Terminals : WF_vars(TerminalThread(t))

-----------------------------------------------------------------------------
(* The type invariant. *)

HandlerPc == {"off", "poll", "scan", "attach", "writer", "print", "flush", "send",
              "writing", "noEntry", "noList", "noStream"}

PayloadPc == {"accept", "getPName", "add", "start", "addData", "setLists", "list",
              "dead"}

TerminalPc == {"accept", "getPName", "sendList", "start", "ack", "publish"}

HandlerType ==
  [pc : HandlerPc, want : WantedNames \cup {None}, i : Nat \ {0},
   conn : Payloads \cup {None}, at : Nat, since : [Payloads -> Nat],
   mixed : BOOLEAN, oos : Terminals \cup {None}]

SharedType ==
  /\ ready \in BOOLEAN /\ dataListSet \in BOOLEAN
  /\ payloadList \in Seq(Payloads) /\ payloadDataList \in Seq(Payloads)
  /\ payloadListVector \in Seq(DeviceNames)

StreamType ==
  /\ objectOutputStream \in Terminals \cup {None}
  /\ streamSocket \in Terminals \cup {None}
  /\ streamWriter \in [to : Terminals \cup {None}, buffered : Nat]

PayloadType ==
  /\ deviceName \in [Payloads -> DeviceNames \cup {None}]
  /\ payloadDataVector \in [Payloads -> Seq(Seq(PayloadMsg))]
  /\ serving \subseteq Payloads

AcceptType ==
  /\ payloadQueue \in Seq(Payloads) /\ terminalQueue \in Seq(Terminals)
  /\ payloadAccept \in [pc : PayloadPc, sock : Payloads \cup {None}, pings : Nat]
  /\ terminalAccept \in [pc : TerminalPc, sock : Terminals \cup {None},
                         list : BOOLEAN, pings : Nat, oos : Terminals \cup {None}]

PayloadWires ==
  /\ fromPayload \in [Payloads -> Seq(PayloadMsg)]
  /\ toPayload \in [Payloads -> Seq(Signal)]

TerminalWires ==
  /\ fromTerminal \in [Terminals -> Seq(TerminalMsg)]
  /\ toTerminal \in [Terminals -> Seq(ToTerminalMsg)]

PeersType ==
  /\ announced \in [Payloads -> Nat] /\ recorded \in [Payloads -> Nat]
  /\ refreshed \in [Terminals -> Nat] /\ written \in [Terminals -> Nat]
  /\ chosen \in [Terminals -> DeviceNames \cup {None}]

TypeOK ==
  /\ SharedType /\ StreamType /\ PayloadType /\ AcceptType
  /\ handler \in [Terminals -> HandlerType]
  /\ PayloadWires /\ TerminalWires /\ PeersType

-----------------------------------------------------------------------------
(* Safety. *)

Objects(t) == {m \in Members(toTerminal[t]) : m.tag = "object"}
Busy(t) == handler[t].pc \in {"attach", "writer", "print", "flush", "send", "writing"}

(* The three vectors grow in the order of attachPayload and are read while *)
(* it is in the middle: they agree position by position, and each is at    *)
(* most the payload being attached ahead of the list terminals are shown.  *)
RegistryConsistent ==
  LET n == Len(payloadListVector) IN
  /\ Len(payloadList) \in n..(n + 1) /\ Len(payloadDataList) \in n..Len(payloadList)
  /\ \A k \in 1..Len(payloadDataList) : payloadDataList[k] = payloadList[k]
  /\ \A k \in 1..n : payloadListVector[k] = deviceName[payloadDataList[k]]
  /\ \A k \in 1..Len(payloadList) : deviceName[payloadList[k]] # None

(* terminalRequestForUpdate never meets a null payloadDataList, although   *)
(* nothing initialises it: a terminal can only ask for a name it was shown, *)
(* and UPDatePayloadList stores the vector before it extends the list.     *)
NoNullRegistry == \A t \in Terminals : handler[t].pc # "noList"

(* Whatever stream it ends up on, an object sent for a request is an entry *)
(* of a payload of the requested name, and no older than the newest entry  *)
(* that payload had when the request was read.                             *)
AnswersAreFresh ==
  \A t \in Terminals : \A m \in Objects(t) :
    /\ deviceName[m.conn] = m.name
    /\ m.at \in 1..Len(payloadDataVector[m.conn])
    /\ m.since <= m.at

(* "Refresh" and the list behind it are two writes: no other thread writes *)
(* to a terminal between them, although all write on streams they share,   *)
(* and nothing follows a "Refresh" but its list.                           *)
ListFollowsRefresh ==
  \A t \in Terminals : \A k \in 1..Len(toTerminal[t]) :
    toTerminal[t][k].tag = "Refresh" =>
      IF k < Len(toTerminal[t]) THEN toTerminal[t][k + 1].tag = "list"
      ELSE terminalAccept.sock = t /\ terminalAccept.pc = "sendList"

(* attachSocket and streamOut are called on a stream all threads share:    *)
(* still, a "PayloadUpdate" only reaches a terminal that asked for one.    *)
NoUnaskedMarker ==
  \A t \in Terminals : Has(toTerminal[t], "PayloadUpdate") =>
    chosen[t] # None /\ written[t] > 0

(* Controller.java:81: a terminal's request updates that terminal.         *)
UpdatesTheAsker ==
  \A t \in Terminals : \A m \in Objects(t) : m.asker = t

(* Controller.java:81: a request is not dropped while a payload of that    *)
(* name has data that was there when the request was read.                 *)
ServedWhenDataExists ==
  [][\A t \in Terminals :
       EndScan(t) =>
         \A k \in 1..Len(payloadDataList) :
           LET p == payloadDataList[k] IN
           (deviceName[p] = handler[t].want /\ handler[t].since[p] > 0)
             => \E u \in Terminals : \E m \in Objects(u) :
                  m.asker = t /\ m.conn = p /\ m.since = handler[t].since[p]]_vars

(* The objects written to a wire, oldest first. *)
ObjectsIn(w) ==
  LET kept[n \in 0..Len(w)] ==
        IF n = 0 THEN <<>>
        ELSE IF w[n].tag = "object" THEN Append(kept[n - 1], w[n]) ELSE kept[n - 1]
  IN kept[Len(w)]

(* With one terminal the server keeps the abstract promise: every entry is *)
(* kept, the terminal is handed entries that exist, never an older one of  *)
(* a payload after a newer one.                                            *)
Answers(t) ==
  LET objects == ObjectsIn(toTerminal[t]) IN
  [k \in 1..Len(objects) |-> [conn |-> objects[k].conn, at |-> objects[k].at]]

Service == INSTANCE UpdateService WITH
  Sources <- Payloads, Clients <- Terminals,
  readings <- [p \in Payloads |-> Len(payloadDataVector[p])],
  answers <- [t \in Terminals |-> Answers(t)], lost <- {}

KeepsThePromise == Service!Spec

(* One of the first n messages is a marker whose object is not among them. *)
ObjectOwed(w, n) ==
  \E j \in 1..n : w[j] = Marker /\ \A i \in (j + 1)..n : w[i].tag # "object"

(* With one terminal every "PayloadUpdate" is followed by its object before *)
(* the next one: the terminal blocks in readObject after each marker.       *)
MarkersMatchObjects ==
  \A t \in Terminals : \A k \in 1..Len(toTerminal[t]) :
    LET w == toTerminal[t] IN
    /\ w[k] = Marker => ~ObjectOwed(w, k - 1)
    /\ w[k].tag = "object" => ObjectOwed(w, k - 1)

(* A handler thread that dies for want of a stream does so only between    *)
(* the start of the first terminal's thread and the publication of its     *)
(* stream by attachTerminal: no terminal gets through its handshake        *)
(* without a list, and the list brings the stream.                         *)
StreamMissingOnlyAtFirst ==
  [][\A t \in Terminals : SendThrows(t) =>
       terminalAccept.sock = t /\ terminalAccept.pc \in {"ack", "publish"}]_vars

-----------------------------------------------------------------------------
(* Liveness. *)

(* A handler that has read a request is done with it in the end, or died.  *)
RequestsEnd ==
  \A t \in Terminals :
    (handler[t].pc = "scan") ~> (handler[t].pc \notin {"off", "scan"} /\ ~Busy(t))

(* A terminal that chose a name is attached, unless it had pressed Refresh *)
(* again: "Refresh" may then swallow the name coalesced behind it.         *)
ChosenIsAttached ==
  \A t \in Terminals :
    (chosen[t] # None /\ refreshed[t] = 1) ~> (terminalAccept.sock # t)

(* A payload whose name was read is shown to terminals in the end, unless  *)
(* the accept thread died because it was faster than the constructor.      *)
NamedIsListed ==
  \A p \in Payloads :
    (ready /\ deviceName[p] # None /\ payloadAccept.pc # "dead") ~>
       \E k \in 1..Len(payloadListVector) : payloadList[k] = p

(* A request that has been read, for a payload that had data by then, is   *)
(* answered to the terminal that made it, unless its thread died: the      *)
(* payload must be in the list, and the first of the list have data too.   *)
RequestsAreAnswered ==
  \A t \in Terminals, p \in Payloads : \A c \in 0..MaxWrites :
    (/\ handler[t].pc = "scan" /\ handler[t].i = 1
     /\ handler[t].want = deviceName[p] /\ handler[t].since[p] > 0
     /\ \E k \in 1..Len(payloadDataList) : payloadDataList[k] = p
     /\ payloadDataVector[payloadDataList[1]] # <<>>
     /\ Len(Answers(t)) = c)
      ~> (handler[t].pc = "noStream" \/ Len(Answers(t)) > c)
=============================================================================
