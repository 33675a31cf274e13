------------------------------ MODULE S4System ------------------------------
(***************************************************************************)
(* The server of S4Server with the program that runs at the other end of   *)
(* port 2001: each terminal's connection thread (SendName.sendName, then   *)
(* DataController.run) and its user.  S4Server lets a terminal send        *)
(* whatever the protocol allows; here its messages come from the code, and *)
(* Spec, the specification of S4Server, becomes a property of the whole.   *)
(*                                                                         *)
(* The wire to a terminal is toTerminal, kept whole; client[t].seen is how *)
(* much of it has been read.  A read returns any non-empty part of what    *)
(* comes next, as in the server.                                           *)
(***************************************************************************)
EXTENDS S4Server

VARIABLE client

(* What the two classes keep between two reads: payloadListVector,         *)
(* payloadDataVector, boolStream and the state of objectInputStream, which *)
(* is "synced" while it has read all its peer has written since the header *)
(* of the stream, so that both have the same table of back references,     *)
(* "behind" when it has missed an object or a newer list, and "broken"     *)
(* when a byte that starts no object is stuck in its look-ahead.  torn:    *)
(* a failed read has eaten the first bytes of the next message.            *)
IdleClient ==
  [pc |-> "off", seen |-> 0, payloadListVector |-> <<>>, payloadDataVector |-> <<>>,
   boolStream |-> TRUE, objectInputStream |-> "null", torn |-> FALSE]

SystemInit == Init /\ client = [t \in Terminals |-> IdleClient]

Unread(t) == Rest(toTerminal[t], client[t].seen)

Carries(chunk) == \E k \in 1..Len(chunk) : chunk[k].tag \in {"list", "object"}

(* A chunk of n messages is read as text, whatever the stream loses by it. *)
ReadChunk(t, n, pc) ==
  client' = [client EXCEPT ![t].pc = pc, ![t].seen = @ + n, ![t].torn = FALSE,
              ![t].objectInputStream =
                 IF @ = "synced" /\ Carries(Chunk(Unread(t), n)) THEN "behind" ELSE @]

ServerVars == <<ready, shared, stream, deviceName, payloadDataVector, accept,
                serving, handler, fromPayload, toPayload, toTerminal, announced,
                recorded>>

-----------------------------------------------------------------------------
(* The user, in the windows SendConnectionName and Terminal. *)

Connects(t) ==
  /\ client[t].pc = "off" /\ ConnectTerminal(t)
  /\ client' = [client EXCEPT ![t].pc = "handshake"]

(* The window to choose a payload is open from the handshake until Connect *)
(* is pressed, whatever the thread is doing.                               *)
RefreshButton(t) ==
  /\ client[t].pc # "off" /\ chosen[t] = None /\ refreshed[t] < MaxRefresh
  /\ refreshed' = [refreshed EXCEPT ![t] = @ + 1]
  /\ TerminalSends(t, [tag |-> "Refresh"])
  /\ UNCHANGED <<ServerVars, chosen, written, client>>

DeviceConnectButton(t) ==
  /\ client[t].pc # "off" /\ chosen[t] = None
  /\ \E k \in 1..Len(client[t].payloadListVector) :
       LET name == client[t].payloadListVector[k] IN
       /\ chosen' = [chosen EXCEPT ![t] = name]
       /\ TerminalSends(t, [tag |-> "DeviceName", name |-> name])
  /\ UNCHANGED <<ServerVars, refreshed, written, client>>

Attached == {"running", "readObject", "dead"}

SendLine(t) ==
  /\ client[t].pc \in Attached /\ written[t] < MaxWrites
  /\ written' = [written EXCEPT ![t] = @ + 1]
  /\ TerminalSends(t, [tag |-> "text"])
  /\ UNCHANGED <<ServerVars, refreshed, chosen, client>>

StartStopButton(t) ==
  /\ client[t].pc \in Attached
  /\ client' = [client EXCEPT ![t].boolStream = ~@]
  /\ UNCHANGED vars

-----------------------------------------------------------------------------
(* SendName.sendName: chunks are compared whole, so "@" or "Refresh" with  *)
(* anything coalesced to it is dropped.                                    *)

ReadAck(t) ==
  /\ client[t].pc = "handshake" /\ Unread(t) # <<>> /\ Unread(t)[1] = Ack
  /\ ReadChunk(t, 1, "running")
  /\ UNCHANGED vars

ReadRefresh(t) ==
  /\ client[t].pc = "handshake" /\ Unread(t) # <<>>
  /\ Unread(t)[1] = [tag |-> "Refresh"]
  /\ ReadChunk(t, 1, "readList")
  /\ UNCHANGED vars

DropHandshakeChunk(t) ==
  /\ client[t].pc = "handshake"
  /\ \E n \in 1..Len(Unread(t)) :
       /\ n = 1 => Unread(t)[1] \notin {Ack, [tag |-> "Refresh"]}
       /\ ReadChunk(t, n, "handshake")
  /\ UNCHANGED vars

(* Mutant of ReadList: the header of the stream counted as a message.      *)
ReadHeaderAndList(t) ==
  /\ client[t].pc = "readList" /\ Unread(t) # <<>> /\ Unread(t)[1].tag = "list"
  /\ client' = [client EXCEPT ![t].pc = "handshake", ![t].seen = @ + 2,
                              ![t].objectInputStream = "synced",
                              ![t].payloadListVector = Unread(t)[1].names]
  /\ UNCHANGED vars

(* GetObjectStream.getObject: a new ObjectInputStream, which starts with   *)
(* the header of the list: GetObjectFindsAList says nothing else is there. *)
ReadList(t) ==
  /\ client[t].pc = "readList" /\ Unread(t) # <<>> /\ Unread(t)[1].tag = "list"
  /\ client' = [client EXCEPT ![t].pc = "handshake", ![t].seen = @ + 1,
                              ![t].objectInputStream = "synced",
                              ![t].payloadListVector = Unread(t)[1].names]
  /\ UNCHANGED vars

-----------------------------------------------------------------------------
(* DataController.run. *)

Update(m) == [conn |-> m.conn, at |-> m.at]

ReadMarker(t) ==
  /\ client[t].pc = "running" /\ client[t].boolStream
  /\ Unread(t) # <<>> /\ Unread(t)[1] = Marker /\ ~client[t].torn
  /\ \E n \in 1..Len(Unread(t)) : ReadChunk(t, n, "readObject")
  /\ UNCHANGED vars

(* While stopped, every chunk; while streaming, one that does not start    *)
(* with a marker.                                                          *)
DropChunk(t) ==
  /\ client[t].pc = "running" /\ Unread(t) # <<>>
  /\ client[t].boolStream => Unread(t)[1] # Marker \/ client[t].torn
  /\ \E n \in 1..Len(Unread(t)) : ReadChunk(t, n, "running")
  /\ UNCHANGED vars

(* Mutant of ReadObject: insertElementAt(0) for addElement.                *)
InsertObject(t) ==
  LET m == Unread(t)[1] IN
  /\ client[t].pc = "readObject" /\ Unread(t) # <<>>
  /\ m.tag = "object" /\ ~m.mixed /\ client[t].objectInputStream # "broken"
  /\ client' = [client EXCEPT ![t].pc = "running", ![t].seen = @ + 1,
                              ![t].payloadDataVector = <<Update(m)>> \o @]
  /\ UNCHANGED vars

(* PayloadObjectRX.getPayloadObject.  A stream that is behind may still    *)
(* understand an object: it depends on the back references in it.          *)
ReadObject(t) ==
  LET m == Unread(t)[1] IN
  /\ client[t].pc = "readObject" /\ Unread(t) # <<>>
  /\ m.tag = "object" /\ ~m.mixed /\ client[t].objectInputStream # "broken"
  /\ client' = [client EXCEPT ![t].pc = "running", ![t].seen = @ + 1,
                              ![t].payloadDataVector = Append(@, Update(m))]
  /\ UNCHANGED vars

(* An IOException is caught, and lastElement shows the last update again:  *)
(* without one it throws, and nothing catches that.                        *)
AfterException(t) == IF client[t].payloadDataVector = <<>> THEN "dead" ELSE "running"

(* The wire goes on with text.  readObject looks at its first byte, which  *)
(* is all there is of a "#" or an "@", and never looks at another.         *)
ReadText(t) ==
  LET m == Unread(t)[1] IN
  /\ client[t].pc = "readObject" /\ Unread(t) # <<>>
  /\ m.tag # "object" /\ client[t].objectInputStream # "broken"
  /\ client' = [client EXCEPT ![t].pc = AfterException(t),
                              ![t].objectInputStream = "broken",
                              ![t].seen = IF m \in {Ping, Ack} THEN @ + 1 ELSE @,
                              ![t].torn = m \notin {Ping, Ack}]
  /\ UNCHANGED vars

ReadNothing(t) ==
  /\ client[t].pc = "readObject" /\ client[t].objectInputStream = "broken"
  /\ client' = [client EXCEPT ![t].pc = AfterException(t)]
  /\ UNCHANGED vars

(* An entry that was sent before is only a back reference.  To a stream    *)
(* that is behind it means whatever has that number in its own, shorter    *)
(* table: another update, read before, is shown again without an error.    *)
(* Which one depends on the lengths of the two tables: here, any.          *)
RepeatObject(t) ==
  LET m == Unread(t)[1] IN
  /\ client[t].pc = "readObject" /\ Unread(t) # <<>>
  /\ m.tag = "object" /\ ~m.mixed /\ client[t].objectInputStream = "behind"
  /\ Update(m) \in {Update(o) : o \in Members(ObjectsIn(Chunk(toTerminal[t], client[t].seen)))}
  /\ \E k \in 1..Len(client[t].payloadDataVector) :
       client' = [client EXCEPT ![t].pc = "running", ![t].seen = @ + 1,
                    ![t].payloadDataVector = Append(@, client[t].payloadDataVector[k])]
  /\ UNCHANGED vars

(* Or there is nothing of that number, or something that is no update      *)
(* (ClassCastException: not caught).                                       *)
MisreadObject(t) ==
  LET m == Unread(t)[1] IN
  /\ client[t].pc = "readObject" /\ Unread(t) # <<>>
  /\ m.tag = "object" /\ client[t].objectInputStream # "broken"
  /\ m.mixed \/ client[t].objectInputStream = "behind"
  /\ \E pc \in {AfterException(t), "dead"} :
       client' = [client EXCEPT ![t].pc = pc, ![t].torn = TRUE,
                                ![t].objectInputStream = "behind"]
  /\ UNCHANGED vars

(* Mutant of Requests: the thread does not wait for "@".                   *)
RequestsEarly(t) ==
  /\ client[t].pc \in {"handshake", "running"} /\ client[t].boolStream
  /\ written[t] < MaxWrites
  /\ written' = [written EXCEPT ![t] = @ + 1]
  /\ TerminalSends(t, [tag |-> "request", name |-> chosen[t]])
  /\ UNCHANGED <<ServerVars, refreshed, chosen, client>>

(* One a second, for the name the user chose.                              *)
Requests(t) ==
  /\ client[t].pc = "running" /\ client[t].boolStream /\ written[t] < MaxWrites
  /\ written' = [written EXCEPT ![t] = @ + 1]
  /\ TerminalSends(t, [tag |-> "request", name |-> chosen[t]])
  /\ UNCHANGED <<ServerVars, refreshed, chosen, client>>

User(t) == Connects(t) \/ RefreshButton(t) \/ DeviceConnectButton(t)
             \/ SendLine(t) \/ StartStopButton(t)

Client(t) ==
  \/ ReadAck(t) \/ ReadRefresh(t) \/ DropHandshakeChunk(t) \/ ReadList(t)
  \/ ReadMarker(t) \/ DropChunk(t) \/ ReadObject(t) \/ ReadText(t)
  \/ ReadNothing(t) \/ RepeatObject(t) \/ MisreadObject(t) \/ Requests(t)

Devices ==
  \E p \in Payloads : ConnectPayload(p) \/ Announce(p) \/ OpenLink(p) \/ SendRecord(p)

Server ==
  \/ FinishController \/ PayloadAcceptThread \/ TerminalAcceptThread \/ Devices
  \/ \E p \in Payloads : PayloadThread(p)
  \/ \E t \in Terminals : TerminalThread(t)

SystemNext ==
  \/ Server /\ UNCHANGED client
  \/ \E t \in Terminals : User(t) \/ Client(t)

systemVars == <<vars, client>>

SystemSpec == SystemInit /\ [][SystemNext]_systemVars

(* The threads of both programs run; no device and no user has to act.     *)
FairSystemSpec ==
  /\ SystemSpec
  /\ WF_systemVars(FinishController /\ UNCHANGED client)
  /\ WF_systemVars(PayloadAcceptThread /\ UNCHANGED client)
  /\ WF_systemVars(TerminalAcceptThread /\ UNCHANGED client)
  /\ \A p \in Payloads : WF_systemVars(PayloadThread(p) /\ UNCHANGED client)
  /\ \A t \in Terminals : /\ WF_systemVars(TerminalThread(t) /\ UNCHANGED client)
                           /\ WF_systemVars(Client(t))

-----------------------------------------------------------------------------
ClientPc == {"off", "handshake", "readList", "running", "readObject", "dead"}

ClientType ==
  [pc : ClientPc, seen : Nat, payloadListVector : Seq(DeviceNames),
   payloadDataVector : Seq([conn : Payloads, at : Nat]), boolStream : BOOLEAN,
   objectInputStream : {"null", "synced", "behind", "broken"}, torn : BOOLEAN]

SystemTypeOK ==
  /\ client \in [Terminals -> ClientType]
  /\ \A t \in Terminals : client[t].seen <= Len(toTerminal[t])

(* getObject, called on a "Refresh" that came alone, finds the list or     *)
(* nothing yet: never a ping, a marker or an object.                       *)
GetObjectFindsAList ==
  \A t \in Terminals :
    client[t].pc = "readList" /\ Unread(t) # <<>> => Unread(t)[1].tag = "list"

(* A terminal's thread dies of an exception only if a chunk has swallowed  *)
(* an object or a newer list, or if the server wrote its second "@" after  *)
(* a marker, because the new thread was faster than the one that made it.  *)
LostObjects(t) ==
  LET read == Chunk(toTerminal[t], client[t].seen) IN
  Len(ObjectsIn(read)) > Len(client[t].payloadDataVector)

AckAfterMarker(t) ==
  \E k \in 1..Len(toTerminal[t]) : \E j \in 1..(k - 1) :
    toTerminal[t][j] = Marker /\ toTerminal[t][k] = Ack

DiesOnlyAfterLoss ==
  \A t \in Terminals : client[t].pc = "dead" =>
    \/ client[t].objectInputStream = "behind" \/ LostObjects(t) \/ AckAfterMarker(t)

(* What the terminal shows: the promise of UpdateService, end to end.  An  *)
(* older reading is shown after a newer one only on a stream that has      *)
(* missed something, and then it is one that was shown before.             *)
Shown == INSTANCE UpdateService WITH
  Sources <- Payloads, Clients <- Terminals,
  readings <- [p \in Payloads |-> Len(payloadDataVector[p])],
  answers <- [t \in Terminals |-> client[t].payloadDataVector],
  lost <- {t \in Terminals : client[t].objectInputStream \in {"behind", "broken"}}

KeepsThePromiseToTheUser == Shown!Spec

(* A terminal blocks for good if the object its marker announced never     *)
(* comes: with one terminal and nothing lost, it is on the wire, or the    *)
(* server's thread has it still to write, or that thread has died.         *)
ObjectIsOnItsWay ==
  \A t \in Terminals :
    client[t].pc = "readObject" /\ client[t].objectInputStream = "synced" =>
      \/ \E k \in 1..Len(Unread(t)) : Unread(t)[k].tag = "object"
      \/ \E u \in Terminals : handler[u].pc \in {"send", "writing", "noStream"}

(* TerminalDataController.java:32, "Complete handshake": once the server   *)
(* has written that "@", the terminal leaves the handshake.                *)
HandshakeCompletes ==
  \A t \in Terminals :
    (handler[t].pc # "off" /\ terminalAccept.sock # t) ~>
      client[t].pc # "handshake"
=============================================================================
