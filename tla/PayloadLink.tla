---------------------------- MODULE PayloadLink ----------------------------
(***************************************************************************)
(* One connection to port 2000 of the server, as the stream of bytes TCP   *)
(* makes of it: a read returns what has arrived, which may end anywhere    *)
(* inside a text and may hold several texts.                               *)
(*                                                                         *)
(* At one end is a device: the emulator (HandShake and RXTXhandeler), in   *)
(* one of its two modes, or the sketch PayloadV2.ino.  At the other end is *)
(* the server: GetName.getPName until it has a name, then                  *)
(* PayloadDataController.                                                  *)
(*                                                                         *)
(* A text is a sequence of atoms, the pieces the code can tell apart: an   *)
(* atom is its kind and, inside a record, the record's number.  Every text *)
(* the server looks for is cut into at least two: "$GP" and "GGA" with the *)
(* rest of the position, '@' ("at") and the rest of the reading.  The      *)
(* server writes '#' ("ping") and '@' ("ack").  `sent' is all the device   *)
(* has written and `got' how much of it the server has read; `answers' and *)
(* `heard' are the same for the other direction.                           *)
(***************************************************************************)
EXTENDS Naturals, Sequences

CONSTANTS
  MaxRecords, MaxAnnounce, MaxOpens, MaxPings   \* bounds on what is written

ASSUME LinkAssumption ==
  /\ MaxRecords \in Nat /\ MaxAnnounce \in Nat
  /\ MaxOpens \in Nat /\ MaxPings \in Nat

VARIABLES
  device,     \* which program the device runs, where it is, and `start'
  sent, got,
  answers, heard,
  deviceNameSet, \* getPName's: TRUE while it has no name
  payloadDataVector,
  count       \* how often each bounded text was written

link   == <<sent, got>>
back   == <<answers, heard>>
server == <<deviceNameSet, payloadDataVector>>
vars   == <<device, link, back, server, count>>

-----------------------------------------------------------------------------
(* Texts. *)

Atom(kind, n) == [kind |-> kind, n |-> n]

Kinds == {"Device", "Name", "SSU", "dash01", "lineEnd", "open", "time",
          "GP", "GGA", "RMC", "at", "reading", "return"}
Atoms == [kind : Kinds, n : Nat]

DeviceText   == <<Atom("Device", 0), Atom("Name", 0)>>
NameLine     == <<Atom("SSU", 0), Atom("dash01", 0), Atom("lineEnd", 0)>>
Announcement == <<Atom("Device", 0), Atom("Name", 0), Atom("SSU", 0), Atom("dash01", 0)>>
OpenLine     == <<Atom("open", 0), Atom("lineEnd", 0)>>

(* Record n: a position and the reading that goes with it, written in one.
   The sketch forwards any sentence that passes its checks; only those that
   say GGA are positions. *)
Position(n) == <<Atom("GP", n), Atom("GGA", n), Atom("lineEnd", n)>>

Record(sentence, n) ==
  <<Atom("GP", n), Atom(sentence, n), Atom("lineEnd", n), Atom("at", n), Atom("reading", n)>>

NameTime(n) == <<Atom("SSU", 0), Atom("dash01", 0), Atom("time", n), Atom("lineEnd", n)>>

Records(n) ==
  CASE device.kind = "RockSim"       -> {Record("GGA", n)}
    [] device.kind = "sketch"        -> {Record("GGA", n), Record("RMC", n)}
    [] device.kind = "NameAndTime" -> {NameTime(n)}

-----------------------------------------------------------------------------
Init ==
  /\ device \in [kind : {"RockSim", "NameAndTime"}, pc : {"handshake"}, start : {FALSE}]
                \union [kind : {"sketch"}, pc : {"open"}, start : {FALSE}]
  /\ sent = <<>> /\ got = 0
  /\ answers = <<>> /\ heard = 0
  /\ deviceNameSet = TRUE
  /\ payloadDataVector = <<>>
  /\ count = [records |-> 0, announce |-> 0, opens |-> 0, pings |-> 0]

Writes(text) == sent' = sent \o text /\ UNCHANGED got

(* A record a second, once the handshake is done. *)
SendRecord ==
  /\ device.pc = "streaming"
  /\ count.records < MaxRecords
  /\ \E text \in Records(count.records + 1) : Writes(text)
  /\ count' = [count EXCEPT !.records = @ + 1]
  /\ UNCHANGED <<device, back, server>>

-----------------------------------------------------------------------------
(* The emulator. *)

Announce ==
  /\ device.pc = "handshake"
  /\ count.announce < MaxAnnounce
  /\ Writes(Announcement)
  /\ count' = [count EXCEPT !.announce = @ + 1]
  /\ UNCHANGED <<device, back, server>>

(* Mutant of HasAt: compares the chunk, as the terminal does. *)
IsAt(chunk) == chunk = <<"ack">>

HasAt(chunk) == \E i \in DOMAIN chunk : chunk[i] = "ack"

(* A chunk of what the server wrote; after the handshake it is only shown. *)
HearServer ==
  /\ device.pc \in {"handshake", "streaming"} /\ device.kind # "sketch"
  /\ \E n \in (heard + 1) .. Len(answers) :
       /\ heard' = n
       /\ device' = IF device.pc = "handshake" /\ HasAt(SubSeq(answers, heard + 1, n))
                    THEN [device EXCEPT !.pc = "streaming"] ELSE device
  /\ UNCHANGED <<link, answers, server, count>>

-----------------------------------------------------------------------------
(* The sketch: its loop() until start is set.  It writes "open" to the WiFly
   in each turn, which passes it on once there is a connection. *)

OpenLink ==
  /\ device.pc = "open"
  /\ device' = [device EXCEPT !.pc = "read"]
  /\ IF count.opens < MaxOpens
     THEN /\ Writes(OpenLine)
          /\ count' = [count EXCEPT !.opens = @ + 1]
     ELSE UNCHANGED <<link, count>>
  /\ UNCHANGED <<back, server>>

(* One character: '#' is answered with two prints, '@' starts the stream. *)
ReadServer ==
  /\ device.pc = "read"
  /\ heard < Len(answers)
  /\ heard' = heard + 1
  /\ \/ /\ answers[heard'] = "ping"
        /\ device' = [device EXCEPT !.pc = "name"]
        /\ Writes(DeviceText)
     \/ /\ answers[heard'] = "ack"
        /\ device' = [device EXCEPT !.start = TRUE]
        /\ UNCHANGED link
  /\ UNCHANGED <<answers, server, count>>

PrintName ==
  /\ device.pc = "name"
  /\ device' = [device EXCEPT !.pc = "read"]
  /\ Writes(NameLine)
  /\ UNCHANGED <<back, server, count>>

(* Nothing has arrived: the next turn of loop(), which streams if it may. *)
InputEmpty ==
  /\ device.pc = "read"
  /\ device' = [device EXCEPT !.pc = IF device.start THEN "streaming" ELSE "open"]
  /\ UNCHANGED <<link, back, server, count>>

-----------------------------------------------------------------------------
(* The server. *)

(* Mutant of Take: the packet is taken for one byte longer. *)
TakeOneMore(n) == got' = n + 1 /\ UNCHANGED sent

(* What is read next: bytes got+1 to n. *)
Take(n) == got' = n /\ UNCHANGED sent

Chunk(n) == SubSeq(sent, got + 1, n)

StartsWith(chunk, k1, k2) ==
  Len(chunk) >= 2 /\ chunk[1].kind = k1 /\ chunk[2].kind = k2

(* requestPayloadName, after what else was written in this turn. *)
Requested(written) ==
  /\ count.pings < MaxPings
  /\ answers' = Append(written, "ping")
  /\ count' = [count EXCEPT !.pings = @ + 1]

PingDevice ==
  /\ deviceNameSet
  /\ Requested(answers)
  /\ UNCHANGED <<device, link, heard, server>>

(* getPName's last turn: the name is the rest of the chunk, whatever that is,
   and when a second has passed there is one more "#" behind the "@". *)
ReadName ==
  /\ deviceNameSet
  /\ \E n \in (got + 1) .. Len(sent) :
       Take(n) /\ StartsWith(Chunk(n), "Device", "Name")
  /\ deviceNameSet' = FALSE
  /\ LET named == Append(answers, "ack") IN
     (answers' = named /\ UNCHANGED count) \/ Requested(named)
  /\ UNCHANGED <<device, heard, payloadDataVector>>

SkipGreeting ==
  /\ deviceNameSet
  /\ \E n \in (got + 1) .. Len(sent) :
       Take(n) /\ ~StartsWith(Chunk(n), "Device", "Name")
  /\ UNCHANGED <<device, back, server, count>>

(* Mutant of IsPosition: contains for startsWith. *)
HasPosition(chunk) ==
  \E i \in 1 .. (Len(chunk) - 1) : StartsWith(SubSeq(chunk, i, Len(chunk)), "GP", "GGA")

IsPosition(chunk) == StartsWith(chunk, "GP", "GGA")

(* indexOf('@'), where it is greater than 0. *)
ScienceDataStart(chunk) ==
  {i \in 2 .. Len(chunk) : /\ chunk[i].kind = "at"
                           /\ \A j \in 1 .. (i - 1) : chunk[j].kind # "at"}

(* Mutant of AddElement: the PayloadData is not replaced by a new one. *)
AddSameElement(data) ==
  payloadDataVector' = [i \in 1 .. (Len(payloadDataVector) + 1) |-> data]

AddElement(data) == payloadDataVector' = Append(payloadDataVector, data)

StoreRecord ==
  /\ ~deviceNameSet
  /\ \E n \in (got + 1) .. Len(sent) :
       /\ Take(n)
       /\ IsPosition(Chunk(n))
       /\ \E at \in ScienceDataStart(Chunk(n)) :
            AddElement([gpsData |-> SubSeq(Chunk(n), 1, at - 1),
                        scienceData |-> SubSeq(Chunk(n), at, n - got)
                                        \o <<Atom("return", 0)>>])
  /\ UNCHANGED <<device, back, deviceNameSet, count>>

DropChunk ==
  /\ ~deviceNameSet
  /\ \E n \in (got + 1) .. Len(sent) :
       /\ Take(n)
       /\ ~IsPosition(Chunk(n)) \/ ScienceDataStart(Chunk(n)) = {}
  /\ UNCHANGED <<device, back, server, count>>

-----------------------------------------------------------------------------
Emulator == Announce \/ HearServer \/ SendRecord
Sketch   == OpenLink \/ ReadServer \/ PrintName \/ InputEmpty \/ SendRecord
Server   == PingDevice \/ ReadName \/ SkipGreeting \/ StoreRecord \/ DropChunk

Next == Emulator \/ Sketch \/ Server

Spec == Init /\ [][Next]_vars

(* The device's program runs, and what the server has written arrives: the
   sketch, which may look before it is there, looks again and again. *)
FairSpec ==
  /\ Spec
  /\ WF_vars(HearServer)
  /\ WF_vars(OpenLink \/ PrintName \/ InputEmpty)
  /\ SF_vars(ReadServer)

-----------------------------------------------------------------------------
(* Properties. *)

(* Neither end reads what was not written. *)
TypeOK ==
  /\ device \in [kind : {"RockSim", "NameAndTime", "sketch"},
                 pc : {"handshake", "open", "read", "name", "streaming"},
                 start : BOOLEAN]
  /\ sent \in Seq(Atoms) /\ got \in 0 .. Len(sent)
  /\ answers \in Seq({"ping", "ack"}) /\ heard \in 0 .. Len(answers)
  /\ deviceNameSet \in BOOLEAN
  /\ payloadDataVector \in Seq([gpsData : Seq(Atoms), scienceData : Seq(Atoms)])
  /\ count \in [records : Nat, announce : Nat, opens : Nat, pings : Nat]

(* However the stream is cut and joined, what PayloadDataController keeps as
   gpsData is one whole position, and its scienceData begins with the '@' of
   the same record, never with that of another. *)
PositionsWhole ==
  \A i \in DOMAIN payloadDataVector :
    LET data == payloadDataVector[i]
        n    == data.gpsData[1].n
    IN  data.gpsData = Position(n) /\ data.scienceData[1] = Atom("at", n)

(* The entries are a log of the device's records: in order, none twice, none
   that was not written, and an entry once made is not changed. *)
Log == INSTANCE TelemetryLog WITH
  written <- count.records,
  kept <- [i \in DOMAIN payloadDataVector |-> payloadDataVector[i].gpsData[1].n]

KeepsALog == Log!Spec

(* A device that the server has named gets to stream, whatever pings are in
   the same chunk as the "@" and whatever it was doing: the server writes the
   "@" once and does not listen to announcements any more. *)
StreamsOnceNamed == ~deviceNameSet ~> device.pc = "streaming"
=============================================================================
