---------------------------- MODULE FlightReplay ----------------------------
(***************************************************************************)
(* The emulator's RockSim mode: RockSimParcer reads the flight file once,  *)
(* keeps a header and the rows that are more than a second apart, and      *)
(* lists a position and a sensor record for each of them; RockSimRXTX then *)
(* sends two neighbours of that list a second, over and over.  A row is    *)
(* [time, fault]: its time in units of which OneSecond make a second, and  *)
(* the first of its columns that is not a number, if any: "time", one of   *)
(* the two of the "position", or "sensor".  Row 1 is the header.           *)
(***************************************************************************)
EXTENDS Integers, Sequences

CONSTANTS
  Rows,       \* the rows a file may have
  Header,     \* its first row, which nothing reads
  OneSecond,
  MaxRows     \* bound: the file has at most this many rows

ASSUME ReplayAssumption ==
  /\ Rows \subseteq [time : Int, fault : {"none", "time", "position", "sensor"}]
  /\ Header \in Rows
  /\ OneSecond \in Nat \ {0} /\ MaxRows \in Nat

VARIABLES
  pc,             \* "parse", "replay" or "dead": where DataController.run() is
  rows,           \* the flight file
  gpsData,        \* <<kind, row>>: "gps" and "sensor" by turns
  gpsDataIndex,
  due,            \* has a second passed since the last record was sent?
  out             \* the two records sent by the last pass, or <<>>

vars == <<pc, rows, gpsData, gpsDataIndex, due, out>>

(* Mutant of gpsDataLength: the size and not the last index. *)
gpsDataSize == Len(gpsData)

gpsDataLength == Len(gpsData) - 1

-----------------------------------------------------------------------------
(* readStringAsListOfElements: Kept[n] are the rows kept of the first n.
   The header is kept unread; after it priorTime is the time of the last row
   kept, 0 at first. *)
PriorTime(kept) == IF Len(kept) < 2 THEN 0 ELSE rows[kept[Len(kept)]].time

(* Mutant of Elements: every row is compared with the one before it, kept or not. *)
ElementsOfNeighbours ==
  LET kept[n \in 0 .. Len(rows)] ==
        IF n = 0 THEN <<>>
        ELSE LET k == kept[n - 1] IN
             IF n = 1 \/ rows[n].time - (IF n = 2 THEN 0 ELSE rows[n - 1].time) > OneSecond
               THEN Append(k, n) ELSE k
  IN  kept[Len(rows)]

Keep(kept, n) ==
  IF n = 1 \/ rows[n].time - PriorTime(kept) > OneSecond THEN Append(kept, n) ELSE kept

Kept[n \in 0 .. Len(rows)] == IF n = 0 THEN <<>> ELSE Keep(Kept[n - 1], n)

Elements == Kept[Len(rows)]

(* convertToGPS: two records of every row kept but the header, up to the first
   row with a fault, where it throws and the list stays as it is: the position
   has been added when only the sensor's column is bad. *)
Recorded(kept) ==
  LET faulty == {k \in 2 .. Len(kept) : rows[kept[k]].fault # "none"}
  IN  IF faulty = {} THEN 2 * (IF kept = <<>> THEN 0 ELSE Len(kept) - 1)
      ELSE LET k == CHOOSE k \in faulty : \A m \in faulty : k =< m
           IN  2 * (k - 2) + (IF rows[kept[k]].fault = "sensor" THEN 1 ELSE 0)

ConvertToGPS(kept) ==
  [i \in 1 .. Recorded(kept) |->
     <<IF i % 2 = 1 THEN "gps" ELSE "sensor", kept[(i + 1) \div 2 + 1]>>]

Init ==
  /\ pc = "parse"
  /\ rows \in {<<>>} \union UNION {{<<Header>> \o r : r \in [1 .. n -> Rows]} : n \in 0 .. MaxRows - 1}
  /\ gpsData = <<>> /\ gpsDataIndex = 1
  /\ due = FALSE /\ out = <<>>

(* getRockSimData.  A row after the header whose time does not parse leaves
   gpsData null, and asking for its size ends the thread. *)
NoTime == \E i \in 2 .. Len(rows) : rows[i].fault = "time"

Parse ==
  /\ pc = "parse" /\ ~NoTime
  /\ pc' = "replay"
  /\ \E kept \in {Elements} : gpsData' = ConvertToGPS(kept)
  /\ UNCHANGED <<rows, gpsDataIndex, due, out>>

ParseFails ==
  /\ pc = "parse" /\ NoTime
  /\ pc' = "dead"
  /\ UNCHANGED <<rows, gpsData, gpsDataIndex, due, out>>

Tick ==
  /\ ~due
  /\ due' = TRUE
  /\ UNCHANGED <<pc, rows, gpsData, gpsDataIndex, out>>

(* get(gpsDataIndex + 1) and get(gpsDataIndex), counted from 0. *)
Get(i) == gpsData[i + 1]

(* Mutant of SendPair: the records at and before the index. *)
SendOwnReading ==
  /\ pc = "replay" /\ due
  /\ gpsDataIndex < gpsDataLength
  /\ out' = <<Get(gpsDataIndex - 1), Get(gpsDataIndex)>>
  /\ gpsDataIndex' = gpsDataIndex + 2
  /\ due' = FALSE
  /\ UNCHANGED <<pc, rows, gpsData>>

SendPair ==
  /\ pc = "replay" /\ due
  /\ gpsDataIndex < gpsDataLength
  /\ out' = <<Get(gpsDataIndex + 1), Get(gpsDataIndex)>>
  /\ gpsDataIndex' = gpsDataIndex + 2
  /\ due' = FALSE
  /\ UNCHANGED <<pc, rows, gpsData>>

(* Mutant of Rewind: the index stays at the end. *)
RewindNot ==
  /\ pc = "replay" /\ due
  /\ ~(gpsDataIndex < gpsDataLength)
  /\ out' = <<>>
  /\ UNCHANGED <<pc, rows, gpsData, gpsDataIndex, due>>

(* At the end of the list the index goes back and the next pass sends: the
   time of the last record is left alone. *)
Rewind ==
  /\ pc = "replay" /\ due
  /\ ~(gpsDataIndex < gpsDataLength)
  /\ gpsDataIndex' = 1
  /\ out' = <<>>
  /\ UNCHANGED <<pc, rows, gpsData, due>>

Next == Parse \/ ParseFails \/ Tick \/ SendPair \/ Rewind

(* The thread runs, and time passes. *)
Fairness == WF_vars(Parse) /\ WF_vars(Tick) /\ WF_vars(SendPair) /\ WF_vars(Rewind)

Spec == Init /\ [][Next]_vars /\ Fairness

-----------------------------------------------------------------------------
(* Properties. *)

(* The index is odd, and both records a pass would take are in the list. *)
TypeOK ==
  /\ pc \in {"parse", "replay", "dead"}
  /\ gpsData \in Seq({"gps", "sensor"} \X (2 .. Len(rows)))
  /\ gpsDataIndex \in 1 .. Len(gpsData) + 1 /\ gpsDataIndex % 2 = 1
  /\ pc = "replay" /\ gpsDataIndex < gpsDataLength => gpsDataIndex + 1 \in 0 .. Len(gpsData) - 1
  /\ due \in BOOLEAN

KeptRows == {i \in 2 .. Len(rows) : <<"gps", i>> \in {gpsData[k] : k \in DOMAIN gpsData}}

LastKeptBefore(i) ==
  {j \in KeptRows : j < i /\ \A k \in KeptRows : k < i => k =< j}

(* The filter's promise, row by row up to the first with a fault: a row after
   the header is kept exactly when it is more than a second later than the last
   one kept before it (than 0 if there is none), whatever the order of the
   times in the file. *)
KeptMoreThanASecondApart ==
  pc = "replay" =>
    \A i \in 2 .. Len(rows) :
      (\A j \in 2 .. i : rows[j].fault = "none") =>
        ((i \in KeptRows) <=>
           IF LastKeptBefore(i) = {} THEN rows[i].time > OneSecond
           ELSE \A j \in LastKeptBefore(i) : rows[i].time - rows[j].time > OneSecond)

(* What goes out is a position with the sensor reading of the kept row just
   before it: a position is never sent with a reading of a later row or of one
   further back. *)
PositionWithPriorReading ==
  out # <<>> =>
    /\ out[1][1] = "gps" /\ out[2][1] = "sensor"
    /\ out[2][2] \in LastKeptBefore(out[1][2])

(* The replay is complete: once the file is read the position of every kept
   row but the first is sent again and again. *)
EveryPositionSent ==
  \A i \in 2 .. MaxRows :
    (pc = "replay" /\ i \in KeptRows /\ LastKeptBefore(i) # {})
      ~> (out # <<>> /\ out[1] = <<"gps", i>>)
=============================================================================
