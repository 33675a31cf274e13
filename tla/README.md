# S4Software in TLA+

S4Software is the ground segment of small student satellites and rockets:
payloads (an Arduino sketch, or an emulator of it) send telemetry over TCP to a
server, and terminals on the students' desks ask the server for the newest
telemetry of one payload and show it. This directory models the server, the
terminals and the payloads, down to the interrupts of the sketch's libraries, in
TLA+, checks the models with TLC on small instances and proves the main
invariants with TLAPS for instances of any size.

    tlc -workers 2 -config Server_race.cfg MCServer       one run
    tlapm S4ServerProofs.tla                               one module's proofs

## 1. Inventory

### The parts, their state and operations

| part | source | state | operations |
|---|---|---|---|
| Server: Controller | `Server/src/Main/Controller.java` | `payloadDataList`, `payloadList`, `payloadListVector`, the shared `streamOut` and `objectOutputStream` | constructor (starts the accept threads half-way), `UPDatePayloadList`, `terminalRequestForUpdate` |
| Server: payload accept thread | `ConnectPayloadSocket`, `GetName` | two vectors, one socket | accept, `getPName`, `attachPayload` |
| Server: terminal accept thread | `ConnectTerminalSocket`, `GetName`, `ObjectStream` | one vector, one socket, the object stream of the last refresh | accept, `getPName` with refreshes, `attachTerminal` |
| Server: payload threads | `PayloadDataController` | `payloadDataVector` | read a chunk, keep it or drop it |
| Server: terminal threads | `TerminalDataController` | - | read a chunk, call `terminalRequestForUpdate` |
| Server: streams | `SendStreamOut`, `GetStreamIn`, `PayloadObjectTX` | `socket`, `out` | `attachSocket`, `streamOut`, `StreamIn`, `sendObject` |
| Terminal: handshake | `SendName`, `GetObjectStream`, `SendConnectionName` | the list shown, `objectInputStream` | `sendName`, refresh, choose |
| Terminal: data thread | `DataController`, `PayloadObjectRX` | `payloadDataVector`, `boolStream` | read, show, request once a second, stop and start, send a line |
| Terminal and emulator: address book | `IPAdder`, `FileUpdater`, `GetIP`, `EditIPSrc`, `*IPActionListener` | a list of hosts, its file, a combo box, check boxes | load, choose, dial, add, delete, save |
| Emulator | `HandShake`, `RXTXhandeler`, `RockSimParcer` | list of records, index | announce, send the next record |
| Payload firmware | `Arduino/S4Software/PayloadV2` | line buffer, `start` | announce, frame an NMEA line, measure, print |
| its libraries | `Wire` with `twi.c`, `HardwareSerial`, `SoftwareSerial` | the bus's state and buffers, a ring for each serial port | write and read registers, the interrupt handlers, `write`, `read`, `recv` |

The tree also holds the whole Arduino 1.0.1 distribution with the AVR
compiler's headers and other people's libraries: most of its 203,000 lines of C,
none of them this system's. What the sketch runs on is modelled as far as the
sketch reaches it; the rest is left aside. The system's own code, in Java but for
the sketch, has about 5,000 lines.

### How they interact

A payload connects to port 2000. `getPName` sends it "#" once a second until it
writes "DeviceName" and its name, answers "@", and the payload starts to send
records; each goes to the `payloadDataVector` of the thread made for it. A
terminal connects to port 2001 and sends "Refresh"; `getPName` answers
"Refresh" and a serialized list of payloads. The user picks one, "DeviceName"
and the name are sent, "@" comes back, twice. Then the terminal sends a request
a second; its thread in the server calls `terminalRequestForUpdate`, which
looks for the payload by name, writes "PayloadUpdate" on the shared
`SendStreamOut` and the newest entry on the shared `ObjectOutputStream`. The
terminal, on reading "PayloadUpdate", blocks until an object has come.

In the payload one thread runs `setup()` and `loop()`. It reads the GPS from the
ring that a pin interrupt fills, the barometer by starting transactions that the
bus's interrupt carries out while the thread spins, and prints into a ring that
the serial port's interrupt empties.

### What is hard

- No lock protects what the threads of the server share. `streamOut` is one
  object whose socket is set, then used, by every terminal's thread; the object
  stream is replaced when a terminal is attached; three vectors are extended
  one after the other; threads are started before what they use is there.
- TCP keeps no message boundaries and the protocol has none: a read returns
  whatever has come. The server looks at the beginning of a chunk, the terminal
  compares chunks whole, and text and serialized objects share one connection.
- A reader of an `ObjectInputStream` must read all of what was written, since
  later objects refer back to earlier ones. The terminal's stop button and its
  text reads throw parts of it away.
- `readObject` and `getPName` wait without a timeout.
- The address book is one list that two windows, a combo box of its names and a
  file without quoting hold at the same time; the file is emptied before it is
  written.
- The sketch looks at fixed places before the end of a line whose length it has
  not checked, in an array of 90 bytes.
- Its thread shares rings, indices and a state variable with interrupt handlers
  and turns nothing off for it; `write()` stores, moves the head and enables the
  interrupt in three steps. It ignores what `endTransmission` returns, and waits
  without an end for bytes, characters and room.
- Interrupts are off while `SoftwareSerial` writes a byte, for longer than the
  receiver takes to begin another: characters are lost or made up.

### What makes them correct

| part | properties |
|---|---|
| Controller and payload accept thread | `RegistryConsistent`, `NoNullRegistry`, `NamedIsListed` |
| terminal threads and shared streams | `AnswersAreFresh`, `NoUnaskedMarker`, `MarkersMatchObjects`, `KeepsThePromise`, `RequestsEnd`, `RequestsAreAnswered` |
| terminal accept thread | `ListFollowsRefresh`, `StreamMissingOnlyAtFirst`, `ChosenIsAttached` |
| terminal handshake | `Spec` as a property of the system |
| terminal data thread | `DiesOnlyAfterLoss`, `KeepsThePromiseToTheUser`, `ObjectIsOnItsWay` |
| address book | `ComboShowsTheList`, `DialsTheChosenRow`, `DeletesTheTickedRows`, `FileIsTheSavedList`, `BlankIsExplained` |
| emulator, flight file | `KeptMoreThanASecondApart`, `PositionWithPriorReading`, `EveryPositionSent` |
| port 2000 as a stream | `PositionsWhole`, `KeepsALog`, `StreamsOnceNamed` |
| payload firmware, its lines | `TypeOK` (the index), `OnlySentencesSent`, `SentencesThatFitAreSent` |
| payload firmware and libraries | `FirmwareTypeOK`, `CleanReadingsAreRight`, `KeepsAQueue`, `WaitingBytesAreServed`, `ComesBack` |

## 2. The modules

| module | what it is |
|---|---|
| `UpdateService` | the abstract promise: readings are kept in order, a client is handed readings that exist, never an older one of a source after a newer one; only one whose connection has lost something may be given again what it was given |
| `S4Server` | the server, its peers as environment |
| `MCServer` | devices, terminals and names for TLC |
| `S4ServerProofs` | theorems about `S4Server` |
| `S4System` | the server composed with the terminals' own code and their users |
| `MCSystem` | the same for TLC |
| `S4SystemProofs` | theorems about `S4System` |
| `AddressBook`, `MCBook` | the terminal before it is connected |
| `AddressBookProofs` | theorems about `AddressBook` |
| `FlightReplay`, `MCReplay` | the emulator's RockSim mode |
| `FlightReplayProofs` | theorems about `FlightReplay` |
| `NmeaFramer`, `MCNmea` | the sketch's `loop()`: what it makes of the receiver's lines |
| `NmeaFramerProofs` | theorems about `NmeaFramer` |
| `TelemetryLog` | the abstract promise of port 2000: some of a device's records, in order, each once |
| `PayloadLink` | one connection to port 2000 as a stream that reads cut and join anywhere |
| `PayloadLinkProofs` | theorems about `PayloadLink` |
| `ByteQueue` | the abstract promise of a serial port |
| `SerialPort` | the sending half of `HardwareSerial` and its interrupt |
| `TwoWire` | `Wire` and `twi.c` as master, and the barometer |
| `Firmware`, `MCFirmware` | the sketch's thread composed with `SerialPort`, `TwoWire` and the GPS's pin interrupt |
| `SerialPortProofs`, `FirmwareProofs` | theorems about them |

### S4Server

Java statements that touch shared state are actions of their own; what a thread
does between two of them is part of the one before. A thread's program counter
is a field: `payloadAccept.pc`, `terminalAccept.pc`, `handler[t].pc`. The
payload threads need none, each of their steps being a whole turn of the loop.

| actions | code |
|---|---|
| `FinishController` | the end of `Controller.Controller`, after the accept threads started |
| `AcceptPayload`, `PingPayload`, `SkipGreeting`, `ReadPayloadName` | `accept` and `GetName.getPName` on port 2000 |
| `AddPayload`, `StartPayload`, `AddDataController`, `SetLists`, `ListPayload`, `ListPayloadThrows` | `attachPayload` and `UPDatePayloadList`, statement by statement |
| `StoreRecord`, `DropPayloadChunk` | `PayloadDataController.run` |
| `AcceptTerminal`, `PingTerminal`, `AnswerRefresh`, `SendList`, `ReadTerminalName` | `accept` and `getPName` on port 2001 |
| `StartTerminal`, `AckTerminal`, `PublishStream` | `attachTerminal` with the constructor of `TerminalDataController` |
| `StartScan`, `DropTerminalChunk` | `TerminalDataController.run` |
| `EndScan`, `SkipPayload`, `PickNewest`, `ScanThrows` | the loop of `terminalRequestForUpdate` |
| `AttachSocket`, `NewWriter`, `PrintMarker`, `FlushMarker` | `SendStreamOut` |
| `BeginWrite`, `EndWrite`, `SendThrows` | `PayloadObjectTX.sendObject` |
| `ConnectPayload`, `Announce`, `OpenLink`, `SendRecord` | devices: emulator and sketch |
| `ConnectTerminal`, `PressRefresh`, `PressConnect`, `RequestUpdate`, `SendText` | terminals, as far as the protocol binds them |

A "Refresh" is answered in two writes, the text (`AnswerRefresh`) and the list in
an object stream of its own (`SendList`), with every other thread's steps
possible between them; the list is what the vector holds by then.

A wire is the sequence of messages written and not read; one message is one
write. A read takes any non-empty prefix, so chunks are coalesced in every way.
A chunk that starts with a name and carries more gives a name that is the whole
chunk, as `substring(10)` does. What the server wrote is kept whole, as history.
An object carries, besides the entry it stands for, who asked for it, for what
name, and how many entries the payload had when the request was read: fields
only the properties read.

### S4System

`client[t]` is the state of the terminal's connection thread, first in
`SendName.sendName`, then in `DataController.run`. It reads `toTerminal[t]`,
`seen` messages of it so far. The object stream is modelled by what can be
known of its back references: `"synced"` while everything written was read,
`"behind"` after something was missed, `"broken"` when a byte of text is stuck
where an object should start. A stream that is behind may understand the next
object (`ReadObject`), fail on it (`MisreadObject`), or, when the object was sent
before and is only a back reference, take another for it without an error: an
update it has shown already is shown again (`RepeatObject`). Which update the
reference means depends on the lengths of two tables of handles, the server's and
the terminal's; the model allows any of those shown.

| actions | code |
|---|---|
| `Connects`, `RefreshButton`, `DeviceConnectButton`, `SendLine`, `StartStopButton` | the user and the listeners of the windows |
| `ReadAck`, `ReadRefresh`, `DropHandshakeChunk`, `ReadList` | `sendName` and `getObject` |
| `ReadMarker`, `DropChunk`, `Requests` | `DataController.run` |
| `ReadObject`, `RepeatObject`, `ReadText`, `ReadNothing`, `MisreadObject` | `getPayloadObject` and what `run` does after it |

### AddressBook

The state is the disk (`disk`, `file`), the window on the screen (`win`), the
shared `ArrayList` (`IPStorage`), the names in `TCPcomboBox` (`combo`), the row
clicked in it and the check boxes of the edit window (`ticked`). A text is the
sequence of its `Pieces` between commas, so that the file's line of an entry is a
concatenation and a comma inside a name moves the fields as it does in the code.
`Rounds[i]` is the list and the index `j` of the delete button's loop after `i`
rounds. `HalfWritten(list)` are the files that a write of `list` may leave when it
fails or the program ends with the file open: some first lines and perhaps a
beginning of the next, whose last piece may be cut to another (`Cut`). `saved` is
the list of the last OK that wrote the whole file, `attempted` that of a later one
that did not, and `ioError` says that mkdir, createNewFile or the reading failed at
this start: the code ignores, prints and swallows these.

| actions | code |
|---|---|
| `MakeDirectory`, `MakeFile`, `StartUp` | `new Connect()`: `createDirectoryIfNeeded`, `ProcessFile`, `new GetIP` |
| `Choose`, `Dial`, `Edit` | the connect window and `Connect.connect` |
| `Tick`, `Add`, `Delete`, `OK` | the edit window; `OK` with `FileUpdater` (`WriteFile`) |
| `CloseConnect`, `Exit` | closing either window, or a crash |

Two things the model makes visible and no property contradicts, since nothing
in the repository promises otherwise: `getSelectedIndex` compares items, so of
two servers with one name only the first can be dialled; and the program can be
left running without a window (`win = "none"`), by closing the connect window,
by an unknown host or by a port out of range.

### FlightReplay

`Parse` is the whole of `getRockSimData`: `Kept[n]` the rows kept of the first `n`
and `Elements` those of the whole file,
`ConvertToGPS` the list made of them, cut short where a column does not parse.
`SendPair` and `Rewind` are the two branches of `RockSimRXTX` when a second has
passed. The index starts at 1 and the pair is `get(index+1)`, `get(index)`: a
position goes out with the sensor reading of the kept row before it, and the
first position and the last reading never go out.

### NmeaFramer

`Skip`, `Store` and `EndLine` are one character each, read by the inner loop or
by the rest of `loop()`; `Open`, `ReadServer` and `InputEmpty` are the branch
before the server's "@". `Verdicts` is what the two checks of a newline can come
to: one value, or both where the line is so short that the code looks at bytes
before the array, or where `parseHex` is given a character beyond 'F' and
returns nothing.

### PayloadLink

A text is a sequence of atoms, the pieces of it that the code can tell apart;
every text the server looks for has at least two, so that a read can end inside
it. `sent` is all the device wrote and `got` how much of it was read, `answers`
and `heard` the same the other way. The device is the emulator in one of its two
modes or the sketch, chosen at the start.

| actions | code |
|---|---|
| `Announce`, `HearServer`, `SendRecord` | `HandShake` and `RXTXhandeler` of the emulator |
| `OpenLink`, `ReadServer`, `PrintName`, `InputEmpty`, `SendRecord` | the sketch's `loop()` before and after `start` |
| `PingDevice`, `ReadName`, `SkipGreeting` | `GetName.getPName` |
| `StoreRecord`, `DropChunk` | `PayloadDataController.run` |

`StoreRecord` keeps the position up to the first '@' and everything behind it as
`scienceData`, as the code does: with two records in one chunk, or with a record
cut behind its '@', the reading is too long or too short. `PositionsWhole` says
what is right nevertheless. The name a device gets may be cut as well
(`GetName.java:53`), and no property speaks about it: of the name only
`deviceNameSet` is kept. In the turn that read it `getPName` may write a last "#"
behind its "@".

### SerialPort, TwoWire and Firmware

`pc` is where the sketch's thread is. Each access of the thread to what an
interrupt handler also uses is a step of its own; a handler runs whole, since
nothing interrupts it. A busy wait is an action that is disabled until the wait
ends. The hardware is part of the model: it shifts a byte out, moves the bus on,
lets a transaction fail, ends a conversion, sends the next character.

| actions | code |
|---|---|
| `WriteCalled`, `RoomFound`, `StoreByte`, `AdvanceHead`, `EnableInterrupt` | `HardwareSerial::write` |
| `DataRegisterEmpty`, `ByteShifted` | the interrupt of the data register; hardware |
| `WriteTo`, `Written`, `ReadFrom`, `ReadEnds` | `Wire` and `twi_writeTo`, `twi_readFrom`, before and after their waits |
| `Started`, `TransmitAcked`, `Failed`, `ReceiveAcked`, `Received` | `TWI_vect`, by groups of statuses |
| `ConversionEnds` | the barometer |
| `AskConversion` to `Collect` | `bmp085Calibration`, `bmp085ReadUT`, `bmp085ReadUP`, `bmp085ReadInt` |
| `PrintByte`, `WriteGoesOn`, `Printed`, `SoftStarts`, `SoftEnds` | the prints of `setup()` and `loop()` |
| `TakeChar` | a character of `loop()`; what the checks of a line come to is `NmeaFramer`'s subject and free here |
| `GpsSends`, `LateInterrupt` | `SoftwareSerial::recv`, in time or late |

## 3. The runs

| run | instance | shows |
|---|---|---|
| `server_race` | 1 device, 2 terminals that each ask once | `NoUnaskedMarker`, `ListFollowsRefresh`, `StreamMissingOnlyAtFirst` while the terminals fight for the shared streams |
| `server_registry` | 2 devices of one name (a device that reconnects), 2 records each, 1 terminal that asks twice, peers before the constructor is done | `TypeOK`, `RegistryConsistent`, `NoNullRegistry`, `MarkersMatchObjects`, `AnswersAreFresh`; the server implements `UpdateService` (`KeepsThePromise`) |
| `server_live` | 2 devices of different names, 1 terminal with 2 refreshes, peers before the constructor is done, fairness | `RequestsEnd`, `ChosenIsAttached`, `NamedIsListed`, `RequestsAreAnswered` |
| `server_cross` | 1 device, 2 terminals | violation of `UpdatesTheAsker` |
| `server_unserved` | 2 devices, 1 terminal | violation of `ServedWhenDataExists` |
| `system_shown` | 1 terminal, 2 refreshes, 2 records, 4 writes | `SystemTypeOK`, `DiesOnlyAfterLoss`, `ObjectIsOnItsWay`, `KeepsThePromiseToTheUser`, and `Spec`: the terminals' code is one of S4Server's terminals |
| `system_handshake` | 1 terminal, fairness | violation of `HandshakeCompletes` |
| `book_all` | lists of up to 2 of 3 entries: one with a comma and a port out of range, one whose port is no number, one whose port a half-written file may cut; crashes, failing writes, reads, mkdir and createNewFile | `TypeOK`, `ComboShowsTheList`, `FileIsTheSavedList`, `BlankIsExplained`, `DialsTheChosenRow`, `DeletesTheTickedRows` |
| `replay_files` | every file of up to 4 rows and a header, times in any order, three kinds of faulty rows; fairness | `TypeOK`, `KeptMoreThanASecondApart`, `PositionWithPriorReading`, `EveryPositionSent` |
| `nmea_lines` | an array of 8, lines of up to 8 characters of 6 | `TypeOK`, `OnlySentencesSent`, `SentencesThatFitAreSent` |
| `link_stream` | each of the three devices, 4 records, 2 announcements, 3 pings, every way to cut the stream; fairness | `TypeOK`, `PositionsWhole`, `KeepsALog`, `StreamsOnceNamed` |
| `firmware_run` | 2 coefficients, rings of 3 and 2, a buffer of 3, a failure in each reading; fairness | `FirmwareTypeOK`, `CleanReadingsAreRight`, `WaitingBytesAreServed`, `KeepsAQueue`, `ComesBack` |

The three violations are disagreements of the code with its comments:

- `server_cross`: "Takes a request from a Terminal for the Payload update and
  updates it with the newest data" (`Controller.java:81`). With two terminals
  the object goes to the one attached last, and the asker waits.
- `server_unserved`: the same comment. Line 86 asks whether the first payload
  of the list has data, not whether the requested one has.
- `system_handshake`: "Complete handshake" (`TerminalDataController.java:32`).
  That "@" is the second; both can come in one chunk, which is not equal to
  "@", and the terminal stays in the handshake.

### Bounds

Every bound is a constant: `MaxPings`, `MaxAnnounce`, `MaxRecords`,
`MaxRefresh`, `MaxWrites`. They bound the environment and the ping timer, never
a thread's own progress. Two terminals are enough for every race on the shared
streams, since each involves one thread that sets a field and one that uses it;
two payloads, or one that reconnected, for every question about positions in
the vectors, and for a list that grows while it is scanned. In `server_registry`
and `system_shown` two records make an old and a new entry (`server_race`, where
only the streams matter, has one), two writes a request before and one after an
event, four (in `system_shown`) an update shown, one
lost, a marker that breaks the object stream and one read behind it; two
refreshes a name coalesced behind a "Refresh". In the address book two entries make a wrong index visible, and a
deletion that skips the row behind a deleted one (`MaxEntries`), and a file of
which the first line was written and the second cut; a comma in a name moves a
field into the port's place, one in an address is left to the proofs. Three kept rows and a dropped
one need four rows behind the header (`MaxRows`). The shortest sentence has six
characters and the shortest with a body seven, so an array of eight holds it and
lines of eight (`MaxLine`) overflow it. `MaxPings` is 0 where pings only add chunks to drop, 1 where
liveness or the handshake is in question. The terminals are symmetric, which `server_race`
uses. The system runs have one terminal; what holds with several is checked at
the server, in `server_race`, and carried over by `TerminalsKeepTheProtocol`. In
`PayloadLink` four records make an entry, one lost between, one that comes
joined to its neighbour and one behind them (`MaxRecords`); `MaxAnnounce` and
`MaxOpens` are 2 and `MaxPings` 3, so that one of each comes before the name is read
and one behind it. In
`Firmware` two coefficients (`Words`) make a first and a last one; a ring of three
slots (`TxSize`) is filled by the '#' and the record and wraps around in every
turn; the GPS's ring of two (`RxSize`) overflows; the buffer of three
(`BUFFSIZE`) is filled by characters made up by late interrupts; `MaxFailures` is
per reading, and one failure already leads wherever several do, the others
falling on a reading that is lost anyway; of `CTRL`, `OUT` and `Registers` only
the order matters. `InTime` is not a bound but a fact of the hardware: a character
takes a millisecond. Deadlock is not checked:
when the bounds are used up and the users are done, the system may stop, and a
thread whose peer is silent waits as in the code. It is not checked of
`FlightReplay` either, whose thread ends when a row's time does not parse; it is
of `AddressBook`, `NmeaFramer` and `Firmware`.

### Fairness

`FairSpec` and `FairSystemSpec` have weak fairness of every thread of the
programs, one condition per thread, since the JVM runs all of them and each
polls with `sleep` or spins. Nothing makes a device or a user act, and nothing
makes a request timer fire when it does not matter: `Requests` is one of the
steps of a terminal's thread, and which of them it takes is not under
fairness. Reads of a wire that has something are steps of the fair thread.
`FlightReplay` has weak fairness of its one thread, which polls every 10 ms, and
of the clock. `PayloadLink` has weak fairness of the device's program and strong
fairness of `ReadServer`: the sketch asks, in each turn of its loop, whether the
server's byte has come, and what the server wrote does come. `Firmware` has weak
fairness of the thread and of each interrupt and each piece of hardware, the
receiver included, which sends for as long as it has power. Interrupts are off
only between `SoftStarts` and `SoftEnds`, so a pending one is not put off for
ever.

## 4. What is proved

`S4ServerProofs`, for any sets of payloads and terminals, any names and any
bounds, from `ServerAssumption` and `NullIsNoName` only:

- `TypeCorrect`, `RegistryIsConsistent`, `RegistryIsNeverNull`,
  `AnswersStayFresh`, all from `InductiveInvariant`;
- `NoMarkerUnasked`, from `MarkerInv` on top of it: the shared stream's socket
  and its writer's are always those of a terminal that has asked, because only a
  thread that serves a request sets them;
- `StreamIsMissingOnlyAtFirst`, for any number of terminals: a thread with an
  object to write finds the stream null only while the first terminal's thread
  is ahead of the accept thread that publishes its stream;
- `MarkersAndObjectsAlternate`, with one terminal (`OneTerminal`, an assumption of
  the theorem): every marker on its wire has its object before the next;
- `RefreshBringsTheList`, for any number of terminals: nothing comes between a
  "Refresh" and its list;
- `ServerKeepsThePromise`, with one terminal: the server implements
  `UpdateService`. With two it does not: it may write one terminal's answer to
  the other, behind a newer one.

The invariant is `IInv == TypeOK /\ AcceptInv /\ RegistryInv /\ NameInv /\
HandlerInv /\ AnswerInv`. `TypeOK` alone is not inductive: `Newest` is a
natural number only because a handler past `PickNewest` met a payload with
data. `AcceptInv` says that a connection is named once, and is in one place
(backlog, accept thread, attached). `RegistryInv` gives the lengths of the
three vectors for each program counter of the accept thread, hence
`RegistryConsistent`. `NameInv` follows a name from the list to the wire to the
handler: whoever asks was shown a list, so `payloadDataList` has been stored.
`HandlerInv` ties what a handler holds between `PickNewest` and `EndWrite` to
the vectors, which only grow; `AnswerInv` keeps that for what was written.

On top of it, each step of the argument has an invariant of its own:

| invariant | says | for |
|---|---|---|
| `AttachInv` | "@" is only written to a terminal that chose a payload, and once chosen it stays so | `StreamIsMissingOnlyAtFirst`, `S4SystemProofs` |
| `StreamsRun` | whatever stream a handler thread can write to, the shared ones included, leads to a terminal whose own thread runs, hence to none that is still in its handshake | `RefreshBringsTheList` |
| `ConnectionInv` | a terminal's connection is in one place: backlog, handshake, or with its thread | `StreamIsMissingOnlyAtFirst`, `RefreshBringsTheList`, `QuietInv` |
| `StreamInv` | who was sent a list, or sent a name, has a stream made for it, shared or about to be shared | `StreamIsMissingOnlyAtFirst` |
| `PairInv` | a wire's last marker still lacks its object exactly while the thread is at `send`, `writing` or `noStream`; the writer buffers one marker at `flush` and none elsewhere | `MarkersAndObjectsAlternate` |
| `QuietInv` | behind a marker there are only markers, objects and the second "@" | `ThreadDiesOnlyAfterLoss` |
| `OrderInv` | the objects of a payload have entries in order, and the one about to be written is none of the older | `ServerKeepsThePromise`, `PromiseToTheUser` |

`WireGrows` joins them: a step only appends to a wire, and `WrittenBy` names the
one action each kind of message comes from. The answers of the refinement are the
objects of a wire, `ObjectsIn`, a recursive function; what it computes is got by
counting up to the length of the wire (`CountUp`, from the library's theorem that
a well-founded relation has minimal elements): it grows by an object when the
wire does (`ObjectsAppend`), by nothing else (`ObjectsStay`), and has no object
that is not on the wire (`ObjectsFound`).

`S4SystemProofs`, on top of it:

- `TerminalsKeepTheProtocol`: `SystemSpec => Spec`, that is, every behaviour of
  the system with the real terminals is one of `S4Server`, so all the theorems
  above hold of it (`AnswersStayFreshInTheSystem` is one of them, in a line);
- `SystemTypeCorrect`;
- `GetObjectIsSafe`, for any number of terminals: `getObject`, called on a "Refresh"
  that came alone, finds the list next on its wire, by `RefreshBringsTheList`;
- `ShowsOnlyStoredEntries`, for any number of terminals: whatever one shows is an
  entry the server keeps;
- `PromiseToTheUser`: with one terminal the system implements `UpdateService`, up
  to what is on the screen. A terminal whose object stream is behind or broken is
  one of the clients that have `lost` something: the promise lets it show an
  older reading after a newer one, as `RepeatObject` does, but only one it showed
  before, and no other terminal;
- `ThreadDiesOnlyAfterLoss` and `ObjectComesOrThreadDied`, with one terminal:
  `DiesOnlyAfterLoss` and `ObjectIsOnItsWay`.

The invariant is `SystemInv == IInv /\ AttachInv /\ ClientInv`. `ClientInv` says
that a terminal only has what is on the part of the wire it has read: the list,
the "@". The step from `AttachInv` to it is `WireGrows`: no step of the server
changes what was written before. `DisplayInv`, what is shown was read from the
wire, gives `ShowsOnlyStoredEntries` and, with `OrderInv`, `PromiseToTheUser`;
`FreshInv`, nothing is shown before the handshake is over, is why the new list that
mends a stream (`ReadList`) is the abstract `Renew`.

The last two come from `LossInv`: a thread in `readObject` has read a marker, whose
object it has not passed if its stream is synced; with `PairInv` that object is
then on the wire or the server's thread is past its `flush`. What else could be
where the object should be? Not a marker (`PairInv`), not a list or a "#"
(`QuietInv`): only the "@" that the accept thread writes after it started the
terminal's thread. That is why `DiesOnlyAfterLoss` has that case and no other.

`NmeaFramerProofs`, for any array that a `uint8_t` can index, any characters
and lines of any length (`FramerAssumption`; `MaxLine` only bounds the lines in
TLC's runs and may be any number):

- `IndexStaysInTheArray` and `ForwardsOnlySentences`, from `FramerInvariant`;
- `ForwardsEverySentence`, from `FitInv` on top of it: while a line that starts
  with '$' and fits is being received, the buffer is that line.

There the invariant is `TypeOK /\ BufferIsTail /\ OnlySentencesSent`. That the
buffer is the end of the line and holds no newline is what makes it empty when a
new line begins, so that the first character stored is a '$' of this line
(`ReceivedLine`); `ChecksFindSentences` shows that what passes the code's checks
at fixed places is a sentence of the reference definition.

`AddressBookProofs`, for any entries and numbers and a list of any length
(`BookAssumption`; `MaxEntries` may be any number):

- `BookTypeCorrect`, `ComboIsTheList`, `SavedListIsRead`, `NotLockedOut`, from
  `BookInvariant`;
- `DialsWhatWasChosen` and `DeletesOnlyTheTicked`, of the steps that dial and
  delete.

The invariant adds to those properties that the list and what was saved have
only entries that the program can make, `Good`, and what is in the file
(`FileIsKnown`): the lines of the list saved, or what the last OK, having failed,
left of its own. A line is read as it was written unless it has a comma too many
(`LineFields`, `LoadsWhatWasSaved`), and a file cut anywhere as a beginning of the
list, of which only the last port can be another (`CutLineType`,
`HalfWrittenType`, `LoadsABeginning`). That the delete button takes the ticked rows and no other
is an induction over the rounds of its loop: `AfterRounds` says which rows are
left and that `j` is the next one's place.

`FlightReplayProofs`, for a file of any length, with times in any order and faults
anywhere (`ReplayAssumption`):

- `IndexStaysInTheList`, `FilterKeepsASecond` and `PairsAreNeighbours`, from
  `ReplayInvariant`.

The rows kept are again an induction, over the rows of the file (`KeptSoFar`,
`KeepStep`). The library's induction rule takes an operator and cannot be used
here; both modules take the least number at which the claim fails, and a
recursive function is shown to be what its definition says in the same way
(`RoundsDefined`, `KeptDefined`). `Shape` is what the list made of the rows
looks like, cut short or not, and all that the pairs need.

`PayloadLinkProofs`, for any number of records, announcements and pings
(`LinkAssumption`) and every way to cut and join the stream:

- `LinkTypeCorrect`, `EntriesAreWholePositions` and `LinkKeepsALog`, the last a
  refinement of `TelemetryLog`.

The invariant adds to `TypeOK` and `PositionsWhole` what the stream looks like:
`StreamInv`, every "$GP" of it begins a record, these are numbered in order and
every piece of one stands at its place behind it; and `ReadInv`, the entries are
of records that begin in what was read. `PositionChunk` is the heart: in a chunk
that begins with a position, the first '@' is that record's own.

`SerialPortProofs`, for a ring of any size from two and any bytes
(`SerialAssumption`):

- `SerialPortIsAQueue`: `SerialPort` implements `ByteQueue`. Storing a byte is
  invisible (`StoreIsInvisible`, the head's slot is the free one), moving the head
  accepts it, moving the tail sends it.

`FirmwareProofs`, for buffers, rings, records and sentences of any size
(`WireAssumption`, `SerialAssumption`, `FirmwareAssumption`):

- `FirmwareTypeCorrect`, `CleanReadings`, `WaitingBytes`, and
  `FirmwareKeepsAQueue`, which carries `SerialPortIsAQueue` over to the whole
  machine.

The invariant ties the thread's `pc` to the bus: `Transmitting` and `Receiving`
say how far the handler is with the transaction the thread waits for,
`ConvertsOnlyThen` that a conversion runs only between its command and the end of
the delay, and `ReadingRight`, as long as no transaction of the reading failed,
that the pointer, the conversion and the bytes so far are those asked for.

Only model-checked: the properties with liveness (`RequestsEnd`,
`ChosenIsAttached`, `NamedIsListed`, `RequestsAreAnswered`, `StreamsOnceNamed`,
`EveryPositionSent`, `ComesBack`), which the prover does not reach. Every other
property of a passing run is a theorem. `OneTerminal` is no convenience:
`server_cross` shows two terminals of which one is written the other's object, so
that markers and objects do not pair on either wire.

## 5. What the models leave out

- Memory is sequentially consistent: a field written by one thread is seen by
  the next read of another. The Java fields are not volatile, so a real JVM may
  do worse; the vectors themselves are synchronized.
- In `S4Server` and `S4System` a write arrives whole: reads coalesce messages in
  every way but do not split one. `PayloadLink` splits them, for port 2000.
- `writeObject` does not block: a terminal that stops reading for so long that
  its buffers fill would stop the server's thread.
- Timers are "may happen now": the ping and request timers of a second, the
  20 ms between marker and object.
- Connections do not break. The code has no path for it: `StreamIn` on a closed
  socket returns an empty string and the threads spin.
- The barometer's arithmetic and the number formats of the text appended to each
  sentence. Of the bus, the slave's cases and repeated starts, which the sketch
  does not reach; a bus whose hardware never raises its next interrupt. Of
  `HardwareSerial`, reception. Of the WiFly module behind SPI, everything: it has
  no interrupt and its text is `PayloadLink`'s stream.
- In `NmeaFramer`, characters the receiver sends while a sentence is being forwarded
  are lost; there they are characters the line does not have. `Firmware` loses
  them.
- An empty field in the address book; a file or directory that another program
  changes while this one runs.
- Of a back reference read on a stream that is behind, which update it means: any
  of those shown, where the code's tables fix one; and that the list or another
  object that is no update may be meant is `MisreadObject`'s exception.
- A terminal's text line is taken not to start with "payloadUpdateRequest.".
- `TXName` is atomic. Its two statements send the name and then store it: if the
  server's "@" came back between them, the terminal would ask for "null". So is
  the terminal's `streamOut`, which two of its threads call on one object: a line
  of text could be lost and a request sent twice, or the other way round. The
  server's copy of the class is modelled by statements.

## 6. Plan

Done: `UpdateService`, `S4Server`, `S4System`, `NmeaFramer`, `AddressBook`,
`FlightReplay`, `TelemetryLog` with `PayloadLink`, `ByteQueue`, `SerialPort`,
`TwoWire` and `Firmware`, each with its proofs. Left: the terminal's
`SendStreamOut` used by two threads, and `TXName` in its two statements.
