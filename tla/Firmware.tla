------------------------------ MODULE Firmware ------------------------------
(***************************************************************************)
(* The payload's program with the libraries it runs on: the one thread of  *)
(* setup() and loop() (PayloadV2.ino, from the moment the server has said  *)
(* '@'), the interrupts of the two-wire bus (TwoWire) and of the serial    *)
(* port (SerialPort), and the pin interrupt with which SoftwareSerial      *)
(* receives the GPS.  `pc' is where the thread is; a busy wait is an       *)
(* action that is disabled until the wait ends.                            *)
(*                                                                         *)
(* What a sentence is and whether its checksum agrees is NmeaFramer's      *)
(* subject: here a sentence is a '$', characters and a newline, and the    *)
(* check may come out either way.  The SPI serial port has no interrupt    *)
(* and is left out.                                                        *)
(***************************************************************************)
EXTENDS SerialPort, TwoWire

CONSTANTS
  FIRST, Words,   \* the first coefficient's register (0xAA) and how many there are (11)
  Greeting,       \* what setup() prints between its two calibrations
  Record,         \* what loop() prints of a sentence
  SoftBytes,      \* how many bytes of either go out through SoftwareSerial
  RxSize,         \* _SS_MAX_RX_BUFF, 64 in the source
  BUFFSIZE,       \* 90 in the source
  Sentence        \* what the receiver sends, again and again

GpsChars == {"dollar", "char", "newline"}

ASSUME FirmwareAssumption ==
  /\ Words \in Nat \ {0} /\ FIRST \in Nat /\ FIRST + 2 * Words <= CTRL
  /\ {"hash", "mark"} \subseteq Bytes
  /\ Greeting \in Seq(Bytes) /\ Record \in Seq(Bytes)
  /\ SoftBytes \in Nat \ {0}
  /\ RxSize \in Nat /\ RxSize >= 2
  /\ BUFFSIZE \in Nat /\ BUFFSIZE >= 3
  /\ Sentence \in Seq(GpsChars) /\ Sentence # <<>>

VARIABLES
  pc,
  asked,                \* the reading under way: its first register, number of bytes, conversion
  word,                 \* how many coefficients setup() has read
  out, then, soft,      \* bytes left to print, what follows, bytes left for SoftwareSerial
  bufferidx,
  gpsRing, late, gpsAt  \* SoftwareSerial's ring, a pending pin interrupt, the receiver's next character

progVars == <<asked, word, out, then, soft, bufferidx>>
gpsVars  == <<gpsRing, late, gpsAt>>
vars     == <<serialVars, wireVars, pc, progVars, gpsVars>>

Coefficient(w) == [reg |-> FIRST + 2 * (IF w < Words THEN w ELSE w - Words), n |-> 2, conv |-> "none"]
Measured(k)    == [reg |-> OUT, n |-> IF k = "temperature" THEN 2 ELSE 3, conv |-> k]

FirmwareInit ==
  /\ SerialInit /\ WireInit
  /\ pc = "pointer"
  /\ asked = Coefficient(0) /\ word = 0
  /\ out = <<>> /\ then = "loop" /\ soft = 0
  /\ bufferidx = 0
  /\ gpsRing = <<>> /\ late = FALSE /\ gpsAt = 1

-----------------------------------------------------------------------------
(* The barometer: bmp085Calibration(), bmp085ReadInt(), bmp085ReadUT() and
   bmp085ReadUP(). *)

WireStep(A, from, to) ==
  /\ pc = from /\ A /\ pc' = to
  /\ UNCHANGED <<serialVars, progVars, gpsVars>>

AskConversion   == WireStep(WriteTo(<<Address(CTRL), Command(asked.conv)>>), "command", "commandWait")
ConversionAsked == WireStep(Written, "commandWait", "delay")

(* delay(5): longer than a conversion takes. *)
Delayed         == WireStep(busy = "none" /\ UNCHANGED wireVars, "delay", "pointer")

SetPointer      == WireStep(WriteTo(<<Address(asked.reg)>>), "pointer", "pointerWait")
PointerSet      == WireStep(Written, "pointerWait", "request")
Request         == WireStep(ReadFrom(asked.n), "request", "requestWait")
Requested       == WireStep(ReadEnds(asked.n), "requestWait", "collect")

Prints(bytes, next) == pc' = "print" /\ out' = bytes /\ then' = next

(* The wait for Wire.available() ends and the bytes are fetched.  Then the
   next coefficient, the pressure after the temperature, or the print. *)
Collect ==
  /\ pc = "collect" /\ Len(rxBuffer) >= asked.n
  /\ failures' = 0
  /\ CASE asked.conv = "temperature" ->
            pc' = "command" /\ asked' = Measured("pressure") /\ UNCHANGED <<word, out, then>>
       [] asked.conv = "pressure" ->
            Prints(Record, "soft") /\ UNCHANGED <<asked, word>>
       [] OTHER ->
            /\ word' = word + 1
            /\ CASE word' = 2 * Words -> pc' = "loop" /\ UNCHANGED <<asked, out, then>>
                 [] word' = Words     -> Prints(Greeting, "soft") /\ asked' = Coefficient(word')
                 [] OTHER             -> pc' = "pointer" /\ asked' = Coefficient(word') /\ UNCHANGED <<out, then>>
  /\ UNCHANGED <<twi_state, twi_masterBuffer, twi_masterBufferIndex, twi_masterBufferLength, bus, rxBuffer, device>>
  /\ UNCHANGED <<serialVars, soft, bufferidx, gpsVars>>

-----------------------------------------------------------------------------
(* Printing: to Serial, a write() for each byte, and then through
   SoftwareSerial, with interrupts off for the length of each byte. *)

PrintByte ==
  /\ pc = "print" /\ out # <<>>
  /\ WriteCalled(Head(out))
  /\ out' = Tail(out)
  /\ UNCHANGED <<wireVars, pc, asked, word, then, soft, bufferidx, gpsVars>>

WriteGoesOn ==
  /\ pc = "print" /\ Write
  /\ UNCHANGED <<wireVars, pc, progVars, gpsVars>>

Printed ==
  /\ pc = "print" /\ out = <<>> /\ writing = "no"
  /\ pc' = then
  /\ soft' = IF then = "soft" THEN SoftBytes ELSE soft
  /\ UNCHANGED <<serialVars, wireVars, asked, word, out, then, bufferidx, gpsVars>>

SoftStarts ==
  /\ pc = "soft" /\ InterruptsOff
  /\ UNCHANGED <<wireVars, pc, progVars, gpsVars>>

SoftEnds ==
  /\ pc = "soft" /\ InterruptsOn
  /\ soft' = soft - 1
  /\ pc' = IF soft' > 0 THEN "soft" ELSE IF word = 2 * Words THEN "loop" ELSE "pointer"
  /\ UNCHANGED <<wireVars, asked, word, out, then, bufferidx, gpsVars>>

-----------------------------------------------------------------------------
(* loop(): one character of the receiver's. *)

Reads == gpsRing # <<>> /\ gpsRing' = Tail(gpsRing) /\ UNCHANGED <<late, gpsAt>>

(* A sentence whose checks come out right: a '#', then both measurements. *)
Accepted == Prints(<<"hash">>, "command") /\ asked' = Measured("temperature")

(* Any other: a '*' or a '~'. *)
Rejected == Prints(<<"mark">>, "loop") /\ UNCHANGED asked

(* The character goes into the buffer: the end of a sentence, the buffer's
   end, or neither. *)
Buffer(ch) ==
  IF ch = "newline"
    THEN bufferidx' = 0 /\ (Accepted \/ Rejected)
    ELSE IF bufferidx + 1 = BUFFSIZE - 1
      THEN bufferidx' = 0 /\ Prints(<<"mark">>, "loop") /\ UNCHANGED asked
      ELSE bufferidx' = bufferidx + 1 /\ pc' = "loop" /\ UNCHANGED <<out, then, asked>>

(* With the buffer empty the thread reads until a '$' comes; an empty ring's
   -1 is no '$' and the wait goes on. *)
TakeChar ==
  /\ pc \in {"loop", "skip"}
  /\ Reads
  /\ IF bufferidx = 0 /\ Head(gpsRing) # "dollar"
       THEN pc' = "skip" /\ UNCHANGED <<out, then, asked, bufferidx>>
       ELSE Buffer(Head(gpsRing))
  /\ UNCHANGED <<serialVars, wireVars, word, soft>>

-----------------------------------------------------------------------------
(* SoftwareSerial's receiver: the pin interrupt reads the whole byte.  With
   interrupts off the byte's start is missed, and the interrupt that is then
   late finds the line high and keeps nothing, or reads what is left of the
   byte as some other. *)

Recv(ch) == gpsRing' = IF Len(gpsRing) < RxSize - 1 THEN Append(gpsRing, ch) ELSE gpsRing

(* A character takes a millisecond to come: by then a thread that waits for
   one has read those before it. *)
InTime == pc = "skip" => gpsRing = <<>>

GpsSends ==
  /\ InTime
  /\ gpsAt' = IF gpsAt = Len(Sentence) THEN 1 ELSE gpsAt + 1
  /\ IF ie THEN ~late /\ Recv(Sentence[gpsAt]) /\ UNCHANGED late
           ELSE late' = TRUE /\ UNCHANGED gpsRing
  /\ UNCHANGED <<serialVars, wireVars, pc, progVars>>

LateInterrupt ==
  /\ ie /\ late
  /\ late' = FALSE
  /\ UNCHANGED gpsRing \/ \E ch \in GpsChars : Recv(ch)
  /\ UNCHANGED <<serialVars, wireVars, pc, progVars, gpsAt>>

-----------------------------------------------------------------------------
Main ==
  \/ AskConversion \/ ConversionAsked \/ Delayed
  \/ SetPointer \/ PointerSet \/ Request \/ Requested \/ Collect
  \/ PrintByte \/ WriteGoesOn \/ Printed \/ SoftStarts \/ SoftEnds
  \/ TakeChar

BusInterrupt    == ie /\ TWI_vect /\ UNCHANGED <<serialVars, pc, progVars, gpsVars>>
Conversion      == ConversionEnds /\ UNCHANGED <<serialVars, pc, progVars, gpsVars>>
SerialInterrupt == DataRegisterEmpty /\ UNCHANGED <<wireVars, pc, progVars, gpsVars>>
Shift           == ByteShifted /\ UNCHANGED <<wireVars, pc, progVars, gpsVars>>

Next == Main \/ BusInterrupt \/ Conversion \/ SerialInterrupt \/ Shift \/ GpsSends \/ LateInterrupt

Spec == FirmwareInit /\ [][Next]_vars

FairSpec ==
  /\ Spec
  /\ WF_vars(Main) /\ WF_vars(BusInterrupt) /\ WF_vars(Conversion)
  /\ WF_vars(SerialInterrupt) /\ WF_vars(Shift)
  /\ WF_vars(GpsSends) /\ WF_vars(LateInterrupt)

-----------------------------------------------------------------------------
Asked == [reg : 0 .. Registers - 1, n : 1 .. 3, conv : Conversions \union {"none"}]

FirmwareTypeOK ==
  /\ SerialTypeOK /\ WireTypeOK
  /\ pc \in {"command", "commandWait", "delay", "pointer", "pointerWait", "request", "requestWait",
             "collect", "print", "soft", "loop", "skip"}
  /\ asked \in Asked /\ word \in 0 .. 2 * Words
  /\ out \in Seq(Bytes) /\ then \in {"loop", "command", "soft"} /\ soft \in 0 .. SoftBytes
  /\ bufferidx \in 0 .. BUFFSIZE - 2
  /\ gpsRing \in Seq(GpsChars) /\ Len(gpsRing) < RxSize
  /\ late \in BOOLEAN /\ gpsAt \in DOMAIN Sentence

(* A reading none of whose transactions failed is complete, so that the
   program does not wait for ever, and its bytes are those of the registers
   the program named, in their order, with the conversion it asked for. *)
CleanReadingsAreRight ==
  pc = "collect" /\ failures = 0 =>
    /\ Len(rxBuffer) = asked.n
    /\ \A i \in 1 .. asked.n :
         rxBuffer[i] = [reg   |-> asked.reg + i - 1,
                        holds |-> IF asked.conv = "none" THEN "coefficient" ELSE asked.conv]

(* Serial's bytes leave in the order of the calls, each once, whatever the
   interrupt does between the steps of write(). *)
KeepsAQueue == Queue!Spec

(* The thread comes back to loop()'s start: out of the prints, the measurements
   and the wait for a '$', unless a reading came back short. *)
ComesBack ==
  pc # "loop" ~> pc = "loop" \/ (pc = "collect" /\ Len(rxBuffer) < asked.n)

(* A byte that waits in the ring has its interrupt enabled, whenever the
   handler last found the ring empty: no byte waits for the next write(). *)
WaitingBytesAreServed == txHead # txTail /\ writing # "enable" => udrie
=============================================================================
