--------------------------- MODULE FirmwareProofs ---------------------------
(***************************************************************************)
(* Firmware's type invariant, its queue and the correctness of the         *)
(* readings none of whose transactions failed, for every size of the       *)
(* rings and buffers, every number of coefficients and every bound on the  *)
(* failures.                                                               *)
(***************************************************************************)
EXTENDS Firmware, SerialPortProofs

FullAssumption == SerialAssumption /\ WireAssumption /\ FirmwareAssumption

-----------------------------------------------------------------------------
(* The thread: what it asks for, and how far setup() is. *)

Sensing == {"command", "commandWait", "delay", "pointer", "pointerWait", "request", "requestWait", "collect"}

Reading == {"pointer", "pointerWait", "request", "requestWait", "collect"}

AskedInv ==
  \/ /\ asked \in [reg : Nat, n : {2}, conv : {"none"}]
     /\ asked.reg + 1 < CTRL
  \/ asked \in {Measured("temperature"), Measured("pressure")}

ProgType ==
  /\ pc \in Sensing \union {"print", "soft", "loop", "skip"}
  /\ word \in 0 .. 2 * Words
  /\ out \in Seq(Bytes) /\ then \in {"loop", "command", "soft"} /\ soft \in 0 .. SoftBytes
  /\ bufferidx \in 0 .. BUFFSIZE - 2

GpsType ==
  /\ gpsRing \in Seq(GpsChars) /\ Len(gpsRing) < RxSize
  /\ late \in BOOLEAN /\ gpsAt \in DOMAIN Sentence

ProgInv ==
  /\ AskedInv
  /\ pc \in {"command", "commandWait", "delay"} => asked.conv # "none"
  /\ pc = "print" /\ then = "command" => asked.conv # "none"
  /\ asked.conv # "none" => word = 2 * Words
  /\ pc \in {"loop", "skip"} => word = 2 * Words
  /\ pc = "print" /\ then # "soft" => word = 2 * Words
  /\ pc \in Sensing /\ asked.conv = "none" => word < 2 * Words
  /\ pc = "soft" => soft > 0

(* The bus: whose transaction is under way, and where it is. *)

Sent == IF pc = "commandWait" THEN <<Address(CTRL), Command(asked.conv)>> ELSE <<Address(asked.reg)>>

Transmitting ==
  twi_state = "MTX" =>
    /\ bus \in {"startW", "addressW", "dataW"} /\ pc \in {"commandWait", "pointerWait"}
    /\ twi_masterBuffer = Sent
    /\ twi_masterBufferLength = (IF pc = "commandWait" THEN 2 ELSE 1)
    /\ twi_masterBufferIndex \in 0 .. twi_masterBufferLength
    /\ bus = "dataW" <=> twi_masterBufferIndex > 0

Receiving ==
  /\ twi_state = "MRX" =>
       /\ bus \in {"startR", "addressR", "dataR", "lastR"} /\ pc = "requestWait"
       /\ twi_masterBufferLength = asked.n - 1
       /\ bus \in {"startR", "addressR"} => twi_masterBufferIndex = 0
       /\ bus = "dataR" => twi_masterBufferIndex < twi_masterBufferLength
       /\ bus = "lastR" => twi_masterBufferIndex = twi_masterBufferLength
  /\ pc = "requestWait" =>
       twi_masterBufferIndex = Len(twi_masterBuffer) /\ twi_masterBufferIndex <= asked.n

ConvertsOnlyThen == busy # "none" => pc \in {"commandWait", "delay"}

(* What a reading without a failure has established on its way. *)

Right(k) == [reg   |-> asked.reg + k - 1,
             holds |-> IF asked.conv = "none" THEN "coefficient" ELSE asked.conv]

Converting == busy = asked.conv \/ (busy = "none" /\ result = asked.conv)

CommandRight ==
  /\ pc = "commandWait" /\ twi_state = "MTX" /\ twi_masterBufferIndex = 2 => pointer = CTRL
  /\ pc = "commandWait" /\ twi_state = "READY" => Converting
  /\ pc = "delay" => Converting
  /\ pc \in Reading /\ asked.conv # "none" => result = asked.conv

PointerRight ==
  /\ pc = "pointerWait" /\ twi_state = "READY" => pointer = asked.reg
  /\ pc = "request" => pointer = asked.reg

BytesRight ==
  /\ pc = "requestWait" =>
       /\ twi_state = "MRX" => pointer = asked.reg + twi_masterBufferIndex
       /\ twi_state = "READY" => twi_masterBufferIndex = asked.n
       /\ \A k \in 1 .. twi_masterBufferIndex : twi_masterBuffer[k] = Right(k)
  /\ pc = "collect" =>
       Len(rxBuffer) = asked.n /\ \A k \in 1 .. asked.n : rxBuffer[k] = Right(k)

ReadingRight == failures = 0 => CommandRight /\ PointerRight /\ BytesRight

BusInv == WireTypeOK /\ Transmitting /\ Receiving /\ ConvertsOnlyThen /\ ReadingRight

(* Where the serial port and the bus are left alone. *)
FirmwareInv == ProgType /\ GpsType /\ ProgInv /\ BusInv

-----------------------------------------------------------------------------
(* What the program asks of the barometer: two or three bytes, on the side
   of the register map that its conversion says. *)
LEMMA AskedFits ==
  ASSUME FullAssumption, AskedInv
  PROVE  /\ asked \in Asked /\ asked.n \in {2, 3}
         /\ asked.reg + asked.n <= Registers
         /\ \A k \in 0 .. asked.n - 1 :
              IF asked.conv = "none" THEN asked.reg + k < OUT ELSE asked.reg + k >= OUT
  BY DEF FullAssumption, WireAssumption, AskedInv, Measured, Asked, Conversions

(* The registers of setup()'s calibration lie below the control register. *)
LEMMA CoefficientAsked ==
  ASSUME FullAssumption, NEW w \in 0 .. 2 * Words - 1
  PROVE  /\ Coefficient(w) \in [reg : Nat, n : {2}, conv : {"none"}]
         /\ Coefficient(w).reg + 1 < CTRL
         /\ Coefficient(w).conv = "none"
  BY DEF FullAssumption, WireAssumption, FirmwareAssumption, Coefficient

(* The machine starts with the invariant. *)
LEMMA InvInit ==
  ASSUME FullAssumption, FirmwareInit
  PROVE  FirmwareInv
<1>1. 0 \in 0 .. 2 * Words - 1
  BY DEF FullAssumption, FirmwareAssumption
<1>2. ProgInv
  BY <1>1, CoefficientAsked DEF FullAssumption, FirmwareAssumption, FirmwareInit, ProgInv, AskedInv, Sensing
<1>3. ProgType
  BY DEF FullAssumption, FirmwareAssumption, FirmwareInit, ProgType, Sensing
<1>4. GpsType
  <2>1. 1 \in DOMAIN Sentence
    BY DEF FullAssumption, FirmwareAssumption
  <2>2. late \in BOOLEAN
    BY DEF FirmwareInit
  <2> QED
    BY <2>1, <2>2 DEF FullAssumption, FirmwareAssumption, FirmwareInit, GpsType
<1>5. WireTypeOK
  BY DEF FullAssumption, WireAssumption, FirmwareInit, WireInit, WireTypeOK
<1>6. Transmitting /\ Receiving /\ ConvertsOnlyThen
  BY DEF FirmwareInit, WireInit, Transmitting, Receiving, ConvertsOnlyThen
<1>7. ReadingRight
  BY <1>1, CoefficientAsked
  DEF FirmwareInit, WireInit, ReadingRight, CommandRight, PointerRight, BytesRight
<1> QED
  BY <1>2, <1>3, <1>4, <1>5, <1>6, <1>7 DEF FirmwareInv, BusInv

-----------------------------------------------------------------------------
(* The interrupt of the bus. *)

(* TW_START keeps the bus's invariant. *)
LEMMA StartedStep ==
  ASSUME FullAssumption, FirmwareInv, Started, UNCHANGED <<pc, asked>>
  PROVE  BusInv'
<1> USE DEF FirmwareInv, BusInv, Started, device
<1>1. WireTypeOK'
  BY DEF WireTypeOK
<1>2. Transmitting' /\ Receiving' /\ ConvertsOnlyThen'
  BY DEF Transmitting, Receiving, ConvertsOnlyThen, Sent, WireTypeOK
<1>3. ReadingRight'
  BY DEF ReadingRight, CommandRight, PointerRight, BytesRight, Right, Converting
<1> QED
  BY <1>1, <1>2, <1>3

(* TW_MR_SLA_ACK keeps it: the last byte is the one not acknowledged. *)
LEMMA ReceiveAckedStep ==
  ASSUME FullAssumption, FirmwareInv, ReceiveAcked, UNCHANGED <<pc, asked>>
  PROVE  BusInv'
<1> USE DEF FirmwareInv, BusInv, ReceiveAcked, AskForMore, device
<1>1. WireTypeOK'
  BY DEF WireTypeOK
<1>2. Transmitting' /\ Receiving' /\ ConvertsOnlyThen'
  BY AskedFits DEF ProgInv, Transmitting, Receiving, ConvertsOnlyThen, Sent, WireTypeOK
<1>3. ReadingRight'
  BY DEF ReadingRight, CommandRight, PointerRight, BytesRight, Right, Converting
<1> QED
  BY <1>1, <1>2, <1>3

(* What the barometer takes is what the program sends. *)
LEMMA TakesWhatIsSent ==
  ASSUME FullAssumption, FirmwareInv, bus = "dataW", Takes
  PROVE  /\ pc = "pointerWait" => pointer' = asked.reg /\ busy' = busy
         /\ pc = "commandWait" /\ twi_masterBufferIndex = 1 => pointer' = CTRL /\ busy' = busy
         /\ pc = "commandWait" /\ twi_masterBufferIndex = 2 =>
              pointer' = pointer /\ busy' = IF pointer = CTRL THEN asked.conv ELSE busy
         /\ result' = result
         /\ pc = "pointerWait" => twi_masterBufferIndex = 1
         /\ pc = "commandWait" => twi_masterBufferIndex \in {1, 2}
         /\ pc \in {"commandWait", "pointerWait"} /\ twi_state = "MTX"
         /\ pointer' \in 0 .. Registers - 1
         /\ busy' \in Conversions \union {"none"}
         /\ busy' # "none" => pc = "commandWait"
<1>1. twi_state = "MTX" /\ pc \in {"commandWait", "pointerWait"} /\ twi_masterBuffer = Sent
  BY DEF FirmwareInv, BusInv, WireTypeOK, Transmitting, Receiving
<1>2. /\ pc = "pointerWait" => twi_masterBufferIndex = 1 /\ twi_masterBuffer[1] = Address(asked.reg)
      /\ pc = "commandWait" => /\ twi_masterBufferIndex \in {1, 2}
                               /\ twi_masterBuffer[1] = Address(CTRL)
                               /\ twi_masterBuffer[2] = Command(asked.conv)
  BY <1>1 DEF FirmwareInv, BusInv, Transmitting, Sent
<1>3. asked.reg \in 0 .. Registers - 1 /\ CTRL \in 0 .. Registers - 1
  BY AskedFits DEF FirmwareInv, ProgInv, FullAssumption, WireAssumption, Asked
<1>4. pc = "commandWait" => asked.conv \in Conversions
  BY AskedFits DEF FirmwareInv, ProgInv, Asked
<1>5. pc = "pointerWait" => busy = "none"
  BY DEF FirmwareInv, BusInv, ConvertsOnlyThen
<1> QED
  BY <1>1, <1>2, <1>3, <1>4, <1>5 DEF Takes, Address, Command, FirmwareInv, BusInv, WireTypeOK

(* TW_MT_SLA_ACK and TW_MT_DATA_ACK keep it: at the stop every byte has been
   taken. *)
LEMMA TransmitAckedStep ==
  ASSUME FullAssumption, FirmwareInv, TransmitAcked, UNCHANGED <<pc, asked>>
  PROVE  BusInv'
<1> USE DEF FirmwareInv, BusInv
<1>1. twi_state = "MTX" /\ pc \in {"commandWait", "pointerWait"} /\ bus \in {"addressW", "dataW"}
  BY DEF TransmitAcked, WireTypeOK, Transmitting, Receiving
<1>2. CASE bus = "addressW"
  <2>1. /\ bus' = "dataW" /\ twi_masterBufferIndex' = 1 /\ twi_masterBufferIndex = 0
        /\ UNCHANGED <<twi_state, device, twi_masterBuffer, twi_masterBufferLength, rxBuffer, failures>>
    BY <1>1, <1>2 DEF TransmitAcked, Transmitting
  <2>2. WireTypeOK'
    BY <2>1, <1>1, FullAssumption DEF WireTypeOK, device, FullAssumption, WireAssumption
  <2>3. Transmitting' /\ Receiving' /\ ConvertsOnlyThen'
    BY <2>1, <1>1, <1>2 DEF Transmitting, Receiving, ConvertsOnlyThen, Sent, device
  <2>4. ReadingRight'
    BY <2>1, <1>1 DEF ReadingRight, CommandRight, PointerRight, BytesRight, Converting, device, Reading
  <2> QED
    BY <2>2, <2>3, <2>4
<1>3. CASE bus = "dataW" /\ twi_masterBufferIndex < twi_masterBufferLength
  <2>1. /\ bus' = "dataW" /\ twi_masterBufferIndex' = 2 /\ twi_masterBufferIndex = 1
        /\ pc = "commandWait" /\ Takes
        /\ UNCHANGED <<twi_state, twi_masterBuffer, twi_masterBufferLength, rxBuffer, failures>>
    BY <1>1, <1>3 DEF TransmitAcked, Transmitting
  <2>2. pointer' = CTRL /\ busy' = busy /\ result' = result /\ pointer' \in 0 .. Registers - 1
    BY <2>1, <1>3, TakesWhatIsSent
  <2>3. WireTypeOK'
    BY <2>1, <2>2, <1>1, FullAssumption DEF WireTypeOK, FullAssumption, WireAssumption
  <2>4. Transmitting' /\ Receiving' /\ ConvertsOnlyThen'
    BY <2>1, <2>2, <1>1, <1>3 DEF Transmitting, Receiving, ConvertsOnlyThen, Sent
  <2>5. ReadingRight'
    BY <2>1, <2>2, <1>1 DEF ReadingRight, CommandRight, PointerRight, BytesRight, Converting, Reading
  <2> QED
    BY <2>3, <2>4, <2>5
<1>4. CASE bus = "dataW" /\ ~(twi_masterBufferIndex < twi_masterBufferLength)
  <2>1. /\ bus' = "idle" /\ twi_state' = "READY" /\ Takes
        /\ UNCHANGED <<twi_masterBufferIndex, twi_masterBuffer, twi_masterBufferLength, rxBuffer, failures>>
    BY <1>1, <1>4 DEF TransmitAcked, Stop
  <2>2. pc = "commandWait" => twi_masterBufferIndex = 2
    BY <1>1, <1>4 DEF Transmitting
  <2>3. /\ pointer' \in 0 .. Registers - 1 /\ busy' \in Conversions \union {"none"} /\ result' = result
        /\ busy' # "none" => pc = "commandWait"
    BY <2>1, <1>4, TakesWhatIsSent
  <2>4. WireTypeOK'
    BY <2>1, <2>3, FullAssumption DEF WireTypeOK, FullAssumption, WireAssumption
  <2>5. Transmitting' /\ Receiving' /\ ConvertsOnlyThen'
    BY <2>1, <2>3, <1>1 DEF Transmitting, Receiving, ConvertsOnlyThen
  <2>6. ReadingRight'
    <3>1. CASE pc = "pointerWait"
      <4>1. pointer' = asked.reg /\ result' = result
        BY <2>1, <1>4, <3>1, TakesWhatIsSent
      <4> QED
        BY <2>1, <3>1, <4>1 DEF ReadingRight, CommandRight, PointerRight, BytesRight, Reading
    <3>2. CASE pc = "commandWait"
      <4>1. busy' = IF pointer = CTRL THEN asked.conv ELSE busy
        BY <2>1, <2>2, <1>4, <3>2, TakesWhatIsSent
      <4>2. failures = 0 => pointer = CTRL
        BY <1>1, <2>2, <3>2 DEF ReadingRight, CommandRight
      <4> QED
        BY <2>1, <3>2, <4>1, <4>2
        DEF ReadingRight, CommandRight, PointerRight, BytesRight, Reading, Converting
    <3> QED
      BY <1>1, <3>1, <3>2
  <2> QED
    BY <2>4, <2>5, <2>6
<1> QED
  BY <1>1, <1>2, <1>3, <1>4

(* A failed transaction keeps it, since what follows from success is claimed
   of clean readings only. *)
LEMMA FailedStep ==
  ASSUME FullAssumption, FirmwareInv, Failed, UNCHANGED <<pc, asked>>
  PROVE  BusInv'
<1> USE DEF FirmwareInv, BusInv
<1>1. /\ bus' = "idle" /\ twi_state' = "READY" /\ failures' = failures + 1 /\ failures < MaxFailures
      /\ UNCHANGED <<twi_masterBuffer, twi_masterBufferIndex, twi_masterBufferLength, rxBuffer>>
  BY DEF Failed, Stop
<1>2. /\ pointer' \in 0 .. Registers - 1 /\ busy' \in Conversions \union {"none"} /\ result' = result
      /\ busy' # "none" => pc \in {"commandWait", "delay"}
  <2>1. CASE UNCHANGED device
    BY <2>1 DEF device, WireTypeOK, ConvertsOnlyThen
  <2>2. CASE bus = "dataW" /\ Takes
    BY <2>2, TakesWhatIsSent
  <2> QED
    BY <2>1, <2>2 DEF Failed
<1>3. WireTypeOK'
  BY <1>1, <1>2, FullAssumption DEF WireTypeOK, FullAssumption, WireAssumption
<1>4. Transmitting' /\ Receiving' /\ ConvertsOnlyThen'
  BY <1>1, <1>2 DEF Transmitting, Receiving, ConvertsOnlyThen
<1>5. ReadingRight'
  BY <1>1 DEF ReadingRight, WireTypeOK
<1> QED
  BY <1>3, <1>4, <1>5

(* TW_MR_DATA_ACK and TW_MR_DATA_NACK keep it: the byte is that of the next
   register. *)
LEMMA ReceivedStep ==
  ASSUME FullAssumption, FirmwareInv, Received, UNCHANGED <<pc, asked>>
  PROVE  BusInv'
<1> USE DEF FirmwareInv, BusInv
<1>1. twi_state = "MRX" /\ pc = "requestWait" /\ bus \in {"dataR", "lastR"}
  BY DEF Received, WireTypeOK, Transmitting, Receiving
<1> DEFINE n == twi_masterBufferIndex
<1>2. /\ n \in Nat /\ n < asked.n /\ Len(twi_masterBuffer) = n /\ twi_masterBuffer \in Seq(Bus)
      /\ twi_masterBufferLength = asked.n - 1
      /\ bus = "lastR" => n = asked.n - 1
      /\ bus = "dataR" => n < asked.n - 1
  BY <1>1, AskedFits DEF ProgInv, Receiving, WireTypeOK
<1>3. Holds(pointer) \in Bus
  BY DEF WireTypeOK, Bus, Holds, Conversions
<1>4. /\ twi_masterBuffer' = Append(twi_masterBuffer, Holds(pointer))
      /\ twi_masterBufferIndex' = n + 1
      /\ pointer' = (IF pointer + 1 = Registers THEN 0 ELSE pointer + 1)
      /\ bus = "dataR" => /\ bus' = IF n + 1 < twi_masterBufferLength THEN "dataR" ELSE "lastR"
                          /\ twi_state' = twi_state
      /\ bus = "lastR" => bus' = "idle" /\ twi_state' = "READY"
      /\ UNCHANGED <<twi_masterBufferLength, rxBuffer, busy, result, failures>>
  BY <1>1 DEF Received, AskForMore, Stop
<1>5. /\ twi_masterBuffer' \in Seq(Bus) /\ Len(twi_masterBuffer') = n + 1
      /\ \A k \in 1 .. n : twi_masterBuffer'[k] = twi_masterBuffer[k]
      /\ twi_masterBuffer'[n + 1] = Holds(pointer)
  BY <1>2, <1>3, <1>4
<1>6. asked.n <= TWI_BUFFER_LENGTH /\ asked.n \in {2, 3}
  BY AskedFits DEF ProgInv, FullAssumption, WireAssumption
<1>7. pointer' \in 0 .. Registers - 1
  BY <1>4, FullAssumption DEF WireTypeOK, FullAssumption, WireAssumption
<1>8. WireTypeOK'
  <2>1. /\ twi_masterBuffer' \in Seq(Bus) /\ Len(twi_masterBuffer') <= TWI_BUFFER_LENGTH
        /\ twi_masterBufferIndex' \in 0 .. TWI_BUFFER_LENGTH
    BY <1>2, <1>4, <1>5, <1>6, FullAssumption DEF FullAssumption, WireAssumption
  <2>2. /\ rxBuffer' \in Seq(Bus) /\ Len(rxBuffer') <= TWI_BUFFER_LENGTH
        /\ twi_masterBufferLength' \in 0 .. TWI_BUFFER_LENGTH
        /\ busy' \in Conversions \union {"none"} /\ result' \in Conversions \union {"none"}
        /\ failures' \in 0 .. MaxFailures
    BY <1>4 DEF WireTypeOK
  <2>3. /\ twi_state' \in {"READY", "MRX", "MTX"}
        /\ bus' \in {"idle", "startW", "startR", "addressW", "addressR", "dataW", "dataR", "lastR"}
        /\ bus' = "idle" <=> twi_state' = "READY"
    BY <1>1, <1>4
  <2> QED
    BY <1>7, <2>1, <2>2, <2>3 DEF WireTypeOK
<1>9. Transmitting' /\ Receiving' /\ ConvertsOnlyThen'
  BY <1>1, <1>2, <1>4, <1>5, <1>6 DEF Transmitting, Receiving, ConvertsOnlyThen
<1>10. ASSUME failures = 0
       PROVE  BytesRight'
  <2>1. pointer = asked.reg + n /\ \A k \in 1 .. n : twi_masterBuffer[k] = Right(k)
    BY <1>1, <1>10 DEF ReadingRight, BytesRight
  <2>2. Holds(pointer) = Right(n + 1)
    <3>1. asked.conv # "none" => result = asked.conv
      BY <1>1, <1>10 DEF ReadingRight, CommandRight, Reading
    <3>2. IF asked.conv = "none" THEN pointer < OUT ELSE pointer >= OUT
      BY <1>2, <2>1, AskedFits DEF ProgInv
    <3>3. Right(n + 1).reg = pointer /\ asked.reg + (n + 1) - 1 = pointer
      BY <1>2, <2>1, AskedFits DEF ProgInv, Right, Asked
    <3>4. (pointer >= OUT) = (asked.conv # "none")
      BY <3>2 DEF WireTypeOK, FullAssumption, WireAssumption
    <3> QED
      BY <3>1, <3>3, <3>4 DEF Holds, Right
  <2>3. \A k \in 1 .. n + 1 : twi_masterBuffer'[k] = Right(k)
    BY <1>2, <1>5, <2>1, <2>2
  <2>4. bus = "dataR" => pointer' = asked.reg + (n + 1)
    BY <1>2, <1>4, <2>1, AskedFits DEF ProgInv, Asked
  <2>5. \A k : Right(k)' = Right(k)
    BY DEF Right
  <2>6. twi_state' = "MRX" => pointer' = asked'.reg + twi_masterBufferIndex'
    BY <1>1, <1>4, <2>4
  <2>7. twi_state' = "READY" => twi_masterBufferIndex' = asked'.n
    BY <1>1, <1>2, <1>4, <1>6
  <2>8. \A k \in 1 .. twi_masterBufferIndex' : twi_masterBuffer'[k] = Right(k)'
    BY <1>4, <2>3, <2>5
  <2> QED
    BY <1>1, <2>6, <2>7, <2>8 DEF BytesRight
<1>11. failures = 0 => CommandRight' /\ PointerRight'
  BY <1>1, <1>4 DEF ReadingRight, CommandRight, PointerRight, Reading
<1> QED
  BY <1>4, <1>8, <1>9, <1>10, <1>11 DEF ReadingRight

(* The end of a conversion keeps it: its result is what was asked for. *)
LEMMA ConversionStep ==
  ASSUME FullAssumption, FirmwareInv, ConversionEnds, UNCHANGED <<pc, asked>>
  PROVE  BusInv'
<1> USE DEF FirmwareInv, BusInv, ConversionEnds
<1>1. WireTypeOK'
  BY DEF WireTypeOK
<1>2. Transmitting' /\ Receiving' /\ ConvertsOnlyThen'
  BY DEF Transmitting, Receiving, ConvertsOnlyThen, Sent
<1>3. ReadingRight'
  BY DEF ConvertsOnlyThen, ReadingRight, CommandRight, PointerRight, BytesRight, Right, Converting, Reading
<1> QED
  BY <1>1, <1>2, <1>3

(* Whatever TWI_vect handles, the bus's invariant stays. *)
LEMMA BusInterruptStep ==
  ASSUME FullAssumption, FirmwareInv, TWI_vect, UNCHANGED <<pc, asked>>
  PROVE  BusInv'
  BY StartedStep, TransmitAckedStep, FailedStep, ReceiveAckedStep, ReceivedStep DEF TWI_vect

-----------------------------------------------------------------------------
(* The thread's steps on the bus. *)

(* Where the program is says what the bus may be doing. *)
LEMMA Quiet ==
  ASSUME FirmwareInv
  PROVE  /\ pc \notin {"commandWait", "pointerWait", "requestWait"} => twi_state = "READY"
         /\ pc \in {"commandWait", "pointerWait"} => twi_state \in {"READY", "MTX"}
         /\ pc = "requestWait" => twi_state \in {"READY", "MRX"}
         /\ pc \notin {"commandWait", "delay"} => busy = "none"
  BY DEF FirmwareInv, BusInv, WireTypeOK, Transmitting, Receiving, ConvertsOnlyThen

(* The conversion's command, up to its busy wait. *)
LEMMA AskConversionStep ==
  ASSUME FullAssumption, FirmwareInv, AskConversion
  PROVE  BusInv'
<1>1. /\ pc = "command" /\ pc' = "commandWait" /\ asked' = asked
      /\ WriteTo(<<Address(CTRL), Command(asked.conv)>>) /\ busy = "none"
  BY Quiet DEF AskConversion, WireStep, progVars
<1>2. asked.conv \in Conversions /\ CTRL \in 0 .. Registers - 1
  BY <1>1, AskedFits DEF FirmwareInv, ProgInv, FullAssumption, WireAssumption, Asked
<1>3. Address(CTRL) \in Bus /\ Command(asked.conv) \in Bus
  BY <1>2 DEF Address, Command, Bus
<1>4. WireTypeOK'
  BY <1>1, <1>3 DEF WriteTo, device, FirmwareInv, BusInv, WireTypeOK, FullAssumption, WireAssumption
<1>5. Transmitting' /\ Receiving' /\ ConvertsOnlyThen'
  BY <1>1 DEF WriteTo, device, Transmitting, Receiving, ConvertsOnlyThen, Sent
<1>6. ReadingRight'
  BY <1>1 DEF WriteTo, device, ReadingRight, CommandRight, PointerRight, BytesRight, Reading
<1> QED
  BY <1>4, <1>5, <1>6 DEF BusInv

(* The end of that wait. *)
LEMMA ConversionAskedStep ==
  ASSUME FullAssumption, FirmwareInv, ConversionAsked
  PROVE  BusInv'
<1>1. pc = "commandWait" /\ pc' = "delay" /\ UNCHANGED <<wireVars, asked>> /\ twi_state = "READY"
  BY Quiet DEF ConversionAsked, WireStep, Written, progVars
<1>2. WireTypeOK' /\ Transmitting' /\ Receiving' /\ ConvertsOnlyThen'
  BY <1>1 DEF wireVars, FirmwareInv, BusInv, WireTypeOK, Transmitting, Receiving, ConvertsOnlyThen
<1>3. ReadingRight'
  BY <1>1 DEF wireVars, FirmwareInv, BusInv, ReadingRight, CommandRight, PointerRight, BytesRight,
              Converting, Reading
<1> QED
  BY <1>2, <1>3 DEF BusInv

(* delay(5). *)
LEMMA DelayedStep ==
  ASSUME FullAssumption, FirmwareInv, Delayed
  PROVE  BusInv'
<1>1. /\ pc = "delay" /\ pc' = "pointer" /\ UNCHANGED <<wireVars, asked>>
      /\ twi_state = "READY" /\ busy = "none"
  BY Quiet DEF Delayed, WireStep, progVars
<1>2. asked.conv # "none"
  BY <1>1 DEF FirmwareInv, ProgInv
<1>3. WireTypeOK' /\ Transmitting' /\ Receiving' /\ ConvertsOnlyThen'
  BY <1>1 DEF wireVars, FirmwareInv, BusInv, WireTypeOK, Transmitting, Receiving, ConvertsOnlyThen
<1>4. ReadingRight'
  BY <1>1, <1>2 DEF wireVars, FirmwareInv, BusInv, ReadingRight, CommandRight, PointerRight, BytesRight,
              Converting, Reading
<1> QED
  BY <1>3, <1>4 DEF BusInv

(* The register's address, up to its busy wait. *)
LEMMA SetPointerStep ==
  ASSUME FullAssumption, FirmwareInv, SetPointer
  PROVE  BusInv'
<1>1. /\ pc = "pointer" /\ pc' = "pointerWait" /\ asked' = asked
      /\ WriteTo(<<Address(asked.reg)>>) /\ busy = "none"
  BY Quiet DEF SetPointer, WireStep, progVars
<1>2. Address(asked.reg) \in Bus
  BY AskedFits DEF FirmwareInv, ProgInv, Asked, Address, Bus
<1>3. WireTypeOK'
  BY <1>1, <1>2 DEF WriteTo, device, FirmwareInv, BusInv, WireTypeOK, FullAssumption, WireAssumption
<1>4. Transmitting' /\ Receiving' /\ ConvertsOnlyThen'
  BY <1>1 DEF WriteTo, device, Transmitting, Receiving, ConvertsOnlyThen, Sent
<1>5. ReadingRight'
  BY <1>1 DEF WriteTo, device, FirmwareInv, BusInv, ReadingRight, CommandRight, PointerRight, BytesRight, Reading
<1> QED
  BY <1>3, <1>4, <1>5 DEF BusInv

(* The end of that wait. *)
LEMMA PointerSetStep ==
  ASSUME FullAssumption, FirmwareInv, PointerSet
  PROVE  BusInv'
<1>1. pc = "pointerWait" /\ pc' = "request" /\ UNCHANGED <<wireVars, asked>> /\ twi_state = "READY"
  BY Quiet DEF PointerSet, WireStep, Written, progVars
<1>2. WireTypeOK' /\ Transmitting' /\ Receiving' /\ ConvertsOnlyThen'
  BY <1>1 DEF wireVars, FirmwareInv, BusInv, WireTypeOK, Transmitting, Receiving, ConvertsOnlyThen
<1>3. ReadingRight'
  BY <1>1 DEF wireVars, FirmwareInv, BusInv, ReadingRight, CommandRight, PointerRight, BytesRight, Reading
<1> QED
  BY <1>2, <1>3 DEF BusInv

(* requestFrom(), up to its busy wait. *)
LEMMA RequestStep ==
  ASSUME FullAssumption, FirmwareInv, Request
  PROVE  BusInv'
<1>1. pc = "request" /\ pc' = "requestWait" /\ asked' = asked /\ ReadFrom(asked.n) /\ busy = "none"
  BY Quiet DEF Request, WireStep, progVars
<1>2. asked.n \in {2, 3} /\ asked.n <= TWI_BUFFER_LENGTH /\ asked.reg \in Nat
  BY AskedFits DEF FirmwareInv, ProgInv, FullAssumption, WireAssumption, Asked
<1>3. WireTypeOK'
  BY <1>1, <1>2 DEF ReadFrom, device, FirmwareInv, BusInv, WireTypeOK, FullAssumption, WireAssumption
<1>4. Transmitting' /\ Receiving' /\ ConvertsOnlyThen'
  BY <1>1, <1>2 DEF ReadFrom, device, Transmitting, Receiving, ConvertsOnlyThen
<1>5. ReadingRight'
  BY <1>1, <1>2
  DEF ReadFrom, device, FirmwareInv, BusInv, ReadingRight, CommandRight, PointerRight, BytesRight, Reading
<1> QED
  BY <1>3, <1>4, <1>5 DEF BusInv

(* The end of requestFrom(): Wire's buffer is what has arrived. *)
LEMMA RequestedStep ==
  ASSUME FullAssumption, FirmwareInv, Requested
  PROVE  BusInv'
<1>1. /\ pc = "requestWait" /\ pc' = "collect" /\ asked' = asked /\ ReadEnds(asked.n)
      /\ twi_state = "READY" /\ busy = "none"
  BY Quiet DEF Requested, WireStep, ReadEnds, progVars
<1>2. /\ twi_masterBuffer \in Seq(Bus) /\ twi_masterBufferIndex = Len(twi_masterBuffer)
      /\ twi_masterBufferIndex <= asked.n /\ asked.n \in {2, 3}
      /\ twi_masterBufferIndex <= TWI_BUFFER_LENGTH
  BY <1>1, AskedFits DEF FirmwareInv, ProgInv, BusInv, Receiving, WireTypeOK
<1>3. Least(asked.n, twi_masterBufferIndex) = twi_masterBufferIndex
  BY <1>2 DEF Least
<1>4. /\ rxBuffer' \in Seq(Bus) /\ Len(rxBuffer') = twi_masterBufferIndex
      /\ \A k \in 1 .. twi_masterBufferIndex : rxBuffer'[k] = twi_masterBuffer[k]
  BY <1>1, <1>2, <1>3 DEF ReadEnds
<1>5. UNCHANGED <<twi_state, twi_masterBuffer, twi_masterBufferIndex, twi_masterBufferLength, bus,
                  pointer, busy, result, failures>>
  BY <1>1 DEF ReadEnds, device
<1>6. WireTypeOK'
  BY <1>2, <1>4, <1>5 DEF FirmwareInv, BusInv, WireTypeOK
<1>7. Transmitting' /\ Receiving' /\ ConvertsOnlyThen'
  BY <1>1, <1>5 DEF Transmitting, Receiving, ConvertsOnlyThen
<1>8. ASSUME failures = 0
      PROVE  BytesRight'
  <2>1. twi_masterBufferIndex = asked.n /\ \A k \in 1 .. asked.n : twi_masterBuffer[k] = Right(k)
    BY <1>1, <1>8 DEF FirmwareInv, BusInv, ReadingRight, BytesRight
  <2>2. Len(rxBuffer') = asked.n /\ \A k \in 1 .. asked.n : rxBuffer'[k] = Right(k)
    BY <1>4, <2>1
  <2> QED
    BY <1>1, <2>2 DEF BytesRight, Right
<1>9. failures = 0 => CommandRight' /\ PointerRight'
  BY <1>1, <1>5 DEF FirmwareInv, BusInv, ReadingRight, CommandRight, PointerRight, Reading
<1> QED
  BY <1>5, <1>6, <1>7, <1>8, <1>9 DEF BusInv, ReadingRight

(* Away from the bus the program disturbs nothing of it. *)
LEMMA AwayFromTheBus ==
  ASSUME FullAssumption, FirmwareInv, UNCHANGED wireVars, pc \notin Sensing,
         pc' \in {"print", "soft", "loop", "skip", "command"} \/ (pc' = "pointer" /\ asked'.conv = "none")
  PROVE  BusInv'
<1>1. twi_state = "READY" /\ busy = "none"
  BY Quiet DEF Sensing
<1>2. WireTypeOK' /\ Transmitting' /\ Receiving' /\ ConvertsOnlyThen'
  BY <1>1 DEF wireVars, FirmwareInv, BusInv, WireTypeOK, Transmitting, Receiving, ConvertsOnlyThen
<1>3. ReadingRight'
  BY <1>1 DEF wireVars, ReadingRight, CommandRight, PointerRight, BytesRight, Reading
<1> QED
  BY <1>2, <1>3 DEF BusInv

(* A step of another part, the program staying where it is, keeps the bus's
   invariant. *)
LEMMA BusLeftAlone ==
  ASSUME FullAssumption, FirmwareInv, UNCHANGED <<wireVars, pc, asked>>
  PROVE  BusInv'
<1>1. WireTypeOK' /\ Transmitting' /\ Receiving' /\ ConvertsOnlyThen'
  BY DEF wireVars, FirmwareInv, BusInv, WireTypeOK, Transmitting, Receiving, ConvertsOnlyThen, Sent
<1>2. ReadingRight'
  BY DEF wireVars, FirmwareInv, BusInv, ReadingRight, CommandRight, PointerRight, BytesRight,
         Right, Converting
<1> QED
  BY <1>1, <1>2 DEF BusInv

-----------------------------------------------------------------------------
(* The thread's own variables. *)

(* Fetching the bytes and choosing what is measured or printed next. *)
LEMMA CollectStep ==
  ASSUME FullAssumption, FirmwareInv, Collect
  PROVE  BusInv' /\ ProgType' /\ ProgInv'
<1>1. /\ pc = "collect" /\ twi_state = "READY" /\ busy = "none" /\ failures' = 0
      /\ UNCHANGED <<twi_state, twi_masterBuffer, twi_masterBufferIndex, twi_masterBufferLength, bus,
                     rxBuffer, pointer, busy, result, soft, bufferidx>>
  BY Quiet DEF Collect, device
<1>2. \/ /\ asked.conv = "temperature" /\ pc' = "command" /\ asked' = Measured("pressure")
         /\ UNCHANGED <<word, out, then>>
      \/ /\ asked.conv # "none" /\ pc' = "print" /\ out' = Record /\ then' = "soft"
         /\ UNCHANGED <<asked, word>>
      \/ /\ asked.conv = "none" /\ word' = word + 1 /\ word' = 2 * Words /\ pc' = "loop"
         /\ UNCHANGED <<asked, out, then>>
      \/ /\ asked.conv = "none" /\ word' = word + 1 /\ word' # 2 * Words /\ asked' = Coefficient(word')
         /\ pc' = "print" /\ out' = Greeting /\ then' = "soft"
      \/ /\ asked.conv = "none" /\ word' = word + 1 /\ word' # 2 * Words /\ asked' = Coefficient(word')
         /\ pc' = "pointer" /\ UNCHANGED <<out, then>>
  <2>1. asked.conv \in {"temperature", "pressure", "none"}
    BY AskedFits DEF FirmwareInv, ProgInv, Asked, Conversions
  <2>2. CASE asked.conv = "temperature"
    BY <2>2 DEF Collect
  <2>3. CASE asked.conv = "pressure"
    BY <2>3 DEF Collect, Prints
  <2>4. CASE asked.conv = "none"
    <3>1. /\ word' = word + 1
          /\ CASE word' = 2 * Words -> pc' = "loop" /\ UNCHANGED <<asked, out, then>>
               [] word' = Words     -> Prints(Greeting, "soft") /\ asked' = Coefficient(word')
               [] OTHER             -> /\ pc' = "pointer" /\ asked' = Coefficient(word')
                                       /\ UNCHANGED <<out, then>>
      BY <2>4 DEF Collect
    <3>2. 2 * Words # Words
      BY DEF FullAssumption, FirmwareAssumption
    <3>3. CASE word' = 2 * Words
      BY <2>4, <3>1, <3>2, <3>3
    <3>4. CASE word' = Words
      BY <2>4, <3>1, <3>2, <3>4 DEF Prints
    <3>5. CASE word' # Words /\ word' # 2 * Words
      BY <2>4, <3>1, <3>5
    <3> QED
      BY <3>3, <3>4, <3>5
  <2> QED
    BY <2>1, <2>2, <2>3, <2>4
<1>3. /\ word \in 0 .. 2 * Words
      /\ asked.conv = "none" => word < 2 * Words
      /\ asked.conv # "none" => word = 2 * Words
  BY <1>1 DEF FirmwareInv, ProgType, ProgInv, Sensing
<1>4. asked.conv = "none" /\ word' = word + 1 =>
        /\ word' \in 0 .. 2 * Words
        /\ word' # 2 * Words => word' \in 0 .. 2 * Words - 1
  BY <1>3 DEF FullAssumption, FirmwareAssumption
<1>5. ProgType'
  BY <1>1, <1>2, <1>3, <1>4 DEF FirmwareInv, ProgType, Sensing, FullAssumption, FirmwareAssumption
<1>6. AskedInv' /\ (pc' = "pointer" => asked'.conv = "none")
  BY <1>2, <1>4, CoefficientAsked DEF FirmwareInv, ProgInv, AskedInv
<1>7. ProgInv'
  <2>1. CASE asked.conv # "none"
    BY <1>2, <1>3, <1>6, <2>1 DEF ProgInv, Measured, Sensing
  <2>2. CASE asked.conv = "none"
    <3>1. asked'.conv = "none" /\ (pc' = "print" => then' = "soft")
      BY <1>2, <1>4, <2>2, CoefficientAsked
    <3>2. /\ pc' \in {"loop", "print", "pointer"}
          /\ pc' = "loop" => word' = 2 * Words
      BY <1>2, <2>2
    <3>3. pc' = "pointer" => word' < 2 * Words
      BY <1>2, <1>4, <2>2 DEF FullAssumption, FirmwareAssumption
    <3> QED
      BY <1>6, <3>1, <3>2, <3>3 DEF ProgInv, Sensing
  <2> QED
    BY <2>1, <2>2
<1>8. WireTypeOK'
  BY <1>1 DEF FirmwareInv, BusInv, WireTypeOK, FullAssumption, WireAssumption
<1>9. Transmitting' /\ Receiving' /\ ConvertsOnlyThen'
  BY <1>1, <1>2 DEF Transmitting, Receiving, ConvertsOnlyThen
<1>10. ReadingRight'
  BY <1>2, <1>6 DEF ReadingRight, CommandRight, PointerRight, BytesRight, Reading
<1> QED
  BY <1>5, <1>7, <1>8, <1>9, <1>10 DEF BusInv

(* The program's steps on the bus keep all but the receiver's part of the
   invariant. *)
LEMMA OnTheBusStep ==
  ASSUME FullAssumption, FirmwareInv,
         \/ AskConversion \/ ConversionAsked \/ Delayed
         \/ SetPointer \/ PointerSet \/ Request \/ Requested
  PROVE  BusInv' /\ ProgType' /\ ProgInv'
<1>1. BusInv'
  BY AskConversionStep, ConversionAskedStep, DelayedStep, SetPointerStep, PointerSetStep, RequestStep,
     RequestedStep
<1>2. /\ UNCHANGED <<asked, word, out, then, soft, bufferidx>>
      /\ pc \in Sensing /\ pc' \in Sensing
      /\ pc' \in {"command", "commandWait", "delay"} => pc \in {"command", "commandWait", "delay"}
  BY DEF AskConversion, ConversionAsked, Delayed, SetPointer, PointerSet, Request, Requested, WireStep,
         progVars, Sensing
<1>3. ProgType'
  BY <1>2 DEF FirmwareInv, ProgType
<1>4. ProgInv'
  BY <1>2 DEF FirmwareInv, ProgInv, AskedInv, Sensing
<1> QED
  BY <1>1, <1>3, <1>4

(* The next byte of a print. *)
LEMMA PrintByteStep ==
  ASSUME FullAssumption, FirmwareInv, PrintByte
  PROVE  BusInv' /\ ProgType' /\ ProgInv' /\ Head(out) \in Bytes
<1>1. /\ out # <<>> /\ out \in Seq(Bytes) /\ out' = Tail(out)
      /\ UNCHANGED <<wireVars, pc, asked, word, then, soft, bufferidx>>
  BY DEF PrintByte, FirmwareInv, ProgType
<1>2. Head(out) \in Bytes /\ Tail(out) \in Seq(Bytes)
  BY <1>1
<1>3. ProgType'
  BY <1>1, <1>2 DEF FirmwareInv, ProgType
<1>4. ProgInv'
  BY <1>1 DEF FirmwareInv, ProgInv, AskedInv
<1> QED
  BY <1>1, <1>2, <1>3, <1>4, BusLeftAlone

(* The end of a print to Serial. *)
LEMMA PrintedStep ==
  ASSUME FullAssumption, FirmwareInv, Printed
  PROVE  BusInv' /\ ProgType' /\ ProgInv'
<1>1. /\ pc = "print" /\ pc' = then /\ soft' = (IF then = "soft" THEN SoftBytes ELSE soft)
      /\ UNCHANGED <<wireVars, asked, word, out, then, bufferidx>>
      /\ then \in {"loop", "command", "soft"}
  BY DEF Printed, FirmwareInv, ProgType
<1>2. BusInv'
  BY <1>1, AwayFromTheBus DEF Sensing
<1>3. ProgType'
  BY <1>1 DEF FirmwareInv, ProgType, Sensing, FullAssumption, FirmwareAssumption
<1>4. ProgInv'
  BY <1>1 DEF FirmwareInv, ProgInv, AskedInv, Sensing, FullAssumption, FirmwareAssumption
<1> QED
  BY <1>2, <1>3, <1>4

(* The end of a byte of a print to SoftwareSerial. *)
LEMMA SoftEndsStep ==
  ASSUME FullAssumption, FirmwareInv, SoftEnds
  PROVE  BusInv' /\ ProgType' /\ ProgInv'
<1>1. /\ pc = "soft" /\ soft' = soft - 1
      /\ pc' = IF soft' > 0 THEN "soft" ELSE IF word = 2 * Words THEN "loop" ELSE "pointer"
      /\ UNCHANGED <<wireVars, asked, word, out, then, bufferidx>>
      /\ soft \in 0 .. SoftBytes /\ soft > 0
  BY DEF SoftEnds, FirmwareInv, ProgType, ProgInv
<1>2. /\ word # 2 * Words => asked.conv = "none" /\ word < 2 * Words
  BY DEF FirmwareInv, ProgType, ProgInv, FullAssumption, FirmwareAssumption
<1>3. BusInv'
  BY <1>1, <1>2, AwayFromTheBus DEF Sensing
<1>4. soft' \in 0 .. SoftBytes
  BY <1>1 DEF FullAssumption, FirmwareAssumption
<1>5. ProgType'
  BY <1>1, <1>4 DEF FirmwareInv, ProgType, Sensing
<1>6. ProgInv'
  BY <1>1, <1>2 DEF FirmwareInv, ProgInv, AskedInv, Sensing
<1> QED
  BY <1>3, <1>5, <1>6

(* One character of loop(): bufferidx stays below the end of the buffer. *)
LEMMA TakeCharStep ==
  ASSUME FullAssumption, FirmwareInv, TakeChar
  PROVE  BusInv' /\ ProgType' /\ ProgInv'
<1>1. /\ pc \in {"loop", "skip"} /\ UNCHANGED <<wireVars, word, soft>> /\ word = 2 * Words
  BY DEF TakeChar, FirmwareInv, ProgInv
<1>2. \/ pc' \in {"skip", "loop"} /\ UNCHANGED <<out, then, asked>>
      \/ pc' = "print" /\ out' = <<"mark">> /\ then' = "loop" /\ asked' = asked
      \/ pc' = "print" /\ out' = <<"hash">> /\ then' = "command" /\ asked' = Measured("temperature")
  BY DEF TakeChar, Buffer, Accepted, Rejected, Prints
<1>3. bufferidx' \in 0 .. BUFFSIZE - 2
  <2>1. bufferidx \in 0 .. BUFFSIZE - 2
    BY DEF FirmwareInv, ProgType
  <2>2. \/ bufferidx' \in {0, bufferidx}
        \/ bufferidx' = bufferidx + 1 /\ bufferidx + 1 # BUFFSIZE - 1
    BY DEF TakeChar, Buffer
  <2> QED
    BY <2>1, <2>2 DEF FullAssumption, FirmwareAssumption
<1>4. BusInv'
  BY <1>1, <1>2, AwayFromTheBus DEF Sensing
<1>5. <<"mark">> \in Seq(Bytes) /\ <<"hash">> \in Seq(Bytes)
  BY DEF FullAssumption, FirmwareAssumption
<1>6. ProgType'
  BY <1>1, <1>2, <1>3, <1>5 DEF FirmwareInv, ProgType
<1>7. ProgInv'
  BY <1>1, <1>2 DEF FirmwareInv, ProgInv, AskedInv, Measured, Sensing
<1> QED
  BY <1>4, <1>6, <1>7

-----------------------------------------------------------------------------
(* The receiver's ring. *)

(* recv() leaves a slot of its ring empty. *)
LEMMA RecvType ==
  ASSUME FullAssumption, GpsType, NEW ch \in GpsChars, Recv(ch)
  PROVE  gpsRing' \in Seq(GpsChars) /\ Len(gpsRing') < RxSize
  BY DEF GpsType, Recv, FullAssumption, FirmwareAssumption

(* read() takes the oldest character. *)
LEMMA ReadsType ==
  ASSUME FullAssumption, GpsType, Reads
  PROVE  GpsType'
<1>1. /\ gpsRing' \in Seq(GpsChars) /\ Len(gpsRing') < RxSize
  BY DEF GpsType, Reads, FullAssumption, FirmwareAssumption
<1>2. UNCHANGED <<late, gpsAt>>
  BY DEF Reads
<1> QED
  BY <1>1, <1>2 DEF GpsType

(* The receiver's next character keeps the ring's type. *)
LEMMA GpsSendsType ==
  ASSUME FullAssumption, GpsType, GpsSends
  PROVE  GpsType'
<1>1. Sentence \in Seq(GpsChars) /\ gpsAt \in DOMAIN Sentence
  BY DEF GpsType, FullAssumption, FirmwareAssumption
<1>2. gpsAt' \in DOMAIN Sentence
  BY <1>1 DEF GpsSends
<1>3. Sentence[gpsAt] \in GpsChars
  BY <1>1
<1>4. gpsRing' \in Seq(GpsChars) /\ Len(gpsRing') < RxSize
  BY <1>3, RecvType DEF GpsType, GpsSends
<1>5. late' \in BOOLEAN
  BY DEF GpsType, GpsSends
<1> QED
  BY <1>2, <1>4, <1>5 DEF GpsType

(* So does a late pin interrupt. *)
LEMMA LateInterruptType ==
  ASSUME FullAssumption, GpsType, LateInterrupt
  PROVE  GpsType'
<1>1. gpsRing' \in Seq(GpsChars) /\ Len(gpsRing') < RxSize
  BY RecvType DEF GpsType, LateInterrupt
<1>2. late' \in BOOLEAN /\ gpsAt' = gpsAt
  BY DEF LateInterrupt
<1> QED
  BY <1>1, <1>2 DEF GpsType

-----------------------------------------------------------------------------
(* Every step. *)

(* Every step of the thread keeps the invariant and is, for Serial, one of
   SerialPort's or none. *)
LEMMA MainStep ==
  ASSUME FullAssumption, FirmwareInv, Main
  PROVE  FirmwareInv' /\ [SerialNext]_serialVars
<1>1. CASE \/ AskConversion \/ ConversionAsked \/ Delayed
           \/ SetPointer \/ PointerSet \/ Request \/ Requested
  <2>1. UNCHANGED <<serialVars, gpsVars>>
    BY <1>1 DEF AskConversion, ConversionAsked, Delayed, SetPointer, PointerSet, Request, Requested, WireStep
  <2> QED
    BY <1>1, <2>1, OnTheBusStep DEF FirmwareInv, GpsType, gpsVars
<1>2. CASE Collect
  <2>1. UNCHANGED <<serialVars, gpsVars>>
    BY <1>2 DEF Collect
  <2> QED
    BY <1>2, <2>1, CollectStep DEF FirmwareInv, GpsType, gpsVars
<1>3. CASE PrintByte
  <2>1. UNCHANGED gpsVars /\ WriteCalled(Head(out))
    BY <1>3 DEF PrintByte
  <2>2. SerialNext
    BY <1>3, <2>1, PrintByteStep DEF SerialNext
  <2> QED
    BY <1>3, <2>1, <2>2, PrintByteStep DEF FirmwareInv, GpsType, gpsVars
<1>4. CASE WriteGoesOn \/ SoftStarts
  <2>1. UNCHANGED <<wireVars, pc, progVars, gpsVars>> /\ SerialNext
    BY <1>4 DEF WriteGoesOn, SoftStarts, SerialNext
  <2>2. BusInv'
    BY <2>1, BusLeftAlone DEF progVars
  <2> QED
    BY <2>1, <2>2 DEF FirmwareInv, GpsType, gpsVars, progVars, ProgType, ProgInv, AskedInv
<1>5. CASE Printed
  <2>1. UNCHANGED <<serialVars, gpsVars>>
    BY <1>5 DEF Printed
  <2> QED
    BY <1>5, <2>1, PrintedStep DEF FirmwareInv, GpsType, gpsVars
<1>6. CASE SoftEnds
  <2>1. UNCHANGED gpsVars /\ SerialNext
    BY <1>6 DEF SoftEnds, SerialNext
  <2> QED
    BY <1>6, <2>1, SoftEndsStep DEF FirmwareInv, GpsType, gpsVars
<1>7. CASE TakeChar
  <2>1. UNCHANGED serialVars /\ Reads
    BY <1>7 DEF TakeChar
  <2> QED
    BY <1>7, <2>1, TakeCharStep, ReadsType DEF FirmwareInv
<1> QED
  BY <1>1, <1>2, <1>3, <1>4, <1>5, <1>6, <1>7 DEF Main

(* So does every step of the machine. *)
LEMMA FirmwareStep ==
  ASSUME FullAssumption, FirmwareInv, [Next]_vars
  PROVE  FirmwareInv' /\ [SerialNext]_serialVars
<1>1. ASSUME BusInv', UNCHANGED <<pc, progVars, gpsVars>>
      PROVE  FirmwareInv'
  BY <1>1 DEF FirmwareInv, GpsType, gpsVars, progVars, ProgType, ProgInv, AskedInv
<1>2. CASE Main
  BY <1>2, MainStep
<1>3. CASE BusInterrupt
  <2>1. TWI_vect /\ UNCHANGED <<serialVars, pc, progVars, gpsVars>>
    BY <1>3 DEF BusInterrupt
  <2>2. BusInv'
    BY <2>1, BusInterruptStep DEF progVars
  <2> QED
    BY <1>1, <2>1, <2>2
<1>4. CASE Conversion
  <2>1. ConversionEnds /\ UNCHANGED <<serialVars, pc, progVars, gpsVars>>
    BY <1>4 DEF Conversion
  <2>2. BusInv'
    BY <2>1, ConversionStep DEF progVars
  <2> QED
    BY <1>1, <2>1, <2>2
<1>5. CASE SerialInterrupt \/ Shift
  <2>1. SerialNext /\ UNCHANGED <<wireVars, pc, progVars, gpsVars>>
    BY <1>5 DEF SerialInterrupt, Shift, SerialNext
  <2>2. BusInv'
    BY <2>1, BusLeftAlone DEF progVars
  <2> QED
    BY <1>1, <2>1, <2>2
<1>6. CASE GpsSends \/ LateInterrupt
  <2>1. UNCHANGED <<serialVars, wireVars, pc, progVars>>
    BY <1>6 DEF GpsSends, LateInterrupt
  <2>2. BusInv'
    BY <2>1, BusLeftAlone DEF progVars
  <2>3. GpsType'
    BY <1>6, GpsSendsType, LateInterruptType DEF FirmwareInv
  <2> QED
    BY <2>1, <2>2, <2>3 DEF FirmwareInv, progVars, ProgType, ProgInv, AskedInv
<1>7. CASE UNCHANGED vars
  <2>1. UNCHANGED <<serialVars, wireVars, pc, progVars, gpsVars>>
    BY <1>7 DEF vars
  <2>2. BusInv'
    BY <2>1, BusLeftAlone DEF progVars
  <2> QED
    BY <1>1, <2>1, <2>2
<1> QED
  BY <1>2, <1>3, <1>4, <1>5, <1>6, <1>7 DEF Next

-----------------------------------------------------------------------------
(* The constants' assumptions, together. *)
LEMMA Assumed == FullAssumption
  BY SerialAssumption, WireAssumption, FirmwareAssumption DEF FullAssumption

(* Every behaviour of the firmware is one of SerialPort, and satisfies the
   invariant. *)
LEMMA SerialOfFirmware == Spec => SerialSpec /\ []FirmwareInv
<1>1. FirmwareInit => FirmwareInv /\ SerialInit
  BY Assumed, InvInit DEF FirmwareInit
<1>2. FirmwareInv /\ [Next]_vars => FirmwareInv' /\ [SerialNext]_serialVars
  BY Assumed, FirmwareStep
<1> QED
  BY <1>1, <1>2, PTL DEF Spec, SerialSpec

(* PayloadV2's and the libraries' state stays in its types: no index leaves
   its buffer, in the bus's handler, the serial port's ring, SoftwareSerial's
   ring and loop()'s buffer. *)
THEOREM FirmwareTypeCorrect == Spec => []FirmwareTypeOK
<1>1. FirmwareInv /\ SerialInv => FirmwareTypeOK
  <2> SUFFICES ASSUME FirmwareInv, SerialInv PROVE FirmwareTypeOK
    OBVIOUS
  <2>1. SerialTypeOK /\ WireTypeOK
    BY DEF FirmwareInv, BusInv, SerialInv
  <2>2. asked \in Asked
    BY Assumed, AskedFits DEF FirmwareInv, ProgInv
  <2> QED
    BY <2>1, <2>2 DEF FirmwareTypeOK, FirmwareInv, ProgType, GpsType, Sensing
<1> QED
  BY <1>1, SerialOfFirmware, SerialPortIsAQueue, PTL

(* A reading whose transactions all went well is complete and is what
   bmp085ReadInt() and its fellows asked for. *)
THEOREM CleanReadings == Spec => []CleanReadingsAreRight
<1>1. FirmwareInv => CleanReadingsAreRight
  <2> SUFFICES ASSUME FirmwareInv, pc = "collect", failures = 0
               PROVE  /\ Len(rxBuffer) = asked.n
                      /\ \A i \in 1 .. asked.n : rxBuffer[i] = Right(i)
    BY DEF CleanReadingsAreRight, Right
  <2> QED
    BY DEF FirmwareInv, BusInv, ReadingRight, BytesRight
<1> QED
  BY <1>1, SerialOfFirmware, PTL

(* No byte that Serial.write() has put into the ring waits for the next call. *)
THEOREM WaitingBytes == Spec => []WaitingBytesAreServed
<1>1. SerialInv => WaitingBytesAreServed
  BY DEF SerialInv, WaitingIsServed, WaitingBytesAreServed
<1> QED
  BY <1>1, SerialOfFirmware, SerialPortIsAQueue, PTL

(* What PayloadV2 prints to Serial leaves in order, each byte once. *)
THEOREM FirmwareKeepsAQueue == Spec => KeepsAQueue
  BY SerialOfFirmware, SerialPortIsAQueue, PTL DEF KeepsAQueue
=============================================================================
