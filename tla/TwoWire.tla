------------------------------ MODULE TwoWire ------------------------------
(***************************************************************************)
(* The payload's two-wire bus: twi.c, the part of Wire.cpp above it, and   *)
(* the one device on the bus, the BMP085 barometer.  The program is the    *)
(* only master, ends every transaction with a stop (twi_sendStop is always *)
(* true and a repeated start never happens) and is never addressed, so the *)
(* slave's cases of the interrupt handler are not reached.                 *)
(*                                                                         *)
(* The hardware's next event and the interrupt it raises are one step: the *)
(* status it leaves is read by the handler alone.  What twi_error records  *)
(* and nobody reads is kept by `failures', a history variable: how many    *)
(* transactions of the reading under way have failed.                      *)
(*                                                                         *)
(* A byte is a record: which register it names or comes from, and what it  *)
(* holds.  A buffer is the sequence of what has been put into it since it  *)
(* was last begun: what the array holds beyond is never read.              *)
(***************************************************************************)
EXTENDS Naturals, Sequences

CONSTANTS
  TWI_BUFFER_LENGTH,  \* 32 in the source
  CTRL, OUT,          \* the barometer's registers: control (0xF4) and first of the result (0xF6)
  Registers,          \* how many addresses it has, 256
  MaxFailures         \* bound: at most so many transactions of a reading fail

ASSUME WireAssumption ==
  /\ TWI_BUFFER_LENGTH \in Nat /\ TWI_BUFFER_LENGTH >= 3   \* the longest transaction
  /\ CTRL \in Nat /\ OUT \in Nat /\ CTRL < OUT
  /\ Registers \in Nat /\ OUT + 2 < Registers
  /\ MaxFailures \in Nat

VARIABLES
  twi_state,
  twi_masterBuffer, twi_masterBufferIndex, twi_masterBufferLength,
  bus,                        \* what the hardware is doing
  rxBuffer,                   \* Wire's copy of what was read
  pointer, busy, result,      \* the barometer: register pointer, conversion under way, last conversion
  failures

wireVars == <<twi_state, twi_masterBuffer, twi_masterBufferIndex, twi_masterBufferLength, bus,
              rxBuffer, pointer, busy, result, failures>>

Conversions == {"temperature", "pressure"}

Address(r) == [reg |-> r, holds |-> "address"]
Command(k) == [reg |-> CTRL, holds |-> k]

(* What the barometer answers for register r. *)
Holds(r) == [reg |-> r, holds |-> IF r >= OUT THEN result ELSE "coefficient"]

WireInit ==
  /\ twi_state = "READY"
  /\ twi_masterBuffer = <<>>
  /\ twi_masterBufferIndex = 0 /\ twi_masterBufferLength = 0
  /\ bus = "idle"
  /\ rxBuffer = <<>>
  /\ pointer = 0 /\ busy = "none" /\ result = "none"
  /\ failures = 0

device == <<pointer, busy, result>>

-----------------------------------------------------------------------------
(* The program's side.  beginTransmission(), write() for each byte and
   endTransmission() up to twi_writeTo()'s busy wait: nothing before it is
   shared with the interrupt. *)
WriteTo(bytes) ==
  /\ twi_state = "READY"
  /\ twi_state' = "MTX"
  /\ twi_masterBuffer' = bytes
  /\ twi_masterBufferIndex' = 0 /\ twi_masterBufferLength' = Len(bytes)
  /\ bus' = "startW"
  /\ UNCHANGED <<rxBuffer, device, failures>>

Written == twi_state # "MTX" /\ UNCHANGED wireVars

(* Mutant of ReadFrom: the length counts every byte that is acknowledged. *)
ReadFromWhole(n) ==
  /\ twi_state = "READY"
  /\ twi_state' = "MRX"
  /\ twi_masterBuffer' = <<>> /\ twi_masterBufferIndex' = 0
  /\ twi_masterBufferLength' = n
  /\ bus' = "startR"
  /\ UNCHANGED <<rxBuffer, device, failures>>

(* requestFrom(), up to twi_readFrom()'s busy wait. *)
ReadFrom(n) ==
  /\ twi_state = "READY"
  /\ twi_state' = "MRX"
  /\ twi_masterBuffer' = <<>> /\ twi_masterBufferIndex' = 0
  /\ twi_masterBufferLength' = n - 1
  /\ bus' = "startR"
  /\ UNCHANGED <<rxBuffer, device, failures>>

Least(a, b) == IF a < b THEN a ELSE b

(* The rest of requestFrom(): what has arrived becomes Wire's. *)
ReadEnds(n) ==
  /\ twi_state # "MRX"
  /\ rxBuffer' = SubSeq(twi_masterBuffer, 1, Least(n, twi_masterBufferIndex))
  /\ UNCHANGED <<twi_state, twi_masterBuffer, twi_masterBufferIndex, twi_masterBufferLength, bus, device, failures>>

-----------------------------------------------------------------------------
(* The interrupt handler, one action per group of statuses. *)

Stop == twi_state' = "READY" /\ bus' = "idle"

(* TW_START: the address goes out. *)
Started ==
  /\ bus \in {"startW", "startR"}
  /\ bus' = IF bus = "startW" THEN "addressW" ELSE "addressR"
  /\ UNCHANGED <<twi_state, twi_masterBuffer, twi_masterBufferIndex, twi_masterBufferLength, rxBuffer, device, failures>>

(* The barometer takes the byte on the bus: the first one of a transaction
   sets its pointer, the one after it is stored, and the control register
   starts a conversion. *)
Takes ==
  LET byte == twi_masterBuffer[twi_masterBufferIndex]
  IN  IF twi_masterBufferIndex = 1
        THEN pointer' = byte.reg /\ UNCHANGED <<busy, result>>
        ELSE /\ busy' = IF pointer = CTRL THEN byte.holds ELSE busy
             /\ UNCHANGED <<pointer, result>>

(* Mutant of TransmitAcked: the stop comes one byte early. *)
TransmitAckedShort ==
  /\ bus \in {"addressW", "dataW"}
  /\ IF twi_masterBufferIndex + 1 < twi_masterBufferLength
       THEN /\ bus' = "dataW"
            /\ twi_masterBufferIndex' = twi_masterBufferIndex + 1
            /\ UNCHANGED twi_state
       ELSE Stop /\ UNCHANGED twi_masterBufferIndex
  /\ IF bus = "dataW" THEN Takes ELSE UNCHANGED device
  /\ UNCHANGED <<twi_masterBuffer, twi_masterBufferLength, rxBuffer, failures>>

(* TW_MT_SLA_ACK, TW_MT_DATA_ACK: the next byte, or the stop. *)
TransmitAcked ==
  /\ bus \in {"addressW", "dataW"}
  /\ IF twi_masterBufferIndex < twi_masterBufferLength
       THEN /\ bus' = "dataW"
            /\ twi_masterBufferIndex' = twi_masterBufferIndex + 1
            /\ UNCHANGED twi_state
       ELSE Stop /\ UNCHANGED twi_masterBufferIndex
  /\ IF bus = "dataW" THEN Takes ELSE UNCHANGED device
  /\ UNCHANGED <<twi_masterBuffer, twi_masterBufferLength, rxBuffer, failures>>

(* Mutant of Failed: the bus is released and the state forgotten. *)
FailedHolds ==
  /\ bus # "idle"
  /\ failures < MaxFailures
  /\ bus' = "idle"
  /\ failures' = failures + 1
  /\ UNCHANGED <<twi_state, device, twi_masterBuffer, twi_masterBufferIndex, twi_masterBufferLength, rxBuffer>>

(* TW_MT_SLA_NACK, TW_MT_DATA_NACK, TW_MT_ARB_LOST, TW_MR_SLA_NACK and
   TW_BUS_ERROR: the transaction is over.  The last byte sent may have been
   taken all the same. *)
Failed ==
  /\ bus # "idle"
  /\ failures < MaxFailures
  /\ Stop
  /\ failures' = failures + 1
  /\ \/ UNCHANGED device
     \/ bus = "dataW" /\ Takes
  /\ UNCHANGED <<twi_masterBuffer, twi_masterBufferIndex, twi_masterBufferLength, rxBuffer>>

(* Answer with an acknowledgement as long as more bytes are to come. *)
AskForMore(index) == bus' = IF index < twi_masterBufferLength THEN "dataR" ELSE "lastR"

(* TW_MR_SLA_ACK *)
ReceiveAcked ==
  /\ bus = "addressR"
  /\ AskForMore(twi_masterBufferIndex)
  /\ UNCHANGED <<twi_state, twi_masterBuffer, twi_masterBufferIndex, twi_masterBufferLength, rxBuffer, device, failures>>

(* TW_MR_DATA_ACK and TW_MR_DATA_NACK: the byte is kept; the one answered
   with no acknowledgement is the last. *)
Received ==
  /\ bus \in {"dataR", "lastR"}
  /\ twi_masterBuffer' = Append(twi_masterBuffer, Holds(pointer))
  /\ twi_masterBufferIndex' = twi_masterBufferIndex + 1
  /\ pointer' = IF pointer + 1 = Registers THEN 0 ELSE pointer + 1
  /\ IF bus = "dataR" THEN AskForMore(twi_masterBufferIndex') /\ UNCHANGED twi_state ELSE Stop
  /\ UNCHANGED <<twi_masterBufferLength, rxBuffer, busy, result, failures>>

TWI_vect == Started \/ TransmitAcked \/ Failed \/ ReceiveAcked \/ Received

(* The barometer finishes a conversion. *)
ConversionEnds ==
  /\ busy # "none"
  /\ result' = busy /\ busy' = "none"
  /\ UNCHANGED <<twi_state, twi_masterBuffer, twi_masterBufferIndex, twi_masterBufferLength, bus, rxBuffer, pointer, failures>>

Bus == [reg : 0 .. Registers - 1, holds : Conversions \union {"address", "coefficient", "none"}]

WireTypeOK ==
  /\ twi_state \in {"READY", "MRX", "MTX"}
  /\ twi_masterBuffer \in Seq(Bus) /\ Len(twi_masterBuffer) <= TWI_BUFFER_LENGTH
  /\ rxBuffer \in Seq(Bus) /\ Len(rxBuffer) <= TWI_BUFFER_LENGTH
  /\ twi_masterBufferIndex \in 0 .. TWI_BUFFER_LENGTH
  /\ twi_masterBufferLength \in 0 .. TWI_BUFFER_LENGTH
  /\ bus \in {"idle", "startW", "startR", "addressW", "addressR", "dataW", "dataR", "lastR"}
  /\ pointer \in 0 .. Registers - 1
  /\ busy \in Conversions \union {"none"} /\ result \in Conversions \union {"none"}
  /\ failures \in 0 .. MaxFailures
  /\ bus = "idle" <=> twi_state = "READY"
=============================================================================
