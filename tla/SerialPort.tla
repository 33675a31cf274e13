----------------------------- MODULE SerialPort -----------------------------
(***************************************************************************)
(* The sending side of the payload's hardware serial port                  *)
(* (HardwareSerial.cpp): write() fills a ring of TxSize slots, and the     *)
(* interrupt of the empty data register takes the bytes out.  write() runs *)
(* with interrupts on, so each of its accesses to what the interrupt also  *)
(* uses is a step of its own.  head and tail are 16 bits wide on an 8-bit  *)
(* machine, but their upper halves are always 0: reading one is atomic.    *)
(***************************************************************************)
EXTENDS Naturals, Sequences

CONSTANTS
  TxSize,     \* SERIAL_BUFFER_SIZE, 64 in the source
  Bytes, NoByte

ASSUME SerialAssumption ==
  /\ TxSize \in Nat /\ TxSize >= 2
  /\ NoByte \notin Bytes

VARIABLES
  txBuffer, txHead, txTail,   \* the ring: head is written by write(), tail by the interrupt
  udrie,                      \* is the interrupt of the empty data register enabled?
  udr, udrEmpty,              \* the data register: the last byte put in, and has it been shifted out?
  ie,                         \* the processor's global interrupt flag
  writing, c                  \* where write() is, and its argument

serialVars == <<txBuffer, txHead, txTail, udrie, udr, udrEmpty, ie, writing, c>>

Slots == 0 .. TxSize - 1

(* (i + 1) % SERIAL_BUFFER_SIZE *)
After(i) == IF i + 1 = TxSize THEN 0 ELSE i + 1

SerialInit ==
  /\ txBuffer = [i \in Slots |-> NoByte] /\ txHead = 0 /\ txTail = 0
  /\ udrie = FALSE
  /\ udr = NoByte /\ udrEmpty = TRUE
  /\ ie = TRUE
  /\ writing = "no" /\ c = NoByte

-----------------------------------------------------------------------------
(* write(b). *)

WriteCalled(b) ==
  /\ writing = "no"
  /\ writing' = "wait" /\ c' = b
  /\ UNCHANGED <<txBuffer, txHead, txTail, udrie, udr, udrEmpty, ie>>

(* Mutant of RoomFound: no wait. *)
RoomAssumed ==
  /\ writing = "wait"
  /\ writing' = "store"
  /\ UNCHANGED <<txBuffer, txHead, txTail, udrie, udr, udrEmpty, ie, c>>

(* The busy wait ends: the interrupt has made room, or there was some. *)
RoomFound ==
  /\ writing = "wait" /\ After(txHead) # txTail
  /\ writing' = "store"
  /\ UNCHANGED <<txBuffer, txHead, txTail, udrie, udr, udrEmpty, ie, c>>

StoreByte ==
  /\ writing = "store"
  /\ txBuffer' = [txBuffer EXCEPT ![txHead] = c]
  /\ writing' = "advance"
  /\ UNCHANGED <<txHead, txTail, udrie, udr, udrEmpty, ie, c>>

AdvanceHead ==
  /\ writing = "advance"
  /\ txHead' = After(txHead)
  /\ writing' = "enable"
  /\ UNCHANGED <<txBuffer, txTail, udrie, udr, udrEmpty, ie, c>>

EnableInterrupt ==
  /\ writing = "enable"
  /\ udrie' = TRUE
  /\ writing' = "no"
  /\ UNCHANGED <<txBuffer, txHead, txTail, udr, udrEmpty, ie, c>>

(* Mutant of Write: the interrupt is enabled before the head moves. *)
WriteEnablesFirst ==
  \/ RoomFound \/ StoreByte
  \/ /\ writing = "advance" /\ writing' = "enable" /\ udrie' = TRUE
     /\ UNCHANGED <<txBuffer, txHead, txTail, udr, udrEmpty, ie, c>>
  \/ /\ writing = "enable" /\ writing' = "no" /\ txHead' = After(txHead)
     /\ UNCHANGED <<txBuffer, txTail, udrie, udr, udrEmpty, ie, c>>

Write == RoomFound \/ StoreByte \/ AdvanceHead \/ EnableInterrupt

-----------------------------------------------------------------------------
(* The interrupt of the empty data register: the next byte, or, when the
   ring is empty, silence until the next write(). *)
DataRegisterEmpty ==
  /\ ie /\ udrie /\ udrEmpty
  /\ IF txHead = txTail
       THEN /\ udrie' = FALSE
            /\ UNCHANGED <<txTail, udr, udrEmpty>>
       ELSE /\ udr' = txBuffer[txTail]
            /\ txTail' = After(txTail)
            /\ udrEmpty' = FALSE
            /\ UNCHANGED udrie
  /\ UNCHANGED <<txBuffer, txHead, ie, writing, c>>

(* The hardware has moved the byte to its shift register. *)
ByteShifted ==
  /\ ~udrEmpty
  /\ udrEmpty' = TRUE
  /\ UNCHANGED <<txBuffer, txHead, txTail, udrie, udr, ie, writing, c>>

(* cli() and the restored status register around a byte that SoftwareSerial
   writes bit by bit. *)
InterruptsOff == ie /\ ie' = FALSE /\ UNCHANGED <<txBuffer, txHead, txTail, udrie, udr, udrEmpty, writing, c>>
InterruptsOn  == ~ie /\ ie' = TRUE /\ UNCHANGED <<txBuffer, txHead, txTail, udrie, udr, udrEmpty, writing, c>>

-----------------------------------------------------------------------------
(* The ring as a queue, and the promise. *)

Waiting == IF txHead >= txTail THEN txHead - txTail ELSE txHead + TxSize - txTail

Slot(i) == IF txTail + i < TxSize THEN txTail + i ELSE txTail + i - TxSize

Content == [i \in 1 .. Waiting |-> txBuffer[Slot(i - 1)]]

Queue == INSTANCE ByteQueue WITH
  queue <- Content,
  arg   <- IF writing \in {"wait", "store", "advance"} THEN c ELSE NoByte,
  last  <- udr,
  Room  <- TxSize - 1

SerialTypeOK ==
  /\ txBuffer \in [Slots -> Bytes \union {NoByte}] /\ txHead \in Slots /\ txTail \in Slots
  /\ udrie \in BOOLEAN /\ udrEmpty \in BOOLEAN /\ ie \in BOOLEAN
  /\ udr \in Bytes \union {NoByte} /\ c \in Bytes \union {NoByte}
  /\ writing \in {"no", "wait", "store", "advance", "enable"}
=============================================================================
