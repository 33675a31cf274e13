-------------------------- MODULE SerialPortProofs --------------------------
(***************************************************************************)
(* The serial port implements ByteQueue for every size of the ring, every  *)
(* set of bytes and every caller that hands its bytes over one at a time.  *)
(***************************************************************************)
EXTENDS SerialPort, SequenceTheorems, TLAPS

SerialNext ==
  \/ \E b \in Bytes : WriteCalled(b)
  \/ Write
  \/ DataRegisterEmpty \/ ByteShifted
  \/ InterruptsOff \/ InterruptsOn

SerialSpec == SerialInit /\ [][SerialNext]_serialVars

WaitingIsServed == txHead # txTail /\ writing # "enable" => udrie

(* What a call of write() has established on its way. *)
CallInv ==
  /\ writing \in {"wait", "store", "advance"} => c \in Bytes
  /\ writing \in {"store", "advance"} => After(txHead) # txTail
  /\ writing = "advance" => txBuffer[txHead] = c

SerialInv == SerialTypeOK /\ WaitingIsServed /\ CallInv

-----------------------------------------------------------------------------
(* The ring's arithmetic. *)

(* The slot after a slot is another slot. *)
LEMMA AfterType ==
  ASSUME SerialAssumption, NEW i \in Slots
  PROVE  After(i) \in Slots /\ After(i) # i
  BY DEF SerialAssumption, After, Slots

(* One slot at least stays free. *)
LEMMA WaitingType ==
  ASSUME SerialAssumption, txHead \in Slots, txTail \in Slots
  PROVE  /\ Waiting \in 0 .. TxSize - 1
         /\ Waiting = 0 <=> txHead = txTail
         /\ After(txHead) # txTail => Waiting < TxSize - 1
  BY DEF SerialAssumption, Slots, Waiting, After

(* The slots in use are not the one the head points to. *)
LEMMA SlotsInUse ==
  ASSUME SerialAssumption, txHead \in Slots, txTail \in Slots, NEW i \in Nat, i < Waiting
  PROVE  Slot(i) \in Slots /\ Slot(i) # txHead
  BY DEF SerialAssumption, Slots, Waiting, Slot

(* The slot behind the last waiting byte is the head's. *)
LEMMA SlotOfHead ==
  ASSUME SerialAssumption, txHead \in Slots, txTail \in Slots
  PROVE  Slot(Waiting) = txHead
  BY DEF SerialAssumption, Slots, Waiting, Slot

(* What waits is a sequence of bytes. *)
LEMMA ContentType ==
  ASSUME SerialAssumption, SerialTypeOK
  PROVE  /\ Content \in Seq(Bytes \union {NoByte}) /\ Len(Content) = Waiting
         /\ DOMAIN Content = 1 .. Waiting
<1>1. Waiting \in Nat
  BY WaitingType DEF SerialTypeOK
<1>2. \A i \in 1 .. Waiting : txBuffer[Slot(i - 1)] \in Bytes \union {NoByte}
  BY <1>1, SlotsInUse DEF SerialTypeOK
<1> QED
  BY <1>1, <1>2 DEF Content

-----------------------------------------------------------------------------
(* The invariant. *)

(* The port starts with the invariant. *)
LEMMA SerialInvInit ==
  ASSUME SerialAssumption, SerialInit
  PROVE  SerialInv
<1>1. txBuffer \in [Slots -> Bytes \union {NoByte}] /\ txHead \in Slots /\ txTail \in Slots
  BY DEF SerialAssumption, SerialInit, Slots
<1>2. udrie \in BOOLEAN /\ udrEmpty \in BOOLEAN /\ ie \in BOOLEAN
  BY DEF SerialInit
<1>3. /\ udr \in Bytes \union {NoByte} /\ c \in Bytes \union {NoByte}
      /\ writing \in {"no", "wait", "store", "advance", "enable"}
  BY DEF SerialInit
<1>4. WaitingIsServed /\ CallInv
  BY DEF SerialInit, WaitingIsServed, CallInv
<1> QED
  BY <1>1, <1>2, <1>3, <1>4 DEF SerialInv, SerialTypeOK

(* write(), its interrupt and the hardware keep it. *)
LEMMA SerialInvStep ==
  ASSUME SerialAssumption, SerialInv, [SerialNext]_serialVars
  PROVE  SerialInv'
<1> USE DEF SerialInv, SerialTypeOK, WaitingIsServed, CallInv
<1>1. ASSUME NEW b \in Bytes, WriteCalled(b)
      PROVE  SerialInv'
  BY <1>1 DEF WriteCalled
<1>2. CASE RoomFound
  BY <1>2 DEF RoomFound, After
<1>3. CASE StoreByte
  BY <1>3 DEF StoreByte, After
<1>4. CASE AdvanceHead
  BY <1>4, AfterType DEF AdvanceHead
<1>5. CASE EnableInterrupt
  BY <1>5 DEF EnableInterrupt
<1>6. CASE DataRegisterEmpty
  <2>1. txTail' \in Slots /\ udr' \in Bytes \union {NoByte} /\ udrEmpty' \in BOOLEAN /\ udrie' \in BOOLEAN
    BY <1>6, AfterType DEF DataRegisterEmpty
  <2>2. WaitingIsServed'
    BY <1>6 DEF DataRegisterEmpty
  <2>3. After(txHead) # txTail => After(txHead) # txTail'
    <3>1. CASE txHead = txTail
      BY <1>6, <3>1 DEF DataRegisterEmpty
    <3>2. CASE txHead # txTail
      <4>1. txTail' = After(txTail)
        BY <1>6, <3>2 DEF DataRegisterEmpty
      <4>2. After(txHead) # After(txTail)
        BY <3>2, SerialAssumption DEF After, Slots, SerialAssumption
      <4> QED
        BY <4>1, <4>2
    <3> QED
      BY <3>1, <3>2
  <2> QED
    BY <1>6, <2>1, <2>2, <2>3 DEF DataRegisterEmpty, After
<1>7. CASE ByteShifted
  BY <1>7 DEF ByteShifted, After
<1>8. CASE InterruptsOff \/ InterruptsOn
  BY <1>8 DEF InterruptsOff, InterruptsOn, After
<1>9. CASE UNCHANGED serialVars
  BY <1>9 DEF serialVars, After
<1> QED
  BY <1>1, <1>2, <1>3, <1>4, <1>5, <1>6, <1>7, <1>8, <1>9 DEF SerialNext, Write

-----------------------------------------------------------------------------
(* Every step is a step of the queue or leaves it alone. *)

Arg == IF writing \in {"wait", "store", "advance"} THEN c ELSE NoByte

(* A step that leaves the ring alone leaves the queue alone. *)
LEMMA SameRing ==
  ASSUME UNCHANGED <<txBuffer, txHead, txTail>>
  PROVE  Content' = Content
  BY DEF Content, Waiting, Slot

(* Storing a byte at the head changes nothing of what waits. *)
LEMMA StoreIsInvisible ==
  ASSUME SerialAssumption, SerialInv, StoreByte
  PROVE  Content' = Content
<1>1. Waiting \in Nat
  BY WaitingType DEF SerialInv, SerialTypeOK
<1>2. \A i \in 1 .. Waiting : txBuffer'[Slot(i - 1)] = txBuffer[Slot(i - 1)]
  <2> TAKE i \in 1 .. Waiting
  <2>1. Slot(i - 1) \in Slots /\ Slot(i - 1) # txHead
    BY <1>1, SlotsInUse DEF SerialInv, SerialTypeOK
  <2> QED
    BY <2>1 DEF StoreByte, SerialInv, SerialTypeOK
<1>3. Waiting' = Waiting /\ \A i \in 1 .. Waiting : Slot(i - 1)' = Slot(i - 1)
  BY DEF StoreByte, Waiting, Slot
<1> QED
  BY <1>2, <1>3 DEF Content

(* Moving the head is the queue's acceptance of the byte. *)
LEMMA AdvanceAccepts ==
  ASSUME SerialAssumption, SerialInv, AdvanceHead
  PROVE  Content' = Append(Content, c)
<1>1. Waiting \in Nat /\ Waiting < TxSize - 1
  BY WaitingType DEF SerialInv, SerialTypeOK, CallInv, AdvanceHead
<1>2. Waiting' = Waiting + 1
  BY SerialAssumption DEF SerialInv, SerialTypeOK, CallInv, AdvanceHead, Waiting, After, Slots, SerialAssumption
<1>3. \A i \in Nat : Slot(i)' = Slot(i)
  BY DEF AdvanceHead, Slot
<1>4. txBuffer[Slot(Waiting)] = c
  BY SlotOfHead DEF SerialInv, SerialTypeOK, CallInv, AdvanceHead
<1>5. Content' = [i \in 1 .. Waiting + 1 |-> txBuffer[Slot(i - 1)]]
  <2>1. Content' = [i \in 1 .. Waiting' |-> txBuffer'[Slot(i - 1)']]
    BY DEF Content
  <2> QED
    BY <1>1, <1>2, <1>3, <2>1 DEF AdvanceHead
<1>6. Content \in Seq(Bytes \union {NoByte}) /\ Len(Content) = Waiting /\ c \in Bytes
  BY ContentType DEF SerialInv, CallInv, AdvanceHead
<1>7. Append(Content, c) = [i \in 1 .. Waiting + 1 |-> IF i = Waiting + 1 THEN c ELSE Content[i]]
  <2>1. Append(Content, c) \in Seq(Bytes \union {NoByte}) /\ Len(Append(Content, c)) = Waiting + 1
    BY <1>1, <1>6
  <2>2. \A i \in 1 .. Waiting + 1 : Append(Content, c)[i] = IF i = Waiting + 1 THEN c ELSE Content[i]
    BY <1>1, <1>6
  <2>3. Append(Content, c) \in [1 .. Waiting + 1 -> Bytes \union {NoByte}]
    BY <2>1, LenProperties
  <2> QED
    BY <2>2, <2>3
<1>8. \A i \in 1 .. Waiting + 1 :
        txBuffer[Slot(i - 1)] = IF i = Waiting + 1 THEN c ELSE Content[i]
  BY <1>1, <1>4 DEF Content
<1> QED
  BY <1>5, <1>7, <1>8

(* Moving the tail is the queue's sending of its first byte. *)
LEMMA InterruptSends ==
  ASSUME SerialAssumption, SerialInv, DataRegisterEmpty, txHead # txTail
  PROVE  Content # <<>> /\ udr' = Head(Content) /\ Content' = Tail(Content)
<1>1. Waiting \in Nat /\ Waiting > 0 /\ Waiting < TxSize
  BY WaitingType DEF SerialInv, SerialTypeOK
<1>2. Content \in Seq(Bytes \union {NoByte}) /\ Len(Content) = Waiting
  BY ContentType DEF SerialInv
<1>3. udr' = Content[1]
  <2>1. Slot(0) = txTail
    BY SerialAssumption DEF Slot, SerialInv, SerialTypeOK, Slots, SerialAssumption
  <2> QED
    BY <1>1, <2>1 DEF Content, DataRegisterEmpty
<1>4. Waiting' = Waiting - 1
  BY SerialAssumption DEF SerialInv, SerialTypeOK, DataRegisterEmpty, Waiting, After, Slots, SerialAssumption
<1>5. \A i \in 0 .. Waiting - 2 : Slot(i)' = Slot(i + 1)
  BY <1>1, SerialAssumption DEF SerialInv, SerialTypeOK, DataRegisterEmpty, Slot, After, Slots, SerialAssumption
<1>6. Content' = [i \in 1 .. Waiting - 1 |-> txBuffer[Slot(i)]]
  <2>1. Content' = [i \in 1 .. Waiting' |-> txBuffer'[Slot(i - 1)']]
    BY DEF Content
  <2>2. \A i \in 1 .. Waiting - 1 : Slot(i - 1)' = Slot(i)
    BY <1>1, <1>5
  <2> QED
    BY <1>1, <1>4, <2>1, <2>2 DEF DataRegisterEmpty
<1>7. Tail(Content) = [i \in 1 .. Waiting - 1 |-> Content[i + 1]]
  <2>1. Tail(Content) \in Seq(Bytes \union {NoByte}) /\ Len(Tail(Content)) = Waiting - 1
    BY <1>1, <1>2
  <2>2. \A i \in 1 .. Waiting - 1 : Tail(Content)[i] = Content[i + 1]
    BY <1>1, <1>2
  <2>3. Tail(Content) \in [1 .. Waiting - 1 -> Bytes \union {NoByte}]
    BY <2>1, LenProperties
  <2> QED
    BY <2>2, <2>3
<1>8. \A i \in 1 .. Waiting - 1 : Content[i + 1] = txBuffer[Slot(i)]
  BY <1>1 DEF Content
<1> QED
  BY <1>1, <1>2, <1>3, <1>6, <1>7, <1>8

(* Every step of the port is one of the queue or none. *)
LEMMA QueueStep ==
  ASSUME SerialAssumption, SerialInv, [SerialNext]_serialVars
  PROVE  [Queue!Next]_(Queue!vars)
<1> USE DEF Arg
<1>1. ASSUME NEW b \in Bytes, WriteCalled(b)
      PROVE  Queue!Call(b)
  BY <1>1, SameRing DEF WriteCalled, Queue!Call
<1>2. CASE RoomFound
  BY <1>2, SameRing DEF RoomFound, Queue!vars
<1>3. CASE StoreByte
  BY <1>3, StoreIsInvisible DEF StoreByte, Queue!vars
<1>4. CASE AdvanceHead
  <2>1. Content' = Append(Content, c)
    BY <1>4, AdvanceAccepts
  <2>2. Len(Content) < TxSize - 1
    BY <1>4, ContentType, WaitingType DEF SerialInv, SerialTypeOK, CallInv, AdvanceHead
  <2>3. c # NoByte
    BY <1>4, SerialAssumption DEF SerialInv, CallInv, AdvanceHead, SerialAssumption
  <2>4. Queue!Accept
    BY <1>4, <2>1, <2>2, <2>3 DEF AdvanceHead, Queue!Accept
  <2> QED
    BY <2>4 DEF Queue!Next
<1>5. CASE EnableInterrupt
  BY <1>5, SameRing DEF EnableInterrupt, Queue!vars
<1>6. CASE DataRegisterEmpty
  <2>1. CASE txHead = txTail
    BY <1>6, <2>1, SameRing DEF DataRegisterEmpty, Queue!vars
  <2>2. CASE txHead # txTail
    BY <1>6, <2>2, InterruptSends DEF DataRegisterEmpty, Queue!Send, Queue!Next
  <2> QED
    BY <2>1, <2>2
<1>7. CASE ByteShifted
  BY <1>7, SameRing DEF ByteShifted, Queue!vars
<1>8. CASE InterruptsOff \/ InterruptsOn
  BY <1>8, SameRing DEF InterruptsOff, InterruptsOn, Queue!vars
<1>9. CASE UNCHANGED serialVars
  BY <1>9, SameRing DEF serialVars, Queue!vars
<1> QED
  BY <1>1, <1>2, <1>3, <1>4, <1>5, <1>6, <1>7, <1>8, <1>9 DEF SerialNext, Write, Queue!Next

(* The port starts as an empty queue. *)
LEMMA QueueInit ==
  ASSUME SerialAssumption, SerialInit
  PROVE  Queue!Init
<1>1. Waiting = 0
  BY SerialAssumption DEF SerialInit, Waiting, SerialAssumption
<1>2. Content = <<>>
  BY <1>1 DEF Content
<1> QED
  BY <1>2 DEF SerialInit, Queue!Init

(* HardwareSerial::write and its interrupt are a lossless queue of
   SERIAL_BUFFER_SIZE - 1 bytes, wherever the interrupt falls. *)
THEOREM SerialPortIsAQueue == SerialSpec => Queue!Spec /\ []SerialInv
<1> USE SerialAssumption
<1>1. SerialInit => SerialInv /\ Queue!Init
  BY SerialInvInit, QueueInit
<1>2. SerialInv /\ [SerialNext]_serialVars => SerialInv' /\ [Queue!Next]_(Queue!vars)
  BY SerialInvStep, QueueStep
<1> QED
  BY <1>1, <1>2, PTL DEF SerialSpec, Queue!Spec
=============================================================================
