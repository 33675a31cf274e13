----------------------------- MODULE ByteQueue -----------------------------
(***************************************************************************)
(* What a serial port promises its caller: the bytes handed over by calls  *)
(* of write() leave in the order of the calls, each exactly as often as    *)
(* it was written, and no more than Room of them wait at a time.           *)
(***************************************************************************)
EXTENDS Naturals, Sequences

CONSTANTS Bytes, NoByte, Room

VARIABLES
  queue,      \* accepted and not yet sent
  arg,        \* the argument of the call under way, NoByte between calls
  last        \* the byte sent last

vars == <<queue, arg, last>>

Init == queue = <<>> /\ arg = NoByte /\ last = NoByte

Call(b) == arg = NoByte /\ arg' = b /\ UNCHANGED <<queue, last>>

Accept ==
  /\ arg # NoByte /\ Len(queue) < Room
  /\ queue' = Append(queue, arg)
  /\ arg' = NoByte
  /\ UNCHANGED last

Send ==
  /\ queue # <<>>
  /\ last' = Head(queue)
  /\ queue' = Tail(queue)
  /\ UNCHANGED arg

Next == Accept \/ Send \/ \E b \in Bytes : Call(b)

Spec == Init /\ [][Next]_vars
=============================================================================
