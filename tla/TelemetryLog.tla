---------------------------- MODULE TelemetryLog ----------------------------
(***************************************************************************)
(* What port 2000 promises whoever reads the server's entries: a device    *)
(* numbers its records as it writes them, and the server keeps some of     *)
(* them, each at most once and in the order they were written.             *)
(***************************************************************************)
EXTENDS Naturals, Sequences

VARIABLES
  written,    \* how many records the device has written
  kept        \* the numbers of the records kept, oldest first

vars == <<written, kept>>

Init == written = 0 /\ kept = <<>>

Write == written' = written + 1 /\ UNCHANGED kept

Keep(n) ==
  /\ \A i \in DOMAIN kept : kept[i] < n
  /\ kept' = Append(kept, n)
  /\ UNCHANGED written

Next == Write \/ \E n \in 1 .. written : Keep(n)

Spec == Init /\ [][Next]_vars
=============================================================================
