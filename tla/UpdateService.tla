--------------------------- MODULE UpdateService ---------------------------
(***************************************************************************)
(* What the server promises its terminals, without threads or sockets: the *)
(* readings of every source are kept in order, a client that has asked for *)
(* a source is handed readings of that source, and it never gets an older  *)
(* reading of a source after a newer one.  Only a client whose connection  *)
(* has lost something may be given again a reading it was given before.    *)
(***************************************************************************)
EXTENDS Naturals, Sequences

CONSTANTS Sources, Clients

VARIABLES
  readings,   \* readings[s]: how many readings of source s are kept
  answers,    \* answers[c]: the readings handed to client c, oldest first
  lost        \* the clients that have lost part of what was sent to them

vars == <<readings, answers, lost>>

Answer == [conn : Sources, at : Nat]

TypeOK ==
  /\ readings \in [Sources -> Nat]
  /\ answers \in [Clients -> Seq(Answer)]
  /\ lost \subseteq Clients

Init ==
  /\ readings = [s \in Sources |-> 0]
  /\ answers = [c \in Clients |-> <<>>]
  /\ lost = {}

Keep(s) ==
  /\ readings' = [readings EXCEPT ![s] = @ + 1]
  /\ UNCHANGED <<answers, lost>>

Hand(c, s, k) ==
  /\ k \in 1..readings[s]
  /\ \A j \in 1..Len(answers[c]) : answers[c][j].conn = s => answers[c][j].at <= k
  /\ answers' = [answers EXCEPT ![c] = Append(@, [conn |-> s, at |-> k])]
  /\ UNCHANGED <<readings, lost>>

Lose(c) ==
  /\ lost' = lost \cup {c}
  /\ UNCHANGED <<readings, answers>>

(* A client that has been handed nothing can still start afresh. *)
Renew(c) ==
  /\ answers[c] = <<>>
  /\ lost' = lost \ {c}
  /\ UNCHANGED <<readings, answers>>

Repeat(c) ==
  /\ c \in lost
  /\ \E j \in 1..Len(answers[c]) :
       answers' = [answers EXCEPT ![c] = Append(@, answers[c][j])]
  /\ UNCHANGED <<readings, lost>>

Next ==
  \/ \E s \in Sources : Keep(s)
  \/ \E c \in Clients, s \in Sources : \E k \in 1..readings[s] : Hand(c, s, k)
  \/ \E c \in Clients : Lose(c) \/ Renew(c) \/ Repeat(c)

Spec == Init /\ [][Next]_vars
=============================================================================
