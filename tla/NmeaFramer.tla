----------------------------- MODULE NmeaFramer -----------------------------
(***************************************************************************)
(* The payload's Arduino program, PayloadV2.ino: one loop() that, until    *)
(* the server has answered '@', opens the link and announces the device,   *)
(* and from then on cuts the characters of the GPS receiver into sentences *)
(* and forwards those whose checksum agrees.                               *)
(*                                                                         *)
(* buffer[0 .. bufferidx-1] is the sequence `buffer' and bufferidx is its  *)
(* length: what the array holds from bufferidx on is never read.  What the *)
(* code reads below the array or gets from a parseHex that returns nothing *)
(* is any value (Below, HexValues).  The barometer's reading, which is     *)
(* appended to every sentence, is left out.  `line' and `sent' are history *)
(* variables: the characters read since the last newline, and the sentence *)
(* forwarded by the last iteration.                                        *)
(***************************************************************************)
EXTENDS Integers, Sequences, FiniteSets

CONSTANTS
  BUFFSIZE,   \* size of the array, 90 in the source
  Chars,      \* the characters the receiver sends
  MaxLine     \* bound: the receiver's lines are at most this long

DOLLAR == 36
STAR   == 42
NL     == 10

ASSUME FramerAssumption ==
  /\ BUFFSIZE \in 2 .. 256     \* bufferidx is a uint8_t
  /\ Chars \subseteq 1 .. 127
  /\ {DOLLAR, STAR, NL} \subseteq Chars
  /\ MaxLine \in Nat

VARIABLES
  start,      \* has the server said '@'?
  reading,    \* is loop() emptying the WiFly's input?
  buffer,
  line, sent

vars == <<start, reading, buffer, line, sent>>

bufferidx == Len(buffer)

-----------------------------------------------------------------------------
(* The checksum. *)

(* parseHex: the values it can return.  Past 'F' it falls off its end. *)
HexValues(c) ==
  IF c > 70 THEN 0 .. 255
  ELSE {IF c \in 48 .. 57 THEN c - 48 ELSE IF c \in 65 .. 70 THEN c - 55 ELSE 0}

(* Exclusive or of the characters of s, bit by bit. *)
Xor(s) ==
  LET Bit(b) == b * (Cardinality({i \in DOMAIN s : (s[i] \div b) % 2 = 1}) % 2)
  IN  Bit(1) + Bit(2) + Bit(4) + Bit(8) + Bit(16) + Bit(32) + Bit(64)

(* The two digits at bufferidx-3 and bufferidx-2 as a uint8_t; when the second
   parse returns nothing the sum is any. *)
Sums(c, d) ==
  IF d > 70 THEN 0 .. 255
  ELSE {(16 * h + l) % 256 : h \in HexValues(c), l \in HexValues(d)}

(* The bytes before the array, which a line of fewer than five characters
   makes the code look at. *)
Below == [bufferidx - 4 .. -1 -> Chars]

(* buffer[i] once the newline has been stored at bufferidx. *)
At(i, below) == IF i < 0 THEN below[i] ELSE Append(buffer, NL)[i + 1]

(* Mutant of Verdicts: the loop over the body ends one character early. *)
VerdictsShort ==
  LET x == Xor(SubSeq(buffer, 2, bufferidx - 5))
  IN  IF bufferidx >= 4 /\ At(bufferidx - 4, <<>>) = STAR
        THEN {x \in Sums(At(bufferidx - 3, <<>>), At(bufferidx - 2, <<>>))}
        ELSE {FALSE}

(* What the two checks can come to: is there a '*' in its place, and are the
   two digits after it the exclusive or of what '$' and '*' enclose? *)
Verdicts ==
  LET x == Xor(SubSeq(buffer, 2, bufferidx - 4))
      Outcomes(sums) == {TRUE : n \in sums \intersect {x}} \union {FALSE : n \in sums \ {x}}
  IN  UNION {IF At(bufferidx - 4, below) # STAR THEN {FALSE}
             ELSE Outcomes(Sums(At(bufferidx - 3, below), At(bufferidx - 2, below))) :
               below \in Below}

-----------------------------------------------------------------------------
Init ==
  /\ start = FALSE /\ reading = FALSE
  /\ buffer = <<>>
  /\ line = <<>> /\ sent = <<>>

(* One pass of loop() without the server's word: the line "open" goes out
   and what the WiFly has received is read, a character at a time. *)
Open ==
  /\ ~start /\ ~reading
  /\ reading' = TRUE
  /\ UNCHANGED <<start, buffer, line, sent>>

ReadServer(c) ==
  /\ reading
  /\ start' = (start \/ c = "@")       \* '#' is answered with the device's name
  /\ UNCHANGED <<reading, buffer, line, sent>>

InputEmpty ==
  /\ reading
  /\ reading' = FALSE
  /\ UNCHANGED <<start, buffer, line, sent>>

(* A character of the receiver: the last of its line or one more of it. *)
Streaming == start /\ ~reading

Received(c) ==
  LET l == IF line # <<>> /\ line[Len(line)] = NL THEN <<>> ELSE line
  IN  /\ Len(l) < (IF c = NL THEN MaxLine + 1 ELSE MaxLine)
      /\ line' = Append(l, c)

(* With an empty buffer everything up to a '$' is read and dropped. *)
Skip(c) ==
  /\ Streaming
  /\ bufferidx = 0 /\ c # DOLLAR
  /\ Received(c)
  /\ sent' = <<>>
  /\ UNCHANGED <<start, reading, buffer>>

(* Mutant of Store: the array is taken for one longer than it is. *)
StoreLate(c) ==
  /\ Streaming
  /\ bufferidx = 0 => c = DOLLAR
  /\ c # NL
  /\ Received(c)
  /\ buffer' = IF bufferidx + 1 = BUFFSIZE THEN <<>> ELSE Append(buffer, c)
  /\ sent' = <<>>
  /\ UNCHANGED <<start, reading>>

(* A character inside a sentence; a sentence that fills the array is lost. *)
Store(c) ==
  /\ Streaming
  /\ bufferidx = 0 => c = DOLLAR
  /\ c # NL
  /\ Received(c)
  /\ buffer' = IF bufferidx + 1 = BUFFSIZE - 1 THEN <<>> ELSE Append(buffer, c)
  /\ sent' = <<>>
  /\ UNCHANGED <<start, reading>>

(* Mutant of EndLine: a sentence that fails the checks is not reset. *)
EndLineUnreset ==
  /\ Streaming
  /\ bufferidx > 0
  /\ Received(NL)
  /\ \/ TRUE \in Verdicts /\ sent' = Append(buffer, NL) /\ buffer' = <<>>
     \/ FALSE \in Verdicts /\ sent' = <<>> /\ buffer' = Append(buffer, NL)
  /\ UNCHANGED <<start, reading>>

(* The newline: the sentence is forwarded if it passes the checks; either way
   the next one starts at the bottom of the array. *)
EndLine ==
  /\ Streaming
  /\ bufferidx > 0
  /\ Received(NL)
  /\ \/ TRUE \in Verdicts /\ sent' = Append(buffer, NL)
     \/ FALSE \in Verdicts /\ sent' = <<>>
  /\ buffer' = <<>>
  /\ UNCHANGED <<start, reading>>

Next ==
  \/ Open
  \/ \E c \in {"#", "@", "other"} : ReadServer(c)
  \/ InputEmpty
  \/ \E c \in Chars : Skip(c) \/ Store(c)
  \/ EndLine

Spec == Init /\ [][Next]_vars

-----------------------------------------------------------------------------
(* Properties. *)

IsTail(s, t) ==
  Len(s) =< Len(t) /\ s = SubSeq(t, Len(t) - Len(s) + 1, Len(t))

(* A sentence: "$", a body, "*", two hexadecimal digits that are the body's
   exclusive or, a carriage return (any character: the code does not look)
   and the newline. *)
HexDigit == 48 .. 57 \union 65 .. 70

Sentence(s) ==
  LET n == Len(s) IN
  /\ n >= 6
  /\ s[1] = DOLLAR /\ s[n] = NL
  /\ s[n - 4] = STAR
  /\ s[n - 3] \in HexDigit /\ s[n - 2] \in HexDigit
  /\ Sums(s[n - 3], s[n - 2]) = {Xor(SubSeq(s, 2, n - 5))}

(* Every index the code writes, the terminating 0 after a newline included,
   is inside the array; the buffer is a piece of the line that is being read,
   and begins with its '$'. *)
TypeOK ==
  /\ start \in BOOLEAN /\ reading \in BOOLEAN
  /\ buffer \in Seq(Chars) /\ line \in Seq(Chars) /\ sent \in Seq(Chars)
  /\ bufferidx + 1 =< BUFFSIZE - 1
  /\ buffer # <<>> => buffer[1] = DOLLAR

(* What the buffer holds is the end of the line being read, whatever was cut
   off or skipped before: no character is lost inside a sentence and nothing
   of an earlier line is left in it. *)
BufferIsTail ==
  /\ IsTail(buffer, line)
  /\ \A i \in DOMAIN buffer : buffer[i] # NL

(* Only sentences are forwarded: what goes to the server is the end of the
   line just read, and if it is long enough for the code to look at its own
   characters only and its two digits are digits, its checksum agrees. *)
OnlySentencesSent ==
  sent # <<>> =>
    /\ IsTail(sent, line) /\ sent[1] = DOLLAR
    /\ Len(sent) >= 6 /\ {sent[Len(sent) - 3], sent[Len(sent) - 2]} \subseteq HexDigit
         => Sentence(sent)

(* Every sentence that fits is forwarded, whatever came before it: a line
   that is one sentence from its first to its last character and leaves room
   for the terminator has been sent when its newline has been read. *)
SentencesThatFitAreSent ==
  Sentence(line) /\ Len(line) =< BUFFSIZE - 1 => sent = line
=============================================================================
