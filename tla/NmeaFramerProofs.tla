-------------------------- MODULE NmeaFramerProofs --------------------------
(* Theorems about the payload's framer, for any size of its array.           *)
EXTENDS NmeaFramer, SequenceTheorems, TLAPS

-----------------------------------------------------------------------------
(* Tails. *)

(* IsTail, position by position. *)
LEMMA TailElements ==
  ASSUME NEW S, NEW s \in Seq(S), NEW t \in Seq(S)
  PROVE  IsTail(s, t) <=>
           /\ Len(s) =< Len(t)
           /\ \A i \in 1 .. Len(s) : s[i] = t[Len(t) - Len(s) + i]
<1> DEFINE u == SubSeq(t, Len(t) - Len(s) + 1, Len(t))
<1>1. CASE Len(s) =< Len(t)
  <2>1. /\ u \in Seq(S) /\ Len(u) = Len(s)
        /\ \A i \in 1 .. Len(s) : u[i] = t[Len(t) - Len(s) + i]
    BY <1>1
  <2>2. (\A i \in 1 .. Len(s) : s[i] = u[i]) => s = u
    BY <2>1, SeqEqual
  <2> QED
    BY <1>1, <2>1, <2>2 DEF IsTail
<1>2. CASE ~(Len(s) =< Len(t))
  BY <1>2 DEF IsTail
<1> QED
  BY <1>1, <1>2

(* Both grow by the character that is read. *)
LEMMA TailGrows ==
  ASSUME NEW S, NEW s \in Seq(S), NEW t \in Seq(S), NEW c \in S, IsTail(s, t)
  PROVE  IsTail(Append(s, c), Append(t, c))
<1>1. Append(s, c) \in Seq(S) /\ Append(t, c) \in Seq(S)
  OBVIOUS
<1>2. Len(s) =< Len(t) /\ \A i \in 1 .. Len(s) : s[i] = t[Len(t) - Len(s) + i]
  BY TailElements
<1>3. Len(s) \in Nat /\ Len(t) \in Nat
      /\ Len(Append(s, c)) = Len(s) + 1 /\ Len(Append(t, c)) = Len(t) + 1
  OBVIOUS
<1>4. ASSUME NEW i \in 1 .. Len(Append(s, c))
      PROVE  Append(s, c)[i] = Append(t, c)[Len(Append(t, c)) - Len(Append(s, c)) + i]
  <2>1. CASE i = Len(s) + 1
    BY <2>1, <1>3, AppendProperties
  <2>2. CASE i \in 1 .. Len(s)
    <3>1. Append(s, c)[i] = s[i]
      BY <2>2, AppendProperties
    <3>2. Len(t) - Len(s) + i \in 1 .. Len(t)
      BY <2>2, <1>2, <1>3
    <3>3. Append(t, c)[Len(t) - Len(s) + i] = t[Len(t) - Len(s) + i]
      BY <3>2, AppendProperties
    <3> QED
      BY <2>2, <3>1, <3>3, <1>2, <1>3
  <2>3. i = Len(s) + 1 \/ i \in 1 .. Len(s)
    BY <1>3
  <2> QED
    BY <2>1, <2>2, <2>3
<1>5. Len(Append(s, c)) =< Len(Append(t, c))
  BY <1>2, <1>3
<1> QED
  BY <1>1, <1>4, <1>5, TailElements

(* The empty sequence is a tail of every line. *)
LEMMA EmptyTail ==
  ASSUME NEW S, NEW t \in Seq(S)
  PROVE  IsTail(<<>>, t)
<1>1. Len(<<>>) = 0 /\ Len(t) \in Nat
  BY EmptySeq, LenProperties
<1>2. SubSeq(t, Len(t) + 1, Len(t)) = <<>>
  BY <1>1, SubSeqEmpty
<1>3. Len(t) - Len(<<>>) + 1 = Len(t) + 1
  BY <1>1
<1> QED
  BY <1>1, <1>2, <1>3 DEF IsTail

-----------------------------------------------------------------------------
(* The buffer. *)

FramerInv == TypeOK /\ BufferIsTail /\ OnlySentencesSent

(* What Received does to the line: it is a sequence again, and the buffer
   extended by the character is its tail. *)
LEMMA ReceivedLine ==
  ASSUME FramerAssumption, TypeOK, BufferIsTail, NEW c \in Chars, Received(c)
  PROVE  /\ line' \in Seq(Chars)
         /\ IsTail(Append(buffer, c), line')
<1> DEFINE ended == line # <<>> /\ line[Len(line)] = NL
           l == IF ended THEN <<>> ELSE line
<1>1. l \in Seq(Chars) /\ line' = Append(l, c)
  BY DEF Received, TypeOK
<1>2. buffer \in Seq(Chars) /\ line \in Seq(Chars)
  BY DEF TypeOK
<1>3. IsTail(buffer, l)
  <2>1. CASE ended
    <3>1. Len(buffer) =< Len(line)
          /\ \A i \in 1 .. Len(buffer) : buffer[i] = line[Len(line) - Len(buffer) + i]
      BY <1>2, TailElements DEF BufferIsTail
    <3>2. Len(buffer) = 0
      <4>1. SUFFICES ASSUME Len(buffer) # 0 PROVE FALSE
        OBVIOUS
      <4>2. Len(buffer) \in 1 .. Len(buffer) /\ Len(line) \in Nat
        BY <4>1, <1>2
      <4>3. buffer[Len(buffer)] = line[Len(line)]
        BY <4>2, <3>1
      <4> QED
        BY <4>2, <4>3, <2>1, <1>2 DEF BufferIsTail
    <3>3. buffer = <<>>
      BY <3>2, <1>2
    <3> QED
      BY <3>3, <1>1, EmptyTail
  <2>2. CASE ~ended
    BY <2>2 DEF BufferIsTail
  <2> QED
    BY <2>1, <2>2
<1> QED
  <2>1. IsTail(Append(buffer, c), Append(l, c))
    BY <1>1, <1>2, <1>3, TailGrows
  <2>2. Append(l, c) \in Seq(Chars)
    BY <1>1
  <2> QED
    BY <1>1, <2>1, <2>2

(* Two digits have one sum. *)
LEMMA OneSum ==
  ASSUME NEW c \in HexDigit, NEW d \in HexDigit, NEW x, x \in Sums(c, d)
  PROVE  Sums(c, d) = {x}
<1> DEFINE h == IF c \in 48 .. 57 THEN c - 48 ELSE IF c \in 65 .. 70 THEN c - 55 ELSE 0
           l == IF d \in 48 .. 57 THEN d - 48 ELSE IF d \in 65 .. 70 THEN d - 55 ELSE 0
<1>1. ~(c > 70) /\ ~(d > 70)
  BY DEF HexDigit
<1>2. HexValues(c) = {h} /\ HexValues(d) = {l}
  BY <1>1 DEF HexValues
<1> HIDE DEF h, l
<1>3. Sums(c, d) = {(16 * hh + ll) % 256 : hh \in {h}, ll \in {l}}
  BY <1>1, <1>2 DEF Sums
<1>4. Sums(c, d) = {(16 * h + l) % 256}
  BY <1>3
<1> QED
  BY <1>4, Zenon

(* The body of a sentence is in the array as in the line. *)
LEMMA SameBody ==
  ASSUME NEW S, NEW s \in Seq(S), NEW c \in S, NEW n \in Int, n =< Len(s)
  PROVE  SubSeq(s, 2, n) = SubSeq(Append(s, c), 2, n)
<1> DEFINE u == SubSeq(s, 2, n)
           v == SubSeq(Append(s, c), 2, n)
<1>1. \A i \in 2 .. n : s[i] \in S /\ Append(s, c)[i] = s[i]
  BY AppendProperties, ElementOfSeq
<1>2. /\ u \in Seq(S) /\ Len(u) = IF 2 <= n THEN n - 2 + 1 ELSE 0
      /\ \A i \in 1 .. n - 2 + 1 : u[i] = s[2 + i - 1]
  BY <1>1, SubSeqProperties
<1>3. /\ v \in Seq(S) /\ Len(v) = IF 2 <= n THEN n - 2 + 1 ELSE 0
      /\ \A i \in 1 .. n - 2 + 1 : v[i] = Append(s, c)[2 + i - 1]
  BY <1>1, SubSeqProperties
<1> HIDE DEF u, v
<1>4. Len(u) = Len(v) /\ 1 .. Len(u) \subseteq 1 .. n - 2 + 1
  BY <1>2, <1>3
<1>5. \A i \in 1 .. n - 2 + 1 : u[i] = v[i]
  <2>1. TAKE i \in 1 .. n - 2 + 1
  <2>2. 2 + i - 1 \in 2 .. n
    OBVIOUS
  <2> QED
    BY <2>2, <1>1, <1>2, <1>3
<1> QED
  BY <1>2, <1>3, <1>4, <1>5, SeqEqual

(* A newline that passes the checks ends a sentence, if the code has looked at
   its own characters only and found digits. *)
LEMMA ChecksFindSentences ==
  ASSUME FramerAssumption, TypeOK, TRUE \in Verdicts,
         NEW s, s = Append(buffer, NL), Len(s) >= 6,
         {s[Len(s) - 3], s[Len(s) - 2]} \subseteq HexDigit, s[1] = DOLLAR
  PROVE  Sentence(s)
<1> DEFINE n == Len(s)
           x == Xor(SubSeq(buffer, 2, bufferidx - 4))
           c == s[n - 3]
           d == s[n - 2]
<1>1. buffer \in Seq(Chars) /\ NL \in Chars /\ n = bufferidx + 1 /\ bufferidx \in Nat
  BY DEF TypeOK, FramerAssumption, bufferidx
<1>2. bufferidx >= 5
  BY <1>1
<1>3. PICK below \in Below :
        /\ At(bufferidx - 4, below) = STAR
        /\ x \in Sums(At(bufferidx - 3, below), At(bufferidx - 2, below))
  BY Zenon DEF Verdicts
<1>4. /\ At(bufferidx - 4, below) = s[n - 4]
      /\ At(bufferidx - 3, below) = c
      /\ At(bufferidx - 2, below) = d
  BY <1>1, <1>2 DEF At
<1>5. s[n - 4] = STAR /\ x \in Sums(c, d)
  BY <1>3, <1>4, Zenon
<1>6. Sums(c, d) = {x}
  <2>1. c \in HexDigit /\ d \in HexDigit
    OBVIOUS
  <2> HIDE DEF c, d, x
  <2> QED
    BY <2>1, <1>5, OneSum
<1>7. SubSeq(buffer, 2, bufferidx - 4) = SubSeq(s, 2, n - 5)
  <2>1. SubSeq(buffer, 2, bufferidx - 4) = SubSeq(s, 2, bufferidx - 4)
    BY <1>1, <1>2, SameBody DEF bufferidx
  <2>2. bufferidx - 4 = n - 5
    BY <1>1
  <2> QED
    BY <2>1, <2>2
<1>8. s[n] = NL
  BY <1>1 DEF bufferidx
<1>9. Sums(s[n - 3], s[n - 2]) = {Xor(SubSeq(s, 2, n - 5))}
  BY <1>6, <1>7, Zenon
<1> QED
  BY <1>5, <1>8, <1>9, <1>1, <1>2 DEF Sentence

-----------------------------------------------------------------------------
(* The invariant holds at the start. *)
LEMMA FramerInit ==
  ASSUME FramerAssumption, Init
  PROVE  FramerInv
<1>1. line \in Seq(Chars) /\ buffer = <<>> /\ sent = <<>> /\ line = <<>>
  BY DEF Init
<1>2. IsTail(buffer, line)
  BY <1>1, EmptyTail
<1>3. TypeOK
  <2>1. Len(buffer) = 0
    BY <1>1
  <2>2. <<>> \in Seq(Chars)
    OBVIOUS
  <2>3. bufferidx + 1 =< BUFFSIZE - 1
    BY <2>1 DEF FramerAssumption, bufferidx
  <2> QED
    BY <1>1, <2>2, <2>3 DEF Init, TypeOK
<1> QED
  BY <1>1, <1>2, <1>3 DEF FramerInv, BufferIsTail, OnlySentencesSent

(* A character before the '$' changes the line and not the buffer. *)
LEMMA SkipKeeps ==
  ASSUME FramerAssumption, FramerInv, NEW c \in Chars, Skip(c)
  PROVE  FramerInv'
<1>1. line' \in Seq(Chars)
  BY ReceivedLine DEF Skip, FramerInv
<1>2. buffer = <<>> /\ buffer' = <<>> /\ sent' = <<>>
  BY DEF Skip, FramerInv, TypeOK, bufferidx
<1>3. IsTail(buffer', line')
  BY <1>1, <1>2, EmptyTail
<1> QED
  BY <1>1, <1>2, <1>3
  DEF FramerInv, TypeOK, BufferIsTail, OnlySentencesSent, Skip, bufferidx

(* A stored character ends the buffer as it ends the line; with the array full
   the buffer starts anew. *)
LEMMA StoreKeeps ==
  ASSUME FramerAssumption, FramerInv, NEW c \in Chars, Store(c)
  PROVE  FramerInv'
<1>1. line' \in Seq(Chars) /\ IsTail(Append(buffer, c), line')
  BY ReceivedLine DEF Store, FramerInv
<1>2. buffer \in Seq(Chars) /\ bufferidx + 1 =< BUFFSIZE - 1 /\ BUFFSIZE \in Nat
  BY DEF FramerInv, TypeOK, FramerAssumption
<1>3. CASE bufferidx + 1 = BUFFSIZE - 1
  <2>1. buffer' = <<>> /\ sent' = <<>>
    BY <1>3 DEF Store
  <2>2. IsTail(buffer', line')
    BY <1>1, <2>1, EmptyTail
  <2>3. bufferidx' + 1 =< BUFFSIZE - 1
    BY <2>1, <1>2, <1>3 DEF bufferidx
  <2> QED
    BY <1>1, <2>1, <2>2, <2>3
    DEF FramerInv, TypeOK, BufferIsTail, OnlySentencesSent, Store
<1>4. CASE bufferidx + 1 # BUFFSIZE - 1
  <2>1. buffer' = Append(buffer, c) /\ sent' = <<>>
    BY <1>4 DEF Store
  <2>2. buffer' \in Seq(Chars) /\ Len(buffer') = Len(buffer) + 1
    BY <2>1, <1>2
  <2>3. bufferidx' + 1 =< BUFFSIZE - 1
    BY <2>2, <1>2, <1>4 DEF bufferidx
  <2>4. buffer'[1] = DOLLAR
    <3>1. CASE buffer = <<>>
      <4>1. c = DOLLAR /\ Len(buffer) = 0
        BY <3>1 DEF Store, bufferidx
      <4> QED
        BY <4>1, <2>1, <1>2, AppendProperties
    <3>2. CASE buffer # <<>>
      BY <3>2, <2>1, <1>2 DEF FramerInv, TypeOK
    <3> QED
      BY <3>1, <3>2
  <2>5. \A i \in DOMAIN buffer' : buffer'[i] # NL
    BY <2>1, <1>2 DEF FramerInv, BufferIsTail, Store
  <2> QED
    BY <1>1, <2>1, <2>2, <2>3, <2>4, <2>5
    DEF FramerInv, TypeOK, BufferIsTail, OnlySentencesSent, Store
<1> QED
  BY <1>3, <1>4

(* A newline forwards a buffer only with its checksum right, and resets it. *)
LEMMA EndLineKeeps ==
  ASSUME FramerAssumption, FramerInv, EndLine
  PROVE  FramerInv'
<1>1. NL \in Chars /\ buffer \in Seq(Chars) /\ BUFFSIZE \in 2 .. 256
  BY DEF FramerAssumption, FramerInv, TypeOK
<1>2. line' \in Seq(Chars) /\ IsTail(Append(buffer, NL), line')
  BY <1>1, ReceivedLine DEF EndLine, FramerInv
<1>3. buffer' = <<>> /\ buffer # <<>> /\ bufferidx > 0
  BY DEF EndLine, bufferidx
<1>4. \/ TRUE \in Verdicts /\ sent' = Append(buffer, NL)
      \/ sent' = <<>>
  BY DEF EndLine
<1>5. IsTail(buffer', line')
  BY <1>2, <1>3, EmptyTail
<1>6. bufferidx' + 1 =< BUFFSIZE - 1
  BY <1>1, <1>3 DEF bufferidx
<1>7. sent' \in Seq(Chars)
  <2>1. <<>> \in Seq(Chars) /\ Append(buffer, NL) \in Seq(Chars)
    BY <1>1
  <2> QED
    BY <1>4, <2>1
<1>8. OnlySentencesSent'
  <2>1. SUFFICES ASSUME sent' # <<>> PROVE OnlySentencesSent'
    BY DEF OnlySentencesSent
  <2>2. TRUE \in Verdicts /\ sent' = Append(buffer, NL)
    BY <1>4, <2>1
  <2>3. sent'[1] = DOLLAR
    BY <2>2, <1>1, <1>3 DEF FramerInv, TypeOK, bufferidx
  <2>4. Len(sent') >= 6 /\ {sent'[Len(sent') - 3], sent'[Len(sent') - 2]} \subseteq HexDigit
          => Sentence(sent')
    <3>1. HAVE Len(sent') >= 6 /\ {sent'[Len(sent') - 3], sent'[Len(sent') - 2]} \subseteq HexDigit
    <3> QED
      BY <3>1, <2>2, <2>3, ChecksFindSentences DEF FramerInv
  <2> QED
    BY <1>2, <2>2, <2>3, <2>4 DEF OnlySentencesSent
<1> QED
  BY <1>2, <1>3, <1>5, <1>6, <1>7, <1>8 DEF FramerInv, TypeOK, BufferIsTail, EndLine

(* Every step keeps the invariant. *)
LEMMA FramerStep ==
  ASSUME FramerAssumption, FramerInv, [Next]_vars
  PROVE  FramerInv'
<1>1. CASE Open
  BY <1>1 DEF Open, FramerInv, TypeOK, BufferIsTail, OnlySentencesSent, bufferidx
<1>2. ASSUME NEW c \in {"#", "@", "other"}, ReadServer(c) PROVE FramerInv'
  BY <1>2 DEF ReadServer, FramerInv, TypeOK, BufferIsTail, OnlySentencesSent, bufferidx
<1>3. CASE InputEmpty
  BY <1>3 DEF InputEmpty, FramerInv, TypeOK, BufferIsTail, OnlySentencesSent, bufferidx
<1>4. ASSUME NEW c \in Chars, Skip(c) PROVE FramerInv'
  BY <1>4, SkipKeeps
<1>5. ASSUME NEW c \in Chars, Store(c) PROVE FramerInv'
  BY <1>5, StoreKeeps
<1>6. CASE EndLine
  BY <1>6, EndLineKeeps
<1>7. CASE UNCHANGED vars
  BY <1>7 DEF vars, FramerInv, TypeOK, BufferIsTail, OnlySentencesSent, bufferidx
<1> QED
  BY <1>1, <1>2, <1>3, <1>4, <1>5, <1>6, <1>7 DEF Next

(* The three together, for every size of the array that a uint8_t can index. *)
THEOREM FramerInvariant == Spec => []FramerInv
<1>1. Init => FramerInv
  BY FramerInit, FramerAssumption
<1>2. FramerInv /\ [Next]_vars => FramerInv'
  BY FramerStep, FramerAssumption
<1> QED
  BY <1>1, <1>2, PTL DEF Spec

(* No character and no terminating 0 is ever written outside the array, and a
   buffer that is not empty begins with '$'. *)
THEOREM IndexStaysInTheArray == Spec => []TypeOK
<1>1. FramerInv => TypeOK
  BY DEF FramerInv
<1> QED
  BY <1>1, FramerInvariant, PTL

(* What is forwarded is the end of the line just read, and a sentence with the
   right checksum unless the code looked outside it or at what is no digit. *)
THEOREM ForwardsOnlySentences == Spec => []OnlySentencesSent
<1>1. FramerInv => OnlySentencesSent
  BY DEF FramerInv
<1> QED
  BY <1>1, FramerInvariant, PTL

-----------------------------------------------------------------------------
(* Sentences that fit. *)

(* A line that begins with '$', goes on and still fits is in the array. *)
FitInv ==
  /\ line # <<>> /\ line[Len(line)] # NL
  /\ line[1] = DOLLAR /\ Len(line) =< BUFFSIZE - 2
  => buffer = line

FitsInv == FramerInv /\ FitInv /\ SentencesThatFitAreSent

(* Such a line is what the buffer holds and the character just read. *)
LEMMA LineIsBuffered ==
  ASSUME FramerAssumption, FramerInv, FitInv, NEW c \in Chars, Received(c),
         line'[1] = DOLLAR, Len(line') =< BUFFSIZE - 1
  PROVE  line' = Append(buffer, c)
<1> DEFINE ended == line # <<>> /\ line[Len(line)] = NL
           l == IF ended THEN <<>> ELSE line
<1>1. /\ buffer \in Seq(Chars) /\ line \in Seq(Chars) /\ l \in Seq(Chars)
      /\ line' = Append(l, c) /\ BUFFSIZE \in Nat
  BY DEF Received, FramerInv, TypeOK, FramerAssumption
<1>2. IsTail(Append(buffer, c), line') /\ line' \in Seq(Chars)
  BY ReceivedLine DEF FramerInv
<1>3. CASE l = <<>>
  <2>1. Len(line') = 1 /\ Len(Append(buffer, c)) = Len(buffer) + 1 /\ Len(buffer) \in Nat
    BY <1>1, <1>3
  <2>2. Len(Append(buffer, c)) =< Len(line')
    BY <1>2 DEF IsTail
  <2>3. Len(buffer) = 0
    BY <2>1, <2>2
  <2>4. buffer = <<>>
    BY <2>3, <1>1
  <2> QED
    BY <2>4, <1>1, <1>3
<1>4. CASE l # <<>>
  <2>1. l = line /\ line # <<>> /\ line[Len(line)] # NL
    BY <1>4
  <2>2. line[1] = DOLLAR
    <3>1. 1 \in 1 .. Len(line)
      BY <2>1, <1>1
    <3> QED
      BY <3>1, <2>1, <1>1, AppendProperties
  <2>3. Len(line) =< BUFFSIZE - 2
    BY <1>1, <2>1
  <2> QED
    BY <1>1, <2>1, <2>2, <2>3 DEF FitInv
<1> QED
  BY <1>3, <1>4

(* A sentence passes the checks, whatever is in the bytes before the array. *)
LEMMA SentencesPass ==
  ASSUME FramerAssumption, TypeOK, Sentence(Append(buffer, NL))
  PROVE  FALSE \notin Verdicts
<1> DEFINE s == Append(buffer, NL)
           n == Len(s)
           x == Xor(SubSeq(buffer, 2, bufferidx - 4))
           c == s[n - 3]
           d == s[n - 2]
<1>1. buffer \in Seq(Chars) /\ NL \in Chars /\ n = bufferidx + 1 /\ bufferidx \in Nat
  BY DEF TypeOK, FramerAssumption, bufferidx
<1>2. bufferidx >= 5
  BY <1>1 DEF Sentence
<1>3. Sums(c, d) = {x}
  <2>1. SubSeq(buffer, 2, bufferidx - 4) = SubSeq(s, 2, bufferidx - 4)
    BY <1>1, <1>2, SameBody DEF bufferidx
  <2>2. bufferidx - 4 = n - 5
    BY <1>1
  <2>3. Sums(c, d) = {Xor(SubSeq(s, 2, n - 5))}
    BY DEF Sentence
  <2> QED
    BY <2>1, <2>2, <2>3
<1>4. ASSUME NEW below \in Below
      PROVE  /\ At(bufferidx - 4, below) = STAR
             /\ Sums(At(bufferidx - 3, below), At(bufferidx - 2, below)) = {x}
  <2>1. /\ At(bufferidx - 4, below) = s[n - 4]
        /\ At(bufferidx - 3, below) = c
        /\ At(bufferidx - 2, below) = d
    BY <1>1, <1>2 DEF At
  <2>2. s[n - 4] = STAR
    BY DEF Sentence
  <2> HIDE DEF c, d, x, s, n
  <2> QED
    BY <2>1, <2>2, <1>3, Zenon
<1> HIDE DEF x
<1>5. SUFFICES ASSUME FALSE \in Verdicts PROVE FALSE
  OBVIOUS
<1>6. PICK below \in Below :
        \E k \in Sums(At(bufferidx - 3, below), At(bufferidx - 2, below)) : k # x
  BY <1>4, <1>5, Zenon DEF Verdicts, x
<1> QED
  BY <1>4, <1>6

(* Every step keeps what fits in the array and sends what is complete. *)
LEMMA FitsStep ==
  ASSUME FramerAssumption, FitsInv, [Next]_vars
  PROVE  FitsInv'
<1>1. FramerInv'
  BY FramerStep DEF FitsInv
<1>2. CASE UNCHANGED <<buffer, line, sent>>
  <2>1. FitInv' /\ SentencesThatFitAreSent'
    BY <1>2 DEF FitsInv, FitInv, SentencesThatFitAreSent
  <2> QED
    BY <1>1, <2>1 DEF FitsInv
<1>3. ASSUME NEW c \in Chars, Skip(c) PROVE FitsInv'
  <2>1. ASSUME line'[1] = DOLLAR, Len(line') =< BUFFSIZE - 1 PROVE FALSE
    <3>1. line' = Append(buffer, c)
      BY <1>3, <2>1, LineIsBuffered DEF FitsInv, Skip
    <3>2. buffer = <<>> /\ c # DOLLAR
      BY <1>3 DEF Skip, FitsInv, FramerInv, TypeOK, bufferidx
    <3> QED
      BY <3>1, <3>2, <2>1
  <2>2. line' \in Seq(Chars) /\ BUFFSIZE \in Nat
    BY <1>1 DEF FramerInv, TypeOK, FramerAssumption
  <2>3. FitInv'
    BY <2>1, <2>2 DEF FitInv
  <2>4. SentencesThatFitAreSent'
    BY <2>1 DEF SentencesThatFitAreSent, Sentence
  <2> QED
    BY <1>1, <2>3, <2>4 DEF FitsInv
<1>4. ASSUME NEW c \in Chars, Store(c) PROVE FitsInv'
  <2>1. /\ buffer \in Seq(Chars) /\ line' \in Seq(Chars) /\ BUFFSIZE \in Nat /\ c # NL /\ Received(c)
        /\ line \in Seq(Chars)
    BY <1>1, <1>4 DEF FitsInv, FramerInv, TypeOK, FramerAssumption, Store
  <2>2. FitInv'
    <3>1. SUFFICES ASSUME line'[1] = DOLLAR, Len(line') =< BUFFSIZE - 2 PROVE buffer' = line'
      BY DEF FitInv
    <3>2. line' = Append(buffer, c)
      BY <2>1, <3>1, LineIsBuffered DEF FitsInv
    <3>3. bufferidx + 1 # BUFFSIZE - 1
      BY <2>1, <3>1, <3>2 DEF bufferidx
    <3> QED
      BY <1>4, <3>2, <3>3 DEF Store
  <2>3. line'[Len(line')] = c
    BY <2>1 DEF Received
  <2>4. SentencesThatFitAreSent'
    BY <2>1, <2>3 DEF SentencesThatFitAreSent, Sentence
  <2> QED
    BY <1>1, <2>2, <2>4 DEF FitsInv
<1>5. CASE EndLine
  <2>1. /\ buffer \in Seq(Chars) /\ line \in Seq(Chars) /\ NL \in Chars /\ Received(NL)
    BY <1>5 DEF FitsInv, FramerInv, TypeOK, FramerAssumption, EndLine
  <2>2. line'[Len(line')] = NL
    BY <2>1 DEF Received
  <2>3. FitInv'
    BY <2>2 DEF FitInv
  <2>4. SentencesThatFitAreSent'
    <3>1. SUFFICES ASSUME Sentence(line'), Len(line') =< BUFFSIZE - 1 PROVE sent' = line'
      BY DEF SentencesThatFitAreSent
    <3>2. line' = Append(buffer, NL)
      BY <2>1, <3>1, LineIsBuffered DEF FitsInv, Sentence
    <3>3. FALSE \notin Verdicts
      BY <3>1, <3>2, SentencesPass DEF FitsInv, FramerInv
    <3> QED
      BY <1>5, <3>2, <3>3 DEF EndLine
  <2> QED
    BY <1>1, <2>3, <2>4 DEF FitsInv
<1>6. CASE Open \/ InputEmpty \/ \E c \in {"#", "@", "other"} : ReadServer(c)
  BY <1>2, <1>6 DEF Open, InputEmpty, ReadServer
<1>7. CASE UNCHANGED vars
  BY <1>2, <1>7 DEF vars
<1> QED
  BY <1>3, <1>4, <1>5, <1>6, <1>7 DEF Next

(* A line that is one sentence and fits with its terminator has been forwarded
   when its newline has been read, whatever the receiver sent before it. *)
THEOREM ForwardsEverySentence == Spec => []SentencesThatFitAreSent
<1>1. Init => FitsInv
  <2>1. Init => FramerInv
    BY FramerInit, FramerAssumption
  <2>2. Init => FitInv /\ SentencesThatFitAreSent
    BY DEF Init, FitInv, SentencesThatFitAreSent
  <2> QED
    BY <2>1, <2>2 DEF FitsInv
<1>2. FitsInv /\ [Next]_vars => FitsInv'
  BY FitsStep, FramerAssumption
<1>3. FitsInv => SentencesThatFitAreSent
  BY DEF FitsInv
<1> QED
  BY <1>1, <1>2, <1>3, PTL DEF Spec
=============================================================================
