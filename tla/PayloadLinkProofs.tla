-------------------------- MODULE PayloadLinkProofs --------------------------
(* Theorems about port 2000, for any number of records, announcements and    *)
(* pings, and for every way to cut the stream into chunks.                   *)
EXTENDS PayloadLink, SequenceTheorems, TLAPS

-----------------------------------------------------------------------------
(* The stream: where a record begins, its atoms follow up to its '@'; records
   are numbered in the order they were written. *)

RecordAt(s, i, n) ==
  /\ i + 3 \in DOMAIN s
  /\ s[i] = Atom("GP", n)
  /\ s[i + 1] \in {Atom("GGA", n), Atom("RMC", n)}
  /\ s[i + 2] = Atom("lineEnd", n)
  /\ s[i + 3] = Atom("at", n)

StreamOf(s, written) ==
  /\ \A i \in DOMAIN s : s[i].kind = "GP" => s[i].n \in 1 .. written
                                              /\ RecordAt(s, i, s[i].n)
  /\ \A i, j \in DOMAIN s :
       i < j /\ s[i].kind = "GP" /\ s[j].kind = "GP" => s[i].n < s[j].n

StreamInv == StreamOf(sent, count.records)

(* Every entry is of a record the server has read past. *)
ReadInv ==
  \A e \in DOMAIN payloadDataVector :
    \E i \in 1 .. got :
      /\ sent[i].kind = "GP"
      /\ sent[i].n = payloadDataVector[e].gpsData[1].n

LinkInv == TypeOK /\ PositionsWhole /\ StreamInv /\ ReadInv

(* What the steps may write: nothing that begins a record, or a record. *)
Plain(text) == \A i \in DOMAIN text : text[i].kind # "GP"

(* An atom has the kind and the number it was made with. *)
LEMMA AtomType ==
  ASSUME NEW k \in Kinds, NEW n \in Nat
  PROVE  Atom(k, n) \in Atoms /\ Atom(k, n).kind = k /\ Atom(k, n).n = n
BY DEF Atom, Atoms

(* What is written stays where it was, and the text comes behind it. *)
LEMMA Appended ==
  ASSUME NEW s \in Seq(Atoms), NEW text \in Seq(Atoms)
  PROVE  /\ s \o text \in Seq(Atoms)
         /\ Len(s) \in Nat /\ Len(s \o text) = Len(s) + Len(text)
         /\ DOMAIN s = 1 .. Len(s) /\ DOMAIN s \subseteq DOMAIN (s \o text)
         /\ \A i \in DOMAIN s : (s \o text)[i] = s[i]
         /\ \A k \in DOMAIN text : Len(s) + k \in DOMAIN (s \o text)
                                   /\ (s \o text)[Len(s) + k] = text[k]
         /\ \A i \in DOMAIN (s \o text) :
              i \in DOMAIN s \/ \E k \in DOMAIN text : i = Len(s) + k
<1> DEFINE t == s \o text
<1>1. /\ t \in Seq(Atoms) /\ Len(t) = Len(s) + Len(text)
      /\ \A i \in 1 .. Len(s) + Len(text) :
           t[i] = IF i <= Len(s) THEN s[i] ELSE text[i - Len(s)]
  BY ConcatProperties
<1>2. Len(s) \in Nat /\ Len(text) \in Nat
      /\ DOMAIN s = 1 .. Len(s) /\ DOMAIN text = 1 .. Len(text) /\ DOMAIN t = 1 .. Len(t)
  BY <1>1
<1> HIDE DEF t
<1>3. \A i \in DOMAIN s : i \in DOMAIN t /\ t[i] = s[i]
  BY <1>1, <1>2
<1>4. \A k \in DOMAIN text : Len(s) + k \in DOMAIN t /\ t[Len(s) + k] = text[k]
  BY <1>1, <1>2
<1>5. ASSUME NEW i \in DOMAIN t
      PROVE  i \in DOMAIN s \/ \E k \in DOMAIN text : i = Len(s) + k
  <2>1. i \in 1 .. Len(s) \/ i - Len(s) \in 1 .. Len(text)
    BY <1>1, <1>2
  <2>2. i = Len(s) + (i - Len(s))
    BY <1>1, <1>2
  <2> QED
    BY <2>1, <2>2, <1>2
<1> QED
  BY <1>1, <1>2, <1>3, <1>4, <1>5 DEF t

(* A record stays one when the stream grows. *)
LEMMA RecordStays ==
  ASSUME NEW s \in Seq(Atoms), NEW text \in Seq(Atoms),
         NEW i \in DOMAIN s, NEW n, RecordAt(s, i, n)
  PROVE  RecordAt(s \o text, i, n)
<1> DEFINE t == s \o text
<1>1. /\ DOMAIN s = 1 .. Len(s) /\ Len(s) \in Nat
      /\ \A k \in DOMAIN s : k \in DOMAIN t /\ t[k] = s[k]
  BY Appended
<1> HIDE DEF t
<1>2. {i, i + 1, i + 2, i + 3} \subseteq DOMAIN s
  <2>1. i + 3 \in DOMAIN s
    BY DEF RecordAt
  <2> QED
    BY <1>1, <2>1
<1>3. t[i] = s[i] /\ t[i + 1] = s[i + 1] /\ t[i + 2] = s[i + 2] /\ t[i + 3] = s[i + 3]
      /\ i + 3 \in DOMAIN t
  BY <1>1, <1>2
<1> QED
  BY <1>3 DEF RecordAt, t

(* A text without a record leaves the stream in order. *)
LEMMA PlainText ==
  ASSUME NEW s \in Seq(Atoms), NEW text \in Seq(Atoms), Plain(text),
         NEW written \in Nat, StreamOf(s, written)
  PROVE  StreamOf(s \o text, written)
<1> DEFINE t == s \o text
<1>1. ASSUME NEW i \in DOMAIN t, t[i].kind = "GP"
      PROVE  i \in DOMAIN s /\ t[i] = s[i]
  BY <1>1, Appended DEF Plain
<1>2. ASSUME NEW i \in DOMAIN t, t[i].kind = "GP"
      PROVE  t[i].n \in 1 .. written /\ RecordAt(t, i, t[i].n)
  <2>1. i \in DOMAIN s /\ t[i] = s[i]
    BY <1>1, <1>2
  <2>2. s[i].n \in 1 .. written /\ RecordAt(s, i, s[i].n)
    BY <2>1, <1>2 DEF StreamOf
  <2> QED
    BY <2>1, <2>2, RecordStays
<1>3. ASSUME NEW i \in DOMAIN t, NEW j \in DOMAIN t,
             i < j, t[i].kind = "GP", t[j].kind = "GP"
      PROVE  t[i].n < t[j].n
  BY <1>1, <1>3 DEF StreamOf
<1> HIDE DEF t
<1> QED
  <2>1. StreamOf(t, written)
    BY <1>2, <1>3 DEF StreamOf
  <2> QED
    BY <2>1 DEF t

(* The next record keeps it in order. *)
LEMMA NextRecord ==
  ASSUME NEW s \in Seq(Atoms), NEW written \in Nat, StreamOf(s, written),
         NEW text \in Seq(Atoms), RecordAt(text, 1, written + 1),
         \A i \in DOMAIN text : i # 1 => text[i].kind # "GP"
  PROVE  StreamOf(s \o text, written + 1)
<1> DEFINE t == s \o text
           n == written + 1
<1>1. ASSUME NEW i \in DOMAIN t, t[i].kind = "GP"
      PROVE  \/ i \in DOMAIN s /\ t[i] = s[i]
             \/ i = Len(s) + 1 /\ t[i] = text[1]
  BY <1>1, Appended
<1>2. /\ {1, 2, 3, 4} \subseteq DOMAIN text
      /\ text[1] = Atom("GP", n) /\ text[2] \in {Atom("GGA", n), Atom("RMC", n)}
      /\ text[3] = Atom("lineEnd", n) /\ text[4] = Atom("at", n)
  <2>1. DOMAIN text = 1 .. Len(text) /\ Len(text) \in Nat
    OBVIOUS
  <2>2. 1 + 3 \in DOMAIN text
    BY DEF RecordAt
  <2>3. {1, 2, 3, 4} \subseteq DOMAIN text
    BY <2>1, <2>2
  <2>4. /\ text[1] = Atom("GP", n) /\ text[1 + 1] \in {Atom("GGA", n), Atom("RMC", n)}
        /\ text[1 + 2] = Atom("lineEnd", n) /\ text[1 + 3] = Atom("at", n)
    BY DEF RecordAt
  <2>5. 1 + 1 = 2 /\ 1 + 2 = 3 /\ 1 + 3 = 4
    OBVIOUS
  <2> HIDE DEF n
  <2> QED
    BY <2>3, <2>4, <2>5
<1>3. text[1].n = n /\ n \in Nat
  <2>1. n \in Nat /\ "GP" \in Kinds
    BY DEF Kinds
  <2> HIDE DEF n
  <2> QED
    BY <1>2, <2>1, AtomType
<1>4. Len(s) \in Nat /\ DOMAIN s = 1 .. Len(s)
  BY Appended
<1>5. RecordAt(t, Len(s) + 1, n)
  <2> DEFINE b == Len(s)
  <2>1. t[b + 1] = text[1] /\ t[b + 2] = text[2] /\ t[b + 3] = text[3] /\ t[b + 4] = text[4]
        /\ b + 4 \in DOMAIN t
    BY <1>2, Appended
  <2>2. (b + 1) + 1 = b + 2 /\ (b + 1) + 2 = b + 3 /\ (b + 1) + 3 = b + 4
    BY <1>4
  <2> HIDE DEF b, t, n
  <2>3. RecordAt(t, b + 1, n)
    BY <2>1, <2>2, <1>2 DEF RecordAt
  <2> QED
    BY <2>3 DEF b
<1>6. ASSUME NEW i \in DOMAIN t, t[i].kind = "GP"
      PROVE  t[i].n \in 1 .. n /\ RecordAt(t, i, t[i].n)
  <2>1. CASE i \in DOMAIN s /\ t[i] = s[i]
    <3>1. s[i].n \in 1 .. written /\ RecordAt(s, i, s[i].n)
      BY <2>1, <1>6 DEF StreamOf
    <3> QED
      BY <2>1, <3>1, RecordStays
  <2>2. CASE i = Len(s) + 1 /\ t[i] = text[1]
    BY <2>2, <1>3, <1>5
  <2> QED
    BY <1>1, <1>6, <2>1, <2>2
<1>7. ASSUME NEW i \in DOMAIN t, NEW j \in DOMAIN t,
             i < j, t[i].kind = "GP", t[j].kind = "GP"
      PROVE  t[i].n < t[j].n
  <2>1. i \in 1 .. Len(s) \/ i = Len(s) + 1
    BY <1>1, <1>4, <1>7
  <2>2. j \in 1 .. Len(s) \/ j = Len(s) + 1
    BY <1>1, <1>4, <1>7
  <2>3. i \in 1 .. Len(s)
    BY <2>1, <2>2, <1>4, <1>7
  <2>4. t[i] = s[i]
    BY <2>3, <1>4, Appended
  <2>5. s[i].n \in 1 .. written
    BY <2>3, <2>4, <1>4, <1>7 DEF StreamOf
  <2>6. CASE j \in DOMAIN s /\ t[j] = s[j]
    BY <2>3, <2>4, <2>6, <1>4, <1>7 DEF StreamOf
  <2>7. CASE j = Len(s) + 1 /\ t[j] = text[1]
    BY <2>4, <2>5, <2>7, <1>3
  <2> QED
    BY <1>1, <1>7, <2>6, <2>7
<1> HIDE DEF t, n
<1> QED
  <2>1. StreamOf(t, n)
    BY <1>6, <1>7 DEF StreamOf
  <2> QED
    BY <2>1 DEF t, n

-----------------------------------------------------------------------------
(* What a device writes. *)

(* The texts of the handshakes hold no piece of a record. *)
LEMMA HandshakeTexts ==
  \A text \in {DeviceText, NameLine, Announcement, OpenLine} :
    text \in Seq(Atoms) /\ Plain(text)
<1>1. \A k \in Kinds : Atom(k, 0) \in Atoms /\ Atom(k, 0).kind = k
  BY AtomType
<1>2. {"Device", "Name", "SSU", "dash01", "lineEnd", "open"} \subseteq Kinds
  BY DEF Kinds
<1>3. DeviceText \in Seq(Atoms) /\ Plain(DeviceText)
  BY <1>1, <1>2 DEF DeviceText, Plain
<1>4. NameLine \in Seq(Atoms) /\ Plain(NameLine)
  BY <1>1, <1>2 DEF NameLine, Plain
<1>5. Announcement \in Seq(Atoms) /\ Plain(Announcement)
  BY <1>1, <1>2 DEF Announcement, Plain
<1>6. OpenLine \in Seq(Atoms) /\ Plain(OpenLine)
  BY <1>1, <1>2 DEF OpenLine, Plain
<1> QED
  BY <1>3, <1>4, <1>5, <1>6

(* What a device writes once it streams is a record that starts with its
   only "$GP", or holds none. *)
LEMMA RecordTexts ==
  ASSUME NEW n \in Nat, NEW text \in Records(n), TypeOK
  PROVE  /\ text \in Seq(Atoms)
         /\ Plain(text) \/ /\ RecordAt(text, 1, n)
                           /\ \A i \in DOMAIN text : i # 1 => text[i].kind # "GP"
<1>1. \A k \in Kinds : Atom(k, n) \in Atoms /\ Atom(k, n).kind = k
  BY AtomType
<1>2. \A k \in Kinds : Atom(k, 0) \in Atoms /\ Atom(k, 0).kind = k
  BY AtomType
<1>3. {"GP", "GGA", "RMC", "at", "reading", "time", "SSU", "dash01", "lineEnd"} \subseteq Kinds
  BY DEF Kinds
<1>4. text \in {Record("GGA", n), Record("RMC", n), NameTime(n)}
  BY DEF Records, TypeOK
<1>5. ASSUME NEW sentence \in {"GGA", "RMC"}, text = Record(sentence, n)
      PROVE  /\ text \in Seq(Atoms) /\ RecordAt(text, 1, n)
             /\ \A i \in DOMAIN text : i # 1 => text[i].kind # "GP"
  <2>1. text = <<Atom("GP", n), Atom(sentence, n), Atom("lineEnd", n), Atom("at", n),
                 Atom("reading", n)>>
    BY <1>5 DEF Record
  <2>2. Atom(sentence, n) \in Atoms /\ Atom(sentence, n).kind # "GP"
    BY <1>1, <1>3
  <2>3. text \in Seq(Atoms) /\ DOMAIN text = 1 .. 5
    BY <2>1, <2>2, <1>1, <1>3
  <2>4. \A i \in DOMAIN text : i # 1 => text[i].kind # "GP"
    BY <2>1, <2>2, <2>3, <1>1, <1>3
  <2>5. 1 + 3 \in DOMAIN text /\ 1 + 1 = 2 /\ 1 + 2 = 3 /\ 1 + 3 = 4
    BY <2>3
  <2>6. text[1] = Atom("GP", n) /\ text[2] = Atom(sentence, n)
        /\ text[3] = Atom("lineEnd", n) /\ text[4] = Atom("at", n)
    BY <2>1
  <2>7. Atom(sentence, n) \in {Atom("GGA", n), Atom("RMC", n)}
    OBVIOUS
  <2>8. RecordAt(text, 1, n)
    BY <2>5, <2>6, <2>7 DEF RecordAt
  <2> QED
    BY <2>3, <2>4, <2>8
<1>6. CASE text = NameTime(n)
  BY <1>1, <1>2, <1>3, <1>6 DEF NameTime, Plain
<1> QED
  BY <1>4, <1>5, <1>6

(* A chunk that begins with a position: its '@' is the record's own. *)
LEMMA PositionChunk ==
  ASSUME TypeOK, StreamInv, NEW n \in (got + 1) .. Len(sent),
         IsPosition(Chunk(n)), NEW at \in ScienceDataStart(Chunk(n))
  PROVE  LET r == sent[got + 1].n
             gps == SubSeq(Chunk(n), 1, at - 1)
             science == SubSeq(Chunk(n), at, n - got)
         IN  /\ sent[got + 1].kind = "GP" /\ r \in 1 .. count.records
             /\ gps \in Seq(Atoms) /\ science \in Seq(Atoms)
             /\ gps = Position(r) /\ gps[1].n = r
             /\ Len(science) >= 1 /\ science[1] = Atom("at", r)
<1> DEFINE c == Chunk(n)
           g == got + 1
           r == sent[g].n
<1>1. /\ sent \in Seq(Atoms) /\ got \in Nat /\ n \in Nat
      /\ Len(sent) \in Nat /\ n <= Len(sent) /\ got < n /\ count.records \in Nat
  BY DEF TypeOK
<1>2. /\ c \in Seq(Atoms) /\ Len(c) = n - got
      /\ \A i \in 1 .. (n - got) : c[i] = sent[got + i]
  <2>1. \A i \in (got + 1) .. n : sent[i] \in Atoms
    BY <1>1
  <2>2. /\ SubSeq(sent, got + 1, n) \in Seq(Atoms)
        /\ Len(SubSeq(sent, got + 1, n)) = n - got
        /\ \A i \in 1 .. (n - got) : SubSeq(sent, got + 1, n)[i] = sent[(got + 1) + i - 1]
    BY <1>1, <2>1, SubSeqProperties
  <2>3. c = SubSeq(sent, got + 1, n)
    BY DEF Chunk
  <2> HIDE DEF c
  <2>4. \A i \in 1 .. (n - got) : (got + 1) + i - 1 = got + i
    BY <1>1
  <2> QED
    BY <2>2, <2>3, <2>4
<1> HIDE DEF c
<1>3. IsPosition(c) /\ at \in ScienceDataStart(c)
  BY DEF c
<1>4. Len(c) >= 2 /\ c[1].kind = "GP" /\ c[2].kind = "GGA"
  BY <1>3 DEF IsPosition, StartsWith
<1>5. g \in DOMAIN sent /\ sent[g] = c[1] /\ c[2] = sent[g + 1]
  BY <1>1, <1>2, <1>4
<1>6. r \in 1 .. count.records /\ RecordAt(sent, g, r)
  BY <1>4, <1>5 DEF StreamInv, StreamOf
<1>7. /\ at \in 2 .. Len(c) /\ c[at].kind = "at"
      /\ \A j \in 1 .. (at - 1) : c[j].kind # "at"
  BY <1>3 DEF ScienceDataStart
<1> HIDE DEF r
<1>8. /\ sent[g] = Atom("GP", r) /\ sent[g + 1] \in {Atom("GGA", r), Atom("RMC", r)}
      /\ sent[g + 2] = Atom("lineEnd", r) /\ sent[g + 3] = Atom("at", r)
  BY <1>6 DEF RecordAt
<1>9. \A k \in Kinds : Atom(k, r).kind = k /\ Atom(k, r).n = r
  BY <1>6, <1>1, AtomType
<1>10. sent[g + 1] = Atom("GGA", r)
  BY <1>4, <1>5, <1>8, <1>9 DEF Kinds
<1>11. at = 4
  <2>1. \A i \in 1 .. Len(c) : c[i] = sent[got + i]
    BY <1>2
  <2>2. at # 2
    BY <1>7, <1>5, <1>10, <1>9 DEF Kinds
  <2>3. at # 3
    <3>1. SUFFICES ASSUME at = 3 PROVE FALSE
      OBVIOUS
    <3>2. c[3] = sent[g + 2]
      BY <3>1, <2>1, <1>7, <1>1
    <3> QED
      BY <3>1, <3>2, <1>7, <1>8, <1>9 DEF Kinds
  <2>4. ~(at > 4)
    <3>1. SUFFICES ASSUME at > 4 PROVE FALSE
      OBVIOUS
    <3>2. 4 \in 1 .. Len(c) /\ 4 \in 1 .. (at - 1) /\ got + 4 = g + 3
      BY <3>1, <1>7, <1>1, <1>2
    <3>3. c[4] = sent[g + 3]
      BY <3>2, <2>1
    <3> QED
      BY <3>2, <3>3, <1>7, <1>8, <1>9 DEF Kinds
  <2> QED
    BY <2>2, <2>3, <2>4, <1>7, <1>2, <1>1
<1>12. c[1] = Atom("GP", r) /\ c[2] = Atom("GGA", r) /\ c[3] = Atom("lineEnd", r)
       /\ c[4] = Atom("at", r)
  <2>1. {3, 4} \subseteq 1 .. (n - got)
    BY <1>11, <1>7, <1>2
  <2>2. c[3] = sent[got + 3] /\ c[4] = sent[got + 4]
    BY <2>1, <1>2
  <2>3. got + 3 = g + 2 /\ got + 4 = g + 3
    BY <1>1
  <2> QED
    BY <2>2, <2>3, <1>5, <1>8, <1>10
<1>13. LET gps == SubSeq(c, 1, at - 1)
       IN  gps \in Seq(Atoms) /\ gps = Position(r) /\ gps[1].n = r
  <2>1. \A i \in 1 .. 3 : c[i] \in Atoms
    BY <1>2, <1>7, <1>11
  <2>2. /\ SubSeq(c, 1, 3) \in Seq(Atoms) /\ Len(SubSeq(c, 1, 3)) = 3
        /\ \A i \in 1 .. 3 : SubSeq(c, 1, 3)[i] = c[1 + i - 1]
    BY <2>1, SubSeqProperties
  <2>3. Position(r) = <<c[1], c[2], c[3]>> /\ Position(r) \in Seq(Atoms)
    BY <1>12, <2>1 DEF Position
  <2>4. /\ Len(SubSeq(c, 1, 3)) = Len(Position(r))
        /\ \A i \in 1 .. Len(SubSeq(c, 1, 3)) : SubSeq(c, 1, 3)[i] = Position(r)[i]
    BY <2>2, <2>3
  <2>5. SubSeq(c, 1, 3) = Position(r)
    BY <2>2, <2>3, <2>4, SeqEqual
  <2>6. Position(r)[1].n = r
    BY <2>3, <1>12, <1>9 DEF Kinds
  <2> QED
    BY <2>2, <2>5, <2>6, <1>11
<1>14. LET science == SubSeq(c, at, n - got)
       IN  science \in Seq(Atoms) /\ Len(science) >= 1 /\ science[1] = Atom("at", r)
  <2>1. \A i \in at .. (n - got) : c[i] \in Atoms
    BY <1>2, <1>7
  <2>0. at \in Int /\ n - got \in Int
    BY <1>1, <1>11
  <2>2. /\ SubSeq(c, at, n - got) \in Seq(Atoms)
        /\ Len(SubSeq(c, at, n - got)) = IF at <= n - got THEN (n - got) - at + 1 ELSE 0
        /\ \A i \in 1 .. (n - got) - at + 1 : SubSeq(c, at, n - got)[i] = c[at + i - 1]
    <3> DEFINE m == n - got
    <3> HIDE DEF m
    <3>1. m \in Int /\ \A i \in at .. m : c[i] \in Atoms
      BY <2>0, <2>1 DEF m
    <3>2. /\ SubSeq(c, at, m) \in Seq(Atoms)
          /\ Len(SubSeq(c, at, m)) = IF at <= m THEN m - at + 1 ELSE 0
          /\ \A i \in 1 .. m - at + 1 : SubSeq(c, at, m)[i] = c[at + i - 1]
      BY <2>0, <3>1, SubSeqProperties
    <3> QED
      BY <3>2 DEF m
  <2>3. at <= n - got
    BY <1>7, <1>2
  <2>4. 1 \in 1 .. (n - got) - at + 1 /\ at + 1 - 1 = at
    BY <2>3, <1>1, <1>11
  <2> QED
    BY <2>2, <2>3, <2>4, <1>11, <1>12, <1>1
<1> QED
  BY <1>4, <1>5, <1>6, <1>13, <1>14 DEF c, r

-----------------------------------------------------------------------------
(* The invariant. *)

(* A step that only writes to the server, the stream staying in order. *)
LEMMA WriteStep ==
  ASSUME LinkInv, NEW text \in Seq(Atoms), Writes(text),
         StreamOf(sent \o text, count'.records),
         UNCHANGED payloadDataVector
  PROVE  /\ sent' \in Seq(Atoms) /\ got' \in 0 .. Len(sent')
         /\ PositionsWhole' /\ StreamInv' /\ ReadInv'
<1>1. sent' = sent \o text /\ got' = got
  BY DEF Writes
<1>2. sent \in Seq(Atoms) /\ got \in 0 .. Len(sent)
  BY DEF LinkInv, TypeOK
<1>3. /\ sent' \in Seq(Atoms) /\ Len(sent') = Len(sent) + Len(text)
      /\ DOMAIN sent = 1 .. Len(sent) /\ \A i \in DOMAIN sent : sent'[i] = sent[i]
  BY <1>1, <1>2, Appended
<1>4. Len(text) \in Nat /\ Len(sent) \in Nat
  BY <1>2
<1>5. got' \in 0 .. Len(sent')
  BY <1>1, <1>2, <1>3, <1>4
<1>6. PositionsWhole'
  <2>1. PositionsWhole /\ payloadDataVector' = payloadDataVector
    BY DEF LinkInv
  <2> QED
    BY ONLY <2>1 DEF PositionsWhole
<1>7. StreamInv'
  BY <1>1 DEF StreamInv
<1>8. \A i \in 1 .. got : sent'[i] = sent[i]
  BY <1>2, <1>3, <1>4
<1>9. ReadInv'
  <2> SUFFICES ASSUME NEW e \in DOMAIN payloadDataVector
      PROVE  \E i \in 1 .. got : /\ sent'[i].kind = "GP"
                                /\ sent'[i].n = payloadDataVector[e].gpsData[1].n
    BY <1>1 DEF ReadInv
  <2>1. PICK i \in 1 .. got : /\ sent[i].kind = "GP"
                              /\ sent[i].n = payloadDataVector[e].gpsData[1].n
    BY DEF LinkInv, ReadInv
  <2> QED
    BY <2>1, <1>8
<1> QED
  BY <1>3, <1>5, <1>6, <1>7, <1>9

(* A step that leaves the stream and the entries alone. *)
LEMMA IdleStep ==
  ASSUME LinkInv, UNCHANGED <<sent, got, payloadDataVector>>, count'.records = count.records
  PROVE  PositionsWhole' /\ StreamInv' /\ ReadInv'
BY DEF LinkInv, PositionsWhole, StreamInv, ReadInv

(* A read that keeps nothing. *)
LEMMA ReadStep ==
  ASSUME LinkInv, NEW n \in (got + 1) .. Len(sent), Take(n),
         UNCHANGED payloadDataVector, count'.records = count.records
  PROVE  got' \in 0 .. Len(sent') /\ sent' = sent
         /\ PositionsWhole' /\ StreamInv' /\ ReadInv'
<1>1. got' = n /\ sent' = sent /\ got \in Nat /\ got < n /\ n <= Len(sent) /\ Len(sent) \in Nat
  BY DEF LinkInv, TypeOK, Take
<1>2. 1 .. got \subseteq 1 .. got'
  BY <1>1
<1>3. got' \in 0 .. Len(sent')
  BY <1>1
<1>4. PositionsWhole' /\ StreamInv'
  BY <1>1 DEF LinkInv, PositionsWhole, StreamInv
<1>5. ReadInv'
  BY <1>1, <1>2 DEF LinkInv, ReadInv
<1> QED
  BY <1>1, <1>3, <1>4, <1>5

(* The connection starts with the invariant. *)
LEMMA LinkInit == Init => LinkInv
<1> SUFFICES ASSUME Init PROVE LinkInv
  OBVIOUS
<1>1. TypeOK
  <2>1. device \in [kind : {"RockSim", "NameAndTime", "sketch"},
                    pc : {"handshake", "open", "read", "name", "streaming"},
                    start : BOOLEAN]
    BY DEF Init
  <2>2. Len(<<>>) = 0 /\ \A S : <<>> \in Seq(S)
    BY EmptySeq
  <2> QED
    BY <2>1, <2>2 DEF Init, TypeOK
<1>2. PositionsWhole /\ StreamInv /\ ReadInv
  BY DEF Init, PositionsWhole, StreamInv, StreamOf, ReadInv
<1> QED
  BY <1>1, <1>2 DEF LinkInv

(* What TypeOK says besides the stream: it is seldom disturbed. *)
DeviceType ==
  device \in [kind : {"RockSim", "NameAndTime", "sketch"},
             pc : {"handshake", "open", "read", "name", "streaming"},
             start : BOOLEAN]
BackType  == answers \in Seq({"ping", "ack"}) /\ heard \in 0 .. Len(answers)
EntryType == deviceNameSet \in BOOLEAN
             /\ payloadDataVector \in Seq([gpsData : Seq(Atoms), scienceData : Seq(Atoms)])
CountType == count \in [records : Nat, announce : Nat, opens : Nat, pings : Nat]

RestType == DeviceType /\ BackType /\ EntryType /\ CountType

(* The types of what the server keeps. *)
LEMMA TypeParts ==
  /\ TypeOK <=> RestType /\ sent \in Seq(Atoms) /\ got \in 0 .. Len(sent)
  /\ TypeOK' <=> RestType' /\ sent' \in Seq(Atoms) /\ got' \in 0 .. Len(sent')
BY DEF TypeOK, RestType, DeviceType, BackType, EntryType, CountType

(* The three ways these variables change. *)
LEMMA Moves ==
  ASSUME DeviceType,
         \/ device' = device
         \/ \E pc \in {"handshake", "open", "read", "name", "streaming"} :
              device' = [device EXCEPT !.pc = pc]
         \/ device' = [device EXCEPT !.start = TRUE]
  PROVE  DeviceType'
BY DEF DeviceType

(* Counting a text leaves the other counts alone. *)
LEMMA Counts ==
  ASSUME CountType,
         \/ count' = count
         \/ count' = [count EXCEPT !.records = @ + 1]
         \/ count' = [count EXCEPT !.announce = @ + 1]
         \/ count' = [count EXCEPT !.opens = @ + 1]
         \/ count' = [count EXCEPT !.pings = @ + 1]
  PROVE  CountType'
BY DEF CountType

(* Reading the server's answers changes nothing of what was sent. *)
LEMMA Hears ==
  ASSUME BackType,
         \/ UNCHANGED <<answers, heard>>
         \/ answers' = answers /\ heard' \in (heard + 1) .. Len(answers)
         \/ answers' \in {Append(answers, "ping"), Append(answers, "ack"),
                         Append(Append(answers, "ack"), "ping")} /\ heard' = heard
  PROVE  BackType'
<1>1. Len(answers) \in Nat /\ heard \in Nat /\ heard <= Len(answers)
  BY DEF BackType
<1>2. \A x \in {"ping", "ack"}, w \in Seq({"ping", "ack"}) :
        /\ Append(w, x) \in Seq({"ping", "ack"})
        /\ Len(Append(w, x)) = Len(w) + 1
  BY DEF BackType
<1> QED
  BY <1>1, <1>2 DEF BackType

(* Every step of a device keeps the invariant. *)
LEMMA DeviceStep ==
  ASSUME LinkInv, Emulator \/ Sketch
  PROVE  LinkInv'
<1> USE DEF LinkInv
<1>0. RestType /\ sent \in Seq(Atoms) /\ got \in 0 .. Len(sent) /\ count.records \in Nat
  BY TypeParts DEF RestType, CountType
<1>1. CASE SendRecord
  <2>1. PICK text \in Records(count.records + 1) : Writes(text)
    BY <1>1 DEF SendRecord
  <2>2. /\ count' = [count EXCEPT !.records = @ + 1] /\ UNCHANGED <<device, back, server>>
        /\ count'.records = count.records + 1 /\ count.records + 1 \in Nat
    BY <1>0, <1>1 DEF SendRecord, RestType, CountType
  <2>3. /\ text \in Seq(Atoms)
        /\ Plain(text) \/ /\ RecordAt(text, 1, count.records + 1)
                          /\ \A i \in DOMAIN text : i # 1 => text[i].kind # "GP"
    BY <2>1, <2>2, RecordTexts
  <2>4. StreamOf(sent \o text, count.records + 1)
    <3>1. CASE Plain(text)
      <4>1. StreamOf(sent \o text, count.records)
        BY <1>0, <2>3, <3>1, PlainText DEF StreamInv
      <4>2. 1 .. count.records \subseteq 1 .. (count.records + 1)
        BY <1>0
      <4> QED
        BY <4>1, <4>2 DEF StreamOf
    <3>2. CASE RecordAt(text, 1, count.records + 1)
               /\ \A i \in DOMAIN text : i # 1 => text[i].kind # "GP"
      BY <1>0, <2>3, <3>2, NextRecord DEF StreamInv
    <3> QED
      BY <2>3, <3>1, <3>2
  <2>5. /\ sent' \in Seq(Atoms) /\ got' \in 0 .. Len(sent')
        /\ PositionsWhole' /\ StreamInv' /\ ReadInv'
    BY <2>1, <2>2, <2>3, <2>4, WriteStep DEF server
  <2>6. RestType'
    BY <1>0, <2>2, Moves, Counts, Hears DEF RestType, EntryType, back, server
  <2> QED
    BY <2>5, <2>6, TypeParts
<1>2. ASSUME NEW text \in {DeviceText, NameLine, Announcement, OpenLine}, Writes(text),
             count'.records = count.records, payloadDataVector' = payloadDataVector, RestType'
      PROVE  LinkInv'
  <2>1. text \in Seq(Atoms) /\ Plain(text)
    BY HandshakeTexts
  <2>2. StreamOf(sent \o text, count'.records)
    BY <1>0, <1>2, <2>1, PlainText DEF StreamInv
  <2>3. /\ sent' \in Seq(Atoms) /\ got' \in 0 .. Len(sent')
        /\ PositionsWhole' /\ StreamInv' /\ ReadInv'
    BY <1>2, <2>1, <2>2, WriteStep
  <2> QED
    BY <1>2, <2>3, TypeParts
<1>3. ASSUME UNCHANGED <<sent, got, payloadDataVector>>, count'.records = count.records, RestType'
      PROVE  LinkInv'
  <2>1. PositionsWhole' /\ StreamInv' /\ ReadInv'
    BY <1>3, IdleStep
  <2> QED
    BY <1>0, <1>3, <2>1, TypeParts
<1>4. CASE Announce
  <2>1. Writes(Announcement) /\ payloadDataVector' = payloadDataVector
        /\ count'.records = count.records
    BY <1>0, <1>4 DEF Announce, server, RestType, CountType
  <2>2. RestType'
    BY <1>0, <1>4, Moves, Counts, Hears DEF Announce, RestType, EntryType, back, server
  <2> QED
    BY <2>1, <2>2, <1>2
<1>5. CASE HearServer
  <2>1. UNCHANGED <<sent, got, deviceNameSet, payloadDataVector, count>>
    BY <1>5 DEF HearServer, link, server
  <2>2. PICK n \in (heard + 1) .. Len(answers) :
           /\ heard' = n
           /\ device' = device \/ device' = [device EXCEPT !.pc = "streaming"]
    BY <1>5 DEF HearServer
  <2>3. RestType'
    <3>1. answers' = answers
      BY <1>5 DEF HearServer
    <3>2. DeviceType'
      BY <1>0, <2>2, Moves DEF RestType
    <3>3. BackType'
      BY <1>0, <2>2, <3>1, Hears DEF RestType
    <3> QED
      BY <1>0, <2>1, <3>2, <3>3, Counts DEF RestType, EntryType
  <2> QED
    BY <2>1, <2>3, <1>3
<1>6. CASE OpenLink
  <2>1. CASE Writes(OpenLine) /\ count' = [count EXCEPT !.opens = @ + 1]
    <3>1. payloadDataVector' = payloadDataVector /\ count'.records = count.records
      BY <1>0, <1>6, <2>1 DEF OpenLink, server, RestType, CountType
    <3>2. RestType'
      BY <1>0, <1>6, <2>1, Moves, Counts, Hears DEF OpenLink, RestType, EntryType, back, server
    <3> QED
      BY <2>1, <3>1, <3>2, <1>2
  <2>2. CASE UNCHANGED <<link, count>>
    <3>1. RestType'
      BY <1>0, <1>6, <2>2, Moves, Counts, Hears DEF OpenLink, RestType, EntryType, back, server
    <3> QED
      BY <1>6, <2>2, <3>1, <1>3 DEF OpenLink, link, server
  <2> QED
    BY <1>6, <2>1, <2>2 DEF OpenLink
<1>7. CASE ReadServer
  <2>0. heard' = heard + 1 /\ heard < Len(answers)
        /\ UNCHANGED <<answers, deviceNameSet, payloadDataVector, count>>
    BY <1>7 DEF ReadServer, server
  <2>3. BackType' /\ EntryType' /\ CountType'
    <3>1. heard + 1 \in (heard + 1) .. Len(answers)
      BY <1>0, <2>0 DEF RestType, BackType
    <3> QED
      BY <1>0, <2>0, <3>1, Hears, Counts DEF RestType, EntryType
  <2>1. CASE device' = [device EXCEPT !.pc = "name"] /\ Writes(DeviceText)
    <3>1. RestType'
      BY <1>0, <2>3, <2>1, Moves DEF RestType
    <3> QED
      BY <2>0, <2>1, <3>1, <1>2
  <2>2. CASE device' = [device EXCEPT !.start = TRUE] /\ UNCHANGED link
    <3>1. RestType'
      BY <1>0, <2>3, <2>2, Moves DEF RestType
    <3> QED
      BY <2>0, <2>2, <3>1, <1>3 DEF link
  <2> QED
    BY <1>7, <2>1, <2>2 DEF ReadServer
<1>8. CASE PrintName
  <2>1. Writes(NameLine) /\ UNCHANGED <<answers, heard, deviceNameSet, payloadDataVector, count>>
        /\ device' = [device EXCEPT !.pc = "read"]
    BY <1>8 DEF PrintName, back, server
  <2>2. RestType'
    BY <1>0, <2>1, Moves, Hears, Counts DEF RestType, EntryType
  <2> QED
    BY <2>1, <2>2, <1>2
<1>9. CASE InputEmpty
  <2>1. UNCHANGED <<sent, got, answers, heard, deviceNameSet, payloadDataVector, count>>
        /\ \E pc \in {"streaming", "open"} : device' = [device EXCEPT !.pc = pc]
    BY <1>9 DEF InputEmpty, link, back, server
  <2>2. RestType'
    BY <1>0, <2>1, Moves, Hears, Counts DEF RestType, EntryType
  <2> QED
    BY <2>1, <2>2, <1>3
<1> QED
  BY <1>1, <1>4, <1>5, <1>6, <1>7, <1>8, <1>9 DEF Emulator, Sketch

(* The one step that keeps something: what it keeps, and where it was read. *)
LEMMA Stored ==
  ASSUME LinkInv, StoreRecord
  PROVE  \E n \in (got + 1) .. Len(sent), data \in [gpsData : Seq(Atoms), scienceData : Seq(Atoms)] :
           /\ Take(n) /\ payloadDataVector' = Append(payloadDataVector, data)
           /\ sent[got + 1].kind = "GP" /\ sent[got + 1].n \in 1 .. count.records
           /\ data.gpsData = Position(sent[got + 1].n)
           /\ data.gpsData[1].n = sent[got + 1].n
           /\ data.scienceData[1] = Atom("at", sent[got + 1].n)
<1>1. PICK n \in (got + 1) .. Len(sent) :
         /\ Take(n) /\ IsPosition(Chunk(n))
         /\ \E at \in ScienceDataStart(Chunk(n)) :
              AddElement([gpsData |-> SubSeq(Chunk(n), 1, at - 1),
                          scienceData |-> SubSeq(Chunk(n), at, n - got)
                                          \o <<Atom("return", 0)>>])
  BY DEF StoreRecord
<1>2. PICK at \in ScienceDataStart(Chunk(n)) :
         AddElement([gpsData |-> SubSeq(Chunk(n), 1, at - 1),
                     scienceData |-> SubSeq(Chunk(n), at, n - got) \o <<Atom("return", 0)>>])
  BY <1>1
<1> DEFINE r == sent[got + 1].n
           gps == SubSeq(Chunk(n), 1, at - 1)
           science == SubSeq(Chunk(n), at, n - got)
           tail == <<Atom("return", 0)>>
           data == [gpsData |-> gps, scienceData |-> science \o tail]
<1>3. /\ sent[got + 1].kind = "GP" /\ r \in 1 .. count.records
      /\ gps \in Seq(Atoms) /\ science \in Seq(Atoms)
      /\ gps = Position(r) /\ gps[1].n = r
      /\ Len(science) >= 1 /\ science[1] = Atom("at", r)
  BY <1>1, PositionChunk DEF LinkInv
<1>4. payloadDataVector' = Append(payloadDataVector, data)
  BY <1>2 DEF AddElement
<1> HIDE DEF gps, science
<1>5. tail \in Seq(Atoms)
  <2>1. "return" \in Kinds
    BY DEF Kinds
  <2> QED
    BY <2>1, AtomType
<1> HIDE DEF tail
<1>6. science \o tail \in Seq(Atoms) /\ (science \o tail)[1] = science[1]
  <2>1. 1 \in DOMAIN science
    BY <1>3
  <2> QED
    BY <2>1, <1>3, <1>5, Appended
<1>7. data \in [gpsData : Seq(Atoms), scienceData : Seq(Atoms)]
      /\ data.gpsData = gps /\ data.scienceData = science \o tail
  BY <1>3, <1>6
<1> HIDE DEF data, r
<1>8. /\ Take(n) /\ payloadDataVector' = Append(payloadDataVector, data)
      /\ data.gpsData = Position(r) /\ data.gpsData[1].n = r
      /\ data.scienceData[1] = Atom("at", r)
      /\ sent[got + 1].kind = "GP" /\ r \in 1 .. count.records
  BY <1>1, <1>3, <1>4, <1>6, <1>7
<1> QED
  BY <1>7, <1>8 DEF r

(* Every step of the server keeps the invariant. *)
LEMMA ServerStep ==
  ASSUME LinkInv, Server
  PROVE  LinkInv'
<1> USE DEF LinkInv
<1>0. RestType /\ sent \in Seq(Atoms) /\ got \in 0 .. Len(sent) /\ count.records \in Nat
  BY TypeParts DEF RestType, CountType
<1>1. ASSUME NEW n \in (got + 1) .. Len(sent), Take(n),
             UNCHANGED payloadDataVector, count'.records = count.records, RestType'
      PROVE  LinkInv'
  <2>1. /\ got' \in 0 .. Len(sent') /\ sent' = sent
        /\ PositionsWhole' /\ StreamInv' /\ ReadInv'
    BY <1>1, ReadStep, Zenon
  <2> QED
    BY <1>0, <1>1, <2>1, TypeParts
<1>2. CASE PingDevice
  <2>1. UNCHANGED <<sent, got, payloadDataVector>> /\ count'.records = count.records
    BY <1>0, <1>2 DEF PingDevice, Requested, link, server, RestType, CountType
  <2>2. RestType'
    BY <1>0, <1>2, Moves, Hears, Counts DEF PingDevice, Requested, RestType, EntryType, server
  <2>3. PositionsWhole' /\ StreamInv' /\ ReadInv'
    BY <2>1, IdleStep
  <2> QED
    BY <1>0, <2>1, <2>2, <2>3, TypeParts
<1>3. CASE ReadName
  <2>1. \E n \in (got + 1) .. Len(sent) : Take(n)
    BY <1>3 DEF ReadName
  <2>2. PICK named : /\ named = Append(answers, "ack")
                     /\ \/ answers' = named /\ count' = count
                        \/ Requested(named)
    BY <1>3 DEF ReadName
  <2>3. RestType' /\ UNCHANGED payloadDataVector /\ count'.records = count.records
    <3>1. /\ UNCHANGED <<device, heard, payloadDataVector>> /\ deviceNameSet' = FALSE
          /\ answers' \in {named, Append(named, "ping")}
          /\ count' = count \/ count' = [count EXCEPT !.pings = @ + 1]
      BY <1>3, <2>2 DEF ReadName, Requested
    <3>2. BackType'
      BY <1>0, <2>2, <3>1, Hears DEF RestType
    <3>3. CountType' /\ count'.records = count.records
      BY <1>0, <3>1, Counts DEF RestType, CountType
    <3> QED
      BY <1>0, <3>1, <3>2, <3>3, Moves DEF RestType, EntryType
  <2> QED
    BY <2>1, <2>3, <1>1
<1>4. CASE SkipGreeting
  <2>1. \E n \in (got + 1) .. Len(sent) : Take(n)
    BY <1>4 DEF SkipGreeting
  <2>2. RestType' /\ UNCHANGED <<payloadDataVector, count>>
    BY <1>0, <1>4, Moves, Hears, Counts DEF SkipGreeting, RestType, EntryType, back, server
  <2> QED
    BY <2>1, <2>2, <1>1
<1>5. CASE DropChunk
  <2>1. \E n \in (got + 1) .. Len(sent) : Take(n)
    BY <1>5 DEF DropChunk
  <2>2. RestType' /\ UNCHANGED <<payloadDataVector, count>>
    BY <1>0, <1>5, Moves, Hears, Counts DEF DropChunk, RestType, EntryType, back, server
  <2> QED
    BY <2>1, <2>2, <1>1
<1>6. CASE StoreRecord
  <2>1. PICK n \in (got + 1) .. Len(sent),
             data \in [gpsData : Seq(Atoms), scienceData : Seq(Atoms)] :
           /\ Take(n) /\ payloadDataVector' = Append(payloadDataVector, data)
           /\ sent[got + 1].kind = "GP"
           /\ data.gpsData = Position(sent[got + 1].n)
           /\ data.gpsData[1].n = sent[got + 1].n
           /\ data.scienceData[1] = Atom("at", sent[got + 1].n)
    BY <1>6, Stored
  <2>2. UNCHANGED <<device, answers, heard, deviceNameSet, count>>
    BY <1>6 DEF StoreRecord, back
  <2>3. RestType'
    <3>1. EntryType'
      BY <1>0, <2>1, <2>2 DEF RestType, EntryType
    <3> QED
      BY <1>0, <2>2, <3>1, Moves, Hears, Counts DEF RestType
  <2>4. got' = n /\ sent' = sent /\ got' \in 0 .. Len(sent') /\ got + 1 \in 1 .. got'
        /\ 1 .. got \subseteq 1 .. got'
    BY <1>0, <2>1 DEF Take
  <2> DEFINE m == Len(payloadDataVector)
  <2>5. m \in Nat /\ DOMAIN payloadDataVector = 1 .. m /\ DOMAIN payloadDataVector' = 1 .. (m + 1)
        /\ payloadDataVector'[m + 1] = data
        /\ \A e \in 1 .. m : payloadDataVector'[e] = payloadDataVector[e]
    BY <1>0, <2>1 DEF RestType, EntryType
  <2> HIDE DEF m
  <2>6. \A e \in 1 .. (m + 1) : e \in 1 .. m \/ e = m + 1
    BY <2>5
  <2>7. PositionsWhole'
    BY <2>1, <2>5, <2>6 DEF PositionsWhole
  <2>8. StreamInv'
    BY <2>2, <2>4 DEF StreamInv
  <2>9. ReadInv'
    <3> SUFFICES ASSUME NEW e \in 1 .. (m + 1)
        PROVE  \E i \in 1 .. got' : /\ sent[i].kind = "GP"
                                   /\ sent[i].n = payloadDataVector'[e].gpsData[1].n
      BY <2>4, <2>5 DEF ReadInv
    <3>1. CASE e \in 1 .. m
      BY <3>1, <2>4, <2>5 DEF ReadInv
    <3>2. CASE e = m + 1
      BY <3>2, <2>1, <2>4, <2>5
    <3> QED
      BY <2>6, <3>1, <3>2
  <2> QED
    BY <1>0, <2>3, <2>4, <2>7, <2>8, <2>9, TypeParts
<1> QED
  BY <1>2, <1>3, <1>4, <1>5, <1>6 DEF Server

(* Every step does. *)
LEMMA LinkStep == LinkInv /\ [Next]_vars => LinkInv'
<1> SUFFICES ASSUME LinkInv, [Next]_vars PROVE LinkInv'
  OBVIOUS
<1>1. CASE UNCHANGED vars
  BY <1>1 DEF vars, link, back, server, LinkInv, TypeOK, PositionsWhole, StreamInv, ReadInv
<1> QED
  BY <1>1, DeviceStep, ServerStep DEF Next

(* It holds throughout. *)
LEMMA LinkInvariant == Spec => []LinkInv
BY LinkInit, LinkStep, PTL DEF Spec

(* Neither end of the connection reads what was not written, and the keys of
   the stream keep their types. *)
THEOREM LinkTypeCorrect == Spec => []TypeOK
BY LinkInvariant, PTL DEF LinkInv

(* PayloadDataController: however TCP cuts and joins the device's texts, an
   entry is a whole position and begins its reading with that record's '@'. *)
THEOREM EntriesAreWholePositions == Spec => []PositionsWhole
BY LinkInvariant, PTL DEF LinkInv

-----------------------------------------------------------------------------
(* The refinement. *)

Kept == [i \in DOMAIN payloadDataVector |-> payloadDataVector[i].gpsData[1].n]

(* An entry is kept in one step of the log, everything else but a record
   written is a stutter. *)
LEMMA LogStep ==
  ASSUME LinkInv, [Next]_vars
  PROVE  [Log!Next]_(Log!vars)
<1> USE DEF Log!Next, Log!vars, Log!Write, Log!Keep
<1>0. RestType /\ sent \in Seq(Atoms) /\ got \in 0 .. Len(sent) /\ count.records \in Nat
  BY TypeParts DEF LinkInv, RestType, CountType
<1>1. CASE SendRecord
  BY <1>0, <1>1 DEF SendRecord, server, RestType, CountType
<1>2. CASE Announce \/ HearServer \/ OpenLink \/ ReadServer \/ PrintName \/ InputEmpty
           \/ PingDevice \/ ReadName \/ SkipGreeting \/ DropChunk \/ UNCHANGED vars
  <2>1. payloadDataVector' = payloadDataVector /\ count'.records = count.records
    BY <1>0, <1>2 DEF Announce, HearServer, OpenLink, ReadServer, PrintName, InputEmpty,
       PingDevice, Requested, ReadName, SkipGreeting, DropChunk, vars, server, RestType, CountType
  <2> QED
    BY <2>1
<1>3. CASE StoreRecord
  <2>1. PICK n \in (got + 1) .. Len(sent),
             data \in [gpsData : Seq(Atoms), scienceData : Seq(Atoms)] :
           /\ Take(n) /\ payloadDataVector' = Append(payloadDataVector, data)
           /\ sent[got + 1].kind = "GP" /\ sent[got + 1].n \in 1 .. count.records
           /\ data.gpsData[1].n = sent[got + 1].n
    BY <1>3, Stored
  <2> DEFINE r == sent[got + 1].n
             m == Len(payloadDataVector)
  <2>2. count' = count
    BY <1>3 DEF StoreRecord
  <2>3. m \in Nat /\ DOMAIN payloadDataVector = 1 .. m /\ DOMAIN payloadDataVector' = 1 .. (m + 1)
        /\ payloadDataVector'[m + 1] = data
        /\ \A e \in 1 .. m : payloadDataVector'[e] = payloadDataVector[e]
    BY <1>0, <2>1 DEF RestType, EntryType
  <2>4. \A e \in DOMAIN Kept : Kept[e] < r
    <3> SUFFICES ASSUME NEW e \in DOMAIN payloadDataVector
        PROVE  payloadDataVector[e].gpsData[1].n < r
      BY DEF Kept
    <3>1. PICK i \in 1 .. got : /\ sent[i].kind = "GP"
                                /\ sent[i].n = payloadDataVector[e].gpsData[1].n
      BY DEF LinkInv, ReadInv
    <3>2. i \in DOMAIN sent /\ got + 1 \in DOMAIN sent /\ i < got + 1
      BY <1>0, <2>1
    <3> QED
      BY <2>1, <3>1, <3>2 DEF LinkInv, StreamInv, StreamOf
  <2>5. Kept' = Append(Kept, r)
    <3> HIDE DEF m, r
    <3> DEFINE S == {Kept[e] : e \in 1 .. m} \union {r}
    <3>1. Kept \in Seq(S) /\ Len(Kept) = m /\ r \in S
      <4>1. DOMAIN Kept = 1 .. m /\ Kept = [e \in 1 .. m |-> Kept[e]]
        BY <2>3 DEF Kept
      <4>2. \A e \in 1 .. m : Kept[e] \in S
        OBVIOUS
      <4>3. r \in S
        OBVIOUS
      <4> HIDE DEF Kept, S
      <4>4. Kept \in [1 .. m -> S]
        BY <4>1, <4>2
      <4>5. Kept \in Seq(S)
        BY <2>3, <4>4
      <4> QED
        BY <2>3, <4>1, <4>3, <4>5
    <3> HIDE DEF S
    <3> DEFINE A == Append(Kept, r)
    <3>2. A \in Seq(S) /\ Len(A) = m + 1 /\ A[m + 1] = r /\ \A e \in 1 .. m : A[e] = Kept[e]
      BY <2>3, <3>1, AppendProperties
    <3> HIDE DEF A
    <3>3. A = [e \in 1 .. (m + 1) |-> A[e]]
      BY <2>3, <3>2
    <3>4. \A e \in 1 .. m : A[e] = payloadDataVector'[e].gpsData[1].n
      BY <2>3, <3>2 DEF Kept
    <3>5. A[m + 1] = payloadDataVector'[m + 1].gpsData[1].n
      BY <2>1, <2>3, <3>2 DEF r
    <3>6. \A e \in 1 .. (m + 1) : e \in 1 .. m \/ e = m + 1
      BY <2>3
    <3>7. \A e \in 1 .. (m + 1) : A[e] = payloadDataVector'[e].gpsData[1].n
      BY <3>4, <3>5, <3>6
    <3>8. Kept' = [e \in 1 .. (m + 1) |-> payloadDataVector'[e].gpsData[1].n]
      BY <2>3 DEF Kept
    <3> QED
      BY <3>3, <3>7, <3>8 DEF A
  <2> QED
    BY <2>1, <2>2, <2>4, <2>5 DEF Kept
<1> QED
  BY <1>1, <1>2, <1>3 DEF Next, Emulator, Sketch, Server

(* The entries of a connection are a log of the device's records: none twice,
   none out of order, none that was not written. *)
THEOREM LinkKeepsALog == Spec => KeepsALog
<1>1. Init => Log!Init
  BY DEF Init, Log!Init
<1>2. LinkInv /\ [Next]_vars => [Log!Next]_(Log!vars)
  BY LogStep
<1> QED
  BY <1>1, <1>2, LinkInvariant, PTL DEF Spec, KeepsALog, Log!Spec
=============================================================================
