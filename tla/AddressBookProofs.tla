------------------------- MODULE AddressBookProofs -------------------------
(***************************************************************************)
(* Theorems about the address book, for any entries, any numbers and a     *)
(* list of any length.                                                     *)
(***************************************************************************)
EXTENDS AddressBook, SequenceTheorems, WellFoundedInduction, TLAPS

-----------------------------------------------------------------------------
(* Naturals: a set of them that is not empty has a least member. *)
LEMMA LeastOf ==
  ASSUME NEW T, T \subseteq Nat, T # {}
  PROVE  \E m \in T : \A k \in T : m =< k
<1> DEFINE R == {ss \in Nat \X Nat : ss[1] < ss[2]}
<1>1. IsWellFoundedOn(R, Nat)
  BY NatLessThanWellFounded DEF OpToRel
<1> HIDE DEF R
<1>2. PICK m \in T : \A k \in T : ~(<<k, m>> \in R)
  BY <1>1, WFMin
<1>3. \A k \in T : ~(k < m)
  BY <1>2 DEF R
<1> QED
  BY <1>3

-----------------------------------------------------------------------------
(* The file. *)

(* An entry the list may have: what IPAdder or AddIPActionListener makes. *)
Good ==
  {e \in [name : Seq(Pieces), ip : Seq(Pieces), port : Seq(Pieces)] :
     e.name # <<>> /\ e.ip # <<>> /\ Len(e.port) = 1 /\ e.port[1] \in Numbers}

(* What is written is lines of pieces. *)
LEMMA SaveType ==
  ASSUME NEW list \in Seq(Good)
  PROVE  /\ Save(list) \in Seq(Seq(Pieces))
         /\ DOMAIN Save(list) = 1 .. Len(list) /\ Len(list) \in Nat
<1>1. ASSUME NEW e \in Good
      PROVE  Line(e) \in Seq(Pieces)
  <2>1. e.name \in Seq(Pieces) /\ e.ip \in Seq(Pieces) /\ e.port \in Seq(Pieces)
    BY DEF Good
  <2>2. e.name \o e.ip \in Seq(Pieces)
    BY <2>1, ConcatProperties
  <2> QED
    BY <2>1, <2>2, ConcatProperties DEF Line
<1>2. /\ Len(list) \in Nat /\ DOMAIN list = 1 .. Len(list)
      /\ \A i \in 1 .. Len(list) : list[i] \in Good
  BY LenProperties, ElementOfSeq
<1>3. Save(list) = [i \in 1 .. Len(list) |-> Line(list[i])]
  BY <1>2 DEF Save
<1>4. \A i \in 1 .. Len(list) : Line(list[i]) \in Seq(Pieces)
  BY <1>1, <1>2
<1>5. Save(list) \in [1 .. Len(list) -> Seq(Pieces)]
  BY <1>3, <1>4
<1> QED
  BY <1>2, <1>5, SeqDef

(* What is read from lines that can be read is entries. *)
LEMMA LoadType ==
  ASSUME NEW lines \in Seq(Seq(Pieces)), Readable(lines)
  PROVE  Load(lines) \in Seq(Good)
<1>1. ASSUME NEW i \in 1 .. Len(lines)
      PROVE  [name |-> <<lines[i][1]>>, ip |-> <<lines[i][2]>>, port |-> <<lines[i][3]>>] \in Good
  <2>1. lines[i] \in Seq(Pieces) /\ Len(lines[i]) >= 3 /\ lines[i][3] \in Numbers
    BY DEF Readable
  <2>2. lines[i][1] \in Pieces /\ lines[i][2] \in Pieces /\ lines[i][3] \in Pieces
    BY <2>1
  <2>3. \A x \in Pieces : <<x>> \in Seq(Pieces) /\ <<x>> # <<>> /\ Len(<<x>>) = 1 /\ <<x>>[1] = x
    OBVIOUS
  <2>4. /\ <<lines[i][1]>> \in Seq(Pieces) /\ <<lines[i][1]>> # <<>>
        /\ <<lines[i][2]>> \in Seq(Pieces) /\ <<lines[i][2]>> # <<>>
        /\ <<lines[i][3]>> \in Seq(Pieces) /\ Len(<<lines[i][3]>>) = 1
        /\ <<lines[i][3]>>[1] \in Numbers
    BY <2>1, <2>2, <2>3
  <2> DEFINE a == <<lines[i][1]>>
             b == <<lines[i][2]>>
             c == <<lines[i][3]>>
  <2> HIDE DEF a, b, c
  <2>5. [name |-> a, ip |-> b, port |-> c] \in Good
    BY <2>4 DEF Good, a, b, c
  <2> QED
    BY <2>5 DEF a, b, c
<1>2. Len(lines) \in Nat /\ DOMAIN lines = 1 .. Len(lines)
  OBVIOUS
<1> QED
  BY <1>1, <1>2 DEF Load

(* A line of an entry without commas has its three texts, one piece each. *)
LEMMA LineFields ==
  ASSUME BookAssumption, NEW e \in Good, ~HasComma(e)
  PROVE  /\ Len(Line(e)) = 3 /\ Line(e)[3] \in Numbers
         /\ e = [name |-> <<Line(e)[1]>>, ip |-> <<Line(e)[2]>>, port |-> <<Line(e)[3]>>]
<1>1. /\ e.name \in Seq(Pieces) /\ Len(e.name) = 1
      /\ e.ip \in Seq(Pieces) /\ Len(e.ip) = 1
      /\ e.port \in Seq(Pieces) /\ Len(e.port) = 1
  <2>1. ASSUME NEW s \in Seq(Pieces), s # <<>>, ~(Len(s) > 1)
        PROVE  Len(s) = 1
    <3>1. Len(s) \in Nat /\ Len(s) # 0
      BY <2>1, EmptySeq
    <3>2. \A n \in Nat : n # 0 /\ ~(n > 1) => n = 1
      OBVIOUS
    <3> QED
      BY <2>1, <3>1, <3>2
  <2> QED
    BY <2>1 DEF Good, HasComma
<1>2. /\ Len(Line(e)) = 3
      /\ Line(e)[1] = e.name[1] /\ Line(e)[2] = e.ip[1] /\ Line(e)[3] = e.port[1]
  <2> DEFINE f == e.name \o e.ip
  <2>1. f \in Seq(Pieces) /\ Len(f) = 2 /\ f[1] = e.name[1] /\ f[2] = e.ip[1]
    <3>1. /\ f \in Seq(Pieces) /\ Len(f) = Len(e.name) + Len(e.ip)
          /\ \A i \in 1 .. Len(e.name) + Len(e.ip) :
               f[i] = IF i =< Len(e.name) THEN e.name[i] ELSE e.ip[i - Len(e.name)]
      BY <1>1, ConcatProperties
    <3> HIDE DEF f
    <3>2. 1 \in 1 .. 1 + 1 /\ 2 \in 1 .. 1 + 1 /\ 1 =< 1 /\ ~(2 =< 1) /\ 2 - 1 = 1 /\ 1 + 1 = 2
      OBVIOUS
    <3> QED
      BY <1>1, <3>1, <3>2
  <2> HIDE DEF f
  <2>2. /\ Len(f \o e.port) = 3
        /\ (f \o e.port)[1] = f[1] /\ (f \o e.port)[2] = f[2]
        /\ (f \o e.port)[3] = e.port[1]
    <3> DEFINE h == f \o e.port
    <3>1. /\ Len(h) = Len(f) + Len(e.port)
          /\ \A i \in 1 .. Len(f) + Len(e.port) :
               h[i] = IF i =< Len(f) THEN f[i] ELSE e.port[i - Len(f)]
      BY <1>1, <2>1, ConcatProperties
    <3> HIDE DEF h
    <3>2. /\ \A i \in 1 .. 3 : i \in 1 .. 2 + 1
          /\ 1 =< 2 /\ 2 =< 2 /\ ~(3 =< 2) /\ 3 - 2 = 1 /\ 2 + 1 = 3
      OBVIOUS
    <3>3. Len(h) = 3 /\ h[1] = f[1] /\ h[2] = f[2] /\ h[3] = e.port[1]
      BY <1>1, <2>1, <3>1, <3>2
    <3> QED
      BY <3>3 DEF h
  <2> QED
    BY <2>1, <2>2 DEF Line, f
<1>3. e.name = <<e.name[1]>> /\ e.ip = <<e.ip[1]>> /\ e.port = <<e.port[1]>>
  BY <1>1
<1>4. e = [name |-> e.name, ip |-> e.ip, port |-> e.port]
  BY DEF Good
<1>5. e.port[1] \in Numbers
  BY DEF Good
<1> QED
  BY <1>2, <1>3, <1>4, <1>5

(* A list without commas is read as it was written. *)
LEMMA LoadsWhatWasSaved ==
  ASSUME BookAssumption, NEW list \in Seq(Good), CommaFree(list)
  PROVE  Readable(Save(list)) /\ Load(Save(list)) = list
<1>1. \A i \in 1 .. Len(list) :
        /\ Save(list)[i] = Line(list[i])
        /\ Len(Line(list[i])) = 3 /\ Line(list[i])[3] \in Numbers
        /\ list[i] = [name |-> <<Line(list[i])[1]>>, ip |-> <<Line(list[i])[2]>>,
                      port |-> <<Line(list[i])[3]>>]
  <2> TAKE i \in 1 .. Len(list)
  <2>1. i \in DOMAIN list /\ list[i] \in Good
    BY ElementOfSeq, LenProperties
  <2>2. ~HasComma(list[i])
    BY <2>1 DEF CommaFree
  <2>3. Save(list)[i] = Line(list[i])
    BY <2>1 DEF Save
  <2> QED
    BY <2>1, <2>2, <2>3, LineFields
<1>2. DOMAIN list = 1 .. Len(list) /\ DOMAIN Save(list) = 1 .. Len(list)
  BY SaveType DEF Save
<1>3. Readable(Save(list))
  BY <1>1, <1>2 DEF Readable
<1>4. DOMAIN Load(Save(list)) = DOMAIN list
  BY <1>2 DEF Load
<1>5. \A i \in DOMAIN list : Load(Save(list))[i] = list[i]
  BY <1>1, <1>2 DEF Load
<1>6. list = [i \in DOMAIN list |-> list[i]]
  OBVIOUS
<1>7. Load(Save(list)) = [i \in DOMAIN Load(Save(list)) |-> Load(Save(list))[i]]
  BY DEF Load
<1> QED
  BY <1>3, <1>4, <1>5, <1>6, <1>7

(* A beginning of a sequence: its first elements. *)
LEMMA Beginning ==
  ASSUME NEW S, NEW s \in Seq(S), NEW n \in 0 .. Len(s)
  PROVE  /\ SubSeq(s, 1, n) \in Seq(S) /\ Len(SubSeq(s, 1, n)) = n
         /\ \A k \in 1 .. n : SubSeq(s, 1, n)[k] = s[k]
<1> DEFINE a == SubSeq(s, 1, n)
<1>1. Len(s) \in Nat /\ n \in Nat /\ n =< Len(s)
  BY LenProperties
<1>2. \A k \in 1 .. n : s[k] \in S
  BY <1>1, ElementOfSeq
<1>3. /\ a \in Seq(S)
      /\ Len(a) = IF 1 =< n THEN n - 1 + 1 ELSE 0
      /\ \A k \in 1 .. n - 1 + 1 : a[k] = s[1 + k - 1]
  <2>1. 1 \in Int /\ n \in Int
    BY <1>1
  <2> QED
    BY <1>2, <2>1, SubSeqProperties
<1> HIDE DEF a
<1>4. \A k \in 1 .. n : 1 + k - 1 = k /\ k \in 1 .. n - 1 + 1
  BY <1>1
<1>5. Len(a) = n
  BY <1>1, <1>3
<1> QED
  BY <1>3, <1>4, <1>5 DEF a

(* A beginning with one element more. *)
LEMMA BeginningAndOne ==
  ASSUME NEW S, NEW s \in Seq(S), NEW n \in 1 .. Len(s), NEW x \in S
  PROVE  /\ Append(SubSeq(s, 1, n - 1), x) \in Seq(S)
         /\ Len(Append(SubSeq(s, 1, n - 1), x)) = n
         /\ \A k \in 1 .. n - 1 : Append(SubSeq(s, 1, n - 1), x)[k] = s[k]
         /\ Append(SubSeq(s, 1, n - 1), x)[n] = x
<1> DEFINE a == SubSeq(s, 1, n - 1)
<1>1. Len(s) \in Nat /\ n \in Nat /\ n - 1 \in 0 .. Len(s) /\ n - 1 + 1 = n
  BY LenProperties
<1>2. a \in Seq(S) /\ Len(a) = n - 1 /\ \A k \in 1 .. n - 1 : a[k] = s[k]
  BY <1>1, Beginning
<1> HIDE DEF a
<1>3. /\ Append(a, x) \in Seq(S) /\ Len(Append(a, x)) = Len(a) + 1
      /\ \A k \in 1 .. Len(a) : Append(a, x)[k] = a[k]
      /\ Append(a, x)[Len(a) + 1] = x
  BY <1>2, AppendProperties
<1> QED
  BY <1>1, <1>2, <1>3 DEF a

(* The line of an entry is pieces, and so is what is left of it when it is  *)
(* cut, which is no longer and differs from it at its end only.             *)
LEMMA CutLineType ==
  ASSUME BookAssumption, NEW e \in Good, NEW l \in CutLine(Line(e))
  PROVE  /\ l \in Seq(Pieces) /\ Len(l) =< Len(Line(e))
         /\ \A k \in 1 .. Len(l) :
              \/ l[k] = Line(e)[k]
              \/ k = Len(l) /\ l[k] \in Cut[Line(e)[k]]
<1> DEFINE line == Line(e)
<1>1. line \in Seq(Pieces)
  <2>1. e.name \in Seq(Pieces) /\ e.ip \in Seq(Pieces) /\ e.port \in Seq(Pieces)
    BY DEF Good
  <2>2. e.name \o e.ip \in Seq(Pieces)
    BY <2>1, ConcatProperties
  <2> QED
    BY <2>1, <2>2, ConcatProperties DEF Line
<1> HIDE DEF line
<1>2. Len(line) \in Nat /\ DOMAIN line = 1 .. Len(line)
  BY <1>1, LenProperties
<1>3. ASSUME NEW n \in DOMAIN line, l = SubSeq(line, 1, n)
      PROVE  l \in Seq(Pieces) /\ Len(l) =< Len(line) /\ \A k \in 1 .. Len(l) : l[k] = line[k]
  <2>1. n \in 0 .. Len(line) /\ n =< Len(line)
    BY <1>2
  <2> QED
    BY <1>1, <1>3, <2>1, Beginning
<1>4. ASSUME NEW n \in DOMAIN line, NEW p \in Cut[line[n]], l = Append(SubSeq(line, 1, n - 1), p)
      PROVE  /\ l \in Seq(Pieces) /\ Len(l) =< Len(line)
             /\ \A k \in 1 .. Len(l) : l[k] = line[k] \/ (k = Len(l) /\ l[k] \in Cut[line[k]])
  <2>1. n \in 1 .. Len(line) /\ n =< Len(line) /\ n \in Nat
    BY <1>2
  <2>2. p \in Pieces
    <3>1. line[n] \in Pieces
      BY <1>1, <2>1, ElementOfSeq
    <3> QED
      BY <3>1 DEF BookAssumption
  <2>3. /\ l \in Seq(Pieces) /\ Len(l) = n /\ l[n] = p
        /\ \A k \in 1 .. n - 1 : l[k] = line[k]
    BY <1>1, <1>4, <2>1, <2>2, BeginningAndOne
  <2>4. \A k \in 1 .. n : k = n \/ k \in 1 .. n - 1
    BY <2>1
  <2> QED
    BY <2>1, <2>3, <2>4
<1>5. \/ \E n \in DOMAIN line : l = SubSeq(line, 1, n)
      \/ \E n \in DOMAIN line : \E p \in Cut[line[n]] : l = Append(SubSeq(line, 1, n - 1), p)
  BY DEF CutLine, line
<1> QED
  BY <1>3, <1>4, <1>5 DEF line

(* A half-written file has lines of pieces, no more than the whole file, and *)
(* all of them but the last are those of the whole file.                     *)
LEMMA HalfWrittenType ==
  ASSUME BookAssumption, NEW list \in Seq(Good), NEW lines \in HalfWritten(list)
  PROVE  /\ lines \in Seq(Seq(Pieces)) /\ Len(lines) =< Len(list)
         /\ \A i \in 1 .. Len(lines) :
              \/ lines[i] = Line(list[i])
              \/ i = Len(lines) /\ lines[i] \in CutLine(Line(list[i]))
<1> DEFINE whole == Save(list)
<1>1. /\ whole \in Seq(Seq(Pieces)) /\ Len(list) \in Nat
      /\ DOMAIN list = 1 .. Len(list) /\ Len(whole) = Len(list)
  BY SaveType, LenProperties
<1>2. \A i \in 1 .. Len(list) : whole[i] = Line(list[i]) /\ list[i] \in Good
  BY <1>1, ElementOfSeq DEF Save
<1> HIDE DEF whole
<1>3. ASSUME NEW n \in 0 .. Len(list), lines = SubSeq(whole, 1, n)
      PROVE  /\ lines \in Seq(Seq(Pieces)) /\ Len(lines) =< Len(list)
             /\ \A i \in 1 .. Len(lines) : lines[i] = Line(list[i])
  <2>1. /\ lines \in Seq(Seq(Pieces)) /\ Len(lines) = n
        /\ \A k \in 1 .. n : lines[k] = whole[k]
    BY <1>1, <1>3, Beginning
  <2>2. n =< Len(list) /\ \A k \in 1 .. n : k \in 1 .. Len(list)
    BY <1>1
  <2> QED
    BY <1>2, <2>1, <2>2
<1>4. ASSUME NEW n \in DOMAIN list, NEW l \in CutLine(Line(list[n])),
             lines = Append(SubSeq(whole, 1, n - 1), l)
      PROVE  /\ lines \in Seq(Seq(Pieces)) /\ Len(lines) =< Len(list)
             /\ \A i \in 1 .. Len(lines) :
                  \/ lines[i] = Line(list[i])
                  \/ i = Len(lines) /\ lines[i] \in CutLine(Line(list[i]))
  <2>1. n \in 1 .. Len(list) /\ n =< Len(list) /\ n \in Nat
    BY <1>1
  <2>2. l \in Seq(Pieces)
    BY <1>2, <2>1, CutLineType
  <2>3. /\ lines \in Seq(Seq(Pieces)) /\ Len(lines) = n /\ lines[n] = l
        /\ \A k \in 1 .. n - 1 : lines[k] = whole[k]
    BY <1>1, <1>4, <2>1, <2>2, BeginningAndOne
  <2>4. \A k \in 1 .. n : k = n \/ (k \in 1 .. n - 1 /\ k \in 1 .. Len(list))
    BY <1>1, <2>1
  <2> QED
    BY <1>2, <2>1, <2>3, <2>4
<1>5. \/ \E n \in 0 .. Len(list) : lines = SubSeq(whole, 1, n)
      \/ \E n \in DOMAIN list : \E l \in CutLine(Line(list[n])) :
           lines = Append(SubSeq(whole, 1, n - 1), l)
  BY DEF HalfWritten, whole
<1> QED
  BY <1>3, <1>4, <1>5

(* What is read from a half-written file is the beginning of the list, its   *)
(* last port perhaps cut.                                                    *)
LEMMA LoadsABeginning ==
  ASSUME BookAssumption, NEW list \in Seq(Good), NEW lines \in HalfWritten(list),
         CommaFree(list), Readable(lines)
  PROVE  CutShort(Load(lines), list)
<1>1. /\ lines \in Seq(Seq(Pieces)) /\ Len(lines) =< Len(list)
      /\ \A i \in 1 .. Len(lines) :
           \/ lines[i] = Line(list[i])
           \/ i = Len(lines) /\ lines[i] \in CutLine(Line(list[i]))
  BY HalfWrittenType
<1> DEFINE read == Load(lines)
<1>2. /\ DOMAIN lines = 1 .. Len(lines) /\ Len(lines) \in Nat
      /\ DOMAIN list = 1 .. Len(list) /\ Len(list) \in Nat
      /\ DOMAIN read = 1 .. Len(lines) /\ Len(read) = Len(lines)
  <2>1. DOMAIN lines = 1 .. Len(lines) /\ DOMAIN list = 1 .. Len(list)
    BY <1>1, LenProperties
  <2>2. DOMAIN read = DOMAIN lines
    BY DEF Load
  <2>3. read \in Seq(Good)
    BY <1>1, LoadType
  <2> HIDE DEF read
  <2>4. Len(read) = Len(lines)
    <3>1. DOMAIN read = 1 .. Len(read) /\ Len(read) \in Nat /\ Len(lines) \in Nat
      BY <1>1, <2>3, LenProperties
    <3>2. \A m, n \in Nat : 1 .. m = 1 .. n => m = n
      OBVIOUS
    <3> QED
      BY <2>1, <2>2, <3>1, <3>2
  <2> QED
    BY <1>1, <2>1, <2>2, <2>4, LenProperties
<1>3. ASSUME NEW i \in 1 .. Len(lines)
      PROVE  \/ read[i] = list[i]
             \/ /\ i = Len(read)
                /\ read[i].name = list[i].name /\ read[i].ip = list[i].ip
                /\ read[i].port[1] \in Cut[list[i].port[1]]
  <2> DEFINE e == list[i]
             l == lines[i]
             b == Line(e)
  <2>1. i \in DOMAIN list /\ e \in Good /\ ~HasComma(e)
    <3> HIDE DEF read
    <3>1. i \in 1 .. Len(list)
      <4>1. \A m, n \in Nat : m =< n => 1 .. m \subseteq 1 .. n
        OBVIOUS
      <4> QED
        BY <1>1, <1>2, <4>1
    <3>2. e \in Good
      BY <3>1, ElementOfSeq
    <3> QED
      BY <1>2, <3>1, <3>2 DEF CommaFree
  <2>2. /\ Len(b) = 3 /\ e = [name |-> <<b[1]>>, ip |-> <<b[2]>>, port |-> <<b[3]>>]
    BY <2>1, LineFields
  <2>3. read[i] = [name |-> <<l[1]>>, ip |-> <<l[2]>>, port |-> <<l[3]>>]
    BY <1>2 DEF Load
  <2>4. Len(l) >= 3
    BY <1>2 DEF Readable
  <2>5. l = b \/ (i = Len(lines) /\ l \in CutLine(b))
    BY <1>1
  <2>6. CASE l = b
    <3> HIDE DEF e, l, b, read
    <3>1. read[i] = e
      BY <2>2, <2>3, <2>6
    <3> QED
      BY <3>1 DEF e
  <2>7. CASE i = Len(lines) /\ l \in CutLine(b)
    <3>1. /\ l \in Seq(Pieces) /\ Len(l) =< 3
          /\ \A k \in 1 .. Len(l) : l[k] = b[k] \/ (k = Len(l) /\ l[k] \in Cut[b[k]])
      BY <2>1, <2>2, <2>7, CutLineType
    <3> HIDE DEF e, l, b, read
    <3>2. Len(l) = 3
      <4>1. Len(l) \in Nat
        BY <3>1, LenProperties
      <4>2. \A n \in Nat : n =< 3 /\ n >= 3 => n = 3
        OBVIOUS
      <4> QED
        BY <2>4, <3>1, <4>1, <4>2
    <3>3. l[1] = b[1] /\ l[2] = b[2] /\ (l[3] = b[3] \/ l[3] \in Cut[b[3]])
      <4>1. 1 \in 1 .. 3 /\ 2 \in 1 .. 3 /\ 3 \in 1 .. 3 /\ 1 # 3 /\ 2 # 3
        OBVIOUS
      <4> QED
        BY <3>1, <3>2, <4>1
    <3>4. CASE l[3] = b[3]
      <4>1. read[i] = e
        BY <2>2, <2>3, <3>3, <3>4
      <4> QED
        BY <4>1 DEF e
    <3>5. CASE l[3] \in Cut[b[3]]
      <4>1. /\ read[i].name = <<l[1]>> /\ read[i].ip = <<l[2]>> /\ read[i].port = <<l[3]>>
            /\ e.name = <<b[1]>> /\ e.ip = <<b[2]>> /\ e.port = <<b[3]>>
        BY <2>2, <2>3
      <4>2. read[i].port[1] = l[3] /\ e.port[1] = b[3]
        BY <4>1
      <4> QED
        BY <1>2, <2>7, <3>3, <3>5, <4>1, <4>2 DEF e
    <3> QED
      BY <3>3, <3>4, <3>5
  <2> QED
    BY <2>5, <2>6, <2>7
<1> HIDE DEF read
<1>4. CutShort(read, list)
  BY <1>1, <1>2, <1>3 DEF CutShort
<1> QED
  BY <1>4 DEF read

-----------------------------------------------------------------------------
(* Deleting. *)

(* Rounds is what its definition says. *)
LEMMA RoundsDefined ==
  ASSUME NEW n \in Nat, n = Len(IPStorage)
  PROVE  Rounds = [i \in 0 .. n |->
           IF i = 0 THEN [list |-> IPStorage, j |-> 0] ELSE Round(Rounds[i - 1], i)]
<1> DEFINE first == [list |-> IPStorage, j |-> 0]
           IsRounds(g, k) ==
             g = [i \in 0 .. k |-> IF i = 0 THEN first ELSE Round(g[i - 1], i)]
           Missing == {k \in Nat : ~ \E g : IsRounds(g, k)}
<1> HIDE DEF first
<1>1. Missing = {}
  <2>1. SUFFICES ASSUME Missing # {} PROVE FALSE
    OBVIOUS
  <2>2. PICK m \in Missing : \A k \in Missing : m =< k
    BY <2>1, LeastOf
  <2>3. CASE m = 0
    <3>1. \A i \in 0 .. 0 : i = 0
      OBVIOUS
    <3>2. [i \in 0 .. 0 |-> first] = [i \in 0 .. 0 |-> IF i = 0 THEN first ELSE Round([l \in 0 .. 0 |-> first][i - 1], i)]
      BY <3>1, Zenon
    <3>3. IsRounds([i \in 0 .. 0 |-> first], 0)
      BY <3>2
    <3> QED
      BY <2>2, <2>3, <3>3
  <2>4. CASE m # 0
    <3>0. m \in Nat
      BY DEF Missing
    <3>1. m - 1 \in Nat /\ m - 1 \notin Missing
      <4> HIDE DEF Missing
      <4>1. m - 1 \in Nat /\ ~(m =< m - 1)
        BY <2>4, <3>0
      <4> QED
        BY <2>2, <4>1
    <3>2. PICK g : IsRounds(g, m - 1)
      BY <3>1
    <3> DEFINE h == [i \in 0 .. m |-> IF i = m THEN Round(g[m - 1], m) ELSE g[i]]
    <3>3. ASSUME NEW i \in 0 .. m
          PROVE  h[i] = IF i = 0 THEN first ELSE Round(h[i - 1], i)
      <4>1. CASE i = m
        <5>1. m - 1 \in 0 .. m /\ h[m] = Round(g[m - 1], m) /\ h[m - 1] = g[m - 1]
          BY <2>4
        <5> QED
          BY <4>1, <5>1, <2>4
      <4>2. CASE i # m /\ i # 0
        <5>1. i \in 0 .. m - 1 /\ i - 1 \in 0 .. m /\ i - 1 # m
          BY <4>2
        <5>2. h[i] = g[i] /\ h[i - 1] = g[i - 1]
          BY <4>2, <5>1
        <5>3. g[i] = Round(g[i - 1], i)
          BY <3>2, <4>2, <5>1
        <5> QED
          BY <4>2, <5>2, <5>3
      <4>3. CASE i # m /\ i = 0
        <5>1. i \in 0 .. m - 1 /\ h[i] = g[i]
          BY <4>3
        <5> QED
          BY <3>2, <4>3, <5>1
      <4> QED
        BY <4>1, <4>2, <4>3
    <3>4. IsRounds(h, m)
      BY <3>3
    <3> HIDE DEF h
    <3> QED
      BY <2>2, <3>4
  <2> QED
    BY <2>3, <2>4
<1>2. \E g : IsRounds(g, n)
  BY <1>1
<1>3. Rounds = CHOOSE g : IsRounds(g, n)
  BY DEF Rounds, first
<1> HIDE DEF IsRounds
<1>4. IsRounds(Rounds, n)
  BY <1>2, <1>3
<1> QED
  BY <1>4 DEF IsRounds, first

(* One element less, those behind it one place further to the front. *)
LEMMA RemoveAtProperties ==
  ASSUME NEW S, NEW s \in Seq(S), NEW m \in 1 .. Len(s)
  PROVE  /\ RemoveAt(s, m) \in Seq(S) /\ Len(RemoveAt(s, m)) = Len(s) - 1
         /\ \A k \in 1 .. m - 1 : RemoveAt(s, m)[k] = s[k]
         /\ \A k \in m .. Len(s) - 1 : RemoveAt(s, m)[k] = s[k + 1]
<1> DEFINE n == Len(s)
           a == SubSeq(s, 1, m - 1)
           b == SubSeq(s, m + 1, Len(s))
<1>1. n \in Nat /\ m \in Nat /\ 1 =< m /\ m =< n
  BY LenProperties
<1>2. /\ a \in Seq(S) /\ Len(a) = m - 1
      /\ \A k \in 1 .. m - 1 : a[k] = s[k]
  <2>1. \A k \in 1 .. m - 1 : s[k] \in S
    BY <1>1, ElementOfSeq
  <2>2. /\ a \in Seq(S)
        /\ Len(a) = IF 1 =< m - 1 THEN (m - 1) - 1 + 1 ELSE 0
        /\ \A k \in 1 .. (m - 1) - 1 + 1 : a[k] = s[1 + k - 1]
    <3>1. 1 \in Int /\ m - 1 \in Int
      BY <1>1
    <3> QED
      BY <2>1, <3>1, SubSeqProperties
  <2> HIDE DEF a
  <2>3. \A k \in 1 .. m - 1 : 1 + k - 1 = k /\ k \in 1 .. (m - 1) - 1 + 1
    BY <1>1
  <2> QED
    BY <1>1, <2>2, <2>3
<1>3. /\ b \in Seq(S) /\ Len(b) = n - m
      /\ \A k \in 1 .. n - m : b[k] = s[m + k]
  <2>1. \A k \in m + 1 .. n : s[k] \in S
    BY <1>1, ElementOfSeq
  <2>2. /\ b \in Seq(S)
        /\ Len(b) = IF m + 1 =< n THEN n - (m + 1) + 1 ELSE 0
        /\ \A k \in 1 .. n - (m + 1) + 1 : b[k] = s[(m + 1) + k - 1]
    <3>1. m + 1 \in Int /\ n \in Int
      BY <1>1
    <3> QED
      BY <2>1, <3>1, SubSeqProperties
  <2> HIDE DEF b
  <2>3. \A k \in 1 .. n - m : (m + 1) + k - 1 = m + k /\ k \in 1 .. n - (m + 1) + 1
    BY <1>1
  <2> QED
    BY <1>1, <2>2, <2>3
<1> HIDE DEF a, b, n
<1>4. /\ a \o b \in Seq(S) /\ Len(a \o b) = Len(a) + Len(b)
      /\ \A k \in 1 .. Len(a) + Len(b) :
           (a \o b)[k] = IF k =< Len(a) THEN a[k] ELSE b[k - Len(a)]
  BY <1>2, <1>3, ConcatProperties
<1>5. RemoveAt(s, m) = a \o b
  BY DEF RemoveAt, a, b
<1>6. Len(a \o b) = n - 1
  BY <1>1, <1>2, <1>3, <1>4
<1>7. ASSUME NEW k \in 1 .. m - 1
      PROVE  (a \o b)[k] = s[k]
  <2>1. k \in 1 .. Len(a) + Len(b) /\ k =< Len(a)
    BY <1>1, <1>2, <1>3
  <2> QED
    BY <1>2, <1>4, <2>1
<1>8. ASSUME NEW k \in m .. n - 1
      PROVE  (a \o b)[k] = s[k + 1]
  <2>1. /\ k \in 1 .. Len(a) + Len(b) /\ ~(k =< Len(a))
        /\ k - Len(a) \in 1 .. n - m /\ m + (k - Len(a)) = k + 1
    BY <1>1, <1>2, <1>3
  <2> QED
    BY <1>3, <1>4, <2>1
<1> QED
  BY <1>4, <1>5, <1>6, <1>7, <1>8 DEF n

(* What is true after i rounds: the rows not ticked among the first i, in    *)
(* order, then the rest of the list.                                         *)
Kept(row, j, i) ==
  /\ row \in [1 .. j -> (1 .. i) \ ticked]
  /\ \A k, l \in 1 .. j : k < l => row[k] < row[l]
  /\ \A m \in (1 .. i) \ ticked : \E k \in 1 .. j : row[k] = m

AfterRounds(r, i) ==
  /\ r.list \in Seq(Good) /\ r.j \in 0 .. i
  /\ Len(r.list) = Len(IPStorage) - i + r.j
  /\ \A k \in r.j + 1 .. Len(r.list) : r.list[k] = IPStorage[k - r.j + i]
  /\ \E row : Kept(row, r.j, i) /\ \A k \in 1 .. r.j : r.list[k] = IPStorage[row[k]]

(* One round of the loop keeps AfterRounds: a ticked row goes, any other   *)
(* joins the rows kept.                                                     *)
LEMMA RoundStep ==
  ASSUME IPStorage \in Seq(Good), NEW i \in 1 .. Len(IPStorage),
         NEW r, AfterRounds(r, i - 1)
  PROVE  AfterRounds(Round(r, i), i)
<1> DEFINE list == r.list
           j == r.j
           n == Len(IPStorage)
<1>1. n \in Nat /\ i \in Nat /\ 1 =< i /\ i =< n
  BY LenProperties
<1>2. /\ list \in Seq(Good) /\ j \in 0 .. i - 1
      /\ Len(list) = n - (i - 1) + j
      /\ \A k \in j + 1 .. Len(list) : list[k] = IPStorage[k - j + (i - 1)]
  BY DEF AfterRounds
<1>3. PICK row : Kept(row, j, i - 1) /\ \A k \in 1 .. j : list[k] = IPStorage[row[k]]
  BY DEF AfterRounds
<1>4. j \in Nat /\ j + 1 \in 1 .. Len(list) /\ Len(list) \in Nat
  BY <1>1, <1>2
<1> HIDE DEF list, j, n
<1>5. CASE i \in ticked
  <2> DEFINE new == RemoveAt(list, j + 1)
  <2>1. Round(r, i) = [list |-> new, j |-> j]
    BY <1>5 DEF Round, list, j
  <2>2. /\ new \in Seq(Good) /\ Len(new) = Len(list) - 1
        /\ \A k \in 1 .. (j + 1) - 1 : new[k] = list[k]
        /\ \A k \in j + 1 .. Len(list) - 1 : new[k] = list[k + 1]
    BY <1>2, <1>4, RemoveAtProperties
  <2> HIDE DEF new
  <2>3. Len(new) = n - i + j /\ j \in 0 .. i
    BY <1>1, <1>2, <1>4, <2>2
  <2>4. ASSUME NEW k \in j + 1 .. Len(new)
        PROVE  new[k] = IPStorage[k - j + i]
    <3>1. /\ k \in j + 1 .. Len(list) - 1 /\ k + 1 \in j + 1 .. Len(list)
          /\ (k + 1) - j + (i - 1) = k - j + i
      BY <1>1, <1>4, <2>2
    <3> QED
      BY <1>2, <2>2, <3>1
  <2>5. Kept(row, j, i)
    <3>1. (1 .. i) \ ticked = (1 .. i - 1) \ ticked
      BY <1>1, <1>5
    <3> QED
      BY <1>3, <3>1 DEF Kept
  <2>6. \A k \in 1 .. j : new[k] = IPStorage[row[k]]
    BY <1>3, <1>4, <2>2
  <2> QED
    BY <2>1, <2>2, <2>3, <2>4, <2>5, <2>6, SMTT(30) DEF AfterRounds, n
<1>6. CASE i \notin ticked
  <2> DEFINE next == [k \in 1 .. j + 1 |-> IF k = j + 1 THEN i ELSE row[k]]
  <2>1. Round(r, i).list = list /\ Round(r, i).j = j + 1
    BY <1>6 DEF Round, list, j
  <2>2. Len(list) = n - i + (j + 1) /\ j + 1 \in 0 .. i
    BY <1>1, <1>2, <1>4
  <2>3. ASSUME NEW k \in (j + 1) + 1 .. Len(list)
        PROVE  list[k] = IPStorage[k - (j + 1) + i]
    <3>1. k \in j + 1 .. Len(list) /\ k - j + (i - 1) = k - (j + 1) + i
      BY <1>1, <1>4
    <3> QED
      BY <1>2, <3>1
  <2>4. /\ row \in [1 .. j -> (1 .. i - 1) \ ticked]
        /\ \A k, l \in 1 .. j : k < l => row[k] < row[l]
        /\ \A m \in (1 .. i - 1) \ ticked : \E k \in 1 .. j : row[k] = m
    BY <1>3 DEF Kept
  <2>5. /\ next[j + 1] = i /\ j + 1 \in 1 .. j + 1
        /\ \A k \in 1 .. j : k \in 1 .. j + 1 /\ next[k] = row[k] /\ row[k] \in 1 .. i - 1
    BY <1>4, <2>4
  <2>6. next \in [1 .. j + 1 -> (1 .. i) \ ticked]
    <3>1. \A k \in 1 .. j + 1 : k = j + 1 \/ k \in 1 .. j
      BY <1>4
    <3>2. i \in (1 .. i) \ ticked /\ (1 .. i - 1) \ ticked \subseteq (1 .. i) \ ticked
      BY <1>1, <1>6
    <3> QED
      BY <2>4, <3>1, <3>2
  <2> HIDE DEF next
  <2>7. ASSUME NEW k \in 1 .. j + 1, NEW l \in 1 .. j + 1, k < l
        PROVE  next[k] < next[l]
    <3>1. k \in 1 .. j /\ (l = j + 1 \/ l \in 1 .. j)
      BY <1>4, <2>7
    <3>2. row[k] < i
      BY <1>1, <2>5, <3>1
    <3> QED
      BY <2>4, <2>5, <2>7, <3>1, <3>2
  <2>8. ASSUME NEW m \in (1 .. i) \ ticked
        PROVE  \E k \in 1 .. j + 1 : next[k] = m
    <3>1. m = i \/ m \in (1 .. i - 1) \ ticked
      BY <1>1
    <3> QED
      BY <2>4, <2>5, <3>1
  <2>9. \A k \in 1 .. j + 1 : list[k] = IPStorage[next[k]]
    <3>1. list[j + 1] = IPStorage[i]
      <4>1. j + 1 \in j + 1 .. Len(list) /\ (j + 1) - j + (i - 1) = i
        BY <1>1, <1>4
      <4> QED
        BY <1>2, <4>1
    <3>2. \A k \in 1 .. j + 1 : k = j + 1 \/ k \in 1 .. j
      BY <1>4
    <3> QED
      BY <1>3, <2>5, <3>1, <3>2
  <2>10. Kept(next, j + 1, i)
    BY <2>6, <2>7, <2>8 DEF Kept
  <2> QED
    BY <1>2, <2>1, <2>2, <2>3, <2>9, <2>10 DEF AfterRounds, n
<1> QED
  BY <1>5, <1>6

(* What is left is a list of entries, and the rows that were not ticked. *)
LEMMA RemovedIsTheRest ==
  ASSUME IPStorage \in Seq(Good)
  PROVE  /\ Removed \in Seq(Good)
         /\ \E row : Kept(row, Len(Removed), Len(IPStorage))
                     /\ \A k \in 1 .. Len(Removed) : Removed[k] = IPStorage[row[k]]
<1> DEFINE n == Len(IPStorage)
           Wrong == {i \in 0 .. n : ~AfterRounds(Rounds[i], i)}
<1>1. n \in Nat
  BY LenProperties
<1>2. \A i \in 0 .. n :
        Rounds[i] = IF i = 0 THEN [list |-> IPStorage, j |-> 0] ELSE Round(Rounds[i - 1], i)
  BY <1>1, RoundsDefined
<1>3. AfterRounds(Rounds[0], 0)
  <2>1. Rounds[0] = [list |-> IPStorage, j |-> 0]
    BY <1>1, <1>2
  <2>2. \A k \in 1 .. n : k - 0 + 0 = k
    BY <1>1
  <2>3. Kept([k \in {} |-> 0], 0, 0)
    BY DEF Kept
  <2>4. 0 \in 0 .. 0 /\ n = n - 0 + 0 /\ 0 + 1 = 1 /\ 1 .. 0 = {}
    BY <1>1
  <2> QED
    BY <2>1, <2>2, <2>3, <2>4 DEF AfterRounds
<1>4. Wrong = {}
  <2>1. SUFFICES ASSUME Wrong # {} PROVE FALSE
    OBVIOUS
  <2>2. Wrong \subseteq Nat
    BY <1>1
  <2>3. PICK m \in Wrong : \A k \in Wrong : m =< k
    BY <2>1, <2>2, LeastOf
  <2>4. m \in 1 .. n /\ m - 1 \in 0 .. n /\ ~(m =< m - 1)
    BY <1>1, <1>3
  <2>5. AfterRounds(Rounds[m - 1], m - 1)
    BY <2>3, <2>4
  <2>6. Rounds[m] = Round(Rounds[m - 1], m)
    BY <1>2, <2>4
  <2>7. AfterRounds(Rounds[m], m)
    BY <2>4, <2>5, <2>6, RoundStep
  <2> QED
    BY <2>3, <2>7
<1>5. AfterRounds(Rounds[n], n) /\ Removed = Rounds[n].list
  BY <1>1, <1>4 DEF Removed
<1>6. Rounds[n].j = Len(Removed)
  BY <1>1, <1>5, LenProperties DEF AfterRounds
<1> QED
  BY <1>5, <1>6 DEF AfterRounds

-----------------------------------------------------------------------------
(* The invariant: the file is the list saved, line by line, or what an OK    *)
(* that failed has left of its list, and every list in memory is one of       *)
(* entries the code can use.                                                  *)
FileIsKnown ==
  \/ attempted = <<>> /\ file = Save(saved)
  \/ \E list \in Seq(Good) : attempted = <<list>> /\ file \in HalfWritten(list)

BookInv ==
  /\ TypeOK
  /\ IPStorage \in Seq(Good) /\ saved \in Seq(Good) /\ combo \in Seq(Seq(Pieces))
  /\ FileIsKnown
  /\ ComboShowsTheList
  /\ BlankIsExplained

(* The names of a list are what a combo box can hold. *)
LEMMA NamesType ==
  ASSUME NEW list \in Seq(Good)
  PROVE  /\ Names(list) \in Seq(Seq(Pieces)) /\ DOMAIN Names(list) = DOMAIN list
         /\ Len(Names(list)) = Len(list)
         /\ (list = <<>> <=> Names(list) = <<>>)
         /\ \A i \in DOMAIN list : Names(list)[i] = list[i].name
<1>1. /\ Len(list) \in Nat /\ DOMAIN list = 1 .. Len(list)
      /\ \A i \in 1 .. Len(list) : list[i] \in Good
  BY LenProperties, ElementOfSeq
<1>2. Names(list) \in [1 .. Len(list) -> Seq(Pieces)]
  BY <1>1 DEF Names, Good
<1>3. Names(list) \in Seq(Seq(Pieces))
  BY <1>1, <1>2, SeqDef
<1>4. DOMAIN Names(list) = 1 .. Len(list) /\ Len(Names(list)) = Len(list)
  BY <1>1, <1>2, <1>3, LenProperties
<1>5. list = <<>> <=> Names(list) = <<>>
  BY <1>3, <1>4, EmptySeq
<1> QED
  BY <1>1, <1>3, <1>4, <1>5 DEF Names

(* A list has only ports that are numbers, and at least none at all. *)
LEMMA ListType ==
  ASSUME NEW list \in Seq(Good)
  PROVE  /\ \A i \in DOMAIN list : list[i].port[1] \in Numbers
         /\ DOMAIN list = 1 .. Len(list) /\ Len(list) \in Nat
         /\ (list # <<>> => 1 \in 1 .. Len(list))
<1>1. /\ Len(list) \in Nat /\ DOMAIN list = 1 .. Len(list)
      /\ \A i \in 1 .. Len(list) : list[i] \in Good
  BY LenProperties, ElementOfSeq
<1>2. list # <<>> => Len(list) # 0
  BY EmptySeq
<1> QED
  BY <1>1, <1>2 DEF Good

(* Opening the connect window makes it show its list. *)
LEMMA OpenConnectShows ==
  ASSUME NEW list \in Seq(Good), OpenConnect(list)
  PROVE  /\ win' = "connect" /\ IPStorage' \in Seq(Good) /\ combo' \in Seq(Seq(Pieces))
         /\ \A i \in DOMAIN IPStorage' : IPStorage'[i].port[1] \in Numbers
         /\ ticked' \subseteq DOMAIN IPStorage' /\ chosen' \in 0 .. Len(combo')
         /\ ComboShowsTheList'
<1>1. IPStorage' = list /\ combo' = Names(list) /\ ticked' = {} /\ win' = "connect"
      /\ chosen' = IF list = <<>> THEN 0 ELSE 1
  BY DEF OpenConnect
<1>2. chosen' \in 0 .. Len(list)
  BY <1>1, ListType
<1>3. ComboShowsTheList'
  BY <1>1, NamesType DEF ComboShowsTheList
<1> QED
  BY <1>1, <1>2, <1>3, ListType, NamesType

(* The invariant holds before the program has run for the first time. *)
LEMMA InitBook == Init => BookInv
<1> SUFFICES ASSUME Init PROVE BookInv
  OBVIOUS
<1>1. /\ <<>> \in Seq(Good) /\ <<>> \in Seq(Seq(Pieces)) /\ DOMAIN <<>> = {}
      /\ Len(<<>>) = 0
  OBVIOUS
<1>2. Save(<<>>) = <<>>
  BY <1>1 DEF Save
<1>3. FileIsKnown
  BY <1>2 DEF Init, FileIsKnown
<1>4. ioError \in BOOLEAN
  BY DEF Init
<1>5. /\ disk = "nothing" /\ file = <<>> /\ win = "off" /\ IPStorage = <<>>
      /\ combo = <<>> /\ chosen = 0 /\ ticked = {} /\ saved = <<>>
  BY DEF Init
<1>6. TypeOK
  BY <1>1, <1>4, <1>5 DEF TypeOK, Windows
<1>7. ComboShowsTheList /\ BlankIsExplained
  BY <1>5 DEF ComboShowsTheList, BlankIsExplained
<1> QED
  BY <1>1, <1>3, <1>5, <1>6, <1>7 DEF BookInv

(* Most steps leave the disk alone. *)
LEMMA FileUntouched ==
  ASSUME FileIsKnown, UNCHANGED <<file, saved, attempted>>
  PROVE  FileIsKnown'
BY DEF FileIsKnown

(* No step breaks it. *)
LEMMA StepBook == BookAssumption /\ BookInv /\ [Next]_vars => BookInv'
<1> SUFFICES ASSUME BookAssumption, BookInv, [Next]_vars PROVE BookInv'
  OBVIOUS
<1> USE DEF Windows, histories
<1>0. ASSUME UNCHANGED <<file, saved, attempted>>
      PROVE  FileIsKnown'
  BY <1>0, FileUntouched DEF BookInv
<1>1. CASE MakeDirectory
  BY <1>0, <1>1 DEF MakeDirectory, BookInv, TypeOK, ComboShowsTheList, BlankIsExplained
<1>2. CASE MakeFile
  <2>1. <<>> \in Seq(Good)
    OBVIOUS
  <2>2. /\ UNCHANGED <<file, dialled, saved, attempted>>
        /\ disk' \in {disk, "file"}
        /\ \/ OpenConnect(<<>>) /\ UNCHANGED ioError
           \/ ReadFails
    BY <1>2 DEF MakeFile
  <2>3. CASE OpenConnect(<<>>) /\ UNCHANGED ioError
    BY <1>0, <2>1, <2>2, <2>3, OpenConnectShows DEF BookInv, TypeOK, BlankIsExplained
  <2>4. CASE ReadFails
    BY <1>0, <2>2, <2>4
       DEF ReadFails, OpenBlank, BookInv, TypeOK, ComboShowsTheList, BlankIsExplained
  <2> QED
    BY <2>2, <2>3, <2>4
<1>3. CASE StartUp
  <2>1. UNCHANGED <<disk, file, dialled, saved, attempted>> /\ disk # "nothing"
    BY <1>3 DEF StartUp
  <2>2. CASE Readable(file) /\ OpenConnect(Load(file)) /\ UNCHANGED ioError
    <3>1. Load(file) \in Seq(Good)
      BY <2>2, LoadType DEF BookInv, TypeOK
    <3> QED
      BY <1>0, <2>1, <2>2, <3>1, OpenConnectShows DEF BookInv, TypeOK, BlankIsExplained
  <2>3. CASE (disk = "directory" \/ ~Readable(file)) /\ OpenBlank /\ UNCHANGED ioError
    <3>1. disk = "directory" \/ attempted # <<>> \/ ~CommaFree(saved)
      <4>1. \A list \in Seq(Good) : <<list>> # <<>>
        OBVIOUS
      <4>2. attempted = <<>> => file = Save(saved)
        BY <4>1 DEF BookInv, FileIsKnown
      <4> QED
        BY <2>3, <4>2, LoadsWhatWasSaved DEF BookInv
    <3>2. BlankIsExplained'
      BY <2>1, <3>1 DEF BlankIsExplained, CommaFree
    <3> QED
      BY <1>0, <2>1, <2>3, <3>2 DEF OpenBlank, BookInv, TypeOK, ComboShowsTheList
  <2>4. CASE ReadFails
    BY <1>0, <2>1, <2>4
       DEF ReadFails, OpenBlank, BookInv, TypeOK, ComboShowsTheList, BlankIsExplained
  <2> QED
    BY <1>3, <2>2, <2>3, <2>4 DEF StartUp
<1>4. CASE Exit
  <2>1. <<>> \in Seq(Good) /\ <<>> \in Seq(Seq(Pieces)) /\ DOMAIN <<>> = {} /\ Len(<<>>) = 0
    OBVIOUS
  <2>2. FileIsKnown'
    BY <1>0, <1>4 DEF Exit
  <2>3. ioError' \in BOOLEAN
    BY <1>4 DEF Exit
  <2>4. /\ win' = "off" /\ IPStorage' = <<>> /\ combo' = <<>> /\ chosen' = 0
        /\ ticked' = {} /\ UNCHANGED <<disk, file, saved>>
    BY <1>4 DEF Exit
  <2>5. TypeOK'
    BY <2>1, <2>3, <2>4 DEF BookInv, TypeOK
  <2>6. ComboShowsTheList' /\ BlankIsExplained'
    BY <2>4 DEF ComboShowsTheList, BlankIsExplained
  <2> QED
    BY <2>1, <2>2, <2>4, <2>5, <2>6 DEF BookInv
<1>5. CASE CloseConnect
  BY <1>0, <1>5 DEF CloseConnect, BookInv, TypeOK, ComboShowsTheList, BlankIsExplained
<1>6. ASSUME NEW i \in DOMAIN combo, Choose(i)
      PROVE  BookInv'
  <2>1. i \in 1 .. Len(combo) /\ Len(combo) \in Nat /\ combo # <<>>
    BY <1>6, LenProperties, EmptySeq DEF BookInv
  <2>2. i \in 0 .. Len(combo) /\ i # 0
    BY <2>1
  <2> QED
    BY <1>0, <1>6, <2>1, <2>2
       DEF Choose, BookInv, TypeOK, ComboShowsTheList, BlankIsExplained
<1>7. CASE Dial
  <2>1. UNCHANGED <<disk, file, saved, attempted, ioError>>
    BY <1>7 DEF Dial
  <2>2. CASE OpenConnect(IPStorage)
    BY <1>0, <2>1, <2>2, OpenConnectShows DEF BookInv, TypeOK, BlankIsExplained
  <2>3. CASE win' \in {"none", "connected"} /\ UNCHANGED <<IPStorage, combo, chosen, ticked>>
    BY <1>0, <2>1, <2>3 DEF BookInv, TypeOK, ComboShowsTheList, BlankIsExplained
  <2> QED
    BY <1>7, <2>2, <2>3 DEF Dial
<1>8. CASE Edit
  BY <1>0, <1>8 DEF Edit, BookInv, TypeOK, ComboShowsTheList, BlankIsExplained
<1>9. ASSUME NEW i \in DOMAIN IPStorage, Tick(i)
      PROVE  BookInv'
  BY <1>0, <1>9 DEF Tick, BookInv, TypeOK, ComboShowsTheList, BlankIsExplained
<1>10. ASSUME NEW e \in Entries, Add(e)
       PROVE  BookInv'
  <2>1. e \in Good
    BY <1>10 DEF BookAssumption, Add, Good
  <2>2. IPStorage' \in Seq(Good)
    BY <1>10, <2>1, AppendProperties DEF Add, BookInv
  <2>3. \A i \in DOMAIN IPStorage' : IPStorage'[i].port[1] \in Numbers
    BY <2>2, ListType
  <2> QED
    BY <1>0, <1>10, <2>2, <2>3
       DEF Add, BookInv, TypeOK, ComboShowsTheList, BlankIsExplained
<1>11. CASE Delete
  <2>1. IPStorage' \in Seq(Good)
    BY <1>11, RemovedIsTheRest DEF Delete, BookInv
  <2>2. \A i \in DOMAIN IPStorage' : IPStorage'[i].port[1] \in Numbers
    BY <2>1, ListType
  <2> QED
    BY <1>0, <1>11, <2>1, <2>2
       DEF Delete, BookInv, TypeOK, ComboShowsTheList, BlankIsExplained
<1>12. CASE OK
  <2>1. OpenConnect(IPStorage) /\ WriteFile /\ UNCHANGED <<disk, dialled, ioError>>
    BY <1>12 DEF OK
  <2>2. saved' \in Seq(Good) /\ FileIsKnown' /\ file' \in Seq(Seq(Pieces))
    <3>1. CASE file' = Save(IPStorage) /\ saved' = IPStorage /\ attempted' = <<>>
      BY <3>1, SaveType DEF BookInv, FileIsKnown
    <3>2. CASE file' \in HalfWritten(IPStorage) /\ attempted' = <<IPStorage>> /\ UNCHANGED saved
      <4>1. IPStorage \in Seq(Good) /\ saved' \in Seq(Good)
        BY <3>2 DEF BookInv
      <4>2. \E list \in Seq(Good) : attempted' = <<list>> /\ file' \in HalfWritten(list)
        BY <3>2, <4>1
      <4> QED
        BY <3>2, <4>1, <4>2, HalfWrittenType DEF FileIsKnown
    <3>3. CASE UNCHANGED <<file, saved, attempted>>
      BY <1>0, <3>3 DEF BookInv, TypeOK
    <3> QED
      BY <2>1, <3>1, <3>2, <3>3 DEF WriteFile
  <2> QED
    BY <2>1, <2>2, OpenConnectShows DEF BookInv, TypeOK, BlankIsExplained
<1>13. CASE UNCHANGED vars
  BY <1>0, <1>13 DEF vars, BookInv, TypeOK, ComboShowsTheList, BlankIsExplained
<1> QED
  BY <1>1, <1>2, <1>3, <1>4, <1>5, <1>6, <1>7, <1>8, <1>9, <1>10, <1>11, <1>12, <1>13
     DEF Next

(* The invariant holds in every state. *)
THEOREM BookInvariant == Spec => []BookInv
<1>1. BookAssumption
  BY BookAssumption
<1> QED
  BY <1>1, InitBook, StepBook, PTL DEF Spec

(* No listener uses an index outside the list or the combo box, and what is  *)
(* in the list can be dialled without a parse error.                         *)
THEOREM BookTypeCorrect == Spec => []TypeOK
<1>1. BookInv => TypeOK
  BY DEF BookInv
<1> QED
  BY <1>1, BookInvariant, PTL

(* The connect window shows the list it dials from. *)
THEOREM ComboIsTheList == Spec => []ComboShowsTheList
<1>1. BookInv => ComboShowsTheList
  BY DEF BookInv
<1> QED
  BY <1>1, BookInvariant, PTL

(* What is read at a start is what the last OK that got through wrote; after *)
(* one that failed half-way it is a beginning of what that one was writing,   *)
(* however long the lists are and wherever the writing stopped.               *)
THEOREM SavedListIsRead == Spec => []FileIsTheSavedList
<1>1. BookInv => FileIsTheSavedList
  <2> SUFFICES ASSUME BookInv PROVE FileIsTheSavedList
    OBVIOUS
  <2>1. attempted = <<>> /\ CommaFree(saved) => Readable(file) /\ Load(file) = saved
    BY BookAssumption, LoadsWhatWasSaved DEF BookInv, FileIsKnown
  <2>2. ASSUME attempted # <<>>, CommaFree(attempted[1]), Readable(file)
        PROVE  CutShort(Load(file), attempted[1])
    <3>1. PICK list \in Seq(Good) : attempted = <<list>> /\ file \in HalfWritten(list)
      BY <2>2 DEF BookInv, FileIsKnown
    <3>2. attempted[1] = list
      BY <3>1
    <3> QED
      BY <2>2, <3>1, <3>2, BookAssumption, LoadsABeginning
  <2> QED
    BY <2>1, <2>2 DEF FileIsTheSavedList
<1> QED
  BY <1>1, BookInvariant, PTL

(* Only a refusal of the system, a directory left without its file, an OK     *)
(* that failed half-way or a comma locks the user out.                        *)
THEOREM NotLockedOut == Spec => []BlankIsExplained
<1>1. BookInv => BlankIsExplained
  BY DEF BookInv
<1> QED
  BY <1>1, BookInvariant, PTL

(* The selected index is the first item that reads like the chosen one. *)
LEMMA SelectedIsFirst ==
  ASSUME combo \in Seq(Seq(Pieces)), chosen \in DOMAIN combo
  PROVE  SelectedIndex \in DOMAIN combo /\ combo[SelectedIndex] = combo[chosen]
<1> DEFINE Same == {i \in DOMAIN combo : combo[i] = combo[chosen]}
<1>1. Same \subseteq Nat /\ chosen \in Same
  BY LenProperties
<1>2. PICK m \in Same : \A k \in Same : m =< k
  BY <1>1, LeastOf
<1>3. \E i \in DOMAIN combo :
        /\ combo[i] = combo[chosen]
        /\ \A j \in DOMAIN combo : combo[j] = combo[chosen] => i =< j
  BY <1>2
<1> QED
  BY <1>3 DEF SelectedIndex

(* Whatever was added, deleted and saved, the server dialled is the chosen   *)
(* row's, or the first row of the same name.                                 *)
THEOREM DialsWhatWasChosen == Spec => DialsTheChosenRow
<1> DEFINE A == dialled' \notin {dialled, <<>>} =>
                  /\ dialled'[1].name = combo[chosen]
                  /\ (\A i \in DOMAIN IPStorage : IPStorage[i].name = combo[chosen] => i = chosen)
                       => dialled'[1] = IPStorage[chosen]
<1>1. BookInv /\ [Next]_vars => [A]_vars
  <2> SUFFICES ASSUME BookInv, Next, dialled' \notin {dialled, <<>>} PROVE A
    OBVIOUS
  <2>1. Dial
    BY DEF Next, MakeDirectory, MakeFile, StartUp, Exit, CloseConnect, Choose, Edit, Tick,
           Add, Delete, OK, histories
  <2>2. /\ combo = Names(IPStorage) /\ combo \in Seq(Seq(Pieces))
        /\ IPStorage \in Seq(Good) /\ chosen \in 0 .. Len(combo) /\ chosen # 0
    BY <2>1 DEF Dial, BookInv, TypeOK, ComboShowsTheList
  <2>3. chosen \in DOMAIN combo
    BY <2>2, LenProperties
  <2>4. /\ DOMAIN combo = DOMAIN IPStorage
        /\ \A i \in DOMAIN IPStorage : combo[i] = IPStorage[i].name
    BY <2>2, NamesType
  <2>5. SelectedIndex \in DOMAIN combo /\ combo[SelectedIndex] = combo[chosen]
    BY <2>2, <2>3, SelectedIsFirst
  <2>6. dialled' = <<IPStorage[SelectedIndex]>>
    BY <2>1 DEF Dial
  <2>7. dialled'[1] = IPStorage[SelectedIndex]
    BY <2>6
  <2> QED
    BY <2>4, <2>5, <2>7
<1> QED
  BY <1>1, BookInvariant, PTL DEF Spec, DialsTheChosenRow

(* However many rows are ticked, deleting removes those and keeps the rest   *)
(* in order.                                                                 *)
THEOREM DeletesOnlyTheTicked == Spec => DeletesTheTickedRows
<1> DEFINE B == Delete =>
       \E row \in [DOMAIN IPStorage' -> DOMAIN IPStorage \ ticked] :
         /\ \A k, l \in DOMAIN row : k < l => row[k] < row[l]
         /\ \A i \in DOMAIN IPStorage \ ticked : \E k \in DOMAIN row : row[k] = i
         /\ \A k \in DOMAIN row : IPStorage'[k] = IPStorage[row[k]]
<1>1. BookInv /\ [Next]_vars => [B]_vars
  <2> SUFFICES ASSUME BookInv, Delete PROVE B
    OBVIOUS
  <2>1. IPStorage' = Removed /\ IPStorage \in Seq(Good)
    BY DEF Delete, BookInv
  <2>2. Removed \in Seq(Good)
    BY <2>1, RemovedIsTheRest
  <2>3. PICK row : /\ Kept(row, Len(Removed), Len(IPStorage))
                   /\ \A k \in 1 .. Len(Removed) : Removed[k] = IPStorage[row[k]]
    BY <2>1, RemovedIsTheRest
  <2>4. DOMAIN IPStorage' = 1 .. Len(Removed) /\ DOMAIN IPStorage = 1 .. Len(IPStorage)
    BY <2>1, <2>2, LenProperties
  <2>5. row \in [DOMAIN IPStorage' -> DOMAIN IPStorage \ ticked] /\ DOMAIN row = 1 .. Len(Removed)
    BY <2>3, <2>4 DEF Kept
  <2> QED
    BY <2>1, <2>3, <2>4, <2>5 DEF Kept
<1> QED
  BY <1>1, BookInvariant, PTL DEF Spec, DeletesTheTickedRows
=============================================================================
