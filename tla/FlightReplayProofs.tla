------------------------- MODULE FlightReplayProofs -------------------------
(***************************************************************************)
(* Theorems about the emulator's flight file, for a file of any length,    *)
(* with times in any order and faults anywhere.                            *)
(***************************************************************************)
EXTENDS FlightReplay, SequenceTheorems, WellFoundedInduction, TLAPS

-----------------------------------------------------------------------------
(* Naturals: a set of them that is not empty has a least member. *)
LEMMA Least ==
  ASSUME NEW T, T \subseteq Nat, T # {}
  PROVE  \E m \in T : \A k \in T : m =< k
<1> DEFINE R == {ss \in Nat \X Nat : ss[1] < ss[2]}
<1>1. IsWellFoundedOn(R, Nat)
  BY NatLessThanWellFounded DEF OpToRel
<1> HIDE DEF R
<1>2. PICK m \in T : \A k \in T : ~(<<k, m>> \in R)
  BY <1>1, WFMin
<1>3. \A k \in T : ~(k < m)
  BY <1>2 DEF R
<1> QED
  BY <1>3

-----------------------------------------------------------------------------
(* The rows kept. *)

(* Kept is what its definition says. *)
LEMMA KeptDefined ==
  ASSUME NEW n \in Nat, n = Len(rows)
  PROVE  Kept = [i \in 0 .. n |-> IF i = 0 THEN <<>> ELSE Keep(Kept[i - 1], i)]
<1> DEFINE IsKept(g, k) == g = [i \in 0 .. k |-> IF i = 0 THEN <<>> ELSE Keep(g[i - 1], i)]
           Missing == {k \in Nat : ~ \E g : IsKept(g, k)}
<1>1. Missing = {}
  <2>1. SUFFICES ASSUME Missing # {} PROVE FALSE
    OBVIOUS
  <2>2. PICK m \in Missing : \A k \in Missing : m =< k
    BY <2>1, Least
  <2>3. CASE m = 0
    <3>1. \A i \in 0 .. 0 : i = 0
      OBVIOUS
    <3>2. [i \in 0 .. 0 |-> <<>>]
            = [i \in 0 .. 0 |-> IF i = 0 THEN <<>> ELSE Keep([l \in 0 .. 0 |-> <<>>][i - 1], i)]
      BY <3>1, Zenon
    <3>3. IsKept([i \in 0 .. 0 |-> <<>>], 0)
      BY <3>2
    <3> QED
      BY <2>2, <2>3, <3>3
  <2>4. CASE m # 0
    <3>0. m \in Nat
      BY DEF Missing
    <3>1. m - 1 \in Nat /\ m - 1 \notin Missing
      <4> HIDE DEF Missing
      <4>1. m - 1 \in Nat /\ ~(m =< m - 1)
        BY <2>4, <3>0
      <4> QED
        BY <2>2, <4>1
    <3>2. PICK g : IsKept(g, m - 1)
      BY <3>1
    <3> DEFINE h == [i \in 0 .. m |-> IF i = m THEN Keep(g[m - 1], m) ELSE g[i]]
    <3>3. ASSUME NEW i \in 0 .. m
          PROVE  h[i] = IF i = 0 THEN <<>> ELSE Keep(h[i - 1], i)
      <4>1. CASE i = m
        <5>1. m - 1 \in 0 .. m /\ h[m] = Keep(g[m - 1], m) /\ h[m - 1] = g[m - 1]
          BY <2>4
        <5> QED
          BY <4>1, <5>1, <2>4
      <4>2. CASE i # m /\ i # 0
        <5>1. i \in 0 .. m - 1 /\ i - 1 \in 0 .. m /\ i - 1 # m
          BY <4>2
        <5>2. h[i] = g[i] /\ h[i - 1] = g[i - 1]
          BY <4>2, <5>1
        <5>3. g[i] = Keep(g[i - 1], i)
          BY <3>2, <4>2, <5>1
        <5> QED
          BY <4>2, <5>2, <5>3
      <4>3. CASE i # m /\ i = 0
        <5>1. i \in 0 .. m - 1 /\ h[i] = g[i]
          BY <4>3
        <5> QED
          BY <3>2, <4>3, <5>1
      <4> QED
        BY <4>1, <4>2, <4>3
    <3>4. IsKept(h, m)
      BY <3>3
    <3> HIDE DEF h
    <3> QED
      BY <2>2, <3>4
  <2> QED
    BY <2>3, <2>4
<1>2. \E g : IsKept(g, n)
  BY <1>1
<1>3. Kept = CHOOSE g : IsKept(g, n)
  BY DEF Kept
<1> HIDE DEF IsKept
<1>4. IsKept(Kept, n)
  BY <1>2, <1>3
<1> QED
  BY <1>4 DEF IsKept

(* k[l] is the last of the rows kept before row i. *)
LastBefore(k, l, i) == k[l] < i /\ (l < Len(k) => i =< k[l + 1])

(* What the loop has made of the first n rows: the header and, of the others,
   those more than a second later than the last kept before them. *)
KeptSoFar(k, n) ==
  /\ k \in Seq(1 .. n)
  /\ n = 0 => k = <<>>
  /\ n > 0 => Len(k) > 0 /\ k[1] = 1
  /\ \A a, b \in 1 .. Len(k) : a < b => k[a] < k[b]
  /\ \A i \in 2 .. n + 1 : \E l \in 1 .. Len(k) : LastBefore(k, l, i)
  /\ \A i \in 2 .. n : \A l \in 1 .. Len(k) :
       LastBefore(k, l, i) =>
         ((\E m \in 1 .. Len(k) : k[m] = i)
            <=> rows[i].time - (IF l < 2 THEN 0 ELSE rows[k[l]].time) > OneSecond)

(* One row more. *)
LEMMA KeepStep ==
  ASSUME NEW n \in Nat \ {0}, NEW k, KeptSoFar(k, n - 1)
  PROVE  KeptSoFar(Keep(k, n), n)
<1>1. k \in Seq(1 .. n - 1) /\ Len(k) \in Nat /\ \A a \in 1 .. Len(k) : k[a] \in 1 .. n - 1
  BY DEF KeptSoFar
<1>2. k \in Seq(1 .. n)
  BY <1>1
<1>3. CASE n = 1
  <2>1. k = <<>> /\ Keep(k, n) = Append(k, 1)
    BY <1>3 DEF KeptSoFar, Keep
  <2>2. Keep(k, n) = <<1>>
    BY <2>1
  <2> DEFINE h == <<1>>
  <2>3. h \in Seq(1 .. 1) /\ Len(h) = 1 /\ h[1] = 1 /\ 1 .. 1 = {1}
    OBVIOUS
  <2> HIDE DEF h
  <2>4. \A a \in 1 .. Len(h) : a = 1
    BY <2>3
  <2>5. LastBefore(h, 1, 2) /\ \A i \in 2 .. 2 : i = 2
    BY <2>3 DEF LastBefore
  <2>6. \A i \in 2 .. 1 : FALSE
    OBVIOUS
  <2>7. KeptSoFar(h, 1)
    BY <2>3, <2>4, <2>5, <2>6 DEF KeptSoFar
  <2> QED
    BY <1>3, <2>2, <2>7 DEF h
<1>4. CASE n # 1 /\ ~(rows[n].time - PriorTime(k) > OneSecond)
  <2>1. Keep(k, n) = k
    BY <1>4 DEF Keep
  <2>2. \A i \in 2 .. n + 1 : \E l \in 1 .. Len(k) : LastBefore(k, l, i)
    <3>1. (n - 1) + 1 = n /\ \A i \in 2 .. n + 1 : i \in 2 .. n \/ i = n + 1
      OBVIOUS
    <3>2. \A i \in 2 .. n : \E l \in 1 .. Len(k) : LastBefore(k, l, i)
      BY <3>1 DEF KeptSoFar
    <3>3. Len(k) > 0
      BY <1>4 DEF KeptSoFar
    <3>4. Len(k) \in 1 .. Len(k) /\ k[Len(k)] < n + 1
      BY <1>1, <3>3
    <3>5. \E l \in 1 .. Len(k) : LastBefore(k, l, n + 1)
      BY <3>4 DEF LastBefore
    <3> QED
      BY <3>1, <3>2, <3>5
  <2>3. ASSUME NEW l \in 1 .. Len(k), LastBefore(k, l, n)
        PROVE  /\ ~ \E m \in 1 .. Len(k) : k[m] = n
               /\ ~(rows[n].time - (IF l < 2 THEN 0 ELSE rows[k[l]].time) > OneSecond)
    <3>1. l = Len(k)
      <4>1. l < Len(k) => l + 1 \in 1 .. Len(k) /\ k[l + 1] < n
        BY <1>1
      <4>2. l < Len(k) => n =< k[l + 1]
        BY <2>3 DEF LastBefore
      <4> QED
        BY <1>1, <4>1, <4>2
    <3> QED
      BY <1>1, <1>4, <3>1 DEF PriorTime
  <2>5. n > 0 => Len(k) > 0 /\ k[1] = 1
    BY <1>4 DEF KeptSoFar
  <2>6. ASSUME NEW i \in 2 .. n, NEW l \in 1 .. Len(k), LastBefore(k, l, i)
        PROVE  (\E m \in 1 .. Len(k) : k[m] = i)
                 <=> rows[i].time - (IF l < 2 THEN 0 ELSE rows[k[l]].time) > OneSecond
    <3>1. CASE i = n
      BY <2>3, <2>6, <3>1
    <3>2. CASE i # n
      <4>1. i \in 2 .. n - 1
        BY <3>2
      <4> QED
        BY <2>6, <4>1 DEF KeptSoFar
    <3> QED
      BY <3>1, <3>2
  <2> QED
    BY <1>2, <2>1, <2>2, <2>5, <2>6 DEF KeptSoFar
<1>5. CASE n # 1 /\ rows[n].time - PriorTime(k) > OneSecond
  <2> DEFINE h == Append(k, n)
  <2>1. Keep(k, n) = h
    BY <1>5 DEF Keep
  <2>2. /\ h \in Seq(1 .. n) /\ Len(h) = Len(k) + 1 /\ h[Len(k) + 1] = n
        /\ \A a \in 1 .. Len(k) : h[a] = k[a]
    BY <1>1, <1>2
  <2> HIDE DEF h
  <2>3. Len(k) > 0 /\ k[1] = 1
    BY <1>5 DEF KeptSoFar
  <2>4. \A a, b \in 1 .. Len(h) : a < b => h[a] < h[b]
    <3>1. SUFFICES ASSUME NEW a \in 1 .. Len(h), NEW b \in 1 .. Len(h), a < b
                   PROVE  h[a] < h[b]
      OBVIOUS
    <3>2. a \in 1 .. Len(k) /\ h[a] = k[a]
      <4>1. b =< Len(k) + 1 /\ a \in Nat /\ b \in Nat
        BY <1>1, <2>2
      <4>2. a \in 1 .. Len(k)
        BY <1>1, <3>1, <4>1
      <4> QED
        BY <2>2, <4>2
    <3>3. CASE b = Len(k) + 1
      BY <1>1, <2>2, <3>2, <3>3
    <3>4. CASE b # Len(k) + 1
      <4>1. b \in 1 .. Len(k) /\ h[b] = k[b]
        BY <1>1, <2>2, <3>4
      <4> QED
        BY <3>1, <3>2, <4>1 DEF KeptSoFar
    <3> QED
      BY <3>3, <3>4
  <2>5. ASSUME NEW i \in 2 .. n, NEW l \in 1 .. Len(k)
        PROVE  LastBefore(h, l, i) <=> LastBefore(k, l, i)
    <3>1. h[l] = k[l] /\ l < Len(h)
      BY <1>1, <2>2
    <3>2. ASSUME l < Len(k) PROVE h[l + 1] = k[l + 1]
      <4>1. l + 1 \in 1 .. Len(k)
        BY <1>1, <3>2
      <4> QED
        BY <2>2, <4>1
    <3>3. l = Len(k) => i =< h[l + 1]
      BY <1>1, <2>2
    <3> QED
      BY <1>1, <3>1, <3>2, <3>3 DEF LastBefore
  <2>6. \A i \in 2 .. n + 1 : \E l \in 1 .. Len(h) : LastBefore(h, l, i)
    <3>1. ASSUME NEW i \in 2 .. n PROVE \E l \in 1 .. Len(h) : LastBefore(h, l, i)
      <4>0. i \in 2 .. (n - 1) + 1
        OBVIOUS
      <4>1. PICK l \in 1 .. Len(k) : LastBefore(k, l, i)
        BY <4>0 DEF KeptSoFar
      <4> QED
        BY <1>1, <2>2, <2>5, <4>1
    <3>2. Len(h) \in 1 .. Len(h) /\ LastBefore(h, Len(h), n + 1)
      BY <1>1, <2>2 DEF LastBefore
    <3> QED
      BY <3>1, <3>2
  <2>7. ASSUME NEW i \in 2 .. n, NEW l \in 1 .. Len(h), LastBefore(h, l, i)
        PROVE  (\E m \in 1 .. Len(h) : h[m] = i)
                 <=> rows[i].time - (IF l < 2 THEN 0 ELSE rows[h[l]].time) > OneSecond
    <3>1. l \in 1 .. Len(k) /\ h[l] = k[l]
      BY <1>1, <2>2, <2>7 DEF LastBefore
    <3>2. LastBefore(k, l, i)
      BY <2>5, <2>7, <3>1
    <3>3. CASE i = n
      <4>1. l = Len(k)
        <5>1. l < Len(k) => l + 1 \in 1 .. Len(k) /\ k[l + 1] < n /\ n =< k[l + 1]
          BY <1>1, <3>1, <3>2, <3>3 DEF LastBefore
        <5> QED
          BY <1>1, <3>1, <5>1
      <4>2. rows[i].time - (IF l < 2 THEN 0 ELSE rows[h[l]].time) > OneSecond
        BY <1>5, <3>1, <3>3, <4>1 DEF PriorTime
      <4>3. Len(k) + 1 \in 1 .. Len(h) /\ h[Len(k) + 1] = i
        BY <1>1, <2>2, <3>3
      <4> QED
        BY <4>2, <4>3
    <3>4. CASE i # n
      <4>1. i \in 2 .. n - 1
        BY <3>4
      <4>2. (\E m \in 1 .. Len(h) : h[m] = i) <=> (\E m \in 1 .. Len(k) : k[m] = i)
        <5>1. ASSUME NEW m \in 1 .. Len(h), h[m] = i PROVE m \in 1 .. Len(k) /\ k[m] = i
          BY <1>1, <2>2, <3>4, <5>1
        <5>2. ASSUME NEW m \in 1 .. Len(k), k[m] = i PROVE m \in 1 .. Len(h) /\ h[m] = i
          BY <1>1, <2>2, <5>2
        <5> QED
          BY <5>1, <5>2
      <4>3. (\E m \in 1 .. Len(k) : k[m] = i)
              <=> rows[i].time - (IF l < 2 THEN 0 ELSE rows[k[l]].time) > OneSecond
        BY <3>1, <3>2, <4>1 DEF KeptSoFar
      <4> QED
        BY <3>1, <4>2, <4>3
    <3> QED
      BY <3>3, <3>4
  <2>8. Len(h) > 0 /\ h[1] = 1 /\ n # 0
    <3>1. 1 \in 1 .. Len(k)
      BY <1>1, <2>3
    <3> QED
      BY <1>1, <2>2, <2>3, <3>1
  <2> QED
    BY <2>1, <2>2, <2>4, <2>6, <2>7, <2>8 DEF KeptSoFar
<1> QED
  BY <1>3, <1>4, <1>5

(* By induction over the rows: the least one at which it fails cannot be. *)
LEMMA ElementsAreKept ==
  ASSUME NEW n \in Nat, n = Len(rows)
  PROVE  KeptSoFar(Elements, n)
<1> DEFINE Fails == {i \in 0 .. n : ~KeptSoFar(Kept[i], i)}
<1>1. Fails = {}
  <2>1. SUFFICES ASSUME Fails # {} PROVE FALSE
    OBVIOUS
  <2>2. PICK m \in Fails : \A k \in Fails : m =< k
    <3>1. Fails \subseteq Nat
      OBVIOUS
    <3> QED
      BY <2>1, <3>1, Least
  <2>3. m \in 0 .. n /\ ~KeptSoFar(Kept[m], m)
    OBVIOUS
  <2>4. CASE m = 0
    <3>1. Kept[0] = <<>>
      BY <2>3, <2>4, KeptDefined
    <3>2. KeptSoFar(<<>>, 0)
      BY DEF KeptSoFar
    <3> QED
      BY <2>3, <2>4, <3>1, <3>2
  <2>5. CASE m # 0
    <3>1. m - 1 \in 0 .. n /\ m \in Nat \ {0} /\ ~(m =< m - 1)
      BY <2>3, <2>5
    <3>2. KeptSoFar(Kept[m - 1], m - 1)
      BY <2>2, <3>1
    <3>3. Kept[m] = Keep(Kept[m - 1], m)
      BY <2>3, <2>5, KeptDefined
    <3> QED
      BY <2>3, <3>1, <3>2, <3>3, KeepStep
  <2> QED
    BY <2>4, <2>5
<1>2. KeptSoFar(Kept[n], n)
  BY <1>1
<1> QED
  BY <1>2 DEF Elements
-----------------------------------------------------------------------------
(* The list made of them. *)

(* No record is made of a row that is not there, and both are made of every
   row before the first with a fault. *)
LEMMA RecordedRange ==
  ASSUME NEW n \in Nat, NEW k, KeptSoFar(k, n)
  PROVE  /\ Recorded(k) \in Nat
         /\ Recorded(k) > 0 => Recorded(k) =< 2 * (Len(k) - 1)
         /\ \A m \in 2 .. Len(k) :
              (\A j \in 2 .. m : rows[k[j]].fault = "none") => 2 * (m - 1) =< Recorded(k)
<1> DEFINE faulty == {j \in 2 .. Len(k) : rows[k[j]].fault # "none"}
<1>1. Len(k) \in Nat /\ (k = <<>> => Len(k) = 0) /\ (k # <<>> => Len(k) > 0)
  BY EmptySeq DEF KeptSoFar
<1>2. CASE faulty = {}
  <2>1. Recorded(k) = 2 * (IF k = <<>> THEN 0 ELSE Len(k) - 1)
    BY <1>2 DEF Recorded
  <2> HIDE DEF faulty
  <2> QED
    BY <1>1, <2>1
<1>3. CASE faulty # {}
  <2>1. \E m \in faulty : \A j \in faulty : m =< j
    <3>1. faulty \subseteq Nat
      OBVIOUS
    <3> QED
      BY <1>3, <3>1, Least
  <2> DEFINE f == CHOOSE m \in faulty : \A j \in faulty : m =< j
  <2>2. f \in faulty
    <3> HIDE DEF faulty
    <3> QED
      BY <2>1
  <2>3. Recorded(k) = 2 * (f - 2) + (IF rows[k[f]].fault = "sensor" THEN 1 ELSE 0)
    BY <1>3 DEF Recorded
  <2> HIDE DEF f
  <2>4. f \in 2 .. Len(k) /\ rows[k[f]].fault # "none"
    BY <2>2
  <2>5. \/ Recorded(k) = 2 * (f - 2)
        \/ Recorded(k) = 2 * (f - 2) + 1
    BY <2>3, <2>4
  <2>6. \A m \in 2 .. Len(k) : (\A j \in 2 .. m : rows[k[j]].fault = "none") => m < f
    BY <1>1, <2>4
  <2> HIDE DEF faulty
  <2> QED
    BY <1>1, <2>4, <2>5, <2>6
<1> QED
  BY <1>2, <1>3

(* Positions and sensor records by turns, in the order of the rows, each
   reading of the same row as the position before it. *)
Shape(g) ==
  /\ g \in Seq({"gps", "sensor"} \X (2 .. Len(rows)))
  /\ \A i \in 1 .. Len(g) : g[i][1] = IF i % 2 = 1 THEN "gps" ELSE "sensor"
  /\ \A i \in 1 .. Len(g) : i % 2 = 1 /\ i < Len(g) => g[i + 1][2] = g[i][2]
  /\ \A i, j \in 1 .. Len(g) : i % 2 = 1 /\ j % 2 = 1 /\ i < j => g[i][2] < g[j][2]

(* convertToGPS makes a list of that shape; its m-th position is that of the
   m-th row kept behind the header. *)
LEMMA ConvertShape ==
  ASSUME NEW n \in Nat, n = Len(rows), NEW k, KeptSoFar(k, n), NEW g, g = ConvertToGPS(k)
  PROVE  /\ Shape(g) /\ Len(g) = Recorded(k)
         /\ \A i \in 1 .. Len(g) : /\ (i + 1) \div 2 + 1 \in 2 .. Len(k)
                                   /\ g[i][2] = k[(i + 1) \div 2 + 1]
<1>1. /\ Recorded(k) \in Nat /\ DOMAIN g = 1 .. Recorded(k)
      /\ \A i \in 1 .. Recorded(k) :
           g[i] = <<IF i % 2 = 1 THEN "gps" ELSE "sensor", k[(i + 1) \div 2 + 1]>>
  BY RecordedRange DEF ConvertToGPS
<1>2. ASSUME NEW i \in 1 .. Recorded(k) PROVE (i + 1) \div 2 + 1 \in 2 .. Len(k)
  <2>1. Len(k) \in Nat
    BY DEF KeptSoFar
  <2>2. Recorded(k) > 0
    BY <1>1
  <2>3. Recorded(k) =< 2 * (Len(k) - 1)
    BY <2>2, RecordedRange
  <2> QED
    BY <1>1, <2>1, <2>3
<1>3. ASSUME NEW m \in 2 .. Len(k) PROVE k[m] \in 2 .. n
  <2>1. Len(k) \in Nat /\ 1 \in 1 .. Len(k) /\ m \in 1 .. Len(k) /\ 1 < m
    BY DEF KeptSoFar
  <2>2. k[m] \in 1 .. n /\ k[1] < k[m]
    BY <2>1 DEF KeptSoFar
  <2>3. k[1] \in 1 .. n
    BY <2>1 DEF KeptSoFar
  <2> QED
    BY <2>2, <2>3
<1>4. ASSUME NEW i \in 1 .. Recorded(k)
      PROVE  /\ g[i] \in {"gps", "sensor"} \X (2 .. n)
             /\ g[i][1] = (IF i % 2 = 1 THEN "gps" ELSE "sensor")
             /\ g[i][2] = k[(i + 1) \div 2 + 1]
  <2> DEFINE m == (i + 1) \div 2 + 1
  <2>1. g[i] = <<IF i % 2 = 1 THEN "gps" ELSE "sensor", k[m]>>
    BY <1>1
  <2>2. m \in 2 .. Len(k)
    BY <1>2
  <2> HIDE DEF m
  <2>3. k[m] \in 2 .. n
    BY <1>3, <2>2
  <2>4. g[i][2] = k[m] /\ g[i] \in {"gps", "sensor"} \X (2 .. n)
    BY <2>1, <2>3
  <2> QED
    BY <2>1, <2>4 DEF m
<1>5. g \in Seq({"gps", "sensor"} \X (2 .. n)) /\ Len(g) = Recorded(k)
  <2>1. g \in [1 .. Recorded(k) -> {"gps", "sensor"} \X (2 .. n)]
    <3>1. g = [i \in DOMAIN g |-> g[i]]
      BY DEF ConvertToGPS
    <3> QED
      BY <1>1, <1>4, <3>1
  <2> QED
    BY <1>1, <2>1, SeqDef
<1>6. ASSUME NEW i \in 1 .. Len(g), i % 2 = 1, i < Len(g) PROVE g[i + 1][2] = g[i][2]
  <2>1. i + 1 \in 1 .. Recorded(k) /\ (i + 1 + 1) \div 2 = (i + 1) \div 2
    BY <1>1, <1>5, <1>6
  <2> QED
    BY <1>4, <1>5, <2>1
<1>7. ASSUME NEW i \in 1 .. Len(g), NEW j \in 1 .. Len(g), i % 2 = 1, j % 2 = 1, i < j
      PROVE  g[i][2] < g[j][2]
  <2> DEFINE a == (i + 1) \div 2 + 1
             b == (j + 1) \div 2 + 1
  <2>1. a \in 2 .. Len(k) /\ b \in 2 .. Len(k) /\ a < b
    <3>0. i \in Nat /\ j \in Nat
      BY <1>1, <1>5
    <3>1. i \in Nat /\ j \in Nat /\ i # j - 1
      BY <1>7, <3>0
    <3>2. i + 2 =< j
      BY <1>7, <3>1
    <3>3. (i + 1) \div 2 < (j + 1) \div 2
      BY <3>1, <3>2
    <3> QED
      BY <1>2, <1>5, <3>1, <3>3
  <2>2. g[i][2] = k[a] /\ g[j][2] = k[b]
    BY <1>4, <1>5
  <2> HIDE DEF a, b
  <2>3. Len(k) \in Nat
    BY DEF KeptSoFar
  <2> QED
    BY <2>1, <2>2, <2>3 DEF KeptSoFar
<1> QED
  BY <1>2, <1>4, <1>5, <1>6, <1>7 DEF Shape

(* The rows with a position in g, and the last of them before row i. *)
RowsOf(g) == {i \in 2 .. Len(rows) : <<"gps", i>> \in {g[m] : m \in DOMAIN g}}

LastOf(g, i) == {j \in RowsOf(g) : j < i /\ \A m \in RowsOf(g) : m < i => m =< j}

(* Up to a row before which there is no fault, these are the rows kept. *)
LEMMA RowsRecorded ==
  ASSUME NEW n \in Nat, n = Len(rows), NEW k, KeptSoFar(k, n), NEW g, g = ConvertToGPS(k),
         NEW i \in 2 .. n, \A j \in 2 .. i : rows[j].fault = "none",
         NEW r \in 1 .. i
  PROVE  r \in RowsOf(g) <=> \E m \in 2 .. Len(k) : k[m] = r
<1>1. /\ Shape(g) /\ Len(g) = Recorded(k) /\ DOMAIN g = 1 .. Len(g) /\ Len(g) \in Nat
      /\ \A l \in 1 .. Len(g) : /\ (l + 1) \div 2 + 1 \in 2 .. Len(k)
                                /\ g[l][2] = k[(l + 1) \div 2 + 1]
  <2>1. Shape(g)
    BY ConvertShape
  <2>2. DOMAIN g = 1 .. Len(g) /\ Len(g) \in Nat
    BY <2>1 DEF Shape
  <2> QED
    BY <2>1, <2>2, ConvertShape
<1>2. ASSUME r \in RowsOf(g) PROVE \E m \in 2 .. Len(k) : k[m] = r
  <2>1. PICK l \in 1 .. Len(g) : g[l] = <<"gps", r>>
    BY <1>1, <1>2 DEF RowsOf
  <2>2. g[l][2] = r
    BY <2>1
  <2> QED
    BY <1>1, <2>2
<1>3. ASSUME NEW m \in 2 .. Len(k), k[m] = r PROVE r \in RowsOf(g)
  <2>1. Len(k) \in Nat /\ 1 \in 1 .. Len(k) /\ m \in 1 .. Len(k) /\ k[1] = 1
    BY DEF KeptSoFar
  <2>2. \A j \in 2 .. m : k[j] \in 2 .. i
    <3>1. SUFFICES ASSUME NEW j \in 2 .. m PROVE k[j] \in 2 .. i
      OBVIOUS
    <3>2. j \in 1 .. Len(k) /\ 1 < j /\ (j = m \/ j < m)
      BY <2>1
    <3>3. k[1] < k[j] /\ (j = m \/ k[j] < k[m]) /\ k[j] \in 1 .. n
      BY <2>1, <3>2 DEF KeptSoFar
    <3> QED
      BY <1>3, <2>1, <3>3
  <2>3. 2 * (m - 1) =< Recorded(k)
    BY <2>2, RecordedRange
  <2> DEFINE l == 2 * (m - 1) - 1
  <2>4. l \in 1 .. Len(g) /\ l % 2 = 1 /\ (l + 1) \div 2 + 1 = m
    BY <1>1, <2>3
  <2> HIDE DEF l
  <2>5. g[l][2] = r /\ g[l][1] = "gps" /\ g[l] \in {"gps", "sensor"} \X (2 .. Len(rows))
    BY <1>1, <1>3, <2>4 DEF Shape
  <2>6. g[l] = <<"gps", r>> /\ r \in 2 .. Len(rows)
    BY <2>5
  <2> QED
    BY <1>1, <2>4, <2>6 DEF RowsOf
<1> QED
  BY <1>2, <1>3

(* The filter, stated of the list made. *)
LEMMA FilterHolds ==
  ASSUME rows \in Seq(Rows),
         NEW n \in Nat, n = Len(rows), NEW k, KeptSoFar(k, n), NEW g, g = ConvertToGPS(k),
         NEW i \in 2 .. n, \A j \in 2 .. i : rows[j].fault = "none"
  PROVE  (i \in RowsOf(g)) <=>
           IF LastOf(g, i) = {} THEN rows[i].time > OneSecond
           ELSE \A j \in LastOf(g, i) : rows[i].time - rows[j].time > OneSecond
<1>0. \A r \in 1 .. i : r \in RowsOf(g) <=> \E m \in 2 .. Len(k) : k[m] = r
  BY RowsRecorded
<1>1. PICK l \in 1 .. Len(k) : LastBefore(k, l, i)
  <2>1. i \in 2 .. n + 1
    OBVIOUS
  <2> QED
    BY <2>1 DEF KeptSoFar
<1>2. (\E m \in 1 .. Len(k) : k[m] = i)
        <=> rows[i].time - (IF l < 2 THEN 0 ELSE rows[k[l]].time) > OneSecond
  BY <1>1 DEF KeptSoFar
<1>3. Len(k) \in Nat /\ k[1] = 1 /\ \A m \in 1 .. Len(k) : k[m] \in 1 .. n
  BY DEF KeptSoFar
<1>4. i \in RowsOf(g) <=> \E m \in 1 .. Len(k) : k[m] = i
  <2>1. i \in RowsOf(g) <=> \E m \in 2 .. Len(k) : k[m] = i
    <3>1. i \in 1 .. i
      OBVIOUS
    <3> QED
      BY <1>0, <3>1
  <2>2. \A m \in 1 .. Len(k) : k[m] = i => m \in 2 .. Len(k)
    BY <1>3
  <2>3. \A m \in 2 .. Len(k) : m \in 1 .. Len(k)
    BY <1>3
  <2> QED
    BY <2>1, <2>2, <2>3
<1>5. ASSUME NEW r \in RowsOf(g), r < i PROVE l \in 2 .. Len(k) /\ r =< k[l]
  <2>1. r \in 1 .. i
    BY <1>5 DEF RowsOf
  <2>2. PICK m \in 2 .. Len(k) : k[m] = r
    BY <1>0, <1>5, <2>1
  <2>3. m =< l
    <3>1. SUFFICES ASSUME l < m PROVE FALSE
      BY <1>3
    <3>2. l < Len(k) /\ l + 1 \in 1 .. Len(k) /\ m \in 1 .. Len(k) /\ (l + 1 = m \/ l + 1 < m)
      BY <1>3, <3>1
    <3>3. i =< k[l + 1] /\ (l + 1 = m \/ k[l + 1] < k[m])
      BY <1>1, <3>2 DEF LastBefore, KeptSoFar
    <3> QED
      BY <1>3, <1>5, <2>2, <3>2, <3>3
  <2>4. m \in 1 .. Len(k) /\ (m = l \/ k[m] < k[l])
    BY <1>3, <2>3, SMTT(30) DEF KeptSoFar
  <2> QED
    BY <1>3, <2>2, <2>3, <2>4
<1>6. CASE l < 2
  <2>1. LastOf(g, i) = {}
    BY <1>5, <1>6 DEF LastOf
  <2>2. (\E m \in 1 .. Len(k) : k[m] = i) <=> rows[i].time - 0 > OneSecond
    BY <1>2, <1>6
  <2>3. rows[i].time \in Int
    <3>1. rows[i] \in Rows
      OBVIOUS
    <3> QED
      BY <3>1, ReplayAssumption
  <2> QED
    BY <1>4, <2>1, <2>2, <2>3
<1>7. CASE ~(l < 2)
  <2>1. l \in 2 .. Len(k) /\ k[l] \in 1 .. i /\ k[l] < i
    BY <1>1, <1>3, <1>7 DEF LastBefore
  <2>2. k[l] \in RowsOf(g)
    BY <1>0, <1>7, <2>1
  <2>3. LastOf(g, i) = {k[l]}
    <3>1. k[l] \in LastOf(g, i)
      BY <1>5, <2>1, <2>2 DEF LastOf
    <3>2. ASSUME NEW j \in LastOf(g, i) PROVE j = k[l]
      <4>1. j \in RowsOf(g) /\ j < i /\ k[l] =< j
        BY <2>1, <2>2 DEF LastOf
      <4>2. j =< k[l] /\ j \in Nat /\ k[l] \in Nat
        BY <1>5, <2>1, <4>1 DEF RowsOf
      <4> QED
        BY <4>1, <4>2
    <3> QED
      BY <3>1, <3>2
  <2> QED
    BY <1>2, <1>4, <1>7, <2>3
<1> QED
  BY <1>6, <1>7
-----------------------------------------------------------------------------
(* The invariant: the list has its shape and its rows, and the index moves
   over it by two. *)
ReplayInv ==
  /\ rows \in Seq(Rows)
  /\ pc = "parse" => gpsData = <<>> /\ gpsDataIndex = 1 /\ out = <<>>
  /\ Shape(gpsData)
  /\ TypeOK /\ KeptMoreThanASecondApart /\ PositionWithPriorReading

(* The invariant holds of every file before it is read. *)
LEMMA InitReplay == Init => ReplayInv
<1> SUFFICES ASSUME Init PROVE ReplayInv
  OBVIOUS
<1>1. rows \in Seq(Rows)
  <2>1. CASE rows = <<>>
    BY <2>1
  <2>2. CASE rows # <<>>
    <3>1. PICK n \in 0 .. MaxRows - 1 : \E r \in [1 .. n -> Rows] : rows = <<Header>> \o r
      BY <2>2 DEF Init
    <3>2. PICK r \in [1 .. n -> Rows] : rows = <<Header>> \o r
      BY <3>1
    <3>3. r \in Seq(Rows) /\ <<Header>> \in Seq(Rows)
      BY <3>1, ReplayAssumption, SeqDef
    <3> QED
      BY <3>2, <3>3, ConcatProperties
  <2> QED
    BY <2>1, <2>2
<1>2. /\ pc = "parse" /\ gpsData = <<>> /\ gpsDataIndex = 1 /\ due = FALSE /\ out = <<>>
  BY DEF Init
<1>3. /\ Len(gpsData) = 0 /\ gpsData \in Seq({"gps", "sensor"} \X (2 .. Len(rows)))
  BY <1>2
<1>4. Shape(gpsData)
  BY <1>3 DEF Shape
<1>5. TypeOK
  <2>1. 1 \in 1 .. 0 + 1 /\ 1 % 2 = 1
    OBVIOUS
  <2> QED
    BY <1>2, <1>3, <2>1 DEF TypeOK
<1> QED
  BY <1>1, <1>2, <1>4, <1>5 DEF ReplayInv, KeptMoreThanASecondApart, PositionWithPriorReading

(* The file is read. *)
LEMMA ParseStep ==
  ASSUME ReplayInv, Parse
  PROVE  ReplayInv'
<1> DEFINE g == gpsData'
<1>1. /\ rows \in Seq(Rows) /\ Len(rows) \in Nat /\ rows' = rows
      /\ pc' = "replay" /\ gpsDataIndex' = 1 /\ due' = due /\ out' = <<>>
      /\ g = ConvertToGPS(Elements)
  BY DEF ReplayInv, Parse
<1>2. KeptSoFar(Elements, Len(rows))
  BY <1>1, ElementsAreKept
<1>3. Shape(g)
  BY <1>1, <1>2, ConvertShape
<1>4. Shape(gpsData)'
  BY <1>1, <1>3 DEF Shape
<1>5. TypeOK'
  <2>1. g \in Seq({"gps", "sensor"} \X (2 .. Len(rows))) /\ Len(g) \in Nat
    BY <1>3 DEF Shape
  <2>2. due \in BOOLEAN
    BY DEF ReplayInv, TypeOK
  <2> QED
    BY <1>1, <2>1, <2>2 DEF TypeOK, gpsDataLength
<1>6. KeptMoreThanASecondApart'
  <2>1. KeptRows' = RowsOf(g)
    BY <1>1 DEF KeptRows, RowsOf
  <2>2. \A i : LastKeptBefore(i)' = LastOf(g, i)
    BY <2>1 DEF LastKeptBefore, LastOf
  <2> HIDE DEF g
  <2>3. \A i \in 2 .. Len(rows) :
          (\A j \in 2 .. i : rows[j].fault = "none") =>
            ((i \in RowsOf(g)) <=>
               IF LastOf(g, i) = {} THEN rows[i].time > OneSecond
               ELSE \A j \in LastOf(g, i) : rows[i].time - rows[j].time > OneSecond)
    BY <1>1, <1>2, FilterHolds
  <2> QED
    BY <1>1, <2>1, <2>2, <2>3 DEF KeptMoreThanASecondApart
<1> QED
  BY <1>1, <1>4, <1>5, <1>6 DEF ReplayInv, PositionWithPriorReading

(* A pair is sent: the position of one row kept with the reading of the row
   kept before it. *)
LEMMA SendStep ==
  ASSUME ReplayInv, SendPair
  PROVE  PositionWithPriorReading'
<1> DEFINE i == gpsDataIndex
<1>1. /\ Len(gpsData) \in Nat /\ i \in Nat /\ i >= 1 /\ i % 2 = 1 /\ i < Len(gpsData) - 1
      /\ out' = <<gpsData[i + 2], gpsData[i + 1]>> /\ gpsData' = gpsData /\ rows' = rows
  BY DEF ReplayInv, TypeOK, SendPair, Get, gpsDataLength
<1> DEFINE s == gpsData[i + 2][2]
           r == gpsData[i][2]
<1>2. i \in 1 .. Len(gpsData) /\ i + 1 \in 1 .. Len(gpsData) /\ i + 2 \in 1 .. Len(gpsData)
  BY <1>1
<1>3. i % 2 = 1 /\ (i + 1) % 2 # 1 /\ (i + 2) % 2 = 1
  BY <1>1
<1>4. Shape(gpsData)
  BY DEF ReplayInv
<1>5. /\ gpsData[i + 2][1] = "gps" /\ gpsData[i + 1][1] = "sensor" /\ gpsData[i][1] = "gps"
      /\ gpsData[i + 1][2] = r
      /\ gpsData[i] \in {"gps", "sensor"} \X (2 .. Len(rows))
      /\ gpsData[i + 2] \in {"gps", "sensor"} \X (2 .. Len(rows))
      /\ r < s
  <2>1. /\ gpsData[i + 2][1] = "gps" /\ gpsData[i + 1][1] = "sensor"
        /\ gpsData[i][1] = "gps"
    BY <1>2, <1>3, <1>4 DEF Shape
  <2>2. gpsData[i + 1][2] = r
    <3>1. i \in 1 .. Len(gpsData) /\ i % 2 = 1 /\ i < Len(gpsData)
      BY <1>1
    <3> QED
      BY <1>4, <3>1 DEF Shape
  <2>3. i < i + 2
    BY <1>1
  <2>4. r < s
    BY <1>2, <1>3, <1>4, <2>3 DEF Shape
  <2>5. gpsData \in Seq({"gps", "sensor"} \X (2 .. Len(rows)))
    BY <1>4 DEF Shape
  <2> QED
    BY <1>2, <2>1, <2>2, <2>4, <2>5
<1>6. r \in KeptRows /\ r < s /\ s \in Int
  <2>1. gpsData[i] = <<"gps", r>> /\ r \in 2 .. Len(rows) /\ s \in Int
    BY <1>5
  <2> QED
    BY <1>2, <1>5, <2>1 DEF KeptRows
<1>7. ASSUME NEW k \in KeptRows, k < s PROVE k =< r
  <2>1. PICK j \in 1 .. Len(gpsData) : gpsData[j] = <<"gps", k>>
    <3>1. DOMAIN gpsData = 1 .. Len(gpsData)
      BY <1>4 DEF Shape
    <3> QED
      BY <1>7, <3>1 DEF KeptRows
  <2>2. gpsData[j][1] = "gps" /\ gpsData[j][2] = k
    BY <2>1
  <2>3. j % 2 = 1
    BY <1>4, <2>1, <2>2 DEF Shape
  <2>4. j < i + 2
    <3>1. SUFFICES ASSUME i + 2 =< j PROVE FALSE
      BY <1>1
    <3>2. j = i + 2 \/ i + 2 < j
      BY <1>1, <3>1
    <3>3. j = i + 2 \/ s < k
      BY <1>2, <1>3, <1>4, <2>2, <2>3, <3>2 DEF Shape
    <3>4. k \in Int
      BY DEF KeptRows
    <3> QED
      BY <1>6, <1>7, <2>2, <3>3, <3>4
  <2>5. j = i \/ j < i
    BY <1>1, <1>3, <2>3, <2>4
  <2>6. j = i \/ k < r
    BY <1>2, <1>3, <1>4, <2>2, <2>3, <2>5 DEF Shape
  <2>7. k \in Int /\ r \in Int
    BY <1>6 DEF KeptRows
  <2> QED
    BY <2>2, <2>6, <2>7
<1>8. r \in LastKeptBefore(s)
  BY <1>6, <1>7 DEF LastKeptBefore
<1>9. out'[1] = gpsData[i + 2] /\ out'[2] = gpsData[i + 1]
  BY <1>1
<1>10. out'[2][2] \in LastKeptBefore(out[1][2])'
  BY <1>1, <1>5, <1>8, <1>9 DEF LastKeptBefore, KeptRows
<1> QED
  BY <1>5, <1>9, <1>10 DEF PositionWithPriorReading

(* Only Parse changes the list, and only SendPair what was sent. *)
LEMMA StepReplay == ReplayInv /\ [Next]_vars => ReplayInv'
<1> SUFFICES ASSUME ReplayInv, [Next]_vars PROVE ReplayInv'
  OBVIOUS
<1>1. CASE Parse
  BY <1>1, ParseStep
<1>2. ASSUME UNCHANGED <<rows, gpsData>>, (pc' = pc) \/ (pc' = "dead"), TypeOK',
             PositionWithPriorReading',
             pc' = "parse" => gpsDataIndex' = gpsDataIndex /\ out' = out
      PROVE  ReplayInv'
  <2>1. KeptMoreThanASecondApart'
    BY <1>2, SMTT(30) DEF ReplayInv, KeptMoreThanASecondApart, KeptRows, LastKeptBefore
  <2>2. Shape(gpsData)'
    BY <1>2 DEF ReplayInv, Shape
  <2> QED
    BY <1>2, <2>1, <2>2 DEF ReplayInv
<1>3. ASSUME UNCHANGED <<rows, gpsData>>, out' = out \/ out' = <<>>
      PROVE  PositionWithPriorReading'
  <2>1. CASE out' = <<>>
    BY <2>1 DEF PositionWithPriorReading
  <2>2. CASE out' = out
    BY <1>3, <2>2 DEF ReplayInv, PositionWithPriorReading, KeptRows, LastKeptBefore
  <2> QED
    BY <1>3, <2>1, <2>2
<1>4. CASE ParseFails
  <2>1. TypeOK'
    BY <1>4 DEF ParseFails, ReplayInv, TypeOK, gpsDataLength
  <2> QED
    BY <1>2, <1>3, <1>4, <2>1 DEF ParseFails
<1>5. CASE Tick
  <2>1. TypeOK'
    BY <1>5 DEF Tick, ReplayInv, TypeOK, gpsDataLength
  <2> QED
    BY <1>2, <1>3, <1>5, <2>1 DEF Tick
<1>6. CASE SendPair
  <2>1. TypeOK'
    <3>1. /\ Len(gpsData) \in Nat /\ gpsDataIndex \in 1 .. Len(gpsData) + 1
          /\ gpsDataIndex % 2 = 1 /\ gpsDataIndex < Len(gpsData) - 1
          /\ gpsDataIndex' = gpsDataIndex + 2 /\ gpsData' = gpsData
      BY <1>6 DEF SendPair, ReplayInv, TypeOK, gpsDataLength
    <3>2. /\ gpsDataIndex' \in 1 .. Len(gpsData') + 1 /\ gpsDataIndex' % 2 = 1
          /\ gpsDataIndex' < Len(gpsData') - 1
               => gpsDataIndex' + 1 \in 0 .. Len(gpsData') - 1
      BY <3>1
    <3> QED
      BY <1>6, <3>2 DEF SendPair, ReplayInv, TypeOK, gpsDataLength
  <2>2. PositionWithPriorReading'
    BY <1>6, SendStep
  <2> QED
    BY <1>2, <1>6, <2>1, <2>2 DEF SendPair
<1>7. CASE Rewind
  <2>1. TypeOK'
    <3>1. Len(gpsData) \in Nat
      BY DEF ReplayInv, TypeOK
    <3> QED
      BY <1>7, <3>1 DEF Rewind, ReplayInv, TypeOK, gpsDataLength
  <2> QED
    BY <1>2, <1>3, <1>7, <2>1 DEF Rewind
<1>8. CASE UNCHANGED vars
  <2>1. TypeOK'
    BY <1>8 DEF vars, ReplayInv, TypeOK, gpsDataLength
  <2> QED
    BY <1>2, <1>3, <1>8, <2>1 DEF vars
<1> QED
  BY <1>1, <1>4, <1>5, <1>6, <1>7, <1>8 DEF Next

(* Whatever RockSimParcer reads and however long RockSimRXTX replays it, the
   invariant holds. *)
THEOREM ReplayInvariant == Spec => []ReplayInv
<1> QED
  BY InitReplay, StepReplay, PTL DEF Spec

(* RockSimRXTX's index stays odd and inside the list, whatever the length of
   the file and wherever convertToGPS was cut short. *)
THEOREM IndexStaysInTheList == Spec => []TypeOK
<1>1. ReplayInv => TypeOK
  BY DEF ReplayInv
<1> QED
  BY <1>1, ReplayInvariant, PTL

(* readStringAsListOfElements keeps a row exactly when it is more than a
   second later than the last one kept, for any file. *)
THEOREM FilterKeepsASecond == Spec => []KeptMoreThanASecondApart
<1>1. ReplayInv => KeptMoreThanASecondApart
  BY DEF ReplayInv
<1> QED
  BY <1>1, ReplayInvariant, PTL

(* Whatever pair RockSimRXTX sends, the reading is that of the kept row just
   before the position's. *)
THEOREM PairsAreNeighbours == Spec => []PositionWithPriorReading
<1>1. ReplayInv => PositionWithPriorReading
  BY DEF ReplayInv
<1> QED
  BY <1>1, ReplayInvariant, PTL
=============================================================================
