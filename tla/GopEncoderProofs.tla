-------------------------- MODULE GopEncoderProofs --------------------------
(***************************************************************************)
(* What the GOP encoder guarantees for every number of pictures, picture   *)
(* encoders and temporal layers.                                           *)
(***************************************************************************)
EXTENDS GopEncoder, ListProofs, FiniteSetTheorems

-----------------------------------------------------------------------------
(* The coding order.                                                       *)

LEMMA DivisionTheorem ==
  ASSUME NEW x \in Nat, NEW n \in Nat \ {0}
  PROVE  x \div n \in Nat /\ x % n \in 0 .. n - 1 /\ x = n * (x \div n) + (x % n)
OBVIOUS

(* The next GOP begins a whole GOP later. *)
LEMMA LaterGop ==
  ASSUME NEW n \in Nat \ {0}, NEW g \in Nat, NEW h \in Nat, g < h
  PROVE  g * n + n <= h * n
<1>1. PICK d \in Nat : h = g + 1 + d
  <2>1. h - g - 1 \in Nat /\ h = g + 1 + (h - g - 1)
    OBVIOUS
  <2>2. QED BY <2>1
<1>2. h * n = g * n + n + d * n /\ d * n \in Nat
  BY <1>1
<1>3. g * n \in Nat
  OBVIOUS
<1>4. QED BY <1>2, <1>3

(* The pictures that follow a separate picture 0, counted from 0. *)
Place(poc) == IF Poc0Idr THEN poc - 1 ELSE poc

LEMMA EntryIs ==
  ASSUME NEW poc \in Nat, ~IsLeading0(poc)
  PROVE  /\ Place(poc) \in Nat
         /\ GopNum(poc) = Place(poc) \div GopSize /\ GopNum(poc) \in Nat
         /\ PocInGop(poc) = (Place(poc) % GopSize) + 1
         /\ EntryOf(poc) \in 1 .. GopSize /\ GopOrder[EntryOf(poc)] = PocInGop(poc)
<1>1. Place(poc) \in Nat
  BY GopAssumption DEF IsLeading0, Place
<1>2. GopSize \in Nat \ {0}
  BY GopAssumption
<1>3. Place(poc) \div GopSize \in Nat /\ Place(poc) % GopSize \in 0 .. GopSize - 1
  BY <1>1, <1>2, DivisionTheorem
<1>4. GopNum(poc) = Place(poc) \div GopSize
  BY DEF GopNum, Place
<1>5. PocInGop(poc) = (Place(poc) % GopSize) + 1
  BY DEF PocInGop, Place
<1>6. PocInGop(poc) \in {GopOrder[i] : i \in 1 .. GopSize}
  <2>1. PocInGop(poc) \in 1 .. GopSize
    BY <1>2, <1>3, <1>5
  <2>2. QED BY <2>1, GopAssumption
<1>7. \E i \in 1 .. GopSize : GopOrder[i] = PocInGop(poc)
  BY <1>6
<1>8. EntryOf(poc) \in 1 .. GopSize /\ GopOrder[EntryOf(poc)] = PocInGop(poc)
  BY <1>7, Zenon DEF EntryOf
<1>9. QED BY <1>1, <1>3, <1>4, <1>5, <1>8

First == IF Poc0Idr THEN 1 ELSE 0

LEMMA NumberIs ==
  ASSUME NEW poc \in Nat, ~IsLeading0(poc)
  PROVE  CodingNum(poc) = First + GopNum(poc) * GopSize + EntryOf(poc) - 1
BY DEF CodingNum, First

LEMMA NumbersAreNumbers ==
  ASSUME NEW p \in Pocs
  PROVE  CodingNums[p] \in Nat /\ (IsLeading0(p) => CodingNums[p] = 0)
                               /\ (~IsLeading0(p) => CodingNums[p] >= First)
<1>1. p \in Nat /\ CodingNums[p] = CodingNum(p)
  BY LayersAssumption DEF Pocs, CodingNums
<1>2. CASE IsLeading0(p)
  BY <1>1, <1>2 DEF CodingNum, IsLeading0
<1>3. CASE ~IsLeading0(p)
  <2>1. GopSize \in Nat \ {0} /\ GopNum(p) \in Nat /\ EntryOf(p) \in 1 .. GopSize
    BY <1>1, <1>3, EntryIs, GopAssumption
  <2>2. GopNum(p) * GopSize \in Nat /\ First \in Nat
    BY <2>1 DEF First
  <2>3. CodingNum(p) = First + GopNum(p) * GopSize + EntryOf(p) - 1
    BY <1>1, <1>3, NumberIs
  <2> HIDE DEF First
  <2>4. QED BY <1>1, <1>3, <2>1, <2>2, <2>3
<1>4. QED BY <1>2, <1>3

(* GOPs follow each other in the coding order. *)
LEMMA GopsInOrder ==
  ASSUME NEW p \in Pocs, NEW q \in Pocs, GopNums[p] < GopNums[q]
  PROVE  CodingNums[p] < CodingNums[q]
<1>1. /\ p \in Nat /\ CodingNums[p] = CodingNum(p) /\ GopNums[p] = GopNum(p)
      /\ q \in Nat /\ CodingNums[q] = CodingNum(q) /\ GopNums[q] = GopNum(q)
  BY LayersAssumption DEF Pocs, CodingNums, GopNums
<1>2. GopSize \in Nat \ {0}
  BY GopAssumption
<1>3. ~IsLeading0(q)
  <2>1. CASE IsLeading0(q)
    <3>1. GopNum(q) = 0
      BY <2>1 DEF GopNum
    <3>2. GopNum(p) \in Nat
      BY <1>1, EntryIs DEF GopNum
    <3>3. QED BY <1>1, <3>1, <3>2
  <2>2. QED BY <2>1
<1>4. GopNum(q) \in Nat /\ EntryOf(q) \in 1 .. GopSize
      /\ CodingNum(q) = First + GopNum(q) * GopSize + EntryOf(q) - 1
  BY <1>1, <1>3, EntryIs, NumberIs
<1>5. First \in Nat
  BY DEF First
<1>6. CASE IsLeading0(p)
  <2>1. GopNum(p) = 0 /\ CodingNum(p) = 0 /\ First = 1
    BY <1>1, <1>6 DEF IsLeading0, GopNum, CodingNum, First
  <2>2. 0 * GopSize + GopSize <= GopNum(q) * GopSize
    BY <1>1, <1>2, <1>4, <2>1, LaterGop
  <2>3. GopNum(q) * GopSize \in Nat
    BY <1>2, <1>4
  <2>4. QED BY <1>1, <1>2, <1>4, <2>1, <2>3
<1>7. CASE ~IsLeading0(p)
  <2>1. GopNum(p) \in Nat /\ EntryOf(p) \in 1 .. GopSize
        /\ CodingNum(p) = First + GopNum(p) * GopSize + EntryOf(p) - 1
    BY <1>1, <1>7, EntryIs, NumberIs
  <2>2. GopNum(p) * GopSize + GopSize <= GopNum(q) * GopSize
    BY <1>1, <1>2, <1>4, <2>1, LaterGop
  <2>3. GopNum(p) * GopSize \in Nat /\ GopNum(q) * GopSize \in Nat
    BY <1>2, <1>4, <2>1
  <2>4. QED BY <1>1, <1>2, <1>4, <1>5, <2>1, <2>2, <2>3
<1>8. QED BY <1>6, <1>7

(* No two pictures have the same number. *)
LEMMA NumbersDiffer ==
  ASSUME NEW p \in Pocs, NEW q \in Pocs, CodingNums[p] = CodingNums[q]
  PROVE  p = q
<1>1. /\ p \in Nat /\ CodingNums[p] = CodingNum(p) /\ GopNums[p] = GopNum(p)
      /\ q \in Nat /\ CodingNums[q] = CodingNum(q) /\ GopNums[q] = GopNum(q)
  BY LayersAssumption DEF Pocs, CodingNums, GopNums
<1>2. GopSize \in Nat \ {0}
  BY GopAssumption
<1>3. CASE IsLeading0(p) \/ IsLeading0(q)
  <2>1. First = 1
    BY <1>3 DEF IsLeading0, First
  <2>2. IsLeading0(p) /\ IsLeading0(q)
    BY <1>3, <2>1, NumbersAreNumbers
  <2>3. QED BY <2>2 DEF IsLeading0
<1>4. CASE ~IsLeading0(p) /\ ~IsLeading0(q)
  <2>1. /\ GopNum(p) \in Nat /\ EntryOf(p) \in 1 .. GopSize
        /\ CodingNum(p) = First + GopNum(p) * GopSize + EntryOf(p) - 1
        /\ GopNum(q) \in Nat /\ EntryOf(q) \in 1 .. GopSize
        /\ CodingNum(q) = First + GopNum(q) * GopSize + EntryOf(q) - 1
    BY <1>1, <1>4, EntryIs, NumberIs
  <2>2. GopNum(p) = GopNum(q)
    <3>1. CodingNums[p] \in Nat /\ CodingNums[q] \in Nat
      BY NumbersAreNumbers
    <3>2. ~(CodingNums[p] < CodingNums[q]) /\ ~(CodingNums[q] < CodingNums[p])
      BY <3>1
    <3>3. ~(GopNums[p] < GopNums[q]) /\ ~(GopNums[q] < GopNums[p])
      BY <3>2, GopsInOrder
    <3>4. QED BY <1>1, <2>1, <3>3
  <2>3. EntryOf(p) = EntryOf(q)
    <3>1. GopNum(p) * GopSize \in Nat /\ First \in Nat
      BY <1>2, <2>1 DEF First
    <3>2. EntryOf(p) \in Int /\ EntryOf(q) \in Int
      BY <2>1
    <3>3. First + GopNum(p) * GopSize + EntryOf(p) - 1
            = First + GopNum(p) * GopSize + EntryOf(q) - 1
      BY <1>1, <2>1, <2>2
    <3> HIDE DEF First
    <3>4. QED BY <3>1, <3>2, <3>3
  <2>4. PocInGop(p) = PocInGop(q)
    BY <1>1, <1>4, <2>3, EntryIs
  <2>5. /\ Place(p) \in Nat /\ Place(p) = GopSize * (Place(p) \div GopSize) + (Place(p) % GopSize)
        /\ Place(q) \in Nat /\ Place(q) = GopSize * (Place(q) \div GopSize) + (Place(q) % GopSize)
        /\ Place(p) % GopSize \in Int /\ Place(q) % GopSize \in Int
    <3>1. Place(p) \in Nat /\ Place(q) \in Nat
      BY <1>1, <1>4, EntryIs
    <3>2. /\ Place(p) = GopSize * (Place(p) \div GopSize) + (Place(p) % GopSize)
          /\ Place(p) % GopSize \in 0 .. GopSize - 1
      BY <1>2, <3>1, DivisionTheorem
    <3>3. /\ Place(q) = GopSize * (Place(q) \div GopSize) + (Place(q) % GopSize)
          /\ Place(q) % GopSize \in 0 .. GopSize - 1
      BY <1>2, <3>1, DivisionTheorem
    <3>4. QED BY <3>1, <3>2, <3>3
  <2>6. Place(p) \div GopSize = Place(q) \div GopSize
    BY <1>1, <1>4, <2>2, EntryIs
  <2>7. Place(p) % GopSize = Place(q) % GopSize
    <3>1. PocInGop(p) = (Place(p) % GopSize) + 1 /\ PocInGop(q) = (Place(q) % GopSize) + 1
      BY <1>1, <1>4, EntryIs
    <3>2. \A x, y \in Int : x + 1 = y + 1 => x = y
      OBVIOUS
    <3>3. QED BY <2>4, <2>5, <3>1, <3>2, Zenon
  <2>8. Place(p) = Place(q)
    BY <2>5, <2>6, <2>7, Zenon
  <2>9. QED BY <1>1, <2>8, GopAssumption DEF Place
<1>5. QED BY <1>3, <1>4

-----------------------------------------------------------------------------
(* Lists in coding order.                                                  *)

(* No picture is in a list twice, the list is in coding order, and what is *)
(* in one list comes before what is in another.                            *)
Distinct(list) == \A i, j \in DOMAIN list : i # j => list[i] # list[j]

Sorted(list) == \A i, j \in DOMAIN list : i < j => CodingNums[list[i]] < CodingNums[list[j]]

Precedes(list, other) ==
  \A i \in DOMAIN list, j \in DOMAIN other : CodingNums[list[i]] < CodingNums[other[j]]

LEMMA SortedIsDistinct ==
  ASSUME NEW list \in Seq(Pocs), Sorted(list)
  PROVE  Distinct(list)
<1> SUFFICES ASSUME NEW i \in DOMAIN list, NEW j \in DOMAIN list, i # j
             PROVE  list[i] # list[j]
  BY DEF Distinct
<1>1. i \in Nat /\ j \in Nat /\ list[i] \in Pocs /\ list[j] \in Pocs
  OBVIOUS
<1>2. CodingNums[list[i]] \in Nat /\ CodingNums[list[j]] \in Nat
  BY <1>1, NumbersAreNumbers
<1>3. i < j \/ j < i
  BY <1>1
<1>4. CodingNums[list[i]] < CodingNums[list[j]] \/ CodingNums[list[j]] < CodingNums[list[i]]
  BY <1>3 DEF Sorted
<1>5. QED BY <1>2, <1>4

LEMMA JoinSet ==
  ASSUME NEW s \in Seq(Pocs), NEW t \in Seq(Pocs)
  PROVE  s \o t \in Seq(Pocs) /\ ToSet(s \o t) = ToSet(s) \union ToSet(t)
<1>1. /\ s \o t \in Seq(Pocs) /\ Len(s \o t) = Len(s) + Len(t)
      /\ \A i \in 1 .. Len(s) : (s \o t)[i] = s[i]
      /\ \A i \in 1 .. Len(t) : (s \o t)[i + Len(s)] = t[i]
  OBVIOUS
<1>2. DOMAIN s = 1 .. Len(s) /\ DOMAIN t = 1 .. Len(t) /\ DOMAIN (s \o t) = 1 .. Len(s) + Len(t)
      /\ Len(s) \in Nat /\ Len(t) \in Nat
  BY <1>1
<1>3. \A i \in 1 .. Len(s) + Len(t) :
        i \in 1 .. Len(s) \/ (i - Len(s) \in 1 .. Len(t) /\ i = (i - Len(s)) + Len(s))
  BY <1>2
<1>4. /\ \A i \in 1 .. Len(s) : i \in 1 .. Len(s) + Len(t)
      /\ \A i \in 1 .. Len(t) : i + Len(s) \in 1 .. Len(s) + Len(t)
  BY <1>2
<1>5. ToSet(s \o t) = {(s \o t)[i] : i \in 1 .. Len(s) + Len(t)}
      /\ ToSet(s) = {s[i] : i \in 1 .. Len(s)} /\ ToSet(t) = {t[i] : i \in 1 .. Len(t)}
  BY <1>2, Zenon DEF ToSet
<1> DEFINE m == Len(s)
           n == Len(t)
           j == s \o t
<1> HIDE DEF m, n, j
<1>6. ASSUME NEW x
      PROVE  x \in ToSet(s \o t) <=> x \in ToSet(s) \/ x \in ToSet(t)
  <2>1. ASSUME NEW i \in 1 .. Len(s) + Len(t)
        PROVE  (s \o t)[i] \in ToSet(s) \/ (s \o t)[i] \in ToSet(t)
    <3>1. CASE i \in 1 .. Len(s)
      BY <1>1, <1>5, <3>1
    <3>2. CASE i - Len(s) \in 1 .. Len(t) /\ i = (i - Len(s)) + Len(s)
      <4>1. (s \o t)[i] = t[i - Len(s)]
        BY <1>1, <3>2
      <4>2. QED BY <1>5, <3>2, <4>1
    <3>3. QED BY <1>3, <3>1, <3>2
  <2>2. \A i \in 1 .. Len(s) : s[i] \in ToSet(s \o t)
    BY <1>1, <1>4, <1>5
  <2>3. \A i \in 1 .. Len(t) : t[i] \in ToSet(s \o t)
    BY <1>1, <1>4, <1>5
  <2>4. QED BY <1>5, <2>1, <2>2, <2>3, Zenon
<1>7. QED BY <1>1, <1>6, Zenon

LEMMA JoinSorted ==
  ASSUME NEW s \in Seq(Pocs), NEW t \in Seq(Pocs), Sorted(s), Sorted(t), Precedes(s, t)
  PROVE  Sorted(s \o t)
<1> SUFFICES ASSUME NEW i \in DOMAIN (s \o t), NEW j \in DOMAIN (s \o t), i < j
             PROVE  CodingNums[(s \o t)[i]] < CodingNums[(s \o t)[j]]
  BY DEF Sorted
<1>1. /\ DOMAIN s = 1 .. Len(s) /\ DOMAIN t = 1 .. Len(t) /\ i \in 1 .. Len(s) + Len(t)
      /\ j \in 1 .. Len(s) + Len(t) /\ Len(s) \in Nat /\ Len(t) \in Nat
  OBVIOUS
<1>2. /\ \A k \in 1 .. Len(s) : (s \o t)[k] = s[k]
      /\ \A k \in 1 .. Len(t) : (s \o t)[k + Len(s)] = t[k]
  OBVIOUS
<1>3. CASE i \in 1 .. Len(s) /\ j \in 1 .. Len(s)
  BY <1>1, <1>2, <1>3 DEF Sorted
<1>4. CASE i \in 1 .. Len(s) /\ j - Len(s) \in 1 .. Len(t) /\ j = (j - Len(s)) + Len(s)
  <2>1. (s \o t)[j] = t[j - Len(s)]
    BY <1>2, <1>4
  <2>2. QED BY <1>1, <1>2, <1>4, <2>1 DEF Precedes
<1>5. CASE /\ i - Len(s) \in 1 .. Len(t) /\ i = (i - Len(s)) + Len(s)
           /\ j - Len(s) \in 1 .. Len(t) /\ j = (j - Len(s)) + Len(s)
  <2>1. (s \o t)[j] = t[j - Len(s)] /\ (s \o t)[i] = t[i - Len(s)]
    BY <1>2, <1>5
  <2>2. i - Len(s) < j - Len(s)
    BY <1>1
  <2>3. QED BY <1>1, <1>5, <2>1, <2>2 DEF Sorted
<1>6. \/ i \in 1 .. Len(s) /\ j \in 1 .. Len(s)
      \/ i \in 1 .. Len(s) /\ j - Len(s) \in 1 .. Len(t) /\ j = (j - Len(s)) + Len(s)
      \/ /\ i - Len(s) \in 1 .. Len(t) /\ i = (i - Len(s)) + Len(s)
         /\ j - Len(s) \in 1 .. Len(t) /\ j = (j - Len(s)) + Len(s)
  BY <1>1
<1>7. QED BY <1>3, <1>4, <1>5, <1>6

(* What Keep does to a list. *)
LEMMA KeepSet ==
  ASSUME NEW list \in Seq(Pocs), NEW set
  PROVE  Keep(list, set) \in Seq(Pocs) /\ ToSet(Keep(list, set)) = ToSet(list) \intersect set
<1>1. KeptOf(Pocs, Keep(list, set), list, set, Len(list))
  BY KeepIs
<1> DEFINE kept == Keep(list, set)
<1> HIDE DEF kept
<1>2. DOMAIN list = 1 .. Len(list)
  OBVIOUS
<1>3. KeptOf(Pocs, kept, list, set, Len(list))
  BY <1>1 DEF kept
<1>4. ToSet(kept) = ToSet(list) \intersect set
  <2>1. \A i \in DOMAIN kept : \E a \in DOMAIN list : kept[i] = list[a] /\ list[a] \in set
    BY <1>2, <1>3 DEF KeptOf
  <2>2. \A a \in DOMAIN list : list[a] \in set => \E i \in DOMAIN kept : kept[i] = list[a]
    BY <1>2, <1>3 DEF KeptOf
  <2>3. /\ \A x : x \in ToSet(kept) <=> \E i \in DOMAIN kept : x = kept[i]
        /\ \A x : x \in ToSet(list) <=> \E a \in DOMAIN list : x = list[a]
    BY InToSet
  <2>4. QED BY <2>1, <2>2, <2>3
<1>5. kept \in Seq(Pocs)
  BY <1>3 DEF KeptOf
<1>6. QED BY <1>4, <1>5 DEF kept

LEMMA KeepSorted ==
  ASSUME NEW list \in Seq(Pocs), NEW set
  PROVE  /\ Sorted(list) => Sorted(Keep(list, set))
         /\ Distinct(list) => Distinct(Keep(list, set))
<1> DEFINE kept == Keep(list, set)
<1>1. KeptOf(Pocs, kept, list, set, Len(list))
  BY KeepIs
<1> HIDE DEF kept
<1>2. DOMAIN list = 1 .. Len(list) /\ DOMAIN kept \subseteq Nat
  BY <1>1 DEF KeptOf
<1>3. \A i, j \in DOMAIN kept : i < j =>
        \E a, b \in DOMAIN list : a < b /\ kept[i] = list[a] /\ kept[j] = list[b]
  <2>1. InOrderOf(kept, list, Len(list))
    BY <1>1 DEF KeptOf
  <2>2. QED BY <1>2, <2>1 DEF InOrderOf
<1>4. ASSUME Sorted(list) PROVE Sorted(kept)
  BY <1>3, <1>4, ZenonT(60) DEF Sorted
<1>5. ASSUME Distinct(list) PROVE Distinct(kept)
  <2>1. \A a, b \in DOMAIN list : a < b => list[a] # list[b]
    BY <1>2, <1>5 DEF Distinct
  <2>2. \A i, j \in DOMAIN kept : i < j => kept[i] # kept[j]
    BY <1>3, <2>1
  <2>3. \A i, j \in DOMAIN kept : i # j => i < j \/ j < i
    BY <1>2
  <2>4. QED BY <2>2, <2>3, Zenon DEF Distinct
<1>6. QED BY <1>4, <1>5 DEF kept

LEMMA PrecedesIs ==
  ASSUME NEW s, NEW t
  PROVE  Precedes(s, t) <=> \A x \in ToSet(s), y \in ToSet(t) : CodingNums[x] < CodingNums[y]
<1>1. /\ \A x : x \in ToSet(s) <=> \E i \in DOMAIN s : x = s[i]
      /\ \A x : x \in ToSet(t) <=> \E i \in DOMAIN t : x = t[i]
  BY InToSet
<1>2. ASSUME Precedes(s, t), NEW x \in ToSet(s), NEW y \in ToSet(t)
      PROVE  CodingNums[x] < CodingNums[y]
  <2>1. PICK i \in DOMAIN s : x = s[i]
    BY <1>1
  <2>2. PICK j \in DOMAIN t : y = t[j]
    BY <1>1
  <2>3. QED BY <1>2, <2>1, <2>2, Zenon DEF Precedes
<1>3. ASSUME \A x \in ToSet(s), y \in ToSet(t) : CodingNums[x] < CodingNums[y],
             NEW i \in DOMAIN s, NEW j \in DOMAIN t
      PROVE  CodingNums[s[i]] < CodingNums[t[j]]
  <2>1. s[i] \in ToSet(s) /\ t[j] \in ToSet(t)
    BY <1>1, Zenon
  <2>2. QED BY <1>3, <2>1, Zenon
<1>4. QED BY <1>2, <1>3 DEF Precedes

LEMMA OneElement ==
  ASSUME NEW p \in Pocs
  PROVE  <<p>> \in Seq(Pocs) /\ ToSet(<<p>>) = {p} /\ Sorted(<<p>>)
<1>1. <<p>> \in Seq(Pocs) /\ DOMAIN <<p>> = {1} /\ <<p>>[1] = p
  OBVIOUS
<1>2. \A x : x \in ToSet(<<p>>) <=> \E i \in DOMAIN <<p>> : x = <<p>>[i]
  BY InToSet
<1>3. ToSet(<<p>>) = {p}
  BY <1>1, <1>2
<1>4. \A i, j \in {1} : ~(i < j)
  OBVIOUS
<1>5. QED BY <1>1, <1>3, <1>4, Zenon DEF Sorted

(* A picture is inserted at its place. *)
LEMMA InsertedIs ==
  ASSUME NEW list \in Seq(Pocs), Sorted(list), NEW p \in Pocs, p \notin ToSet(list)
  PROVE  /\ Inserted(list, p) \in Seq(Pocs) /\ Sorted(Inserted(list, p))
         /\ ToSet(Inserted(list, p)) = ToSet(list) \union {p}
<1> DEFINE before == CodedBefore(p)
           k1 == Keep(list, before)
           k2 == Keep(list, Pocs \ before)
<1>1. /\ k1 \in Seq(Pocs) /\ Sorted(k1) /\ ToSet(k1) = ToSet(list) \intersect before
      /\ k2 \in Seq(Pocs) /\ Sorted(k2) /\ ToSet(k2) = ToSet(list) \intersect (Pocs \ before)
  BY KeepSet, KeepSorted
<1>2. <<p>> \in Seq(Pocs) /\ ToSet(<<p>>) = {p} /\ Sorted(<<p>>)
  BY OneElement
<1>3. Inserted(list, p) = Append(k1, p) \o k2
  BY DEF Inserted
<1>4. Append(k1, p) = k1 \o <<p>>
  <2> HIDE DEF k1
  <2>1. QED BY <1>1
<1>5. ToSet(list) \subseteq Pocs
  BY DEF ToSet
<1>6. \A x \in Pocs : x \in before <=> CodingNums[x] < CodingNums[p]
  BY DEF CodedBefore
<1>7. \A x \in Pocs : CodingNums[x] \in Nat
  BY NumbersAreNumbers
<1>8. \A x \in Pocs : x \notin before /\ x # p => CodingNums[p] < CodingNums[x]
  BY <1>6, <1>7, NumbersDiffer
<1> HIDE DEF k1, k2, before
<1> DEFINE k == k1 \o <<p>>
<1>9. Precedes(k1, <<p>>)
  BY <1>1, <1>2, <1>5, <1>6, PrecedesIs
<1>10. k \in Seq(Pocs) /\ Sorted(k) /\ ToSet(k) = (ToSet(list) \intersect before) \union {p}
  <2>1. k \in Seq(Pocs) /\ ToSet(k) = ToSet(k1) \union ToSet(<<p>>)
    BY <1>1, <1>2, JoinSet
  <2>2. Sorted(k)
    BY <1>1, <1>2, <1>9, JoinSorted
  <2> HIDE DEF k
  <2>3. QED BY <1>1, <1>2, <2>1, <2>2
<1> HIDE DEF k
<1>11. Precedes(k, k2)
  <2>1. ASSUME NEW x \in ToSet(k), NEW y \in ToSet(k2)
        PROVE  CodingNums[x] < CodingNums[y]
    <3>1. y \in Pocs /\ y # p /\ y \notin before
      BY <1>1, <1>5
    <3>2. CodingNums[p] < CodingNums[y]
      BY <1>8, <3>1
    <3>3. x = p \/ (x \in Pocs /\ CodingNums[x] < CodingNums[p])
      BY <1>5, <1>6, <1>10
    <3>4. QED BY <1>7, <3>1, <3>2, <3>3
  <2>2. QED BY <2>1, PrecedesIs
<1>12. /\ k \o k2 \in Seq(Pocs) /\ Sorted(k \o k2)
       /\ ToSet(k \o k2) = ToSet(list) \union {p}
  BY <1>1, <1>5, <1>10, <1>11, JoinSet, JoinSorted
<1>13. Inserted(list, p) = k \o k2
  BY <1>3, <1>4 DEF k
<1>14. QED BY <1>12, <1>13

InsertStep == [x \in Seq(Pocs) \X Pocs |-> Inserted(x[1], x[2])]

(* The coding order has every picture, in the order of the numbers. *)
LEMMA CodingOrderIs ==
  CodingOrder \in Seq(Pocs) /\ ToSet(CodingOrder) = Pocs /\ Sorted(CodingOrder)
<1> DEFINE n == LastPoc + 1
           s == [i \in 1 .. n |-> i - 1]
           IsOrder(h) == h = [i \in 0 .. n |-> IF i = 0 THEN <<>> ELSE Inserted(h[i - 1], i - 1)]
<1>1. n \in Nat /\ s \in [1 .. n -> Pocs] /\ <<>> \in Seq(Pocs)
  BY LayersAssumption DEF Pocs
<1>2. InsertStep \in [Seq(Pocs) \X Pocs -> Seq(Pocs)]
  <2>1. \A x \in Seq(Pocs) \X Pocs : Inserted(x[1], x[2]) \in Seq(Pocs)
    <3> SUFFICES ASSUME NEW list \in Seq(Pocs), NEW p \in Pocs
                 PROVE  Inserted(list, p) \in Seq(Pocs)
      OBVIOUS
    <3>1. Keep(list, CodedBefore(p)) \in Seq(Pocs) /\ Keep(list, Pocs \ CodedBefore(p)) \in Seq(Pocs)
      BY KeepSet
    <3>2. Append(Keep(list, CodedBefore(p)), p) \in Seq(Pocs)
      BY <3>1
    <3>3. QED BY <3>1, <3>2, JoinSet DEF Inserted
  <2>2. QED BY <2>1 DEF InsertStep
<1>3. PICK g \in [0 .. n -> Seq(Pocs)] : IsRun(g, <<>>, InsertStep, s, n)
  <2> HIDE DEF n, s
  <2>1. QED BY <1>1, <1>2, RunExists
<1>4. g[0] = <<>> /\ \A i \in 1 .. n : g[i] = Inserted(g[i - 1], i - 1)
  <2>1. ASSUME NEW i \in 1 .. n PROVE g[i] = Inserted(g[i - 1], i - 1)
    <3>1. g[i - 1] \in Seq(Pocs) /\ i - 1 \in Pocs /\ s[i] = i - 1
      BY <1>1, <1>3 DEF Pocs
    <3>2. g[i] = InsertStep[<<g[i - 1], i - 1>>]
      BY <1>3, <3>1 DEF IsRun
    <3>3. QED BY <3>1, <3>2 DEF InsertStep
  <2>2. QED BY <1>3, <2>1 DEF IsRun
<1>5. IsOrder(g)
  <2>1. \A i \in 0 .. n : i # 0 => i \in 1 .. n
    BY <1>1
  <2>2. \A i \in 0 .. n : g[i] = IF i = 0 THEN <<>> ELSE Inserted(g[i - 1], i - 1)
    BY <1>4, <2>1
  <2>3. g = [i \in 0 .. n |-> g[i]]
    BY <1>3
  <2>4. QED BY <2>2, <2>3
<1> DEFINE f == CHOOSE h : IsOrder(h)
<1>6. IsOrder(f)
  <2> HIDE DEF IsOrder
  <2>1. QED BY <1>5, Zenon
<1>7. CodingOrder = f[n]
  BY Zenon DEF CodingOrder
<1>8. f[0] = <<>> /\ \A i \in 1 .. n : f[i] = Inserted(f[i - 1], i - 1)
  <2>1. f = [i \in 0 .. n |-> IF i = 0 THEN <<>> ELSE Inserted(f[i - 1], i - 1)]
    BY <1>6
  <2>2. \A i \in 1 .. n : i \in 0 .. n /\ i # 0
    BY <1>1
  <2>3. 0 \in 0 .. n
    BY <1>1
  <2> HIDE DEF f
  <2>4. QED BY <2>1, <2>2, <2>3
<1> DEFINE G == {m \in 0 .. n : /\ f[m] \in Seq(Pocs) /\ Sorted(f[m])
                                /\ ToSet(f[m]) = {p \in Pocs : p < m}}
<1> HIDE DEF f, IsOrder
<1>9. 0 \in G
  <2>1. Sorted(<<>>) /\ ToSet(<<>>) = {}
    BY DEF Sorted, ToSet
  <2>2. {p \in Pocs : p < 0} = {}
    BY DEF Pocs
  <2>3. 0 \in 0 .. n
    BY <1>1
  <2>4. f[0] \in Seq(Pocs) /\ Sorted(f[0]) /\ ToSet(f[0]) = {p \in Pocs : p < 0}
    BY <1>1, <1>8, <2>1, <2>2, Zenon
  <2> HIDE DEF n
  <2>5. QED BY <2>3, <2>4
<1>10. ASSUME NEW m \in 1 .. n, m - 1 \in G
       PROVE  m \in G
  <2>1. /\ f[m - 1] \in Seq(Pocs) /\ Sorted(f[m - 1])
        /\ ToSet(f[m - 1]) = {p \in Pocs : p < m - 1}
    BY <1>10
  <2>2. m - 1 \in Pocs /\ m - 1 \notin ToSet(f[m - 1]) /\ m \in 0 .. n
    BY <1>1, <2>1 DEF Pocs
  <2>3. f[m] = Inserted(f[m - 1], m - 1)
    BY <1>8
  <2>4. /\ f[m] \in Seq(Pocs) /\ Sorted(f[m])
        /\ ToSet(f[m]) = {p \in Pocs : p < m - 1} \union {m - 1}
    BY <2>1, <2>2, <2>3, InsertedIs
  <2>5. {p \in Pocs : p < m - 1} \union {m - 1} = {p \in Pocs : p < m}
    BY <2>2 DEF Pocs
  <2>6. QED BY <2>2, <2>4, <2>5
<1> HIDE DEF G
<1>11. \A m \in 1 .. n : m - 1 \in G => m \in G
  BY <1>10
<1>12. 0 .. n \subseteq G
  <2> HIDE DEF n
  <2>1. QED BY <1>1, <1>9, <1>11, Upwards
<1>13. n \in G
  BY <1>1, <1>12
<1>14. {p \in Pocs : p < n} = Pocs
  BY LayersAssumption DEF Pocs
<1>15. QED BY <1>7, <1>13, <1>14 DEF G

(* Reordered takes pictures from the input, and with IFP one whose         *)
(* references were taken before it or are listed already.                  *)
TakenUpTo(taken, i) == {q \in taken : \E j \in 1 .. i - 1 : q = input[j]}

TakenInOrder(taken, m) ==
  \A p \in taken : \E i \in 1 .. m : p = input[i] /\ CanFollow(p, listed \union TakenUpTo(taken, i))

LEMMA CanFollowMore ==
  ASSUME NEW p, NEW s, NEW t, s \subseteq t, CanFollow(p, s)
  PROVE  CanFollow(p, t)
BY DEF CanFollow

TakenWith(before, p, list, max, restrictToGop) ==
  before \union {q \in {p} : Fits(q, before, list, max, restrictToGop)}

(* Reordered goes through the input, picture by picture. *)
TakesBy(f, list, max, restrictToGop) ==
  /\ f[0] = {}
  /\ \A i \in 1 .. Len(input) : f[i] = TakenWith(f[i - 1], input[i], list, max, restrictToGop)
  /\ Reordered(list, max, restrictToGop) = f[Len(input)]

LEMMA ReorderedRuns ==
  ASSUME input \in Seq(Pocs), NEW list, NEW max, NEW restrictToGop
  PROVE  \E f : TakesBy(f, list, max, restrictToGop)
<1> DEFINE n == Len(input)
           Taken(before, p) == before \union {q \in {p} : Fits(q, before, list, max, restrictToGop)}
           step == [x \in (SUBSET Pocs) \X Pocs |-> Taken(x[1], x[2])]
           IsTaken(h) ==
             h = [i \in 0 .. n |->
                    IF i = 0 THEN {}
                    ELSE UNION { before \union {p \in {input[i]} : Fits(p, before, list, max, restrictToGop)}
                                 : before \in {h[i - 1]} }]
<1>1. n \in Nat /\ input \in [1 .. n -> Pocs] /\ {} \in SUBSET Pocs
  OBVIOUS
<1>2. step \in [(SUBSET Pocs) \X Pocs -> SUBSET Pocs]
  <2>1. \A x \in (SUBSET Pocs) \X Pocs : Taken(x[1], x[2]) \in SUBSET Pocs
    OBVIOUS
  <2> HIDE DEF Taken
  <2>2. QED BY <2>1
<1>3. PICK g \in [0 .. n -> SUBSET Pocs] : IsRun(g, {}, step, input, n)
  <2> HIDE DEF n, step
  <2>1. QED BY <1>1, <1>2, RunExists
<1>4. \A before, p : UNION {b \union {q \in {p} : Fits(q, b, list, max, restrictToGop)} : b \in {before}}
                       = Taken(before, p)
  OBVIOUS
<1>5. g[0] = {} /\ \A i \in 1 .. n : g[i] = Taken(g[i - 1], input[i])
  <2>1. ASSUME NEW i \in 1 .. n PROVE g[i] = Taken(g[i - 1], input[i])
    <3>1. g[i - 1] \in SUBSET Pocs /\ input[i] \in Pocs
      BY <1>1, <1>3
    <3>2. g[i] = step[<<g[i - 1], input[i]>>]
      BY <1>3, <3>1 DEF IsRun
    <3> HIDE DEF Taken
    <3>3. QED BY <3>1, <3>2
  <2>2. QED BY <1>3, <2>1 DEF IsRun
<1>6. IsTaken(g)
  <2> DEFINE Longer(h, i) == UNION { before \union {p \in {input[i]} : Fits(p, before, list, max, restrictToGop)}
                                 : before \in {h[i - 1]} }
  <2>1. \A i \in 0 .. n : i # 0 => i \in 1 .. n
    BY <1>1
  <2>2. \A i \in 1 .. n : g[i] = Longer(g, i)
    BY <1>4, <1>5, Zenon
  <2> HIDE DEF Longer, Taken
  <2>3. \A i \in 0 .. n : g[i] = IF i = 0 THEN {} ELSE Longer(g, i)
    BY <1>5, <2>1, <2>2
  <2>4. g = [i \in 0 .. n |-> g[i]]
    BY <1>3
  <2>5. g = [i \in 0 .. n |-> IF i = 0 THEN {} ELSE Longer(g, i)]
    BY <2>3, <2>4
  <2>6. QED BY <2>5 DEF Longer
<1> DEFINE f == CHOOSE h : IsTaken(h)
<1>7. IsTaken(f)
  <2> HIDE DEF IsTaken
  <2>1. QED BY <1>6, Zenon
<1>8. Reordered(list, max, restrictToGop) = f[n]
  BY Zenon DEF Reordered
<1>9. f[0] = {} /\ \A i \in 1 .. n : f[i] = Taken(f[i - 1], input[i])
  <2> DEFINE Longer(h, i) == UNION { before \union {p \in {input[i]} : Fits(p, before, list, max, restrictToGop)}
                                 : before \in {h[i - 1]} }
  <2>1. f = [i \in 0 .. n |-> IF i = 0 THEN {} ELSE Longer(f, i)]
    BY <1>7
  <2>2. \A i \in 1 .. n : i \in 0 .. n /\ i # 0
    BY <1>1
  <2>3. 0 \in 0 .. n
    BY <1>1
  <2>4. \A i \in 1 .. n : Longer(f, i) = Taken(f[i - 1], input[i])
    BY <1>4, Zenon
  <2> HIDE DEF f, Longer, Taken
  <2>5. QED BY <2>1, <2>2, <2>3, <2>4
<1>10. \A i \in 1 .. n : f[i] = TakenWith(f[i - 1], input[i], list, max, restrictToGop)
  BY <1>9 DEF TakenWith
<1> HIDE DEF f, IsTaken
<1>11. QED BY <1>8, <1>9, <1>10 DEF TakesBy

LEMMA ReorderedIs ==
  ASSUME input \in Seq(Pocs), NEW list, NEW max, NEW restrictToGop
  PROVE  /\ Reordered(list, max, restrictToGop) \subseteq ToSet(input)
         /\ TakenInOrder(Reordered(list, max, restrictToGop), Len(input))
<1> DEFINE n == Len(input)
<1>1. n \in Nat /\ input \in [1 .. n -> Pocs]
  OBVIOUS
<1>2. PICK f : TakesBy(f, list, max, restrictToGop)
  BY ReorderedRuns
<1>3. /\ f[0] = {} /\ \A i \in 1 .. n : f[i] = TakenWith(f[i - 1], input[i], list, max, restrictToGop)
      /\ Reordered(list, max, restrictToGop) = f[n]
  BY <1>2 DEF TakesBy
<1> DEFINE G == {m \in 0 .. n : TakenInOrder(f[m], m)}
<1>10. 0 \in G
  BY <1>1, <1>3 DEF TakenInOrder
<1>11. ASSUME NEW m \in 1 .. n, m - 1 \in G
       PROVE  m \in G
  <2> DEFINE old == f[m - 1]
             new == f[m]
  <2>1. TakenInOrder(old, m - 1) /\ m \in 0 .. n
    BY <1>11
  <2>2. new = TakenWith(old, input[m], list, max, restrictToGop)
    BY <1>3
  <2>3. old \subseteq new /\ \A p \in new : p \in old \/ (p = input[m] /\ CanFollow(p, listed \union old))
    BY <2>2 DEF TakenWith, Fits
  <2> HIDE DEF old, new
  <2>4. ASSUME NEW p \in old
        PROVE  \E i \in 1 .. m : p = input[i] /\ CanFollow(p, listed \union TakenUpTo(new, i))
    <3>1. PICK i \in 1 .. m - 1 : p = input[i] /\ CanFollow(p, listed \union TakenUpTo(old, i))
      BY <2>1 DEF TakenInOrder
    <3>2. listed \union TakenUpTo(old, i) \subseteq listed \union TakenUpTo(new, i)
      BY <2>3 DEF TakenUpTo
    <3>3. CanFollow(p, listed \union TakenUpTo(new, i))
      BY <3>1, <3>2, CanFollowMore
    <3>4. i \in 1 .. m
      BY <1>1
    <3>5. QED BY ONLY <3>1, <3>3, <3>4
  <2>5. ASSUME CanFollow(input[m], listed \union old)
        PROVE  CanFollow(input[m], listed \union TakenUpTo(new, m))
    <3>1. \A q \in old : \E j \in 1 .. m - 1 : q = input[j]
      BY <2>1 DEF TakenInOrder
    <3>2. old \subseteq TakenUpTo(new, m)
      BY <2>3, <3>1 DEF TakenUpTo
    <3>3. QED BY <2>5, <3>2, CanFollowMore
  <2>6. m \in 1 .. m
    OBVIOUS
  <2>7. TakenInOrder(new, m)
    BY <2>3, <2>4, <2>5, <2>6 DEF TakenInOrder
  <2>8. QED BY <2>1, <2>7 DEF new
<1> HIDE DEF G
<1>12. \A m \in 1 .. n : m - 1 \in G => m \in G
  BY <1>11
<1>13. 0 .. n \subseteq G
  <2> HIDE DEF n
  <2>1. QED BY <1>1, <1>10, <1>12, Upwards
<1>14. TakenInOrder(f[n], n)
  BY <1>1, <1>13 DEF G
<1>15. \A p \in f[n] : p \in ToSet(input)
  BY <1>1, <1>14, InToSet DEF TakenInOrder
<1>16. QED BY <1>3, <1>14, <1>15

-----------------------------------------------------------------------------
(* Types.                                                                  *)

Places == {"idle", "topwait", "init", "lists", "reorder", "fill", "fetch", "wait",
           "encode", "push", "rc", "output"}

MainType == [at : Places, pic : Pocs, n : Nat]

TypeInv ==
  /\ mode \in Modes
  /\ pics \in Seq(Pocs) /\ input \in Seq(Pocs) /\ output \in Seq(Pocs) /\ reorder \in Seq(Pocs)
  /\ procList \in Seq(Pocs) /\ rcUpdate \in Seq(Pocs)
  /\ written \in Seq(Pocs) /\ accounted \in Seq(Pocs)
  /\ listed \in SUBSET Pocs /\ reconstructed \in SUBSET Pocs /\ coding \in SUBSET Pocs
  /\ free \in Nat
  /\ main \in MainType

LEMMA MainTypeKept ==
  ASSUME NEW m \in MainType, NEW at \in Places, NEW n \in Nat
  PROVE  /\ [m EXCEPT !.at = at] \in MainType
         /\ [m EXCEPT !.n = n] \in MainType
         /\ [m EXCEPT !.at = at, !.n = n] \in MainType
         /\ [m EXCEPT !.n = n, !.at = at] \in MainType
BY DEF MainType

LEMMA ModeIs ==
  ASSUME mode \in Modes
  PROVE  mode \in ModeType /\ Encoders \in Nat \ {0}
BY ModesAssumption DEF ModeType, Encoders

LEMMA SubSeqType ==
  ASSUME NEW S, NEW s \in Seq(S), NEW a \in 1 .. Len(s) + 1, NEW b \in 0 .. Len(s)
  PROVE  SubSeq(s, a, b) \in Seq(S)
OBVIOUS

LEMMA RemoveAtType ==
  ASSUME NEW s \in Seq(Pocs), NEW i \in 1 .. Len(s)
  PROVE  RemoveAt(s, i) \in Seq(Pocs)
<1>1. SubSeq(s, 1, i - 1) \in Seq(Pocs) /\ SubSeq(s, i + 1, Len(s)) \in Seq(Pocs)
  BY SubSeqType
<1>2. QED BY <1>1, JoinSet DEF RemoveAt

(* The start of the stage's list is initialised, in order. *)
Initialised(n) ==
  /\ n \in 0 .. Len(pics)
  /\ \A i \in 1 .. n : MayInit(i)
  /\ input' = input \o SubSeq(pics, 1, n)
  /\ output' = output \o SubSeq(pics, 1, n)
  /\ pics' = SubSeq(pics, n + 1, Len(pics))

LEMMA InitPicsIs ==
  ASSUME InitPics, pics \in Seq(Pocs)
  PROVE  \E n \in Nat : Initialised(n)
<1> DEFINE held == {i \in DOMAIN pics : ~MayInit(i)}
           least == CHOOSE i \in held : \A j \in held : i <= j
           end == IF held = {} THEN Len(pics) ELSE least - 1
           n == IF mode.frames > 0 \/ end = 0 THEN end ELSE 1
<1>1. DOMAIN pics = 1 .. Len(pics) /\ Len(pics) \in Nat
  OBVIOUS
<1>2. end \in 0 .. Len(pics) /\ \A i \in 1 .. end : MayInit(i)
  <2>1. CASE held = {}
    BY <1>1, <2>1
  <2>2. CASE held # {}
    <3>1. held \subseteq Nat /\ held \subseteq 1 .. Len(pics)
      BY <1>1
    <3>2. \E i \in held : \A j \in held : i <= j
      <4> HIDE DEF held
      <4>1. QED BY <2>2, <3>1, LeastNumber
    <3>3. least \in held /\ \A j \in held : least <= j
      <4> HIDE DEF held
      <4>1. QED BY <3>2, Zenon
    <3> HIDE DEF least
    <3>4. least \in 1 .. Len(pics)
      BY <3>1, <3>3
    <3>5. ASSUME NEW i \in 1 .. least - 1
          PROVE  MayInit(i)
      <4>1. i \in DOMAIN pics /\ ~(least <= i)
        BY <1>1, <3>4
      <4>2. i \notin held
        BY <3>3, <4>1, Zenon
      <4>3. QED BY <4>1, <4>2
    <3>6. QED BY <2>2, <3>4, <3>5
  <2>3. QED BY <2>1, <2>2
<1>3. /\ input' = input \o SubSeq(pics, 1, n)
      /\ output' = output \o SubSeq(pics, 1, n)
      /\ pics' = SubSeq(pics, n + 1, Len(pics))
  BY DEF InitPics
<1> HIDE DEF end, held, least
<1>4. n \in 0 .. Len(pics) /\ n \in Nat /\ \A i \in 1 .. n : i \in 1 .. end
  BY <1>1, <1>2
<1> HIDE DEF n
<1>5. QED BY <1>2, <1>3, <1>4 DEF Initialised

LEMMA InitPicsType ==
  ASSUME NEW n, Initialised(n), pics \in Seq(Pocs)
  PROVE  SubSeq(pics, 1, n) \in Seq(Pocs) /\ pics' \in Seq(Pocs)
         /\ pics = SubSeq(pics, 1, n) \o pics'
<1>1. n \in 0 .. Len(pics) /\ pics' = SubSeq(pics, n + 1, Len(pics))
  BY DEF Initialised
<1>2. SubSeq(pics, 1, n) \in Seq(Pocs) /\ pics' \in Seq(Pocs)
  BY <1>1, SubSeqType
<1>3. Len(SubSeq(pics, 1, n)) = n /\ Len(SubSeq(pics, n + 1, Len(pics))) = Len(pics) - n
  BY <1>1
<1>4. \A i \in 1 .. n : SubSeq(pics, 1, n)[i] = pics[i]
  BY <1>1
<1>5. \A i \in 1 .. Len(pics) - n : SubSeq(pics, n + 1, Len(pics))[i] = pics[i + n]
  BY <1>1
<1> DEFINE s == SubSeq(pics, 1, n)
           t == SubSeq(pics, n + 1, Len(pics))
<1>6. s \in Seq(Pocs) /\ t \in Seq(Pocs) /\ Len(s) = n /\ Len(t) = Len(pics) - n
      /\ n \in 0 .. Len(pics) /\ Len(pics) \in Nat
  BY <1>1, <1>2, <1>3
<1>7. (\A i \in 1 .. n : s[i] = pics[i]) /\ \A i \in 1 .. Len(pics) - n : t[i] = pics[i + n]
  BY <1>4, <1>5
<1> HIDE DEF s, t
<1>8. Len(s \o t) = Len(pics) /\ s \o t \in Seq(Pocs)
  BY <1>6
<1>9. ASSUME NEW i \in 1 .. Len(pics) PROVE (s \o t)[i] = pics[i]
  <2>1. CASE i \in 1 .. n
    BY <1>6, <1>7, <2>1
  <2>2. CASE i - n \in 1 .. Len(pics) - n
    <3>1. t[i - n] = pics[(i - n) + n] /\ (i - n) + n = i
      BY <1>6, <1>7, <2>2
    <3>2. (s \o t)[i] = t[i - n]
      BY <1>6, <2>2
    <3>3. QED BY <3>1, <3>2
  <2>3. QED BY <1>6, <2>1, <2>2
<1>10. s \o t = pics
  <2>1. \A w \in Seq(Pocs) : w = [i \in 1 .. Len(w) |-> w[i]]
    OBVIOUS
  <2>2. /\ pics = [i \in 1 .. Len(pics) |-> pics[i]]
        /\ s \o t = [i \in 1 .. Len(s \o t) |-> (s \o t)[i]]
    BY <1>8, <2>1, Zenon
  <2>3. [i \in 1 .. Len(pics) |-> (s \o t)[i]] = [i \in 1 .. Len(pics) |-> pics[i]]
    BY <1>9
  <2>4. QED BY <1>8, <2>2, <2>3, Zenon
<1>11. QED BY <1>1, <1>2, <1>10 DEF s, t

LEMMA HeadTail ==
  ASSUME NEW s \in Seq(Pocs), s # <<>>
  PROVE  /\ Head(s) \in Pocs /\ Tail(s) \in Seq(Pocs) /\ Head(s) = s[1] /\ 1 \in DOMAIN s
         /\ ToSet(s) = {Head(s)} \union ToSet(Tail(s))
         /\ s = <<Head(s)>> \o Tail(s)
<1>1. /\ Head(s) \in Pocs /\ Tail(s) \in Seq(Pocs) /\ Head(s) = s[1] /\ 1 \in DOMAIN s
      /\ <<Head(s)>> \in Seq(Pocs)
  OBVIOUS
<1>2. s = <<Head(s)>> \o Tail(s)
  OBVIOUS
<1>3. ToSet(s) = {Head(s)} \union ToSet(Tail(s))
  BY <1>1, <1>2, JoinSet, OneElement
<1>4. QED BY <1>1, <1>2, <1>3

LEMMA TakeFromInputType ==
  ASSUME input \in Seq(Pocs), listed \in SUBSET Pocs, NEW taken, taken \subseteq ToSet(input),
         TakeFromInput(taken), NEW list \in Seq(Pocs)
  PROVE  input' \in Seq(Pocs) /\ listed' \in SUBSET Pocs /\ list \o Keep(input, taken) \in Seq(Pocs)
<1>1. ToSet(input) \subseteq Pocs
  BY DEF ToSet
<1>2. Keep(input, taken) \in Seq(Pocs) /\ Keep(input, Pocs \ taken) \in Seq(Pocs)
  BY KeepSet
<1>3. QED BY <1>1, <1>2, JoinSet DEF TakeFromInput

LEMMA TypeInit == Init => TypeInv
BY ModeIs, LayersAssumption DEF Init, TypeInv, MainType, Places, Pocs

LEMMA TypeNext ==
  ASSUME TypeInv, [Next]_vars
  PROVE  TypeInv'
<1> USE DEF TypeInv
<1>1. /\ \A at \in Places : main' = [main EXCEPT !.at = at] => main' \in MainType
      /\ \A n \in Nat : main' = [main EXCEPT !.n = n] => main' \in MainType
      /\ \A at \in Places, n \in Nat : main' = [main EXCEPT !.at = at, !.n = n] => main' \in MainType
      /\ \A at \in Places, n \in Nat : main' = [main EXCEPT !.n = n, !.at = at] => main' \in MainType
      /\ main.at \in Places
  <2>1. \A at \in Places, n \in Nat : /\ [main EXCEPT !.at = at] \in MainType
                                     /\ [main EXCEPT !.n = n] \in MainType
                                     /\ [main EXCEPT !.at = at, !.n = n] \in MainType
                                     /\ [main EXCEPT !.n = n, !.at = at] \in MainType
    BY MainTypeKept
  <2>2. 0 \in Nat /\ "idle" \in Places
    BY DEF Places
  <2>3. QED BY <2>1, <2>2 DEF MainType
<1>2. CASE Arrive
  BY <1>2, CodingOrderIs, KeepSet DEF Arrive, lists
<1>3. CASE CallStage \/ WaitForFreeEncoders \/ NoLists \/ LoopEnds \/ WaitForPicture \/ WakeUp
           \/ NoOutput
  <2>1. main' \in MainType
    BY <1>1, <1>3 DEF Places, Places, CallStage, WaitForFreeEncoders, NoLists, LoopEnds, WaitForPicture, WakeUp,
                      NoOutput, Goto, ListsDone
  <2>2. QED BY <1>3, <2>1 DEF CallStage, WaitForFreeEncoders, NoLists, LoopEnds, WaitForPicture,
                              WakeUp, NoOutput, lists
<1>4. CASE InitPics
  <2>1. PICK n \in Nat : Initialised(n)
    BY <1>4, InitPicsIs
  <2>2. SubSeq(pics, 1, n) \in Seq(Pocs) /\ pics' \in Seq(Pocs)
    BY <2>1, InitPicsType
  <2>3. input' \in Seq(Pocs) /\ output' \in Seq(Pocs)
    BY <2>1, <2>2, JoinSet DEF Initialised
  <2>4. main' \in MainType
    BY <1>1, <1>4 DEF Places, InitPics, Goto
  <2>5. QED BY <1>4, <2>2, <2>3, <2>4 DEF InitPics
<1>5. CASE PlainList
  <2>1. procList' \in Seq(Pocs) /\ input' \in Seq(Pocs)
    BY <1>5, KeepSet DEF PlainList
  <2>2. main' \in MainType
    BY <1>1, <1>5 DEF Places, PlainList, ListsDone, Goto
  <2>3. QED BY <1>5, <2>1, <2>2 DEF PlainList
<1>6. CASE NextChunk
  <2>1. main' \in MainType
    BY <1>1, <1>6 DEF Places, NextChunk, ListsDone, Goto
  <2>2. CASE rcUpdate = <<>>
    <3>1. PICK taken : /\ taken = Reordered(procList, ChunkSize(Head(input), mode.frames), TRUE)
                       /\ procList' = procList \o Keep(input, taken) /\ rcUpdate' = procList'
                       /\ TakeFromInput(taken)
      BY <1>6, <2>2 DEF NextChunk
    <3>2. taken \subseteq ToSet(input)
      BY <3>1, ReorderedIs
    <3>3. procList' \in Seq(Pocs) /\ input' \in Seq(Pocs) /\ listed' \in SUBSET Pocs
      BY <3>1, <3>2, TakeFromInputType
    <3>4. QED BY <1>6, <2>1, <3>1, <3>3 DEF NextChunk
  <2>3. CASE rcUpdate # <<>>
    BY <1>6, <2>1, <2>3 DEF NextChunk
  <2>4. QED BY <2>2, <2>3
<1>7. CASE StartReorder
  <2>1. mode.frames \in Nat
    BY ModeIs DEF ModeType
  <2>2. \E n \in Nat : main' = [main EXCEPT !.at = "reorder", !.n = n]
    <3>1. Len(input) \in Nat
      OBVIOUS
    <3>2. QED BY <1>7, <2>1, <3>1, Zenon DEF StartReorder
  <2>3. main' \in MainType
    BY <1>1, <2>2 DEF Places
  <2>4. QED BY <1>7, <2>3 DEF StartReorder, lists
<1>8. CASE Reorder
  <2>1. CASE input # <<>> /\ Len(procList) < main.n
    <3>1. PICK taken :
            /\ taken = Reordered(procList, Len(procList) + mode.frames, ~mode.parallelGops)
            /\ procList' = procList \o Keep(input, taken)
            /\ TakeFromInput(taken)
            /\ IF taken = {}
               THEN rcUpdate' = rcUpdate \o procList /\ Goto("fetch")
               ELSE UNCHANGED <<rcUpdate, main>>
      BY <1>8, <2>1 DEF Reorder
    <3>2. taken \subseteq ToSet(input)
      BY <3>1, ReorderedIs
    <3>3. procList' \in Seq(Pocs) /\ input' \in Seq(Pocs) /\ listed' \in SUBSET Pocs
      BY <3>1, <3>2, TakeFromInputType
    <3>4. rcUpdate' \in Seq(Pocs)
      <4>1. rcUpdate \in Seq(Pocs) /\ rcUpdate \o procList \in Seq(Pocs)
        BY JoinSet
      <4>2. rcUpdate' \in {rcUpdate, rcUpdate \o procList}
        BY <3>1
      <4>3. QED BY <4>1, <4>2
    <3>5. main' \in MainType
      BY <1>1, <3>1 DEF Places, Goto
    <3>6. QED BY <1>8, <3>3, <3>4, <3>5 DEF Reorder
  <2>2. CASE ~(input # <<>> /\ Len(procList) < main.n)
    <3>1. main' \in MainType
      BY <1>1, <1>8, <2>2 DEF Places, Reorder, Goto
    <3>2. rcUpdate' \in Seq(Pocs)
      <4>1. rcUpdate \o procList \in Seq(Pocs)
        BY JoinSet
      <4>2. rcUpdate' = rcUpdate \o procList
        BY <1>8, <2>2 DEF Reorder
      <4>3. QED BY <4>1, <4>2
    <3>3. QED BY <1>8, <2>2, <3>1, <3>2 DEF Reorder
  <2>3. QED BY <2>1, <2>2
<1>9. CASE FillWindow
  <2>1. main' \in MainType
    <3>1. \/ main' = [main EXCEPT !.n = 1]
          \/ main' = [main EXCEPT !.n = 0, !.at = "fill"]
          \/ main' = [main EXCEPT !.n = 0, !.at = "rc"]
          \/ main' = [main EXCEPT !.n = 0, !.at = "fetch"]
      BY <1>9 DEF FillWindow
    <3>2. 0 \in Nat /\ 1 \in Nat
      OBVIOUS
    <3>3. QED BY <1>1, <3>1, <3>2, Zenon DEF Places
  <2>2. CASE Len(rcUpdate) < mode.frames /\ reorder # <<>>
    <3>1. Head(reorder) \in Pocs /\ Tail(reorder) \in Seq(Pocs)
      BY <2>2, HeadTail
    <3>2. /\ procList' = Append(procList, Head(reorder))
          /\ rcUpdate' = Append(rcUpdate, Head(reorder)) /\ reorder' = Tail(reorder)
      BY <1>9, <2>2 DEF FillWindow
    <3>3. procList' \in Seq(Pocs) /\ rcUpdate' \in Seq(Pocs) /\ reorder' \in Seq(Pocs)
      BY <3>1, <3>2
    <3>4. QED BY <1>9, <2>1, <3>3 DEF FillWindow
  <2>3. CASE ~(Len(rcUpdate) < mode.frames /\ reorder # <<>>)
    BY <1>9, <2>1, <2>3 DEF FillWindow
  <2>4. QED BY <2>2, <2>3
<1>10. CASE FillReorder
  <2>1. main' \in MainType
    <3>1. main' = main \/ main' = [main EXCEPT !.at = "lists", !.n = 1]
      BY <1>10 DEF FillReorder
    <3>2. QED BY <1>1, <3>1 DEF Places
  <2>2. CASE Len(reorder) < mode.frames /\ input # <<>>
    <3>1. PICK taken : /\ taken = Reordered(reorder, mode.frames, TRUE)
                       /\ reorder' = reorder \o Keep(input, taken) /\ TakeFromInput(taken)
      BY <1>10, <2>2 DEF FillReorder
    <3>2. taken \subseteq ToSet(input)
      BY <3>1, ReorderedIs
    <3>3. reorder' \in Seq(Pocs) /\ input' \in Seq(Pocs) /\ listed' \in SUBSET Pocs
      BY <3>1, <3>2, TakeFromInputType
    <3>4. QED BY <1>10, <2>1, <3>3 DEF FillReorder
  <2>3. CASE ~(Len(reorder) < mode.frames /\ input # <<>>)
    BY <1>10, <2>1, <2>3 DEF FillReorder
  <2>4. QED BY <2>2, <2>3
<1>11. CASE Fetch
  <2>1. PICK i \in ReadyPics : main' = [main EXCEPT !.at = "encode", !.pic = procList[i]]
    BY <1>11 DEF Fetch
  <2>2. procList[i] \in Pocs
    BY <2>1 DEF ReadyPics
  <2>3. main' \in MainType
    BY <2>1, <2>2 DEF Places, MainType
  <2>4. free # 0
    BY <1>11 DEF Fetch, NothingToStart, NoEncoder
  <2>5. free' \in Nat
    BY <1>11, <2>4 DEF Fetch
  <2>6. QED BY <1>11, <2>3, <2>5 DEF Fetch, lists
<1>12. CASE EncodePicture
  <2>1. main.pic \in Pocs /\ main' \in MainType
    BY <1>1, <1>12 DEF Places, EncodePicture, Goto, MainType
  <2>2. QED BY <1>12, <2>1, KeepSet DEF EncodePicture
<1>13. CASE SkipPicture
  <2>1. main.pic \in Pocs /\ main' \in MainType
    BY <1>1, <1>13 DEF Places, SkipPicture, MainType
  <2>2. QED BY <1>13, <2>1, KeepSet DEF SkipPicture
<1>14. CASE PushEncoder
  <2>1. main.n \in Nat /\ main' \in MainType
    <3>1. main' = [main EXCEPT !.at = "fetch", !.n = 0] /\ 0 \in Nat
      BY <1>14 DEF PushEncoder
    <3>2. main' \in MainType
      BY <1>1, <3>1, Zenon DEF Places
    <3>3. QED BY <3>2 DEF MainType
  <2>2. QED BY <1>14, <2>1 DEF PushEncoder, lists
<1>15. CASE \E p \in Pocs : Finish(p)
  <2>1. PICK p \in Pocs : Finish(p)
    BY <1>15
  <2>2. main' \in MainType
    <3>1. CASE main.at = "wait"
      <4>1. Goto("fetch")
        BY <2>1, <3>1 DEF Finish
      <4>2. QED BY <1>1, <4>1 DEF Goto, Places
    <3>2. CASE main.at = "topwait"
      <4>1. Goto("idle")
        BY <2>1, <3>2 DEF Finish
      <4>2. QED BY <1>1, <4>1 DEF Goto, Places
    <3>3. CASE main.at # "wait" /\ main.at # "topwait"
      <4>1. Goto(main.at)
        BY <2>1, <3>3, Zenon DEF Finish
      <4>2. QED BY <1>1, <4>1 DEF Goto, MainType
    <3>4. QED BY <3>1, <3>2, <3>3
  <2>3. QED BY <2>1, <2>2 DEF Finish, lists
<1>16. CASE UpdateRc
  <2> DEFINE i == main.n + 1
             found == ((mode.lockStep /\ mode.ifp) \/ mode.rateCap) /\ i <= Len(rcUpdate)
  <2>1. main' \in MainType
    <3>1. \/ main' = main \/ main' = [main EXCEPT !.n = i]
          \/ main' = [main EXCEPT !.at = "output", !.n = 0]
      BY <1>16 DEF UpdateRc
    <3>2. i \in Nat
      BY DEF MainType
    <3> HIDE DEF i
    <3>3. QED BY <1>1, <3>1, <3>2 DEF Places
  <2>2. CASE found /\ rcUpdate[i] \in reconstructed
    <3>1. i \in 1 .. Len(rcUpdate)
      BY <2>2 DEF MainType
    <3>2. rcUpdate[i] \in Pocs /\ RemoveAt(rcUpdate, i) \in Seq(Pocs)
      BY <3>1, RemoveAtType
    <3>3. rcUpdate' = RemoveAt(rcUpdate, i)
          /\ (accounted' = Append(accounted, rcUpdate[i]) \/ accounted' = accounted)
      BY <1>16, <2>2 DEF UpdateRc
    <3>4. rcUpdate' \in Seq(Pocs) /\ accounted' \in Seq(Pocs)
      <4>1. \A p \in Pocs : Append(accounted, p) \in Seq(Pocs)
        OBVIOUS
      <4>2. QED BY <3>2, <3>3, <4>1, Zenon
    <3>5. QED BY <1>16, <2>1, <3>4 DEF UpdateRc
  <2>3. CASE ~(found /\ rcUpdate[i] \in reconstructed)
    <3>1. rcUpdate' = rcUpdate /\ accounted' = accounted
      BY <1>16, <2>3 DEF UpdateRc
    <3>2. QED BY <1>16, <2>1, <3>1 DEF UpdateRc
  <2>4. QED BY <2>2, <2>3
<1>17. CASE Write
  <2>1. output # <<>>
    BY <1>17 DEF Write, CanWrite
  <2>2. Head(output) \in Pocs /\ Tail(output) \in Seq(Pocs)
    BY <2>1, HeadTail
  <2>3. rcUpdate' \in Seq(Pocs)
    <3>1. rcUpdate' = rcUpdate \/ rcUpdate' = <<>> \/ (rcUpdate # <<>> /\ rcUpdate' = Tail(rcUpdate))
      BY <1>17 DEF Write
    <3>2. <<>> \in Seq(Pocs) /\ (rcUpdate # <<>> => Tail(rcUpdate) \in Seq(Pocs))
      BY HeadTail
    <3>3. QED BY <3>1, <3>2, Zenon
  <2>4. accounted' \in Seq(Pocs)
    <3>1. accounted' = accounted \/ accounted' = accounted \o rcUpdate
      BY <1>17 DEF Write
    <3>2. QED BY <3>1, JoinSet
  <2>5. main' \in MainType
    BY <1>1, <1>17 DEF Places, Write, Goto
  <2>6. written' \in Seq(Pocs) /\ output' \in Seq(Pocs)
    BY <1>17, <2>2 DEF Write
  <2>7. QED BY <1>17, <2>3, <2>4, <2>5, <2>6 DEF Write
<1>18. CASE UNCHANGED vars
  BY <1>18 DEF vars, lists
<1>19. QED
  BY <1>2, <1>3, <1>4, <1>5, <1>6, <1>7, <1>8, <1>9, <1>10, <1>11, <1>12, <1>13, <1>14, <1>15,
     <1>16, <1>17, <1>18 DEF Next, Stage
=============================================================================
