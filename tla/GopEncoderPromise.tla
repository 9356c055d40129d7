------------------------- MODULE GopEncoderPromise -------------------------
(***************************************************************************)
(* What the GOP encoder promises, for every number of pictures, picture    *)
(* encoders and temporal layers, and every structure of the GOPs.          *)
(*                                                                         *)
(* A picture is in one place at a time (PlaceInv), what is written and     *)
(* what waits to be are the pictures in coding order without a gap         *)
(* (OrderInv), and every picture encoder is free or has one picture        *)
(* (CountInv).  From these three follow that nothing is lost, that the     *)
(* thread never waits in vain, and the promise of PictureCoding.  In       *)
(* lockstep, chunks follow each other as they would without any timing     *)
(* (ChunkInv), so that the rate control always knows the same.             *)
(***************************************************************************)
EXTENDS GopEncoderProofs

-----------------------------------------------------------------------------
(* Where pictures are.                                                     *)

LEMMA JoinTwice ==
  ASSUME NEW s \in Seq(Pocs), NEW t \in Seq(Pocs), NEW u \in Seq(Pocs)
  PROVE  (s \o t) \o u = s \o (t \o u)
OBVIOUS

LEMMA AppendSet ==
  ASSUME NEW s \in Seq(Pocs), NEW p \in Pocs
  PROVE  Append(s, p) = s \o <<p>> /\ Append(s, p) \in Seq(Pocs)
         /\ ToSet(Append(s, p)) = ToSet(s) \union {p}
<1>1. Append(s, p) = s \o <<p>> /\ <<p>> \in Seq(Pocs) /\ Append(s, p) \in Seq(Pocs)
  OBVIOUS
<1>2. ToSet(s \o <<p>>) = ToSet(s) \union ToSet(<<p>>) /\ ToSet(<<p>>) = {p}
  BY <1>1, JoinSet, OneElement
<1>3. QED BY <1>1, <1>2, Zenon

LEMMA SplitSorted ==
  ASSUME NEW s \in Seq(Pocs), NEW t \in Seq(Pocs), Sorted(s \o t)
  PROVE  Sorted(s) /\ Sorted(t) /\ Precedes(s, t)
<1>1. /\ DOMAIN s = 1 .. Len(s) /\ DOMAIN t = 1 .. Len(t) /\ DOMAIN (s \o t) = 1 .. Len(s) + Len(t)
      /\ Len(s) \in Nat /\ Len(t) \in Nat
  OBVIOUS
<1>2. /\ \A k \in 1 .. Len(s) : (s \o t)[k] = s[k]
      /\ \A k \in 1 .. Len(t) : (s \o t)[k + Len(s)] = t[k]
  OBVIOUS
<1>3. \A i, j \in 1 .. Len(s) + Len(t) : i < j => CodingNums[(s \o t)[i]] < CodingNums[(s \o t)[j]]
  BY <1>1 DEF Sorted
<1>4. Sorted(s)
  <2>1. \A i \in 1 .. Len(s) : i \in 1 .. Len(s) + Len(t)
    BY <1>1
  <2>2. \A i, j \in 1 .. Len(s) : i < j => CodingNums[s[i]] < CodingNums[s[j]]
    BY <1>2, <1>3, <2>1
  <2>3. QED BY <1>1, <2>2 DEF Sorted
<1>5. Sorted(t)
  <2>1. \A i \in 1 .. Len(t) : i + Len(s) \in 1 .. Len(s) + Len(t)
    BY <1>1
  <2>2. ASSUME NEW i \in 1 .. Len(t), NEW j \in 1 .. Len(t), i < j
        PROVE  CodingNums[t[i]] < CodingNums[t[j]]
    <3>1. i + Len(s) < j + Len(s)
      BY <1>1, <2>2
    <3>2. CodingNums[(s \o t)[i + Len(s)]] < CodingNums[(s \o t)[j + Len(s)]]
      BY <1>3, <2>1, <3>1
    <3>3. QED BY <1>2, <3>2
  <2>3. QED BY <1>1, <2>2 DEF Sorted
<1>6. Precedes(s, t)
  <2>1. ASSUME NEW i \in 1 .. Len(s), NEW j \in 1 .. Len(t)
        PROVE  CodingNums[s[i]] < CodingNums[t[j]]
    <3>1. i \in 1 .. Len(s) + Len(t) /\ j + Len(s) \in 1 .. Len(s) + Len(t) /\ i < j + Len(s)
      BY <1>1
    <3>2. CodingNums[(s \o t)[i]] < CodingNums[(s \o t)[j + Len(s)]]
      BY <1>3, <3>1
    <3>3. QED BY <1>2, <3>2
  <2>2. QED BY <1>1, <2>1 DEF Precedes
<1>7. QED BY <1>4, <1>5, <1>6

(* The initialised pictures, and where each of them is. *)
Begun == ToSet(written) \union ToSet(output)

(* Pictures are initialised and written in coding order, and as long as    *)
(* there are more to come without a gap.                                   *)
OrderInv ==
  /\ Sorted(pics) /\ Sorted(written \o output) /\ Precedes(written \o output, pics)
  /\ NotArrived # {} =>
       \A i \in 1 .. Len(written \o output) : CodingNums[(written \o output)[i]] = i - 1

(* An initialised picture is in one place. *)
PlaceInv ==
  /\ Sorted(input) /\ Distinct(reorder)
  /\ Begun = ToSet(input) \union ToSet(reorder) \union ToSet(procList) \union coding
               \union reconstructed
  /\ ToSet(input) \intersect (ToSet(reorder) \union ToSet(procList) \union coding
                                \union reconstructed) = {}
  /\ ToSet(reorder) \intersect (ToSet(procList) \union coding \union reconstructed) = {}
  /\ ToSet(procList) \intersect (coding \union reconstructed) = {}
  /\ coding \intersect reconstructed = {}
  /\ main.at = "encode" => main.pic \in ToSet(procList)

LEMMA BegunIs ==
  ASSUME TypeInv
  PROVE  /\ written \o output \in Seq(Pocs) /\ ToSet(written \o output) = Begun /\ Begun \subseteq Pocs
         /\ Arrived = ToSet(pics) \union Begun /\ Arrived \subseteq Pocs
<1>1. /\ written \in Seq(Pocs) /\ output \in Seq(Pocs) /\ pics \in Seq(Pocs)
  BY DEF TypeInv
<1>2. ToSet(written) \subseteq Pocs /\ ToSet(output) \subseteq Pocs /\ ToSet(pics) \subseteq Pocs
  BY <1>1 DEF ToSet
<1>3. QED BY <1>1, <1>2, JoinSet DEF Begun, Arrived

(* While there are more to come, they have the greater numbers. *)
LEMMA NoGap ==
  ASSUME TypeInv, OrderInv, NEW x \in Begun, NEW y \in Pocs, y \notin Begun,
         y \in ToSet(pics) \/ NotArrived # {}
  PROVE  CodingNums[x] < CodingNums[y]
<1> DEFINE out == written \o output
<1>1. out \in Seq(Pocs) /\ ToSet(out) = Begun
  BY BegunIs
<1>2. x \in Pocs
  BY BegunIs
<1>3. CASE y \in ToSet(pics)
  BY <1>1, <1>3, PrecedesIs DEF OrderInv
<1>4. CASE NotArrived # {}
  <2>1. \A i \in 1 .. Len(out) : CodingNums[out[i]] = i - 1
    BY <1>4 DEF OrderInv
  <2> HIDE DEF out
  <2>2. DOMAIN out = 1 .. Len(out) /\ Len(out) \in Nat
    BY <1>1
  <2>3. PICK i \in 1 .. Len(out) : x = out[i]
    BY <1>1, <2>2, InToSet
  <2>4. CodingNums[x] = i - 1 /\ CodingNums[y] \in Nat
    BY <2>1, <2>3, NumbersAreNumbers
  <2>5. SUFFICES ASSUME CodingNums[y] <= i - 1 PROVE FALSE
    BY <2>4
  <2> DEFINE j == CodingNums[y] + 1
  <2>6. j \in 1 .. Len(out) /\ j - 1 = CodingNums[y]
    BY <2>2, <2>4, <2>5
  <2> HIDE DEF j
  <2>7. CodingNums[out[j]] = CodingNums[y] /\ out[j] \in Pocs
    BY <1>1, <2>1, <2>2, <2>6
  <2>8. out[j] = y
    BY <2>7, NumbersDiffer
  <2>9. out[j] \in Begun
    BY <1>1, <2>2, <2>6, InToSet
  <2>10. QED BY <2>8, <2>9
<1>5. QED BY <1>3, <1>4

LEMMA InitPlaces == Init => OrderInv /\ PlaceInv
<1> SUFFICES ASSUME Init PROVE OrderInv /\ PlaceInv
  OBVIOUS
<1>1. /\ pics = <<>> /\ input = <<>> /\ output = <<>> /\ reorder = <<>> /\ procList = <<>>
      /\ written = <<>> /\ coding = {} /\ reconstructed = {} /\ main.at = "idle"
  BY DEF Init
<1>2. ToSet(<<>>) = {} /\ Sorted(<<>>) /\ Distinct(<<>>) /\ <<>> \o <<>> = <<>>
  BY DEF ToSet, Sorted, Distinct
<1>3. Precedes(<<>>, <<>>) /\ \A i \in 1 .. Len(<<>>) : FALSE
  BY DEF Precedes
<1>4. OrderInv
  BY <1>1, <1>2, <1>3 DEF OrderInv
<1>5. PlaceInv
  BY <1>1, <1>2 DEF PlaceInv, Begun
<1>6. QED BY <1>4, <1>5

(* The next pictures come after those that are initialised. *)
LEMMA ArriveIs ==
  ASSUME TypeInv, Arrive
  PROVE  \E new \in SUBSET NotArrived :
           /\ pics' \in Seq(Pocs) /\ Sorted(pics') /\ ToSet(pics') = ToSet(pics) \union new
           /\ UNCHANGED <<output, written>>
<1> DEFINE first == CHOOSE p \in NotArrived : \A q \in NotArrived : p <= q
<1>1. PICK new : /\ pics' = Keep(CodingOrder, new \union ToSet(pics))
                 /\ new = {first} \/ new = {p \in NotArrived : GopNums[p] = GopNums[first]}
  BY Zenon DEF Arrive
<1>2. first \in NotArrived
  <2>1. NotArrived \subseteq Nat /\ NotArrived # {}
    BY LayersAssumption DEF Arrive, NotArrived, Pocs
  <2>2. \E p \in NotArrived : \A q \in NotArrived : p <= q
    BY <2>1, LeastNumber
  <2>3. QED BY <2>2, Zenon
<1> HIDE DEF first
<1>3. new \subseteq NotArrived
  BY <1>1, <1>2
<1>4. new \union ToSet(pics) \subseteq Pocs
  BY <1>3, BegunIs DEF NotArrived
<1>5. pics' \in Seq(Pocs) /\ Sorted(pics') /\ ToSet(pics') = ToSet(pics) \union new
  BY <1>1, <1>4, CodingOrderIs, KeepSet, KeepSorted
<1>6. QED BY <1>3, <1>5 DEF Arrive, lists

LEMMA WriteIs ==
  ASSUME TypeInv, Write
  PROVE  /\ written' \o output' = written \o output /\ Begun' = Begun
         /\ Head(output) \in reconstructed /\ written' = Append(written, Head(output))
         /\ written' \in Seq(Pocs) /\ output # <<>>
<1> DEFINE h == Head(output)
           t == Tail(output)
<1>1. written \in Seq(Pocs) /\ output \in Seq(Pocs) /\ output # <<>> /\ h \in reconstructed
  BY DEF TypeInv, Write, CanWrite
<1>2. /\ h \in Pocs /\ t \in Seq(Pocs) /\ output = <<h>> \o t
      /\ ToSet(output) = {h} \union ToSet(t)
  BY <1>1, HeadTail
<1>3. written' = Append(written, h) /\ output' = t
  BY DEF Write
<1> HIDE DEF h, t
<1>4. Append(written, h) = written \o <<h>> /\ Append(written, h) \in Seq(Pocs) /\ <<h>> \in Seq(Pocs)
  BY <1>1, <1>2
<1>5. (written \o <<h>>) \o t = written \o (<<h>> \o t)
  BY <1>1, <1>2, <1>4
<1>6. ToSet(Append(written, h)) = ToSet(written) \union {h}
  <2>1. ToSet(written \o <<h>>) = ToSet(written) \union ToSet(<<h>>)
    BY <1>1, <1>4, JoinSet
  <2>2. ToSet(<<h>>) = {h}
    BY <1>2, OneElement
  <2>3. QED BY <1>4, <2>1, <2>2, Zenon
<1>7. Begun' = ToSet(written') \union ToSet(output')
  BY DEF Begun
<1>8. QED BY <1>1, <1>2, <1>3, <1>4, <1>5, <1>6, <1>7 DEF Begun, h

LEMMA InitialisedIs ==
  ASSUME TypeInv, NEW n, Initialised(n)
  PROVE  \E pre \in Seq(Pocs) :
           /\ pics' \in Seq(Pocs) /\ pics = pre \o pics' /\ input' = input \o pre
           /\ Len(pre) = n /\ \A i \in 1 .. n : MayInit(i) /\ pre[i] = pics[i]
           /\ output' = output \o pre
<1> DEFINE pre == SubSeq(pics, 1, n)
<1>1. pics \in Seq(Pocs) /\ n \in 0 .. Len(pics)
  BY DEF TypeInv, Initialised
<1>2. pre \in Seq(Pocs) /\ pics' \in Seq(Pocs) /\ pics = pre \o pics'
  BY <1>1, InitPicsType
<1>3. Len(pre) = n /\ \A i \in 1 .. n : pre[i] = pics[i]
  BY <1>1
<1>4. input' = input \o pre /\ output' = output \o pre /\ \A i \in 1 .. n : MayInit(i)
  BY DEF Initialised
<1> HIDE DEF pre
<1>5. QED BY <1>2, <1>3, <1>4

(* Everything but new and initialised pictures, and one that is written,   *)
(* leaves the order alone.                                                 *)
LEMMA OrderNext ==
  ASSUME TypeInv, TypeInv', OrderInv, [Next]_vars
  PROVE  OrderInv'
<1> DEFINE out == written \o output
<1>1. out \in Seq(Pocs) /\ ToSet(out) = Begun /\ Begun \subseteq Pocs
  BY BegunIs
<1>2. Sorted(pics) /\ Sorted(out) /\ Precedes(out, pics)
  BY DEF OrderInv
<1>3. CASE Arrive
  <2>1. PICK new \in SUBSET NotArrived :
          /\ pics' \in Seq(Pocs) /\ Sorted(pics') /\ ToSet(pics') = ToSet(pics) \union new
          /\ UNCHANGED <<output, written>>
    BY <1>3, ArriveIs
  <2>2. ASSUME NEW x \in ToSet(out), NEW y \in ToSet(pics')
        PROVE  CodingNums[x] < CodingNums[y]
    <3>1. CASE y \in ToSet(pics)
      BY <1>2, <3>1, PrecedesIs
    <3>2. CASE y \in new
      <4>1. y \in Pocs /\ y \notin Begun /\ NotArrived # {}
        BY <3>2, BegunIs DEF NotArrived
      <4>2. QED BY <1>1, <4>1, NoGap
    <3>3. QED BY <2>1, <3>1, <3>2
  <2>3. Precedes(out, pics')
    BY <2>2, PrecedesIs
  <2>4. NotArrived' \subseteq NotArrived
    BY <2>1 DEF NotArrived, Arrived
  <2>5. out' = out
    BY <2>1
  <2>6. QED BY <1>2, <2>1, <2>3, <2>4, <2>5 DEF OrderInv
<1>4. CASE InitPics
  <2>1. PICK n \in Nat : Initialised(n)
    BY <1>4, InitPicsIs DEF TypeInv
  <2>2. PICK pre \in Seq(Pocs) :
          /\ pics' \in Seq(Pocs) /\ pics = pre \o pics' /\ input' = input \o pre
          /\ Len(pre) = n /\ \A i \in 1 .. n : MayInit(i) /\ pre[i] = pics[i]
          /\ output' = output \o pre
    BY <2>1, InitialisedIs
  <2>3. Sorted(pre) /\ Sorted(pics') /\ Precedes(pre, pics')
    BY <1>2, <2>2, SplitSorted
  <2>4. ToSet(pics) = ToSet(pre) \union ToSet(pics')
    BY <2>2, JoinSet
  <2>5. Precedes(out, pre) /\ Precedes(out, pics')
    BY <1>2, <2>4, PrecedesIs
  <2>6. written' = written /\ written \in Seq(Pocs) /\ output \in Seq(Pocs)
    BY <1>4 DEF InitPics, TypeInv
  <2>7. out' = out \o pre
    <3>1. out' = written \o (output \o pre)
      BY <2>2, <2>6
    <3>2. QED BY <2>6, <3>1, JoinTwice
  <2>8. Sorted(out \o pre)
    BY <1>1, <1>2, <2>2, <2>3, <2>5, JoinSorted
  <2>9. ToSet(out \o pre) = ToSet(out) \union ToSet(pre)
    BY <1>1, <2>2, JoinSet
  <2>10. Precedes(out \o pre, pics')
    BY <2>3, <2>5, <2>9, PrecedesIs
  <2>11. NotArrived' = NotArrived
    <3>1. Arrived' = ToSet(pics') \union ToSet(out')
      BY <2>6, BegunIs, TypeInv, JoinSet, SMTT(30) DEF Arrived, TypeInv
    <3>2. Arrived = ToSet(pics) \union ToSet(out)
      BY BegunIs
    <3>3. Arrived' = Arrived
      BY <2>4, <2>7, <2>9, <3>1, <3>2
    <3>4. QED BY <3>3 DEF NotArrived
  <2>12. ASSUME NotArrived # {}, NEW i \in 1 .. Len(out \o pre)
         PROVE  CodingNums[(out \o pre)[i]] = i - 1
    <3>1. /\ Len(out) = Len(written) + Len(output) /\ Len(out) \in Nat /\ Len(pre) = n
          /\ Len(out \o pre) = Len(out) + n
      <4>1. Len(out) = Len(written) + Len(output)
        BY <2>6
      <4> HIDE DEF out
      <4>2. Len(out \o pre) = Len(out) + Len(pre) /\ Len(out) \in Nat
        BY <1>1
      <4>3. QED BY <2>2, <4>1, <4>2
    <3>2. CASE i \in 1 .. Len(out)
      <4>1. (out \o pre)[i] = out[i]
        <5> HIDE DEF out
        <5>1. QED BY <1>1, <2>2, <3>2
      <4>2. QED BY <2>12, <3>2, <4>1 DEF OrderInv
    <3>3. CASE i - Len(out) \in 1 .. n
      <4>1. (out \o pre)[i] = pre[i - Len(out)]
        <5> HIDE DEF out
        <5>1. QED BY <1>1, <2>2, <3>1, <3>3
      <4>2. CodingNums[pics[i - Len(out)]] = Len(written) + Len(output) + (i - Len(out)) - 1
        BY <2>2, <2>12, <3>3 DEF MayInit
      <4>3. Len(written) + Len(output) + (i - Len(out)) - 1 = i - 1
        BY <2>6, <3>1
      <4>4. QED BY <2>2, <3>3, <4>1, <4>2, <4>3
    <3>4. QED BY <3>1, <3>2, <3>3
  <2> HIDE DEF out
  <2>13. /\ Sorted(pics') /\ Sorted(out') /\ Precedes(out', pics')
         /\ NotArrived' # {} => \A i \in 1 .. Len(out') : CodingNums[out'[i]] = i - 1
    BY <2>3, <2>7, <2>8, <2>10, <2>11, <2>12
  <2>14. QED BY <2>13 DEF OrderInv, out
<1>5. CASE Write
  <2>1. out' = out /\ Begun' = Begun /\ pics' = pics
    BY <1>5, WriteIs DEF Write
  <2>2. NotArrived' = NotArrived
    BY <2>1 DEF NotArrived, Arrived, Begun
  <2>3. QED BY <2>1, <2>2 DEF OrderInv
<1>6. CASE UNCHANGED <<pics, output, written>>
  BY <1>6 DEF OrderInv, NotArrived, Arrived
<1>7. CASE ~Arrive /\ ~InitPics /\ ~Write
  <2>1. UNCHANGED <<pics, output, written>>
    BY <1>7 DEF Next, Stage, vars, lists, CallStage, WaitForFreeEncoders, NoLists, PlainList,
                NextChunk, StartReorder, Reorder, FillWindow, FillReorder, Fetch, LoopEnds,
                WaitForPicture, EncodePicture, SkipPicture, PushEncoder, UpdateRc, NoOutput,
                Finish, WakeUp
  <2>2. QED BY <1>6, <2>1
<1>8. QED BY <1>3, <1>4, <1>5, <1>7

LEMMA JoinDistinct ==
  ASSUME NEW s \in Seq(Pocs), NEW t \in Seq(Pocs), Distinct(s), Distinct(t),
         ToSet(s) \intersect ToSet(t) = {}
  PROVE  Distinct(s \o t)
<1>1. /\ DOMAIN s = 1 .. Len(s) /\ DOMAIN t = 1 .. Len(t) /\ DOMAIN (s \o t) = 1 .. Len(s) + Len(t)
      /\ Len(s) \in Nat /\ Len(t) \in Nat
  OBVIOUS
<1>2. /\ \A k \in 1 .. Len(s) : (s \o t)[k] = s[k]
      /\ \A k \in 1 .. Len(t) : (s \o t)[k + Len(s)] = t[k]
  OBVIOUS
<1>3. \A i \in 1 .. Len(s), j \in 1 .. Len(t) : s[i] # t[j]
  <2>1. \A i \in 1 .. Len(s) : s[i] \in ToSet(s)
    BY <1>1, InToSet
  <2>2. \A j \in 1 .. Len(t) : t[j] \in ToSet(t)
    BY <1>1, InToSet
  <2>3. QED BY <2>1, <2>2
<1>4. ASSUME NEW i \in 1 .. Len(s) + Len(t), NEW j \in 1 .. Len(s) + Len(t), i < j
      PROVE  (s \o t)[i] # (s \o t)[j]
  <2>1. CASE i \in 1 .. Len(s) /\ j \in 1 .. Len(s)
    BY <1>1, <1>2, <1>4, <2>1 DEF Distinct
  <2>2. CASE i \in 1 .. Len(s) /\ j - Len(s) \in 1 .. Len(t) /\ j = (j - Len(s)) + Len(s)
    <3>1. (s \o t)[j] = t[j - Len(s)] /\ (s \o t)[i] = s[i]
      BY <1>2, <2>2
    <3>2. QED BY <1>3, <2>2, <3>1
  <2>3. CASE /\ i - Len(s) \in 1 .. Len(t) /\ i = (i - Len(s)) + Len(s)
             /\ j - Len(s) \in 1 .. Len(t) /\ j = (j - Len(s)) + Len(s)
    <3>1. (s \o t)[j] = t[j - Len(s)] /\ (s \o t)[i] = t[i - Len(s)] /\ i - Len(s) # j - Len(s)
      BY <1>1, <1>2, <1>4, <2>3
    <3>2. QED BY <1>1, <2>3, <3>1 DEF Distinct
  <2>4. \/ i \in 1 .. Len(s) /\ j \in 1 .. Len(s)
        \/ i \in 1 .. Len(s) /\ j - Len(s) \in 1 .. Len(t) /\ j = (j - Len(s)) + Len(s)
        \/ /\ i - Len(s) \in 1 .. Len(t) /\ i = (i - Len(s)) + Len(s)
           /\ j - Len(s) \in 1 .. Len(t) /\ j = (j - Len(s)) + Len(s)
    BY <1>1, <1>4
  <2>5. QED BY <2>1, <2>2, <2>3, <2>4
<1>5. \A i, j \in 1 .. Len(s) + Len(t) : i # j => i < j \/ j < i
  BY <1>1
<1>6. QED BY <1>1, <1>4, <1>5, Zenon DEF Distinct

(* What is taken from the input goes to the end of a list. *)
LEMMA TakenIs ==
  ASSUME input \in Seq(Pocs), Sorted(input), NEW list \in Seq(Pocs), NEW taken
  PROVE  /\ Sorted(Keep(input, Pocs \ taken))
         /\ ToSet(Keep(input, Pocs \ taken)) = ToSet(input) \ taken
         /\ Keep(input, taken) \in Seq(Pocs) /\ Sorted(Keep(input, taken))
         /\ ToSet(Keep(input, taken)) = ToSet(input) \intersect taken
         /\ ToSet(list \o Keep(input, taken)) = ToSet(list) \union (ToSet(input) \intersect taken)
         /\ Distinct(list) /\ ToSet(list) \intersect ToSet(input) = {}
              => Distinct(list \o Keep(input, taken))
<1> DEFINE rest == Keep(input, Pocs \ taken)
           more == Keep(input, taken)
<1>1. ToSet(input) \subseteq Pocs
  BY DEF ToSet
<1>2. /\ rest \in Seq(Pocs) /\ ToSet(rest) = ToSet(input) \intersect (Pocs \ taken) /\ Sorted(rest)
      /\ more \in Seq(Pocs) /\ ToSet(more) = ToSet(input) \intersect taken /\ Sorted(more)
  BY KeepSet, KeepSorted
<1> HIDE DEF rest, more
<1>3. ToSet(list \o more) = ToSet(list) \union ToSet(more)
  BY <1>2, JoinSet
<1>4. Distinct(more)
  BY <1>2, SortedIsDistinct
<1>5. ASSUME Distinct(list), ToSet(list) \intersect ToSet(input) = {}
      PROVE  Distinct(list \o more)
  BY <1>2, <1>4, <1>5, JoinDistinct
<1>6. /\ Sorted(rest) /\ ToSet(rest) = ToSet(input) \ taken
      /\ more \in Seq(Pocs) /\ Sorted(more) /\ ToSet(more) = ToSet(input) \intersect taken
      /\ ToSet(list \o more) = ToSet(list) \union (ToSet(input) \intersect taken)
  BY <1>1, <1>2, <1>3
<1>7. QED BY <1>5, <1>6 DEF rest, more

LEMMA HeadDiffers ==
  ASSUME NEW s \in Seq(Pocs), s # <<>>, Distinct(s)
  PROVE  Head(s) \notin ToSet(Tail(s)) /\ Distinct(Tail(s))
<1>1. /\ Tail(s) \in Seq(Pocs) /\ Head(s) = s[1] /\ DOMAIN s = 1 .. Len(s) /\ 1 \in 1 .. Len(s)
      /\ Len(s) \in Nat /\ Len(Tail(s)) = Len(s) - 1
      /\ \A i \in 1 .. Len(s) - 1 : Tail(s)[i] = s[i + 1]
  OBVIOUS
<1>2. DOMAIN Tail(s) = 1 .. Len(s) - 1
  BY <1>1
<1>3. \A i \in 1 .. Len(s) - 1 : i + 1 \in 1 .. Len(s) /\ i + 1 # 1
  BY <1>1
<1>4. \A i \in 1 .. Len(s) - 1 : Tail(s)[i] # Head(s)
  BY <1>1, <1>3 DEF Distinct
<1>5. ASSUME NEW i \in 1 .. Len(s) - 1, NEW j \in 1 .. Len(s) - 1, i # j
      PROVE  Tail(s)[i] # Tail(s)[j]
  <2>1. i + 1 # j + 1 /\ i + 1 \in DOMAIN s /\ j + 1 \in DOMAIN s
    BY <1>1, <1>3, <1>5
  <2>2. s[i + 1] # s[j + 1]
    BY <2>1 DEF Distinct
  <2>3. QED BY <1>1, <2>2
<1>6. Distinct(Tail(s))
  BY <1>2, <1>5 DEF Distinct
<1>7. \A x : x \in ToSet(Tail(s)) => \E i \in 1 .. Len(s) - 1 : x = Tail(s)[i]
  BY <1>2, InToSet
<1>8. QED BY <1>4, <1>6, <1>7

LEMMA GotoIs ==
  ASSUME NEW at, main \in MainType, Goto(at)
  PROVE  main'.at = at /\ main'.pic = main.pic /\ main'.n = main.n
BY DEF Goto, MainType

(* Pictures go from the input to the processing list. *)
LEMMA TakePlaces ==
  ASSUME TypeInv, PlaceInv, NEW taken,
         procList' = procList \o Keep(input, taken), input' = Keep(input, Pocs \ taken),
         UNCHANGED <<output, reorder, coding, reconstructed, written>>,
         main'.at # "encode"
  PROVE  PlaceInv'
<1>1. input \in Seq(Pocs) /\ procList \in Seq(Pocs) /\ Sorted(input)
  BY DEF TypeInv, PlaceInv
<1>2. /\ Sorted(input') /\ ToSet(input') = ToSet(input) \ taken
      /\ ToSet(procList') = ToSet(procList) \union (ToSet(input) \intersect taken)
  BY <1>1, TakenIs
<1>3. Begun' = Begun /\ ToSet(reorder)' = ToSet(reorder) /\ Distinct(reorder)'
  BY DEF Begun, PlaceInv
<1>4. QED BY <1>2, <1>3 DEF PlaceInv

LEMMA PlaceNext ==
  ASSUME TypeInv, TypeInv', OrderInv, PlaceInv, [Next]_vars
  PROVE  PlaceInv'
<1>1. /\ pics \in Seq(Pocs) /\ input \in Seq(Pocs) /\ output \in Seq(Pocs) /\ reorder \in Seq(Pocs)
      /\ procList \in Seq(Pocs) /\ written \in Seq(Pocs) /\ main \in MainType
      /\ coding \subseteq Pocs /\ reconstructed \subseteq Pocs
      /\ ToSet(input) \subseteq Pocs /\ ToSet(procList) \subseteq Pocs
  BY DEF TypeInv, ToSet
<1>2. CASE InitPics
  <2>1. PICK n \in Nat : Initialised(n)
    BY <1>2, InitPicsIs DEF TypeInv
  <2>2. PICK pre \in Seq(Pocs) :
          /\ pics' \in Seq(Pocs) /\ pics = pre \o pics' /\ input' = input \o pre
          /\ Len(pre) = n /\ \A i \in 1 .. n : MayInit(i) /\ pre[i] = pics[i]
          /\ output' = output \o pre
    BY <2>1, InitialisedIs
  <2>3. ToSet(pics) = ToSet(pre) \union ToSet(pics') /\ Sorted(pre)
    BY <2>2, JoinSet, SplitSorted DEF OrderInv
  <2>4. \A x \in Begun, y \in ToSet(pics) : CodingNums[x] < CodingNums[y]
    BY BegunIs, PrecedesIs DEF OrderInv
  <2>5. ToSet(input) \subseteq Begun /\ Sorted(input)
    BY DEF PlaceInv
  <2>6. Precedes(input, pre)
    BY <2>3, <2>4, <2>5, PrecedesIs
  <2>7. Sorted(input') /\ ToSet(input') = ToSet(input) \union ToSet(pre)
    BY <1>1, <2>2, <2>3, <2>5, <2>6, JoinSorted, JoinSet
  <2>8. ToSet(output') = ToSet(output) \union ToSet(pre)
    BY <1>1, <2>2, JoinSet
  <2>9. UNCHANGED <<reorder, procList, reconstructed, coding, written>> /\ main'.at # "encode"
    BY <1>1, <1>2, GotoIs, SMTT(30) DEF InitPics
  <2>10. Begun' = Begun \union ToSet(pre)
    BY <2>8, <2>9 DEF Begun
  <2>11. ToSet(pre) \intersect Begun = {}
    <3>1. \A x \in Begun : x \in Pocs /\ CodingNums[x] \in Nat
      BY BegunIs, NumbersAreNumbers
    <3>2. QED BY <2>3, <2>4, <3>1
  <2>12. ToSet(reorder)' = ToSet(reorder) /\ ToSet(procList)' = ToSet(procList)
         /\ Distinct(reorder)' = Distinct(reorder)
    BY <2>9
  <2>13. QED BY <2>7, <2>9, <2>10, <2>11, <2>12 DEF PlaceInv
<1>3. CASE PlainList
  <2>1. PICK taken : procList' = Keep(input, taken) /\ input' = Keep(input, Pocs \ taken)
    BY <1>3 DEF PlainList
  <2>2. procList = <<>> /\ Keep(input, taken) \in Seq(Pocs)
    BY <1>1, <1>3, KeepSet DEF PlainList, NeedLists
  <2>3. <<>> \o Keep(input, taken) = Keep(input, taken)
    <3>1. \A s \in Seq(Pocs) : <<>> \o s = s
      OBVIOUS
    <3>2. QED BY <2>2, <3>1, Zenon
  <2>4. procList' = procList \o Keep(input, taken)
    BY <2>1, <2>2, <2>3
  <2>5. main'.at # "encode"
    BY <1>1, <1>3, GotoIs DEF PlainList, ListsDone
  <2>6. UNCHANGED <<output, reorder, coding, reconstructed, written>>
    BY <1>3 DEF PlainList
  <2>7. QED BY <2>1, <2>4, <2>5, <2>6, TakePlaces
<1>4. CASE NextChunk
  <2>1. main'.at # "encode"
    BY <1>1, <1>4, GotoIs DEF NextChunk, ListsDone
  <2>2. UNCHANGED <<output, reorder, coding, reconstructed, written>>
    BY <1>4 DEF NextChunk
  <2>3. CASE rcUpdate = <<>>
    <3>1. PICK taken : procList' = procList \o Keep(input, taken) /\ input' = Keep(input, Pocs \ taken)
      BY <1>4, <2>3 DEF NextChunk, TakeFromInput
    <3>2. QED BY <2>1, <2>2, <3>1, TakePlaces
  <2>4. CASE rcUpdate # <<>>
    <3>1. UNCHANGED <<procList, input>>
      BY <1>4, <2>4 DEF NextChunk
    <3>2. QED BY <2>1, <2>2, <3>1 DEF PlaceInv, Begun
  <2>5. QED BY <2>3, <2>4
<1>5. CASE Reorder
  <2>1. UNCHANGED <<output, reorder, coding, reconstructed, written>>
    BY <1>5 DEF Reorder
  <2>2. main'.at # "encode"
    <3>1. Goto("fetch") \/ main' = main
      BY <1>5 DEF Reorder
    <3>2. main.at = "reorder"
      BY <1>5 DEF Reorder
    <3>3. QED BY <1>1, <3>1, <3>2, GotoIs
  <2>3. CASE input # <<>> /\ Len(procList) < main.n
    <3>1. PICK taken : procList' = procList \o Keep(input, taken) /\ input' = Keep(input, Pocs \ taken)
      BY <1>5, <2>3 DEF Reorder, TakeFromInput
    <3>2. QED BY <2>1, <2>2, <3>1, TakePlaces
  <2>4. CASE ~(input # <<>> /\ Len(procList) < main.n)
    <3>1. UNCHANGED <<procList, input>>
      BY <1>5, <2>4 DEF Reorder
    <3>2. QED BY <2>1, <2>2, <3>1 DEF PlaceInv, Begun
  <2>5. QED BY <2>3, <2>4
<1>6. CASE FillWindow
  <2>1. UNCHANGED <<input, output, coding, reconstructed, written>>
    BY <1>6 DEF FillWindow
  <2>2. main'.at # "encode"
    BY <1>1, <1>6 DEF FillWindow, MainType
  <2>3. CASE Len(rcUpdate) < mode.frames /\ reorder # <<>>
    <3>1. procList' = Append(procList, Head(reorder)) /\ reorder' = Tail(reorder)
      BY <1>6, <2>3 DEF FillWindow
    <3>2. /\ Head(reorder) \in Pocs /\ Tail(reorder) \in Seq(Pocs)
          /\ ToSet(reorder) = {Head(reorder)} \union ToSet(Tail(reorder))
      BY <1>1, <2>3, HeadTail
    <3>3. Head(reorder) \notin ToSet(Tail(reorder)) /\ Distinct(Tail(reorder))
      BY <1>1, <2>3, HeadDiffers DEF PlaceInv
    <3>4. ToSet(procList') = ToSet(procList) \union {Head(reorder)}
      BY <1>1, <3>1, <3>2, AppendSet
    <3>5. Begun' = Begun
      BY <2>1 DEF Begun
    <3>6. Distinct(reorder)' /\ ToSet(reorder)' = ToSet(Tail(reorder))
      BY <3>1, <3>3
    <3> DEFINE h == Head(reorder)
               t == ToSet(Tail(reorder))
    <3>7. /\ ToSet(reorder) = {h} \union t /\ h \notin t
          /\ ToSet(procList)' = ToSet(procList) \union {h}
          /\ Distinct(reorder)' /\ ToSet(reorder)' = t
      BY <3>2, <3>3, <3>4, <3>6
    <3> HIDE DEF h, t
    <3>8. QED BY <2>1, <2>2, <3>5, <3>7 DEF PlaceInv
  <2>4. CASE ~(Len(rcUpdate) < mode.frames /\ reorder # <<>>)
    <3>1. UNCHANGED <<procList, reorder>>
      BY <1>6, <2>4 DEF FillWindow
    <3>2. QED BY <2>1, <2>2, <3>1 DEF PlaceInv, Begun
  <2>5. QED BY <2>3, <2>4
<1>7. CASE FillReorder
  <2>1. UNCHANGED <<output, procList, coding, reconstructed, written>>
    BY <1>7 DEF FillReorder
  <2>2. main'.at # "encode"
    <3>1. main' = main \/ main' = [main EXCEPT !.at = "lists", !.n = 1]
      BY <1>7 DEF FillReorder
    <3>2. main.at = "fill"
      BY <1>7 DEF FillReorder
    <3>3. QED BY <1>1, <3>1, <3>2 DEF MainType
  <2>3. CASE Len(reorder) < mode.frames /\ input # <<>>
    <3>1. PICK taken : reorder' = reorder \o Keep(input, taken) /\ input' = Keep(input, Pocs \ taken)
      BY <1>7, <2>3 DEF FillReorder, TakeFromInput
    <3>2. /\ Sorted(input') /\ ToSet(input') = ToSet(input) \ taken
          /\ ToSet(reorder') = ToSet(reorder) \union (ToSet(input) \intersect taken)
          /\ Distinct(reorder')
      BY <1>1, <3>1, TakenIs, ZenonT(60) DEF PlaceInv
    <3>3. Begun' = Begun /\ ToSet(procList)' = ToSet(procList)
      BY <2>1 DEF Begun
    <3>4. QED BY <2>1, <2>2, <3>2, <3>3 DEF PlaceInv
  <2>4. CASE ~(Len(reorder) < mode.frames /\ input # <<>>)
    <3>1. UNCHANGED <<input, reorder>>
      BY <1>7, <2>4 DEF FillReorder
    <3>2. QED BY <2>1, <2>2, <3>1 DEF PlaceInv, Begun
  <2>5. QED BY <2>3, <2>4
<1>8. CASE Fetch
  <2>1. PICK i \in ReadyPics : main' = [main EXCEPT !.at = "encode", !.pic = procList[i]]
    BY <1>8 DEF Fetch
  <2>2. procList[i] \in ToSet(procList) /\ main'.pic = procList[i]
    BY <1>1, <2>1, InToSet DEF ReadyPics, MainType
  <2>3. UNCHANGED <<input, output, reorder, procList, coding, reconstructed, written>>
    BY <1>8 DEF Fetch, lists
  <2>4. QED BY <2>2, <2>3 DEF PlaceInv, Begun
<1>9. CASE EncodePicture \/ SkipPicture
  <2>1. main.at = "encode" /\ main.pic \in ToSet(procList)
    BY <1>9 DEF EncodePicture, SkipPicture, PlaceInv
  <2>2. procList' = Keep(procList, Pocs \ {main.pic})
        /\ UNCHANGED <<input, output, reorder, written>>
    BY <1>9 DEF EncodePicture, SkipPicture
  <2>3. ToSet(procList') = ToSet(procList) \ {main.pic}
    BY <1>1, <2>2, KeepSet
  <2>4. main'.at # "encode"
    <3>1. CASE EncodePicture
      <4>1. Goto("fetch")
        BY <3>1 DEF EncodePicture
      <4>2. QED BY <1>1, <4>1, GotoIs
    <3>2. CASE SkipPicture
      BY <1>1, <3>2 DEF SkipPicture, MainType
    <3>3. QED BY <1>9, <3>1, <3>2
  <2>5. \/ coding' = coding \union {main.pic} /\ reconstructed' = reconstructed
        \/ coding' = coding /\ reconstructed' = reconstructed \union {main.pic}
    BY <1>9 DEF EncodePicture, SkipPicture
  <2>6. Begun' = Begun /\ Distinct(reorder)' = Distinct(reorder) /\ Sorted(input)' = Sorted(input)
        /\ ToSet(reorder)' = ToSet(reorder) /\ ToSet(input)' = ToSet(input)
    BY <2>2 DEF Begun
  <2>7. QED BY <2>1, <2>3, <2>4, <2>5, <2>6 DEF PlaceInv
<1>10. CASE \E p \in Pocs : Finish(p)
  <2>1. PICK p \in Pocs : Finish(p)
    BY <1>10
  <2>2. /\ p \in coding /\ coding' = coding \ {p} /\ reconstructed' = reconstructed \union {p}
        /\ UNCHANGED <<input, output, reorder, procList, written>>
    BY <2>1 DEF Finish, lists
  <2>3. main'.at = "encode" => main.at = "encode" /\ main'.pic = main.pic
    <3>1. Goto(CASE main.at = "wait" -> "fetch" [] main.at = "topwait" -> "idle" [] OTHER -> main.at)
      BY <2>1 DEF Finish
    <3>2. main'.pic = main.pic
      BY <1>1, <3>1, GotoIs
    <3>3. CASE main.at = "wait"
      <4>1. Goto("fetch")
        BY <3>1, <3>3
      <4>2. QED BY <1>1, <4>1, GotoIs
    <3>4. CASE main.at = "topwait"
      <4>1. Goto("idle")
        BY <3>1, <3>4
      <4>2. QED BY <1>1, <4>1, GotoIs
    <3>5. CASE main.at # "wait" /\ main.at # "topwait"
      <4>1. Goto(main.at)
        BY <3>1, <3>5, Zenon
      <4>2. QED BY <1>1, <3>2, <4>1, GotoIs
    <3>6. QED BY <3>3, <3>4, <3>5
  <2>4. Begun' = Begun /\ Distinct(reorder)' = Distinct(reorder) /\ Sorted(input)' = Sorted(input)
        /\ ToSet(reorder)' = ToSet(reorder) /\ ToSet(input)' = ToSet(input)
        /\ ToSet(procList)' = ToSet(procList)
    BY <2>2 DEF Begun
  <2>5. QED BY <2>2, <2>3, <2>4 DEF PlaceInv
<1>11. CASE Write
  <2>1. Begun' = Begun
    BY <1>11, WriteIs
  <2>2. UNCHANGED <<input, reorder, procList, coding, reconstructed>> /\ main'.at # "encode"
    BY <1>1, <1>11, GotoIs DEF Write
  <2>3. QED BY <2>1, <2>2 DEF PlaceInv
<1>12. CASE UNCHANGED <<input, output, reorder, procList, coding, reconstructed, written>>
            /\ (main'.at = "encode" => main' = main)
  BY <1>12 DEF PlaceInv, Begun
<1>13. CASE Arrive \/ CallStage \/ WaitForFreeEncoders \/ NoLists \/ StartReorder \/ LoopEnds
            \/ WaitForPicture \/ PushEncoder \/ UpdateRc \/ NoOutput \/ WakeUp
  <2>1. UNCHANGED <<input, output, reorder, procList, coding, reconstructed, written>>
    BY <1>13 DEF Arrive, CallStage, WaitForFreeEncoders, NoLists, StartReorder, LoopEnds,
                 WaitForPicture, PushEncoder, UpdateRc, NoOutput, WakeUp, lists
  <2>2. CASE Arrive
    BY <1>12, <2>1, <2>2 DEF Arrive
  <2>3. CASE UpdateRc
    <3>1. \/ main' = main \/ main' = [main EXCEPT !.n = main.n + 1]
          \/ main' = [main EXCEPT !.at = "output", !.n = 0]
      BY <2>3 DEF UpdateRc
    <3>2. main.at = "rc"
      BY <2>3 DEF UpdateRc
    <3>3. main'.at # "encode"
      BY <1>1, <3>1, <3>2 DEF MainType
    <3>4. QED BY <1>12, <2>1, <3>3
  <2>4. CASE StartReorder \/ PushEncoder
    <3>1. main'.at # "encode"
      BY <1>1, <2>4, ZenonT(60) DEF StartReorder, PushEncoder, MainType
    <3>2. QED BY <1>12, <2>1, <3>1
  <2>5. CASE CallStage \/ WaitForFreeEncoders \/ NoLists \/ LoopEnds \/ WaitForPicture
             \/ NoOutput \/ WakeUp
    <3>1. main'.at # "encode"
      BY <1>1, <2>5, GotoIs DEF CallStage, WaitForFreeEncoders, NoLists, LoopEnds, WaitForPicture,
                               NoOutput, WakeUp, ListsDone
    <3>2. QED BY <1>12, <2>1, <3>1
  <2>6. QED BY <1>13, <2>2, <2>3, <2>4, <2>5
<1>14. CASE UNCHANGED vars
  BY <1>12, <1>14 DEF vars, lists
<1>15. QED
  BY <1>2, <1>3, <1>4, <1>5, <1>6, <1>7, <1>8, <1>9, <1>10, <1>11, <1>13, <1>14 DEF Next, Stage

-----------------------------------------------------------------------------
(* Picture encoders.                                                       *)

InUse == IF main.at \in {"encode", "push"} THEN 1 ELSE 0

(* No encoder is used twice: while a picture that is left out gives its    *)
(* encoder back, main.n is what the list had.                              *)
CountInv ==
  /\ free + Cardinality(coding) + InUse <= Encoders
  /\ main.at = "push" => /\ mode.skip
                         /\ main.n + Cardinality(coding) + 1 <= Encoders

(* None is lost, unless pictures are left out and others coded meanwhile.  *)
NoneLost ==
  (mode.skip => mode.frames <= 1) =>
    /\ free + Cardinality(coding) + InUse = Encoders
    /\ main.at = "push" => main.n = free

LEMMA CodingCount ==
  ASSUME coding \subseteq Pocs
  PROVE  /\ IsFiniteSet(coding) /\ Cardinality(coding) \in Nat
         /\ \A p \in Pocs : p \notin coding => Cardinality(coding \union {p}) = Cardinality(coding) + 1
         /\ \A p \in coding : Cardinality(coding \ {p}) = Cardinality(coding) - 1
         /\ Cardinality(coding) = 0 <=> coding = {}
<1>1. IsFiniteSet(Pocs)
  BY LayersAssumption, FS_Interval DEF Pocs
<1>2. IsFiniteSet(coding)
  BY <1>1, FS_Subset
<1>3. QED BY <1>2, FS_CardinalityType, FS_AddElement, FS_RemoveElement, FS_EmptySet

LEMMA CountInit == Init => CountInv /\ NoneLost
<1> SUFFICES ASSUME Init PROVE CountInv /\ NoneLost
  OBVIOUS
<1>1. coding = {} /\ free = Encoders /\ main.at = "idle" /\ mode \in Modes
  BY DEF Init
<1>2. Cardinality(coding) = 0 /\ Encoders \in Nat
  BY <1>1, FS_EmptySet, ModeIs
<1>3. InUse = 0
  BY <1>1 DEF InUse
<1>4. QED BY <1>1, <1>2, <1>3 DEF CountInv, NoneLost

LEMMA ModeKept ==
  ASSUME [Next]_vars
  PROVE  mode' = mode /\ Encoders' = Encoders
BY DEF Next, Stage, vars, lists, Arrive, CallStage, WaitForFreeEncoders, InitPics, NoLists,
       PlainList, NextChunk, StartReorder, Reorder, FillWindow, FillReorder, Fetch, LoopEnds,
       WaitForPicture, EncodePicture, SkipPicture, PushEncoder, UpdateRc, NoOutput, Write,
       Finish, WakeUp, Encoders

(* The steps that neither take an encoder nor give one back. *)
LEMMA OtherSteps ==
  ASSUME TypeInv, [Next]_vars,
         ~Fetch, ~EncodePicture, ~SkipPicture, ~PushEncoder, ~(\E p \in Pocs : Finish(p))
  PROVE  /\ UNCHANGED <<coding, reconstructed, free>>
         /\ main'.at \in {"encode", "push"} => main' = main
<1>1. main \in MainType
  BY DEF TypeInv
<1>2. CASE UNCHANGED vars
  BY <1>2 DEF vars
<1>3. CASE Arrive
  BY <1>3 DEF Arrive
<1>4. CASE CallStage \/ WaitForFreeEncoders \/ InitPics \/ NoLists \/ PlainList
           \/ LoopEnds \/ WaitForPicture \/ NoOutput \/ WakeUp \/ Write
  <2>1. UNCHANGED <<coding, reconstructed, free>>
    BY <1>4 DEF CallStage, WaitForFreeEncoders, InitPics, NoLists, PlainList, LoopEnds,
                WaitForPicture, NoOutput, WakeUp, Write
  <2>2. \E at \in Places \ {"encode", "push"} : Goto(at)
    BY <1>4 DEF Places, CallStage, WaitForFreeEncoders, InitPics, NoLists, PlainList, LoopEnds,
                WaitForPicture, NoOutput, WakeUp, Write, ListsDone
  <2>3. QED BY <1>1, <2>1, <2>2, GotoIs
<1>5. CASE NextChunk
  <2>1. UNCHANGED <<coding, reconstructed, free>>
    BY <1>5 DEF NextChunk
  <2>2. Goto("rc") \/ Goto("fetch")
    BY <1>5 DEF NextChunk, ListsDone
  <2>3. QED BY <1>1, <2>1, <2>2, GotoIs
<1>6. CASE Reorder
  <2>1. UNCHANGED <<coding, reconstructed, free>>
    BY <1>6 DEF Reorder
  <2>2. main' = main \/ Goto("fetch")
    BY <1>6 DEF Reorder
  <2>3. QED BY <1>1, <2>1, <2>2, GotoIs
<1>7. CASE StartReorder \/ FillReorder \/ UpdateRc
  <2>1. UNCHANGED <<coding, reconstructed, free>>
    BY <1>7 DEF StartReorder, FillReorder, UpdateRc
  <2>2. \/ main' = main \/ main' = [main EXCEPT !.at = "lists", !.n = 1]
        \/ main' = [main EXCEPT !.at = "output", !.n = 0]
        \/ main.at = "rc" /\ main' = [main EXCEPT !.n = main.n + 1]
        \/ \E n : main' = [main EXCEPT !.at = "reorder", !.n = n]
    BY <1>7 DEF StartReorder, FillReorder, UpdateRc
  <2>3. QED BY <1>1, <2>1, <2>2 DEF MainType
<1>8. CASE FillWindow
  <2>1. UNCHANGED <<coding, reconstructed, free>>
    BY <1>8 DEF FillWindow
  <2>2. main'.at \notin {"encode", "push"}
    BY <1>1, <1>8 DEF FillWindow, MainType
  <2>3. QED BY <2>1, <2>2
<1>9. QED BY <1>2, <1>3, <1>4, <1>5, <1>6, <1>7, <1>8 DEF Next, Stage

LEMMA AtEncode ==
  ASSUME [Next]_vars, ~EncodePicture, ~SkipPicture, ~PushEncoder, ~(\E p \in Pocs : Finish(p)),
         main.at \in {"encode", "push"}
  PROVE  main' = main
BY DEF Next, Stage, vars, Arrive, CallStage, WaitForFreeEncoders, InitPics, NoLists,
       PlainList, NextChunk, StartReorder, Reorder, FillWindow, FillReorder, Fetch, LoopEnds,
       WaitForPicture, UpdateRc, NoOutput, Write, WakeUp, AllWritten

LEMMA FinishIs ==
  ASSUME TypeInv, NEW p, Finish(p)
  PROVE  /\ main'.pic = main.pic /\ main'.n = main.n
         /\ main'.at \in {"encode", "push"} <=> main.at \in {"encode", "push"}
         /\ main.at \in {"encode", "push"} => main' = main
<1>1. main \in MainType
      /\ Goto(CASE main.at = "wait" -> "fetch" [] main.at = "topwait" -> "idle" [] OTHER -> main.at)
  BY DEF Finish, TypeInv
<1>2. main'.pic = main.pic /\ main'.n = main.n
  BY <1>1, GotoIs
<1>3. CASE main.at = "wait"
  <2>1. Goto("fetch")
    BY <1>1, <1>3
  <2>2. QED BY <1>1, <1>2, <1>3, <2>1, GotoIs
<1>4. CASE main.at = "topwait"
  <2>1. Goto("idle")
    BY <1>1, <1>4
  <2>2. QED BY <1>1, <1>2, <1>4, <2>1, GotoIs
<1>5. CASE main.at # "wait" /\ main.at # "topwait"
  <2>1. Goto(main.at)
    BY <1>1, <1>5, Zenon
  <2>2. main' = main
    BY <1>1, <2>1 DEF Goto, MainType
  <2>3. QED BY <2>2
<1>6. QED BY <1>3, <1>4, <1>5

LEMMA CountNext ==
  ASSUME TypeInv, TypeInv', PlaceInv, CountInv, NoneLost, [Next]_vars
  PROVE  CountInv' /\ NoneLost'
<1> DEFINE c == Cardinality(coding)
           One == mode.skip => mode.frames <= 1
<1>1. /\ main \in MainType /\ coding \subseteq Pocs /\ free \in Nat /\ main.n \in Nat
      /\ Encoders \in Nat /\ Encoders' = Encoders /\ mode' = mode
  BY ModeIs, ModeKept DEF TypeInv, MainType
<1>2. c \in Nat /\ \A p \in coding : Cardinality(coding \ {p}) = c - 1
  BY <1>1, CodingCount
<1>3. free + c + InUse <= Encoders /\ (One => free + c + InUse = Encoders)
  BY DEF CountInv, NoneLost
<1>4. main.at = "push" => /\ mode.skip /\ main.n + c + 1 <= Encoders
                          /\ One => main.n = free
  BY DEF CountInv, NoneLost
<1> HIDE DEF c
<1>5. SUFFICES /\ free' + Cardinality(coding') + InUse' <= Encoders
               /\ One => free' + Cardinality(coding') + InUse' = Encoders
               /\ main'.at = "push" => /\ mode.skip /\ main'.n + Cardinality(coding') + 1 <= Encoders
                                       /\ One => main'.n = free'
  BY <1>1 DEF CountInv, NoneLost
<1>6. CASE Fetch
  <2>1. /\ free' = free - 1 /\ coding' = coding /\ main.at = "fetch"
        /\ \E i : main' = [main EXCEPT !.at = "encode", !.pic = procList[i]]
    BY <1>6 DEF Fetch
  <2>2. main'.at = "encode"
    BY <1>1, <2>1 DEF MainType
  <2>3. InUse = 0 /\ InUse' = 1
    BY <2>1, <2>2 DEF InUse
  <2>4. Cardinality(coding') = c
    BY <2>1 DEF c
  <2>5. QED BY <1>1, <1>2, <1>3, <2>1, <2>2, <2>3, <2>4
<1>7. CASE EncodePicture
  <2>1. main.at = "encode" /\ Goto("fetch") /\ free' = free /\ coding' = coding \union {main.pic}
    BY <1>7 DEF EncodePicture
  <2>2. main'.at = "fetch"
    BY <1>1, <2>1, GotoIs
  <2>3. main.pic \in Pocs /\ main.pic \notin coding
    BY <1>1, <2>1 DEF PlaceInv, MainType
  <2>4. Cardinality(coding') = c + 1
    BY <1>1, <2>1, <2>3, CodingCount DEF c
  <2>5. InUse = 1 /\ InUse' = 0
    BY <2>1, <2>2 DEF InUse
  <2>6. QED BY <1>1, <1>2, <1>3, <2>1, <2>2, <2>4, <2>5
<1>8. CASE SkipPicture
  <2>1. /\ main.at = "encode" /\ main' = [main EXCEPT !.at = "push", !.n = free] /\ free' = free
        /\ coding' = coding /\ mode.skip
    BY <1>8 DEF SkipPicture, Skipped
  <2>2. main'.at = "push" /\ main'.n = free
    BY <1>1, <2>1 DEF MainType
  <2>3. InUse = 1 /\ InUse' = 1
    BY <2>1, <2>2 DEF InUse
  <2>4. Cardinality(coding') = c
    BY <2>1 DEF c
  <2>5. QED BY <1>1, <1>2, <1>3, <2>1, <2>2, <2>3, <2>4
<1>9. CASE PushEncoder
  <2>1. /\ main.at = "push" /\ main' = [main EXCEPT !.at = "fetch", !.n = 0]
        /\ free' = main.n + 1 /\ coding' = coding
    BY <1>9 DEF PushEncoder
  <2>2. main'.at = "fetch"
    BY <1>1, <2>1 DEF MainType
  <2>3. InUse = 1 /\ InUse' = 0
    BY <2>1, <2>2 DEF InUse
  <2>4. Cardinality(coding') = c
    BY <2>1 DEF c
  <2>5. QED BY <1>1, <1>2, <1>3, <1>4, <2>1, <2>2, <2>3, <2>4
<1>10. CASE \E p \in Pocs : Finish(p)
  <2>1. PICK p \in Pocs : Finish(p)
    BY <1>10
  <2>2. p \in coding /\ coding' = coding \ {p} /\ free' = free + 1
    BY <2>1 DEF Finish
  <2>3. Cardinality(coding') = c - 1
    BY <1>2, <2>2
  <2>4. InUse' = InUse /\ InUse \in {0, 1} /\ (main.at = "push" => InUse = 1)
    BY <2>1, FinishIs DEF InUse
  <2>5. main'.at = "push" => main' = main /\ main.at = "push"
    BY <2>1, FinishIs
  <2>6. main'.at = "push" => ~One
    <3>1. ASSUME main.at = "push", One PROVE FALSE
      <4>1. mode.frames <= 1 /\ mode.frames \in Nat /\ Encoders = 1
        <5>1. mode.skip /\ mode.frames \in Nat
          BY <1>4, <3>1, ModeIs DEF TypeInv, ModeType
        <5>2. mode.frames <= 1
          BY <3>1, <5>1
        <5>3. QED BY <5>1, <5>2 DEF Encoders
      <4>2. c > 0
        <5>1. c # 0
          BY <1>1, <2>2, CodingCount DEF c
        <5>2. QED BY <1>2, <5>1
      <4>3. QED BY <1>1, <1>2, <1>3, <2>4, <3>1, <4>1, <4>2
    <3>2. QED BY <2>5, <3>1
  <2> HIDE DEF One
  <2>7. QED BY <1>1, <1>2, <1>3, <1>4, <2>2, <2>3, <2>4, <2>5, <2>6
<1>11. CASE ~Fetch /\ ~EncodePicture /\ ~SkipPicture /\ ~PushEncoder /\ ~(\E p \in Pocs : Finish(p))
  <2>1. /\ coding' = coding /\ free' = free
        /\ main'.at \in {"encode", "push"} => main' = main
    BY <1>11, OtherSteps
  <2>2. InUse' <= InUse /\ InUse' \in {0, 1} /\ InUse \in {0, 1}
    BY <2>1 DEF InUse
  <2>3. InUse' = InUse
    <3>1. main.at \in {"encode", "push"} => main'.at \in {"encode", "push"}
      BY <1>11, AtEncode
    <3>2. QED BY <2>1, <3>1 DEF InUse
  <2>4. Cardinality(coding') = c
    BY <2>1 DEF c
  <2>5. main'.at = "push" => main' = main
    BY <2>1
  <2> HIDE DEF One
  <2>6. QED BY <1>1, <1>3, <1>4, <2>1, <2>3, <2>4, <2>5
<1>12. QED BY <1>6, <1>7, <1>8, <1>9, <1>10, <1>11

StateInv == TypeInv /\ OrderInv /\ PlaceInv /\ CountInv /\ NoneLost

LEMMA StateInvariant == Spec => []StateInv
<1>1. Init => StateInv
  BY TypeInit, InitPlaces, CountInit DEF StateInv
<1>2. StateInv /\ [Next]_vars => StateInv'
  <2> SUFFICES ASSUME StateInv, [Next]_vars PROVE StateInv'
    OBVIOUS
  <2>1. TypeInv'
    BY TypeNext DEF StateInv
  <2>2. OrderInv' /\ PlaceInv'
    BY <2>1, OrderNext, PlaceNext DEF StateInv
  <2>3. CountInv' /\ NoneLost'
    BY <2>1, CountNext DEF StateInv
  <2>4. QED BY <2>1, <2>2, <2>3 DEF StateInv
<1>3. QED BY <1>1, <1>2, PTL DEF Spec

(* The state has its type, and the encoders are accounted for: what is in  *)
(* the list of free ones, with the pictures being coded, is all there are, *)
(* if a first pass that leaves out pictures has one encoder.  (With more,  *)
(* one can be lost: run gop_encoder_first_pass.)                           *)
THEOREM TypeCorrect ==
  ASSUME \A m \in Modes : m.skip => m.frames <= 1
  PROVE  Spec => []TypeOK
<1>1. \A m \in Modes : m.skip => m.frames <= 1
  OBVIOUS
<1>2. StateInv => TypeOK
  <2> SUFFICES ASSUME StateInv PROVE TypeOK
    OBVIOUS
  <2>1. TypeInv /\ PlaceInv /\ NoneLost
    BY DEF StateInv
  <2>2. mode \in Modes /\ main.at \in Places /\ free \in Nat
    BY <2>1 DEF TypeInv, MainType
  <2>3. mode.skip => mode.frames <= 1
    BY <1>1, <2>2
  <2>4. free + Cardinality(coding) + InUse = Encoders
    BY <2>1, <2>3 DEF NoneLost
  <2>5. \A l \in {pics, input, output, reorder, procList, rcUpdate, written, accounted} :
          \A i \in DOMAIN l : l[i] \in Pocs
    <3>1. \A s \in Seq(Pocs) : \A i \in DOMAIN s : s[i] \in Pocs
      OBVIOUS
    <3>2. \A l \in {pics, input, output, reorder, procList, rcUpdate, written, accounted} :
            l \in Seq(Pocs)
      BY <2>1 DEF TypeInv
    <3>3. QED BY <3>1, <3>2
  <2>6. \A s \in {listed, reconstructed, coding} : s \subseteq Pocs
    BY <2>1 DEF TypeInv
  <2>7. coding \intersect reconstructed = {}
    BY <2>1 DEF PlaceInv
  <2>8. QED BY <2>2, <2>4, <2>5, <2>6, <2>7, Zenon DEF TypeOK, InUse, Places
<1>3. QED BY <1>2, StateInvariant, PTL

-----------------------------------------------------------------------------
(* GOP by GOP.                                                             *)

LEMMA HeadLeast ==
  ASSUME NEW s \in Seq(Pocs), Sorted(s), NEW p \in ToSet(s)
  PROVE  s # <<>> /\ (p = Head(s) \/ CodingNums[Head(s)] < CodingNums[p])
<1>1. PICK i \in DOMAIN s : p = s[i]
  BY InToSet
<1>2. s # <<>> /\ Head(s) = s[1] /\ 1 \in DOMAIN s /\ (i = 1 \/ 1 < i)
  BY <1>1
<1>3. QED BY <1>1, <1>2, Zenon DEF Sorted

LEMMA RemoveAtSet ==
  ASSUME NEW s \in Seq(Pocs), NEW i \in 1 .. Len(s), NEW p \in ToSet(s), p # s[i]
  PROVE  p \in ToSet(RemoveAt(s, i))
<1> DEFINE a == SubSeq(s, 1, i - 1)
           b == SubSeq(s, i + 1, Len(s))
<1>1. a \in Seq(Pocs) /\ b \in Seq(Pocs)
  BY SubSeqType
<1>2. RemoveAt(s, i) = a \o b
  BY DEF RemoveAt
<1>3. ToSet(RemoveAt(s, i)) = ToSet(a) \union ToSet(b)
  BY <1>1, <1>2, JoinSet
<1>4. PICK j \in 1 .. Len(s) : p = s[j]
  BY InToSet
<1>5. j # i
  BY <1>4
<1>6. CASE j < i
  <2>1. j \in DOMAIN a /\ a[j] = s[j]
    BY <1>6
  <2>2. QED BY <1>3, <1>4, <2>1, InToSet
<1>7. CASE i < j
  <2>1. j - i \in DOMAIN b /\ b[j - i] = s[j]
    BY <1>7
  <2>2. QED BY <1>3, <1>4, <2>1, InToSet
<1>8. QED BY <1>5, <1>6, <1>7

(* What the modes leave out. *)
ModeInv ==
  /\ main.at = "reorder" => mode.ifp /\ ~mode.lockStep
  /\ main.at = "fill" => mode.ifp /\ mode.lockStep
  /\ reorder # <<>> => mode.ifp /\ mode.lockStep

LEMMA ModeInit == Init => ModeInv
BY DEF Init, ModeInv

LEMMA ModeNext ==
  ASSUME TypeInv, ModeInv, [Next]_vars
  PROVE  ModeInv'
<1>1. mode' = mode /\ main \in MainType
  BY ModeKept DEF TypeInv
<1>2. CASE StartReorder
  BY <1>1, <1>2 DEF StartReorder, MainType, ModeInv, lists
<1>3. CASE Reorder
  <2>1. (main' = main \/ Goto("fetch")) /\ reorder' = reorder
    BY <1>3 DEF Reorder
  <2>2. QED BY <1>1, <2>1, GotoIs DEF ModeInv
<1>4. CASE FillWindow
  <2>1. mode.ifp /\ mode.lockStep /\ main'.at # "reorder"
    BY <1>1, <1>4 DEF FillWindow, MainType
  <2>2. QED BY <1>1, <2>1 DEF ModeInv
<1>5. CASE FillReorder
  <2>1. mode.ifp /\ mode.lockStep /\ main.at = "fill"
    BY <1>5 DEF FillReorder, ModeInv
  <2>2. main' = main \/ main' = [main EXCEPT !.at = "lists", !.n = 1]
    BY <1>5 DEF FillReorder
  <2>3. main'.at # "reorder"
    BY <1>1, <2>1, <2>2 DEF MainType
  <2>4. QED BY <1>1, <2>1, <2>3 DEF ModeInv
<1>6. CASE UpdateRc
  <2>1. reorder' = reorder /\ main.at = "rc"
    BY <1>6 DEF UpdateRc
  <2>2. \/ main' = main \/ main' = [main EXCEPT !.n = main.n + 1]
        \/ main' = [main EXCEPT !.at = "output", !.n = 0]
    BY <1>6 DEF UpdateRc
  <2>3. main'.at \notin {"reorder", "fill"}
    BY <1>1, <2>1, <2>2 DEF MainType
  <2>4. QED BY <1>1, <2>1, <2>3 DEF ModeInv
<1>7. CASE Fetch \/ SkipPicture \/ PushEncoder
  <2>1. main'.at \notin {"reorder", "fill"} /\ reorder' = reorder
    BY <1>1, <1>7 DEF Fetch, SkipPicture, PushEncoder, MainType, lists
  <2>2. QED BY <1>1, <2>1 DEF ModeInv
<1>8. CASE \E p \in Pocs : Finish(p)
  <2>1. PICK p \in Pocs : Finish(p)
    BY <1>8
  <2>2. /\ Goto(CASE main.at = "wait" -> "fetch" [] main.at = "topwait" -> "idle" [] OTHER -> main.at)
        /\ reorder' = reorder
    BY <2>1 DEF Finish, lists
  <2>3. CASE main.at \in {"wait", "topwait"}
    <3>1. Goto("fetch") \/ Goto("idle")
      BY <2>2, <2>3
    <3>2. QED BY <1>1, <2>2, <3>1, GotoIs DEF ModeInv
  <2>4. CASE main.at # "wait" /\ main.at # "topwait"
    <3>1. Goto(main.at)
      BY <2>2, <2>4, Zenon
    <3>2. QED BY <1>1, <2>2, <3>1, GotoIs DEF ModeInv
  <2>5. QED BY <2>3, <2>4
<1>9. CASE CallStage \/ WaitForFreeEncoders \/ InitPics \/ NoLists \/ PlainList \/ NextChunk
           \/ LoopEnds \/ WaitForPicture \/ EncodePicture \/ NoOutput \/ WakeUp \/ Write
  <2>1. reorder' = reorder
    BY <1>9 DEF CallStage, WaitForFreeEncoders, InitPics, NoLists, PlainList, NextChunk, LoopEnds,
                WaitForPicture, EncodePicture, NoOutput, WakeUp, Write, lists
  <2>2. \E at \in Places \ {"reorder", "fill"} : Goto(at)
    BY <1>9 DEF Places, CallStage, WaitForFreeEncoders, InitPics, NoLists, PlainList, NextChunk,
                LoopEnds, WaitForPicture, EncodePicture, NoOutput, WakeUp, Write, ListsDone
  <2>3. QED BY <1>1, <2>1, <2>2, GotoIs DEF ModeInv
<1>10. CASE Arrive \/ UNCHANGED vars
  BY <1>1, <1>10 DEF Arrive, vars, lists, ModeInv
<1>11. QED
  BY <1>2, <1>3, <1>4, <1>5, <1>6, <1>7, <1>8, <1>9, <1>10 DEF Next, Stage

(* With a rate cap and without IFP, what is listed or being coded waits to *)
(* be evaluated, and all GOPs before its own are finished.                 *)
GopInv ==
  mode.rateCap /\ ~mode.ifp =>
    /\ ToSet(procList) \union coding \subseteq ToSet(rcUpdate)
    /\ \A p \in ToSet(procList) \union coding : \A q \in Pocs :
         GopNums[q] < GopNums[p] => q \in reconstructed

LEMMA GopInit == Init => GopInv
BY DEF Init, GopInv, ToSet

(* When a GOP is begun, all that are before it are finished. *)
LEMMA EarlierGops ==
  ASSUME TypeInv, OrderInv, PlaceInv, input # <<>>, reorder = <<>>, procList = <<>>, coding = {},
         NEW q \in Pocs, GopNums[q] < GopNums[Head(input)]
  PROVE  q \in reconstructed
<1> DEFINE h == Head(input)
<1>1. input \in Seq(Pocs) /\ h \in Pocs /\ h \in ToSet(input) /\ Sorted(input)
  <2>1. input \in Seq(Pocs) /\ Sorted(input)
    BY DEF TypeInv, PlaceInv
  <2>2. h \in Pocs /\ ToSet(input) = {h} \union ToSet(Tail(input))
    BY <2>1, HeadTail
  <2>3. QED BY <2>1, <2>2
<1>2. CodingNums[q] < CodingNums[h] /\ CodingNums[q] \in Nat /\ CodingNums[h] \in Nat
  BY <1>1, GopsInOrder, NumbersAreNumbers
<1>3. ToSet(<<>>) = {}
  BY DEF ToSet
<1>4. Begun = ToSet(input) \union reconstructed
  BY <1>3 DEF PlaceInv
<1>5. q \in Begun
  <2>1. SUFFICES ASSUME q \notin Begun PROVE FALSE
    OBVIOUS
  <2>2. q \in ToSet(pics) \/ NotArrived # {}
    BY <2>1, BegunIs DEF NotArrived
  <2>3. CodingNums[h] < CodingNums[q]
    BY <1>1, <1>4, <2>1, <2>2, NoGap
  <2>4. QED BY <1>2, <2>3
<1>6. q \notin ToSet(input)
  <2>1. SUFFICES ASSUME q \in ToSet(input) PROVE FALSE
    OBVIOUS
  <2>2. q = h \/ CodingNums[h] < CodingNums[q]
    BY <1>1, <2>1, HeadLeast
  <2>3. QED BY <1>2, <2>2
<1>7. QED BY <1>4, <1>5, <1>6

LEMMA GopNext ==
  ASSUME TypeInv, OrderInv, PlaceInv, ModeInv, GopInv, [Next]_vars
  PROVE  GopInv'
<1> DEFINE begun == ToSet(procList) \union coding
<1>1. mode' = mode /\ mode \in Modes /\ main \in MainType
      /\ procList \in Seq(Pocs) /\ input \in Seq(Pocs) /\ rcUpdate \in Seq(Pocs)
  BY ModeKept DEF TypeInv
<1>2. SUFFICES ASSUME mode.rateCap /\ ~mode.ifp
               PROVE  /\ begun' \subseteq ToSet(rcUpdate')
                      /\ \A p \in begun' : \A q \in Pocs :
                           GopNums[q] < GopNums[p] => q \in reconstructed'
  BY <1>1 DEF GopInv
<1>3. ~mode.lockStep /\ ~mode.skip
  BY <1>1, <1>2, ModesAssumption DEF ModeType
<1>4. /\ begun \subseteq ToSet(rcUpdate)
      /\ \A p \in begun : \A q \in Pocs : GopNums[q] < GopNums[p] => q \in reconstructed
  BY <1>2 DEF GopInv
<1>5. reorder = <<>> /\ main.at \notin {"reorder", "fill"}
  BY <1>2, <1>3 DEF ModeInv
<1>6. ToSet(<<>>) = {}
  BY DEF ToSet
<1>7. CASE PlainList
  <2>1. procList = <<>> /\ input # <<>> /\ rcUpdate = <<>> /\ UNCHANGED <<coding, reconstructed>>
    BY <1>2, <1>5, <1>7 DEF PlainList, NeedLists
  <2>2. coding = {}
    BY <1>4, <1>6, <2>1
  <2>3. /\ procList' = Keep(input, {p \in Pocs : GopNums[p] = GopNums[Head(input)]})
        /\ rcUpdate' = procList'
    BY <1>2, <1>7 DEF PlainList
  <2>4. ToSet(procList') = ToSet(input) \intersect {p \in Pocs : GopNums[p] = GopNums[Head(input)]}
    BY <1>1, <2>3, KeepSet
  <2>5. begun' = ToSet(procList')
    BY <2>1, <2>2
  <2>6. \A p \in begun' : GopNums[p] = GopNums[Head(input)]
    BY <2>4, <2>5
  <2>7. \A q \in Pocs : GopNums[q] < GopNums[Head(input)] => q \in reconstructed
    BY <1>5, <2>1, <2>2, EarlierGops
  <2>8. QED BY <2>1, <2>3, <2>5, <2>6, <2>7
<1>8. CASE EncodePicture \/ SkipPicture
  <2>1. main.pic \in ToSet(procList)
    BY <1>8 DEF EncodePicture, SkipPicture, PlaceInv
  <2>2. procList' = Keep(procList, Pocs \ {main.pic}) /\ rcUpdate' = rcUpdate
    BY <1>8 DEF EncodePicture, SkipPicture
  <2>3. ToSet(procList') = ToSet(procList) \intersect (Pocs \ {main.pic})
    BY <1>1, <2>2, KeepSet
  <2>4. coding' \subseteq coding \union {main.pic} /\ reconstructed \subseteq reconstructed'
    BY <1>8 DEF EncodePicture, SkipPicture
  <2>5. begun' \subseteq begun
    BY <2>1, <2>3, <2>4
  <2>6. QED BY <1>4, <2>2, <2>4, <2>5
<1>9. CASE \E p \in Pocs : Finish(p)
  <2>1. /\ coding' \subseteq coding /\ reconstructed \subseteq reconstructed'
        /\ UNCHANGED <<procList, rcUpdate>>
    BY <1>9 DEF Finish, lists
  <2>2. begun' \subseteq begun
    BY <2>1
  <2>3. QED BY <1>4, <2>1, <2>2
<1>10. CASE UpdateRc
  <2>1. UNCHANGED <<procList, coding, reconstructed>>
    BY <1>10 DEF UpdateRc
  <2>2. CASE UNCHANGED rcUpdate
    BY <1>4, <2>1, <2>2
  <2>3. CASE ~(UNCHANGED rcUpdate)
    <3>1. main.n + 1 \in 1 .. Len(rcUpdate) /\ rcUpdate[main.n + 1] \in reconstructed
          /\ rcUpdate' = RemoveAt(rcUpdate, main.n + 1)
      BY <1>1, <1>10, <2>3 DEF UpdateRc, MainType
    <3>2. begun \intersect reconstructed = {}
      BY DEF PlaceInv
    <3>3. begun \subseteq ToSet(rcUpdate')
      BY <1>1, <1>4, <3>1, <3>2, RemoveAtSet
    <3>4. QED BY <1>4, <2>1, <3>3
  <2>4. QED BY <2>2, <2>3
<1>11. CASE Write
  <2>1. UNCHANGED <<procList, coding, reconstructed>> /\ Head(output) \in reconstructed
    BY <1>11 DEF Write, CanWrite
  <2>2. \/ rcUpdate' = rcUpdate
        \/ rcUpdate # <<>> /\ Head(rcUpdate) = Head(output) /\ rcUpdate' = Tail(rcUpdate)
    BY <1>3, <1>11 DEF Write
  <2>3. begun \intersect reconstructed = {}
    BY DEF PlaceInv
  <2>4. rcUpdate # <<>> => ToSet(rcUpdate) = {Head(rcUpdate)} \union ToSet(Tail(rcUpdate))
    BY <1>1, HeadTail
  <2>5. begun \subseteq ToSet(rcUpdate')
    BY <1>4, <2>1, <2>2, <2>3, <2>4
  <2>6. QED BY <1>4, <2>1, <2>5
<1>12. CASE UNCHANGED <<procList, rcUpdate, coding, reconstructed>>
  BY <1>4, <1>12
<1>13. CASE ~PlainList /\ ~EncodePicture /\ ~SkipPicture /\ ~(\E p \in Pocs : Finish(p)) /\ ~UpdateRc
            /\ ~Write
  <2>1. UNCHANGED <<procList, rcUpdate, coding, reconstructed>>
    BY <1>2, <1>3, <1>5, <1>13
    DEF Next, Stage, vars, lists, Arrive, CallStage, WaitForFreeEncoders, InitPics, NoLists,
        NextChunk, StartReorder, Reorder, FillWindow, FillReorder, Fetch, LoopEnds,
        WaitForPicture, PushEncoder, NoOutput, WakeUp
  <2>2. QED BY <1>12, <2>1
<1>14. QED BY <1>7, <1>8, <1>9, <1>10, <1>11, <1>13

(* With a rate cap, and without IFP, a GOP is coded when all pictures of   *)
(* the GOPs before it are finished, whatever has come, been initialised or *)
(* been left out of the update list meanwhile.                             *)
THEOREM GopsAfterEachOther == Spec => []GopByGop
<1> DEFINE Inv == ModeInv /\ GopInv
<1>1. Init => Inv
  BY ModeInit, GopInit
<1>2. StateInv /\ Inv /\ [Next]_vars => Inv'
  BY ModeNext, GopNext DEF StateInv
<1>3. Inv => GopByGop
  BY DEF GopInv, GopByGop
<1> HIDE DEF Inv
<1>4. QED BY <1>1, <1>2, <1>3, StateInvariant, PTL DEF Spec

-----------------------------------------------------------------------------
(* What a picture waits for.                                               *)

(* An entry of a GOP is found by its picture. *)
LEMMA OneEntry ==
  ASSUME NEW i \in 1 .. GopSize, NEW j \in 1 .. GopSize, GopOrder[i] = GopOrder[j]
  PROVE  i = j
<1> DEFINE f == [k \in 1 .. GopSize |-> GopOrder[k]]
           S == 1 .. GopSize
<1>1. GopSize \in Nat /\ {GopOrder[k] : k \in 1 .. GopSize} = 1 .. GopSize
  BY GopAssumption
<1>2. f \in [S -> S] /\ \A t \in S : \E k \in S : f[k] = t
  BY <1>1
<1>3. f \in Surjection(S, S)
  BY <1>2 DEF Surjection
<1>4. IsFiniteSet(S)
  BY <1>1, FS_Interval
<1>5. f \in Injection(S, S)
  <2> HIDE DEF f, S
  <2>1. QED BY <1>3, <1>4, FS_SurjSameCardinalityImpliesInj
<1>6. f[i] = f[j]
  OBVIOUS
<1>7. DOMAIN f = S /\ i \in S /\ j \in S
  OBVIOUS
<1> HIDE DEF f, S
<1>8. \A a, b \in DOMAIN f : f[a] = f[b] => a = b
  BY <1>5 DEF Injection, IsInjective
<1>9. QED BY <1>6, <1>7, <1>8

(* A picture predicts from pictures before it in coding order. *)
LEMMA RefsBefore ==
  ASSUME NEW p \in Pocs, NEW r \in Refs[p]
  PROVE  r \in Pocs /\ CodingNums[r] < CodingNums[p]
<1>1. r \in Pocs /\ r \in Active(p)
  BY DEF Refs
<1>2. /\ p \in Nat /\ r \in Nat /\ CodingNums[p] = CodingNum(p) /\ GopNums[p] = GopNum(p)
      /\ CodingNums[r] = CodingNum(r) /\ GopNums[r] = GopNum(r)
  BY <1>1, LayersAssumption DEF Pocs, CodingNums, GopNums
<1>3. ~IsLeading0(p)
  BY <1>1 DEF Active
<1>4. GopSize \in Nat \ {0}
  BY GopAssumption
<1> DEFINE e == EntryOf(p)
<1>5. /\ e \in 1 .. GopSize /\ GopOrder[e] = PocInGop(p) /\ PocInGop(p) = (Place(p) % GopSize) + 1
      /\ Place(p) \in Nat /\ GopNum(p) = Place(p) \div GopSize /\ GopNum(p) \in Nat
      /\ CodingNum(p) = First + GopNum(p) * GopSize + e - 1
  BY <1>2, <1>3, EntryIs, NumberIs
<1>6. /\ Place(p) % GopSize \in 0 .. GopSize - 1
      /\ Place(p) = GopSize * GopNum(p) + (Place(p) % GopSize)
  BY <1>4, <1>5, DivisionTheorem
<1>7. PICK d \in GopRefs[e] : r = GopOrder[e] - d + p - PocInGop(p)
  BY <1>1, <1>3 DEF Active, ActiveInGop
<1> DEFINE x == GopOrder[e] - d
<1>8. x \in Int /\ r = x + p - PocInGop(p) /\ PocInGop(p) \in Int
  <2>1. d \in Int
    BY <1>5, <1>7, GopAssumption
  <2>2. PocInGop(p) \in Int
    BY <1>4, <1>5, <1>6
  <2>3. GopOrder[e] \in Int
    BY <1>5, <2>2
  <2>4. QED BY <1>7, <2>1, <2>2, <2>3
<1>9. x > 0 => \E j \in 1 .. e - 1 : GopOrder[j] = x
  BY <1>5, <1>7, GopAssumption
<1> HIDE DEF x, e
<1>10. First \in {0, 1} /\ GopNum(p) * GopSize \in Nat
  BY <1>4, <1>5 DEF First
<1>11. CASE IsLeading0(r)
  <2>1. CodingNum(r) = 0 /\ First = 1
    BY <1>11 DEF IsLeading0, CodingNum, First
  <2>2. QED BY <1>1, <1>2, <1>5, <1>10, <2>1
<1>12. CASE ~IsLeading0(r)
  <2>1. /\ Place(r) \in Nat /\ GopNum(r) = Place(r) \div GopSize /\ GopNum(r) \in Nat
        /\ PocInGop(r) = (Place(r) % GopSize) + 1
        /\ EntryOf(r) \in 1 .. GopSize /\ GopOrder[EntryOf(r)] = PocInGop(r)
        /\ CodingNum(r) = First + GopNum(r) * GopSize + EntryOf(r) - 1
    BY <1>2, <1>12, EntryIs, NumberIs
  <2>2. /\ Place(r) % GopSize \in 0 .. GopSize - 1
        /\ Place(r) = GopSize * GopNum(r) + (Place(r) % GopSize)
    BY <1>4, <2>1, DivisionTheorem
  <2>3. Place(r) = GopSize * GopNum(p) + x - 1
    <3>1. Place(r) = Place(p) + x - PocInGop(p)
      BY <1>2, <1>8 DEF Place
    <3>2. Place(p) % GopSize \in Int /\ GopSize * GopNum(p) \in Int
      BY <1>4, <1>5, <1>6
    <3>3. QED BY <1>5, <1>6, <1>8, <3>1, <3>2
  <2>4. CASE x <= 0
    <3>1. Place(r) < GopSize * GopNum(p)
      <4>1. GopSize * GopNum(p) \in Int
        BY <1>4, <1>5
      <4>2. QED BY <1>8, <2>3, <2>4, <4>1
    <3>2. GopNum(r) < GopNum(p)
      <4>1. SUFFICES ASSUME GopNum(p) <= GopNum(r) PROVE FALSE
        BY <1>5, <2>1
      <4>2. GopSize * GopNum(p) <= GopSize * GopNum(r)
        <5>1. PICK k \in Nat : GopNum(r) = GopNum(p) + k
          <6>1. GopNum(r) - GopNum(p) \in Nat /\ GopNum(r) = GopNum(p) + (GopNum(r) - GopNum(p))
            BY <1>5, <2>1, <4>1
          <6>2. QED BY <6>1
        <5>2. GopSize * GopNum(r) = GopSize * GopNum(p) + GopSize * k /\ GopSize * k \in Nat
          BY <1>4, <1>5, <5>1
        <5>3. GopSize * GopNum(p) \in Nat
          BY <1>4, <1>5
        <5>4. QED BY <5>2, <5>3
      <4>3. GopSize * GopNum(r) \in Nat /\ GopSize * GopNum(p) \in Nat
        BY <1>4, <1>5, <2>1
      <4>4. QED BY <2>1, <2>2, <3>1, <4>2, <4>3
    <3>3. QED BY <1>1, <1>2, <3>2, GopsInOrder
  <2>5. CASE x > 0
    <3>1. PICK j \in 1 .. e - 1 : GopOrder[j] = x
      BY <1>9, <2>5
    <3>2. j \in 1 .. GopSize /\ x \in 1 .. GopSize /\ j < e
      <4>1. j \in 1 .. GopSize /\ j < e
        BY <1>4, <1>5, <3>1
      <4>2. x \in {GopOrder[k] : k \in 1 .. GopSize}
        BY <3>1, <4>1
      <4>3. QED BY <4>1, <4>2, GopAssumption
    <3>3. GopNum(r) = GopNum(p) /\ Place(r) % GopSize = x - 1
      <4>1. GopSize \in Nat \ {0} /\ GopNum(r) \in Nat /\ GopNum(p) \in Nat
        BY <1>4, <1>5, <2>1
      <4>2. /\ Place(r) = GopSize * GopNum(r) + (Place(r) % GopSize)
            /\ Place(r) = GopSize * GopNum(p) + x - 1
            /\ Place(r) % GopSize \in 0 .. GopSize - 1 /\ x \in 1 .. GopSize
        BY <2>2, <2>3, <3>2
      <4>3. GopSize * GopNum(r) + (Place(r) % GopSize) = GopSize * GopNum(p) + x - 1
        BY <4>2
      <4> DEFINE a == Place(r) % GopSize
      <4>4. a \in 0 .. GopSize - 1
        BY <4>2
      <4>5. GopSize * GopNum(r) + a = GopSize * GopNum(p) + x - 1
        BY <4>3
      <4> HIDE DEF Place, a
      <4>6. GopNum(r) = GopNum(p) /\ a = x - 1
        <5> DEFINE n == GopSize
                   g == GopNum(r)
                   h == GopNum(p)
        <5>1. g * n + a = h * n + (x - 1) /\ g * n \in Nat /\ h * n \in Nat
          BY <4>1, <4>2, <4>5
        <5>2. n \in Nat \ {0} /\ g \in Nat /\ h \in Nat /\ a \in 0 .. n - 1 /\ x \in 1 .. n
          BY <4>1, <4>2, <4>4
        <5> HIDE DEF n, g, h
        <5>3. ~(g < h)
          <6>1. SUFFICES ASSUME g < h PROVE FALSE
            OBVIOUS
          <6>2. g * n + n <= h * n
            BY <5>2, <6>1, LaterGop
          <6>3. QED BY <5>1, <5>2, <6>2
        <5>4. ~(h < g)
          <6>1. SUFFICES ASSUME h < g PROVE FALSE
            OBVIOUS
          <6>2. h * n + n <= g * n
            BY <5>2, <6>1, LaterGop
          <6>3. QED BY <5>1, <5>2, <6>2
        <5>5. g = h
          BY <5>2, <5>3, <5>4
        <5>6. a = x - 1
          BY <5>1, <5>2, <5>5
        <5>7. QED BY <5>5, <5>6 DEF g, h
      <4>7. QED BY <4>6 DEF a
    <3>4. GopOrder[EntryOf(r)] = GopOrder[j]
      <4>1. PocInGop(r) = x
        BY <1>8, <2>1, <3>3
      <4>2. QED BY <2>1, <3>1, <4>1
    <3>5. EntryOf(r) = j
      BY <2>1, <3>2, <3>4, OneEntry
    <3>6. CodingNum(r) = First + GopNum(p) * GopSize + j - 1
      BY <2>1, <3>3, <3>5
    <3>7. QED BY <1>1, <1>2, <1>5, <1>10, <3>2, <3>6
  <2>6. QED BY <1>8, <2>4, <2>5
<1>13. QED BY <1>11, <1>12

LEMMA GopNumsAreNumbers ==
  ASSUME NEW p \in Pocs
  PROVE  GopNums[p] \in Nat
<1>1. p \in Nat /\ GopNums[p] = GopNum(p)
  BY LayersAssumption DEF Pocs, GopNums
<1>2. CASE IsLeading0(p)
  BY <1>1, <1>2 DEF GopNum
<1>3. CASE ~IsLeading0(p)
  BY <1>1, <1>3, EntryIs
<1>4. QED BY <1>2, <1>3

-----------------------------------------------------------------------------
(* What comes before an initialised picture in coding order is initialised. *)
LEMMA EarlierBegun ==
  ASSUME TypeInv, OrderInv, NEW p \in Begun, NEW r \in Pocs, CodingNums[r] < CodingNums[p]
  PROVE  r \in Begun
<1>1. SUFFICES ASSUME r \notin Begun PROVE FALSE
  OBVIOUS
<1>2. r \in ToSet(pics) \/ NotArrived # {}
  BY <1>1, BegunIs DEF NotArrived
<1>3. CodingNums[p] < CodingNums[r]
  BY <1>1, <1>2, NoGap
<1>4. p \in Pocs
  BY BegunIs
<1>5. CodingNums[p] \in Nat /\ CodingNums[r] \in Nat
  BY <1>4, NumbersAreNumbers
<1>6. QED BY <1>3, <1>5

(* Without chunks and IFP pictures are listed in coding order. *)
BlockInv ==
  ~mode.ifp /\ ~mode.lockStep => Sorted(procList) /\ Precedes(procList, input)

LEMMA BlockInit == Init => BlockInv
BY DEF Init, BlockInv, Sorted, Precedes

LEMMA BlockNext ==
  ASSUME TypeInv, OrderInv, PlaceInv, ModeInv, BlockInv, [Next]_vars
  PROVE  BlockInv'
<1>1. mode' = mode /\ mode \in Modes /\ main \in MainType
      /\ procList \in Seq(Pocs) /\ input \in Seq(Pocs) /\ Sorted(input)
  BY ModeKept DEF TypeInv, PlaceInv
<1>2. SUFFICES ASSUME ~mode.ifp /\ ~mode.lockStep
               PROVE  Sorted(procList') /\ Precedes(procList', input')
  BY <1>1 DEF BlockInv
<1>3. Sorted(procList) /\ Precedes(procList, input)
  BY <1>2 DEF BlockInv
<1>4. main.at \notin {"reorder", "fill"}
  BY <1>2 DEF ModeInv
<1>5. CASE InitPics
  <2>1. PICK n \in Nat : Initialised(n)
    BY <1>5, InitPicsIs DEF TypeInv
  <2>2. PICK pre \in Seq(Pocs) :
          /\ pics' \in Seq(Pocs) /\ pics = pre \o pics' /\ input' = input \o pre
          /\ Len(pre) = n /\ \A i \in 1 .. n : MayInit(i) /\ pre[i] = pics[i]
          /\ output' = output \o pre
    BY <2>1, InitialisedIs
  <2>3. ToSet(pics) = ToSet(pre) \union ToSet(pics')
    BY <2>2, JoinSet
  <2>4. \A x \in Begun, y \in ToSet(pics) : CodingNums[x] < CodingNums[y]
    BY BegunIs, PrecedesIs DEF OrderInv
  <2>5. ToSet(procList) \subseteq Begun
    BY DEF PlaceInv
  <2>6. ToSet(input') = ToSet(input) \union ToSet(pre)
    BY <1>1, <2>2, JoinSet
  <2>7. Precedes(procList, input')
    BY <1>3, <2>3, <2>4, <2>5, <2>6, PrecedesIs
  <2>8. procList' = procList
    BY <1>5 DEF InitPics
  <2>9. QED BY <1>3, <2>7, <2>8
<1>6. CASE PlainList
  <2> DEFINE h == Head(input)
             taken == {p \in Pocs : mode.rateCap => GopNums[p] = GopNums[h]}
  <2>1. procList' = Keep(input, taken) /\ input' = Keep(input, Pocs \ taken)
    BY <1>6 DEF PlainList
  <2>2. Sorted(procList')
    BY <1>1, <2>1, KeepSorted
  <2>3. /\ ToSet(procList') = ToSet(input) \intersect taken
        /\ ToSet(input') = ToSet(input) \intersect (Pocs \ taken)
    BY <1>1, <2>1, KeepSet
  <2>4. ASSUME NEW x \in ToSet(procList'), NEW y \in ToSet(input')
        PROVE  CodingNums[x] < CodingNums[y]
    <3>1. /\ x \in Pocs /\ y \in Pocs /\ x \in ToSet(input) /\ y \in ToSet(input)
          /\ GopNums[x] = GopNums[h] /\ GopNums[y] # GopNums[h]
      BY <2>3, <2>4
    <3>2. h \in Pocs /\ (y = h \/ CodingNums[h] < CodingNums[y])
      BY <1>1, <3>1, HeadLeast, HeadTail
    <3>3. GopNums[h] \in Nat /\ GopNums[y] \in Nat
      BY <3>1, <3>2, GopNumsAreNumbers
    <3>4. ~(GopNums[y] < GopNums[h])
      <4>1. SUFFICES ASSUME GopNums[y] < GopNums[h] PROVE FALSE
        OBVIOUS
      <4>2. CodingNums[y] < CodingNums[h]
        BY <3>1, <3>2, <4>1, GopsInOrder
      <4>3. CodingNums[y] \in Nat /\ CodingNums[h] \in Nat
        BY <3>1, <3>2, NumbersAreNumbers
      <4>4. QED BY <3>1, <3>2, <4>2, <4>3
    <3>5. GopNums[x] < GopNums[y]
      BY <3>1, <3>3, <3>4
    <3>6. QED BY <3>1, <3>5, GopsInOrder
  <2>5. QED BY <2>2, <2>4, PrecedesIs
<1>7. CASE EncodePicture \/ SkipPicture
  <2>1. procList' = Keep(procList, Pocs \ {main.pic}) /\ input' = input
    BY <1>7 DEF EncodePicture, SkipPicture
  <2>2. ToSet(procList') \subseteq ToSet(procList) /\ Sorted(procList')
    BY <1>1, <1>3, <2>1, KeepSet, KeepSorted
  <2>3. Precedes(procList', input')
    BY <1>3, <2>1, <2>2, PrecedesIs
  <2>4. QED BY <2>2, <2>3
<1>8. CASE UNCHANGED <<procList, input>>
  BY <1>3, <1>8
<1>9. CASE ~InitPics /\ ~PlainList /\ ~EncodePicture /\ ~SkipPicture
  <2>1. UNCHANGED <<procList, input>>
    BY <1>2, <1>4, <1>9
    DEF Next, Stage, vars, lists, Arrive, CallStage, WaitForFreeEncoders, NoLists,
        NextChunk, StartReorder, Reorder, FillWindow, FillReorder, Fetch, LoopEnds,
        WaitForPicture, PushEncoder, UpdateRc, NoOutput, Write, Finish, WakeUp
  <2>2. QED BY <1>8, <2>1
<1>10. QED BY <1>5, <1>6, <1>7, <1>9

(* When nothing is being coded, a blocking stage finds a picture to code:  *)
(* the first that is listed predicts from, and takes filter parameters     *)
(* from, pictures before it, and all of these are finished.                *)
LEMMA FindsPicture ==
  ASSUME TypeInv, OrderInv, PlaceInv, ModeInv, BlockInv,
         procList # <<>>, coding = {}, ~mode.nonBlocking
  PROVE  ReadyPics # {}
<1>1. /\ procList \in Seq(Pocs) /\ mode \in Modes
      /\ DOMAIN procList = 1 .. Len(procList) /\ 1 \in DOMAIN procList
  <2>1. procList \in Seq(Pocs) /\ mode \in Modes
    BY DEF TypeInv
  <2>2. QED BY <2>1
<1>2. ~mode.lockStep /\ ~(mode.rateCap /\ mode.frames > 0)
  BY <1>1, ModesAssumption DEF ModeType
<1> DEFINE p == procList[1]
<1>3. p \in Pocs /\ p \in ToSet(procList) /\ p = Head(procList)
  BY <1>1, InToSet
<1>4. SUFFICES Ready(p)
  BY <1>1 DEF ReadyPics
<1>5. CASE mode.ifp
  BY <1>1, <1>2, <1>5, ModesAssumption DEF Ready
<1>6. CASE ~mode.ifp
  <2>1. reorder = <<>> /\ Sorted(procList) /\ Precedes(procList, input)
    BY <1>2, <1>6 DEF ModeInv, BlockInv
  <2>2. ToSet(reorder) = {}
    BY <2>1 DEF ToSet
  <2>3. p \in Begun
    BY <1>3 DEF PlaceInv
  <2>4. ASSUME NEW r \in Pocs, CodingNums[r] < CodingNums[p]
        PROVE  r \in reconstructed
    <3>1. r \in Begun
      BY <2>3, <2>4, EarlierBegun
    <3>2. CodingNums[r] \in Nat /\ CodingNums[p] \in Nat
      BY <1>3, NumbersAreNumbers
    <3>3. r \notin ToSet(input)
      <4>1. SUFFICES ASSUME r \in ToSet(input) PROVE FALSE
        OBVIOUS
      <4>2. CodingNums[p] < CodingNums[r]
        BY <1>3, <2>1, <4>1, PrecedesIs
      <4>3. QED BY <2>4, <3>2, <4>2
    <3>4. r \notin ToSet(procList)
      <4>1. SUFFICES ASSUME r \in ToSet(procList) PROVE FALSE
        OBVIOUS
      <4>2. r = p \/ CodingNums[p] < CodingNums[r]
        BY <1>1, <1>3, <2>1, <4>1, HeadLeast
      <4>3. QED BY <2>4, <3>2, <4>2
    <3>5. QED BY <2>2, <3>1, <3>3, <3>4 DEF PlaceInv
  <2>5. Refs[p] \subseteq reconstructed
    BY <1>3, <2>4, RefsBefore
  <2>6. RefAps[p] \subseteq reconstructed
    BY <1>3, <2>4 DEF RefAps
  <2>7. QED BY <1>2, <2>5, <2>6 DEF Ready
<1>7. QED BY <1>5, <1>6

(* The thread of the stage never waits for a picture when none is being    *)
(* coded, in every mode: the CHECK before m_gopEncCond.wait holds.         *)
THEOREM AlwaysWaitsForSomething == Spec => []WaitsForSomething
<1> DEFINE Inv == ModeInv /\ BlockInv
<1>1. Init => Inv
  BY ModeInit, BlockInit
<1>2. StateInv /\ Inv /\ [Next]_vars => Inv'
  BY ModeNext, BlockNext DEF StateInv
<1>3. StateInv /\ Inv => WaitsForSomething
  <2>1. SUFFICES ASSUME StateInv, Inv, NothingToStart, ~MayOutput, EncodersFinished
                 PROVE  FALSE
    BY DEF WaitsForSomething
  <2>2. TypeInv /\ OrderInv /\ PlaceInv /\ CountInv
    BY <2>1 DEF StateInv
  <2>3. mode \in Modes /\ Encoders \in Nat \ {0} /\ free \in Nat /\ coding \subseteq Pocs
    BY <2>2, ModeIs DEF TypeInv
  <2>4. free >= Encoders /\ ~NoEncoder
    BY <2>1, <2>3 DEF EncodersFinished, NoEncoder
  <2>5. coding = {}
    <3>1. Cardinality(coding) \in Nat /\ InUse \in Nat
      BY <2>3, CodingCount DEF InUse
    <3>2. free + Cardinality(coding) + InUse <= Encoders
      BY <2>2 DEF CountInv
    <3>3. Cardinality(coding) = 0
      BY <2>3, <2>4, <3>1, <3>2
    <3>4. QED BY <2>3, <3>3, CodingCount
  <2>6. procList # <<>> /\ ~mode.nonBlocking /\ ReadyPics = {}
    BY <2>1, <2>4 DEF NothingToStart, LeaveLoop, MayOutput
  <2>7. QED BY <2>1, <2>2, <2>5, <2>6, FindsPicture
<1> HIDE DEF Inv
<1>4. QED BY <1>1, <1>2, <1>3, StateInvariant, PTL DEF Spec

-----------------------------------------------------------------------------
(* With IFP, the pictures that one in a list predicts from are done, or    *)
(* come earlier in the list.                                               *)
EarlierIn(s, i) == {q \in Pocs : \E j \in 1 .. i - 1 : q = s[j]}

Follows(s, done) == \A i \in DOMAIN s : Refs[s[i]] \subseteq done \union EarlierIn(s, i)

LEMMA FollowsMore ==
  ASSUME NEW s, NEW done, NEW more, Follows(s, done), done \subseteq more
  PROVE  Follows(s, more)
BY DEF Follows

LEMMA FollowsFirst ==
  ASSUME NEW s \in Seq(Pocs), s # <<>>, NEW done, Follows(s, done)
  PROVE  Refs[Head(s)] \subseteq done /\ Follows(Tail(s), done \union {Head(s)})
<1>1. /\ Tail(s) \in Seq(Pocs) /\ Head(s) = s[1] /\ DOMAIN s = 1 .. Len(s) /\ 1 \in DOMAIN s
      /\ Len(s) \in Nat /\ DOMAIN Tail(s) = 1 .. Len(s) - 1
      /\ \A i \in 1 .. Len(s) - 1 : Tail(s)[i] = s[i + 1]
  OBVIOUS
<1>2. EarlierIn(s, 1) = {}
  BY DEF EarlierIn
<1>3. Refs[Head(s)] \subseteq done
  BY <1>1, <1>2 DEF Follows
<1> DEFINE t == Tail(s)
<1> HIDE DEF t
<1>4. ASSUME NEW i \in DOMAIN t
      PROVE  Refs[t[i]] \subseteq (done \union {Head(s)}) \union EarlierIn(t, i)
  <2>1. i + 1 \in DOMAIN s /\ t[i] = s[i + 1] /\ i \in 1 .. Len(s) - 1
    BY <1>1, <1>4 DEF t
  <2>2. ASSUME NEW q \in EarlierIn(s, i + 1)
        PROVE  q = Head(s) \/ q \in EarlierIn(t, i)
    <3>1. PICK j \in 1 .. (i + 1) - 1 : q = s[j]
      BY DEF EarlierIn
    <3>2. CASE j = 1
      BY <1>1, <3>1, <3>2
    <3>3. CASE j # 1
      <4>1. j - 1 \in 1 .. i - 1 /\ j - 1 \in 1 .. Len(s) - 1
        BY <1>1, <2>1, <3>1, <3>3
      <4>2. t[j - 1] = s[(j - 1) + 1] /\ (j - 1) + 1 = j
        BY <1>1, <4>1 DEF t
      <4>3. q \in Pocs
        BY DEF EarlierIn
      <4>4. QED BY <3>1, <4>1, <4>2, <4>3 DEF EarlierIn
    <3>4. QED BY <3>2, <3>3
  <2>3. QED BY <2>1, <2>2 DEF Follows
<1>5. QED BY <1>3, <1>4 DEF Follows, t

LEMMA FollowsJoin ==
  ASSUME NEW s \in Seq(Pocs), NEW t \in Seq(Pocs), NEW done,
         Follows(s, done), Follows(t, done \union ToSet(s))
  PROVE  Follows(s \o t, done)
<1> DEFINE w == s \o t
<1>1. /\ DOMAIN s = 1 .. Len(s) /\ DOMAIN t = 1 .. Len(t) /\ DOMAIN w = 1 .. Len(s) + Len(t)
      /\ Len(s) \in Nat /\ Len(t) \in Nat
      /\ \A i \in 1 .. Len(s) : w[i] = s[i]
      /\ \A i \in 1 .. Len(t) : w[Len(s) + i] = t[i]
  OBVIOUS
<1> HIDE DEF w
<1>2. ASSUME NEW i \in 1 .. Len(s)
      PROVE  Refs[w[i]] \subseteq done \union EarlierIn(w, i)
  <2>1. EarlierIn(s, i) \subseteq EarlierIn(w, i)
    BY <1>1 DEF EarlierIn
  <2>2. QED BY <1>1, <2>1 DEF Follows
<1>3. ASSUME NEW i \in 1 .. Len(t)
      PROVE  Refs[w[Len(s) + i]] \subseteq done \union EarlierIn(w, Len(s) + i)
  <2>1. ToSet(s) \subseteq EarlierIn(w, Len(s) + i)
    <3>1. ASSUME NEW q \in ToSet(s) PROVE q \in EarlierIn(w, Len(s) + i)
      <4>1. PICK j \in 1 .. Len(s) : q = s[j]
        BY <1>1, InToSet
      <4>2. j \in 1 .. (Len(s) + i) - 1 /\ q = w[j] /\ q \in Pocs
        BY <1>1, <4>1
      <4>3. QED BY <4>2 DEF EarlierIn
    <3>2. QED BY <3>1
  <2>2. EarlierIn(t, i) \subseteq EarlierIn(w, Len(s) + i)
    <3>1. ASSUME NEW q \in EarlierIn(t, i) PROVE q \in EarlierIn(w, Len(s) + i)
      <4>1. PICK j \in 1 .. i - 1 : q = t[j]
        BY DEF EarlierIn
      <4>2. Len(s) + j \in 1 .. (Len(s) + i) - 1 /\ q = w[Len(s) + j] /\ q \in Pocs
        BY <1>1, <4>1 DEF EarlierIn
      <4>3. QED BY <4>2 DEF EarlierIn
    <3>2. QED BY <3>1
  <2>3. Refs[t[i]] \subseteq (done \union ToSet(s)) \union EarlierIn(t, i)
    BY <1>1 DEF Follows
  <2>4. QED BY <1>1, <2>1, <2>2, <2>3
<1>4. ASSUME NEW i \in DOMAIN w
      PROVE  Refs[w[i]] \subseteq done \union EarlierIn(w, i)
  <2>1. CASE i \in 1 .. Len(s)
    BY <1>2, <2>1
  <2>2. CASE i \notin 1 .. Len(s)
    <3>1. i - Len(s) \in 1 .. Len(t) /\ Len(s) + (i - Len(s)) = i
      BY <1>1, <1>4, <2>2
    <3>2. QED BY <1>3, <3>1
  <2>3. QED BY <2>1, <2>2
<1>5. QED BY <1>4 DEF Follows, w

(* What is taken out of a list counts as done for the rest of it.          *)
LEMMA FollowsKeep ==
  ASSUME NEW s \in Seq(Pocs), Distinct(s), NEW done, Follows(s, done), NEW set
  PROVE  Follows(Keep(s, set), done \union (ToSet(s) \ set))
<1> DEFINE kept == Keep(s, set)
<1>1. KeptOf(Pocs, kept, s, set, Len(s))
  BY KeepIs
<1>2. DOMAIN s = 1 .. Len(s) /\ Len(s) \in Nat
  OBVIOUS
<1> HIDE DEF kept
<1>3. kept \in Seq(Pocs) /\ DOMAIN kept = 1 .. Len(kept) /\ Len(kept) \in Nat
  BY <1>1 DEF KeptOf
<1>4. ASSUME NEW i \in DOMAIN kept, NEW r \in Refs[kept[i]], r \notin done, r \notin ToSet(s) \ set
      PROVE  r \in EarlierIn(kept, i)
  <2>1. PICK a \in 1 .. Len(s) : kept[i] = s[a]
    BY <1>1 DEF KeptOf
  <2>2. r \in EarlierIn(s, a)
    BY <1>2, <1>4, <2>1 DEF Follows
  <2>3. PICK j \in 1 .. a - 1 : r = s[j]
    BY <2>2 DEF EarlierIn
  <2>4. j \in 1 .. Len(s) /\ j < a /\ r \in Pocs
    BY <1>2, <2>3
  <2>5. r \in set
    BY <1>2, <1>4, <2>3, <2>4, InToSet
  <2>6. PICK b \in DOMAIN kept : kept[b] = s[j]
    BY <1>1, <2>3, <2>4, <2>5 DEF KeptOf
  <2>7. b # i
    BY <1>2, <2>1, <2>4, <2>6 DEF Distinct
  <2>8. ~(i < b)
    <3>1. SUFFICES ASSUME i < b PROVE FALSE
      OBVIOUS
    <3>2. PICK c \in 1 .. Len(s), d \in 1 .. Len(s) : c < d /\ kept[i] = s[c] /\ kept[b] = s[d]
      BY <1>1, <3>1 DEF KeptOf, InOrderOf
    <3>3. c = a /\ d = j
      BY <1>2, <2>1, <2>4, <2>6, <3>2 DEF Distinct
    <3>4. QED BY <2>4, <3>2, <3>3
  <2>9. b \in 1 .. i - 1
    BY <1>3, <2>7, <2>8
  <2>10. QED BY <2>3, <2>4, <2>6, <2>9 DEF EarlierIn
<1>5. QED BY <1>4 DEF Follows, kept

(* What is taken from the input follows what is listed. *)
LEMMA TakenFollows ==
  ASSUME mode.ifp, input \in Seq(Pocs), Sorted(input), NEW taken, taken \subseteq ToSet(input),
         TakenInOrder(taken, Len(input))
  PROVE  Follows(Keep(input, taken), listed)
<1> DEFINE kept == Keep(input, taken)
<1>1. KeptOf(Pocs, kept, input, taken, Len(input)) /\ Sorted(kept)
  BY KeepIs, KeepSorted
<1>2. DOMAIN input = 1 .. Len(input) /\ Len(input) \in Nat
  OBVIOUS
<1> HIDE DEF kept
<1>3. kept \in Seq(Pocs) /\ DOMAIN kept = 1 .. Len(kept) /\ Len(kept) \in Nat
  BY <1>1 DEF KeptOf
<1>4. ASSUME NEW i \in DOMAIN kept, NEW r \in Refs[kept[i]], r \notin listed
      PROVE  r \in EarlierIn(kept, i)
  <2> DEFINE p == kept[i]
  <2>1. p \in taken /\ p \in Pocs
    BY <1>1, <1>3 DEF KeptOf
  <2>2. PICK a \in 1 .. Len(input) : p = input[a] /\ CanFollow(p, listed \union TakenUpTo(taken, a))
    BY <2>1 DEF TakenInOrder
  <2>3. r \in TakenUpTo(taken, a)
    BY <1>4, <2>2 DEF CanFollow
  <2>4. PICK j \in 1 .. a - 1 : r = input[j]
    BY <2>3 DEF TakenUpTo
  <2>5. r \in taken /\ j \in 1 .. Len(input) /\ j < a /\ r \in Pocs
    BY <1>2, <2>3, <2>4 DEF TakenUpTo
  <2>6. PICK b \in DOMAIN kept : kept[b] = r
    BY <1>1, <2>4, <2>5 DEF KeptOf
  <2>7. CodingNums[r] < CodingNums[p]
    BY <1>2, <2>2, <2>4, <2>5 DEF Sorted
  <2>8. CodingNums[r] \in Nat /\ CodingNums[p] \in Nat
    BY <2>1, <2>5, NumbersAreNumbers
  <2>9. b # i
    BY <2>6, <2>7, <2>8
  <2>10. ~(i < b)
    <3>1. SUFFICES ASSUME i < b PROVE FALSE
      OBVIOUS
    <3>2. CodingNums[p] < CodingNums[r]
      BY <1>1, <2>6, <3>1 DEF Sorted
    <3>3. QED BY <2>7, <2>8, <3>2
  <2>11. b \in 1 .. i - 1
    BY <1>3, <2>9, <2>10
  <2>12. QED BY <2>5, <2>6, <2>11 DEF EarlierIn
<1>5. QED BY <1>4 DEF Follows, kept

(* With IFP the listed pictures are coded in the order of the list; without *)
(* it, what a picture predicts from is finished when it is taken.           *)
QueueInv ==
  mode.ifp =>
    /\ listed = ToSet(procList) \union ToSet(reorder) \union coding \union reconstructed
    /\ Distinct(procList)
    /\ Follows(procList, coding \union reconstructed)
    /\ Follows(reorder, coding \union reconstructed \union ToSet(procList))
    /\ main.at = "encode" => procList # <<>> /\ main.pic = Head(procList)

ReadyInv ==
  ~mode.ifp /\ main.at = "encode" => Refs[main.pic] \subseteq reconstructed

LEMMA QueueInit == Init => QueueInv /\ ReadyInv
BY DEF Init, QueueInv, ReadyInv, Distinct, Follows, ToSet

(* The first listed picture is taken. *)
LEMMA FetchFirst ==
  ASSUME TypeInv, mode.ifp, mode.rateCap => mode.cuts = {}, Fetch
  PROVE  procList # <<>> /\ main'.at = "encode" /\ main'.pic = Head(procList)
<1>1. mode \in Modes /\ procList \in Seq(Pocs) /\ main \in MainType
  BY DEF TypeInv
<1>2. ~mode.alf
  BY <1>1, ModesAssumption
<1>3. mode.rateCap => AdjustsQp = {}
  BY DEF AdjustsQp
<1>4. \A p : Ready(p)
  BY <1>2, <1>3 DEF Ready
<1>5. ReadyPics = DOMAIN procList
  BY <1>4 DEF ReadyPics
<1>6. PICK i \in DOMAIN procList :
        /\ \A j \in DOMAIN procList : i <= j
        /\ main' = [main EXCEPT !.at = "encode", !.pic = procList[i]]
  BY <1>5 DEF Fetch
<1>7. DOMAIN procList = 1 .. Len(procList) /\ Len(procList) \in Nat
  BY <1>1
<1>8. i = 1 /\ procList # <<>>
  BY <1>1, <1>6, <1>7
<1>9. QED BY <1>1, <1>6, <1>8 DEF MainType

LEMMA QueueNext ==
  ASSUME TypeInv, TypeInv', PlaceInv, ModeInv, QueueInv, ReadyInv, [Next]_vars,
         mode.rateCap /\ mode.ifp => mode.cuts = {}
  PROVE  QueueInv' /\ ReadyInv'
<1> DEFINE done == coding \union reconstructed
<1>1. /\ mode' = mode /\ mode \in Modes /\ main \in MainType /\ input \in Seq(Pocs) /\ Sorted(input)
      /\ procList \in Seq(Pocs) /\ reorder \in Seq(Pocs)
  BY ModeKept DEF TypeInv, PlaceInv
<1>2. CASE ~mode.ifp
  <2>1. QueueInv'
    BY <1>1, <1>2 DEF QueueInv
  <2>2. reconstructed \subseteq reconstructed'
    <3>1. CASE SkipPicture \/ \E p \in Pocs : Finish(p)
      BY <3>1 DEF SkipPicture, Finish
    <3>2. CASE Fetch \/ EncodePicture \/ PushEncoder
      BY <3>2 DEF Fetch, EncodePicture, PushEncoder
    <3>3. CASE ~Fetch /\ ~EncodePicture /\ ~SkipPicture /\ ~PushEncoder /\ ~(\E p \in Pocs : Finish(p))
      BY <3>3, OtherSteps
    <3>4. QED BY <3>1, <3>2, <3>3
  <2>3. ASSUME main'.at = "encode"
        PROVE  Refs[main'.pic] \subseteq reconstructed'
    <3>1. CASE Fetch
      <4>1. PICK i \in ReadyPics : main' = [main EXCEPT !.at = "encode", !.pic = procList[i]]
        BY <3>1 DEF Fetch
      <4>2. Refs[procList[i]] \subseteq reconstructed
        BY <1>2, <4>1 DEF ReadyPics, Ready
      <4>3. main'.pic = procList[i]
        BY <1>1, <4>1 DEF MainType
      <4>4. QED BY <2>2, <4>2, <4>3
    <3>2. CASE \E p \in Pocs : Finish(p)
      <4>1. main.at \in {"encode", "push"} /\ main' = main
        BY <2>3, <3>2, FinishIs
      <4>2. QED BY <1>2, <2>2, <2>3, <4>1 DEF ReadyInv
    <3>3. CASE EncodePicture \/ SkipPicture \/ PushEncoder
      <4>1. main'.at \in {"fetch", "push"}
        BY <1>1, <3>3, GotoIs DEF EncodePicture, SkipPicture, PushEncoder, MainType
      <4>2. QED BY <2>3, <4>1
    <3>4. CASE ~Fetch /\ ~EncodePicture /\ ~SkipPicture /\ ~PushEncoder /\ ~(\E p \in Pocs : Finish(p))
      <4>1. main' = main
        BY <2>3, <3>4, OtherSteps
      <4>2. QED BY <1>2, <2>2, <2>3, <4>1 DEF ReadyInv
    <3>5. QED BY <3>1, <3>2, <3>3, <3>4
  <2>4. QED BY <2>1, <2>3 DEF ReadyInv
<1>3. CASE mode.ifp
  <2>1. ReadyInv'
    BY <1>1, <1>3 DEF ReadyInv
  <2>2. /\ listed = ToSet(procList) \union ToSet(reorder) \union done
        /\ Distinct(procList) /\ Follows(procList, done)
        /\ Follows(reorder, done \union ToSet(procList))
        /\ main.at = "encode" => procList # <<>> /\ main.pic = Head(procList)
    BY <1>3 DEF QueueInv
  <2>3. SUFFICES
          /\ listed' = ToSet(procList') \union ToSet(reorder') \union done'
          /\ Distinct(procList') /\ Follows(procList', done')
          /\ Follows(reorder', done' \union ToSet(procList'))
          /\ main'.at = "encode" => procList' # <<>> /\ main'.pic = Head(procList')
    BY <2>1 DEF QueueInv
  <2>4. CASE Reorder /\ input # <<>> /\ Len(procList) < main.n
    <3> DEFINE taken == Reordered(procList, Len(procList) + mode.frames, ~mode.parallelGops)
               more == Keep(input, taken)
    <3>1. procList' = procList \o more /\ listed' = listed \union taken
      BY <2>4 DEF Reorder, TakeFromInput
    <3>2. taken \subseteq ToSet(input) /\ TakenInOrder(taken, Len(input))
      BY <1>1, ReorderedIs
    <3> HIDE DEF taken
    <3>3. Follows(more, listed) /\ ToSet(more) = taken /\ more \in Seq(Pocs) /\ Distinct(procList \o more)
      <4>1. ToSet(procList) \intersect ToSet(input) = {}
        BY DEF PlaceInv
      <4>2. ToSet(more) = ToSet(input) \intersect taken /\ more \in Seq(Pocs)
        BY <1>1, KeepSet
      <4>3. Distinct(procList \o more)
        BY <1>1, <2>2, <4>1, TakenIs
      <4>4. Follows(more, listed)
        BY <1>1, <1>3, <3>2, TakenFollows
      <4>5. QED BY <3>2, <4>2, <4>3, <4>4
    <3> HIDE DEF more
    <3>4. main.at = "reorder" /\ reorder' = reorder /\ done' = done /\ main'.at # "encode"
      BY <1>1, <2>4, GotoIs DEF Reorder
    <3>5. reorder = <<>> /\ ToSet(reorder) = {}
      BY <3>4 DEF ModeInv, ToSet
    <3>6. listed = done \union ToSet(procList)
      BY <2>2, <3>5
    <3>7. Follows(procList \o more, done)
      BY <1>1, <2>2, <3>3, <3>6, FollowsJoin
    <3>8. ToSet(procList \o more) = ToSet(procList) \union taken
      BY <1>1, <3>3, JoinSet
    <3>9. Follows(reorder', done' \union ToSet(procList'))
      BY <3>4, <3>5 DEF Follows
    <3>10. QED BY <2>2, <3>1, <3>3, <3>4, <3>5, <3>6, <3>7, <3>8, <3>9
  <2>5. CASE FillWindow /\ Len(rcUpdate) < mode.frames /\ reorder # <<>>
    <3> DEFINE h == Head(reorder)
    <3>1. procList' = Append(procList, h) /\ reorder' = Tail(reorder)
          /\ UNCHANGED <<listed, coding, reconstructed>>
      BY <2>5 DEF FillWindow
    <3>2. h \in Pocs /\ Tail(reorder) \in Seq(Pocs) /\ ToSet(reorder) = {h} \union ToSet(Tail(reorder))
      BY <1>1, <2>5, HeadTail
    <3>3. Refs[h] \subseteq done \union ToSet(procList)
          /\ Follows(Tail(reorder), (done \union ToSet(procList)) \union {h})
      BY <1>1, <2>2, <2>5, FollowsFirst
    <3>4. main'.at # "encode"
      BY <1>1, <2>5 DEF FillWindow, MainType
    <3> HIDE DEF h
    <3>5. <<h>> \in Seq(Pocs) /\ ToSet(<<h>>) = {h} /\ Distinct(<<h>>)
      BY <3>2, OneElement DEF Distinct
    <3>6. /\ procList' = procList \o <<h>> /\ ToSet(procList') = ToSet(procList) \union {h}
      BY <1>1, <3>1, <3>2, AppendSet
    <3>7. Follows(<<h>>, done \union ToSet(procList))
      <4>1. DOMAIN <<h>> = {1} /\ <<h>>[1] = h
        OBVIOUS
      <4>2. QED BY <3>3, <4>1 DEF Follows
    <3>8. Follows(procList', done)
      BY <1>1, <2>2, <3>5, <3>6, <3>7, FollowsJoin
    <3>9. Distinct(procList')
      <4>1. h \notin ToSet(procList)
        BY <3>2 DEF PlaceInv
      <4>2. QED BY <1>1, <2>2, <3>5, <3>6, <4>1, JoinDistinct
    <3>10. Follows(reorder', done \union ToSet(procList'))
      <4>1. (done \union ToSet(procList)) \union {h} = done \union ToSet(procList')
        BY <3>6
      <4>2. QED BY <3>1, <3>3, <4>1
    <3>11. listed' = ToSet(procList') \union ToSet(reorder') \union done'
      BY <2>2, <3>1, <3>2, <3>6
    <3>12. QED BY <3>1, <3>4, <3>8, <3>9, <3>10, <3>11
  <2>6. CASE FillReorder /\ Len(reorder) < mode.frames /\ input # <<>>
    <3> DEFINE taken == Reordered(reorder, mode.frames, TRUE)
               more == Keep(input, taken)
    <3>1. /\ reorder' = reorder \o more /\ listed' = listed \union taken
          /\ UNCHANGED <<procList, coding, reconstructed>> /\ main' = main /\ main.at = "fill"
      BY <2>6 DEF FillReorder, TakeFromInput
    <3>2. taken \subseteq ToSet(input) /\ TakenInOrder(taken, Len(input))
      BY <1>1, ReorderedIs
    <3> HIDE DEF taken
    <3>3. Follows(more, listed) /\ ToSet(more) = taken /\ more \in Seq(Pocs)
      <4>1. ToSet(more) = ToSet(input) \intersect taken /\ more \in Seq(Pocs)
        BY <1>1, KeepSet
      <4>2. Follows(more, listed)
        BY <1>1, <1>3, <3>2, TakenFollows
      <4>3. QED BY <3>2, <4>1, <4>2
    <3> HIDE DEF more
    <3>4. listed = (done \union ToSet(procList)) \union ToSet(reorder)
      BY <2>2
    <3>5. Follows(reorder', done \union ToSet(procList))
      BY <1>1, <2>2, <3>1, <3>3, <3>4, FollowsJoin
    <3>6. ToSet(reorder') = ToSet(reorder) \union taken
      BY <1>1, <3>1, <3>3, JoinSet
    <3>7. QED BY <2>2, <3>1, <3>4, <3>5, <3>6
  <2>7. CASE EncodePicture \/ SkipPicture
    <3> DEFINE h == main.pic
               rest == Keep(procList, Pocs \ {h})
    <3>1. /\ procList' = rest /\ UNCHANGED <<listed, reorder>>
          /\ done' = done \union {h} /\ main.at = "encode"
      BY <2>7 DEF EncodePicture, SkipPicture
    <3>2. h \in ToSet(procList) /\ h \in Pocs /\ ToSet(procList) \subseteq Pocs
      BY <1>1, <3>1 DEF PlaceInv, MainType, ToSet
    <3>3. ToSet(rest) = ToSet(procList) \intersect (Pocs \ {h}) /\ Distinct(rest)
      BY <1>1, <2>2, KeepSet, KeepSorted
    <3>4. Follows(rest, done \union (ToSet(procList) \ (Pocs \ {h})))
      BY <1>1, <2>2, FollowsKeep
    <3>5. main'.at # "encode"
      <4>1. CASE EncodePicture
        <5>1. Goto("fetch")
          BY <4>1 DEF EncodePicture
        <5>2. QED BY <1>1, <5>1, GotoIs
      <4>2. CASE SkipPicture
        BY <1>1, <4>2 DEF SkipPicture, MainType
      <4>3. QED BY <2>7, <4>1, <4>2
    <3> HIDE DEF rest
    <3>6. ToSet(procList) \ (Pocs \ {h}) = {h} /\ ToSet(rest) \union {h} = ToSet(procList)
      BY <3>2, <3>3
    <3>7. Follows(procList', done')
      BY <3>1, <3>4, <3>6
    <3>8. done' \union ToSet(procList') = done \union ToSet(procList)
      BY <3>1, <3>6
    <3>9. listed' = ToSet(procList') \union ToSet(reorder') \union done'
      BY <2>2, <3>1, <3>6
    <3>10. QED BY <2>2, <3>1, <3>3, <3>5, <3>7, <3>8, <3>9
  <2>8. CASE \E p \in Pocs : Finish(p)
    <3>1. /\ UNCHANGED <<procList, reorder, listed>> /\ done' = done
      BY <2>8 DEF Finish, lists
    <3>2. main'.at = "encode" => main.at = "encode" /\ main' = main
      BY <2>8, FinishIs
    <3>3. QED BY <2>2, <3>1, <3>2
  <2>9. CASE Fetch
    <3>1. UNCHANGED <<procList, reorder, listed, coding, reconstructed>>
      BY <2>9 DEF Fetch, lists
    <3>2. procList # <<>> /\ main'.pic = Head(procList)
      BY <1>3, <2>9, FetchFirst
    <3>3. QED BY <2>2, <3>1, <3>2
  <2>10. CASE PushEncoder
    <3>1. UNCHANGED <<procList, reorder, listed, coding, reconstructed>> /\ main'.at # "encode"
      BY <1>1, <2>10 DEF PushEncoder, lists, MainType
    <3>2. QED BY <2>2, <3>1
  <2>11. CASE UNCHANGED <<procList, reorder, listed, coding, reconstructed>>
              /\ (main'.at = "encode" => main' = main)
    BY <2>2, <2>11
  <2>12. CASE /\ ~(Reorder /\ input # <<>> /\ Len(procList) < main.n)
              /\ ~(FillWindow /\ Len(rcUpdate) < mode.frames /\ reorder # <<>>)
              /\ ~(FillReorder /\ Len(reorder) < mode.frames /\ input # <<>>)
              /\ ~Fetch /\ ~EncodePicture /\ ~SkipPicture /\ ~PushEncoder
              /\ ~(\E p \in Pocs : Finish(p))
    <3>1. UNCHANGED <<coding, reconstructed>> /\ (main'.at = "encode" => main' = main)
      BY <2>12, OtherSteps
    <3>2. UNCHANGED <<procList, reorder, listed>>
      <4>1. CASE Reorder \/ FillWindow \/ FillReorder
        BY <2>12, <4>1 DEF Reorder, FillWindow, FillReorder
      <4>2. CASE ~Reorder /\ ~FillWindow /\ ~FillReorder
        BY <1>3, <2>12, <4>2
        DEF Next, Stage, vars, lists, Arrive, CallStage, WaitForFreeEncoders, InitPics, NoLists,
            PlainList, NextChunk, StartReorder, LoopEnds, WaitForPicture, UpdateRc, NoOutput,
            Write, WakeUp
      <4>3. QED BY <4>1, <4>2
    <3>3. QED BY <2>11, <3>1, <3>2
  <2>13. QED BY <2>4, <2>5, <2>6, <2>7, <2>8, <2>9, <2>10, <2>12
<1>4. QED BY <1>2, <1>3

-----------------------------------------------------------------------------
(* The GOP encoder does what PictureCoding says.                           *)

(* A step that leaves the promise's variables alone. *)
CodingKept == UNCHANGED <<coding, reconstructed, written>> /\ mode' = mode /\ Arrived' = Arrived

LEMMA Stutters ==
  ASSUME CodingKept
  PROVE  UNCHANGED Coding!vars
BY DEF CodingKept, Coding!vars, Encoders

LEMMA InitKeepsArrived ==
  ASSUME TypeInv, InitPics
  PROVE  CodingKept
<1>1. PICK n \in Nat : Initialised(n)
  BY InitPicsIs DEF TypeInv
<1>2. PICK pre \in Seq(Pocs) :
        /\ pics' \in Seq(Pocs) /\ pics = pre \o pics' /\ input' = input \o pre
        /\ Len(pre) = n /\ \A i \in 1 .. n : MayInit(i) /\ pre[i] = pics[i]
        /\ output' = output \o pre
  BY <1>1, InitialisedIs
<1>3. ToSet(pics) = ToSet(pre) \union ToSet(pics')
  BY <1>2, JoinSet
<1>4. ToSet(output') = ToSet(output) \union ToSet(pre)
  BY <1>2, JoinSet DEF TypeInv
<1>5. UNCHANGED <<mode, coding, reconstructed, written>>
  BY DEF InitPics
<1>6. QED BY <1>3, <1>4, <1>5 DEF CodingKept, Arrived

LEMMA OthersStutter ==
  ASSUME TypeInv, [Next]_vars, ~Arrive, ~EncodePicture, ~SkipPicture, ~Write,
         ~(\E p \in Pocs : Finish(p))
  PROVE  CodingKept
<1>1. CASE InitPics
  BY <1>1, InitKeepsArrived
<1>2. CASE ~InitPics
  <2>1. UNCHANGED <<mode, pics, output, coding, reconstructed, written>>
    BY <1>2
    DEF Next, Stage, vars, lists, CallStage, WaitForFreeEncoders, NoLists, PlainList, NextChunk,
        StartReorder, Reorder, FillWindow, FillReorder, Fetch, LoopEnds, WaitForPicture,
        PushEncoder, UpdateRc, NoOutput, WakeUp
  <2>2. QED BY <2>1 DEF CodingKept, Arrived
<1>3. QED BY <1>1, <1>2

LEMMA ArriveStep ==
  ASSUME TypeInv, Arrive
  PROVE  Coding!Arrive
<1>1. PICK new \in SUBSET NotArrived :
        /\ pics' \in Seq(Pocs) /\ Sorted(pics') /\ ToSet(pics') = ToSet(pics) \union new
        /\ UNCHANGED <<output, written>>
  BY ArriveIs
<1>2. Arrived' = Arrived \union new
  BY <1>1 DEF Arrived
<1>3. Arrived' \in SUBSET Pocs /\ Arrived \subseteq Arrived'
  BY <1>1, <1>2, BegunIs DEF NotArrived
<1>4. UNCHANGED <<mode, coding, reconstructed, written>>
  BY DEF Arrive
<1>5. QED BY <1>3, <1>4 DEF Coding!Arrive, Encoders

(* What the picture that is taken predicts from is done, or is being coded *)
(* and allowed to be.                                                      *)
LEMMA TakenMayStart ==
  ASSUME TypeInv, PlaceInv, QueueInv, ReadyInv, main.at = "encode"
  PROVE  /\ main.pic \in Arrived \ (coding \union reconstructed) /\ main.pic \in Pocs
         /\ Refs[main.pic] \subseteq reconstructed \union (IF mode.ifp THEN coding ELSE {})
<1>1. main.pic \in ToSet(procList) /\ main.pic \in Pocs /\ procList \in Seq(Pocs)
  BY DEF PlaceInv, TypeInv, MainType
<1>2. main.pic \in Arrived \ (coding \union reconstructed)
  BY <1>1, BegunIs DEF PlaceInv
<1>3. CASE ~mode.ifp
  BY <1>1, <1>2, <1>3 DEF ReadyInv
<1>4. CASE mode.ifp
  <2>1. procList # <<>> /\ main.pic = Head(procList) /\ Follows(procList, coding \union reconstructed)
    BY <1>4 DEF QueueInv
  <2>2. Refs[main.pic] \subseteq coding \union reconstructed
    BY <1>1, <2>1, FollowsFirst
  <2>3. QED BY <1>1, <1>2, <1>4, <2>2
<1>5. QED BY <1>3, <1>4

LEMMA EncodeStep ==
  ASSUME TypeInv, PlaceInv, CountInv, QueueInv, ReadyInv, EncodePicture
  PROVE  Coding!Start(main.pic) /\ main.pic \in Pocs
<1>1. /\ main.at = "encode" /\ coding' = coding \union {main.pic}
      /\ UNCHANGED <<mode, pics, output, reconstructed, written>>
  BY DEF EncodePicture
<1>2. /\ main.pic \in Arrived \ (coding \union reconstructed) /\ main.pic \in Pocs
      /\ Refs[main.pic] \subseteq reconstructed \union (IF mode.ifp THEN coding ELSE {})
  BY <1>1, TakenMayStart
<1>3. Cardinality(coding) < Encoders
  <2>1. free \in Nat /\ Encoders \in Nat /\ Cardinality(coding) \in Nat
    BY ModeIs, CodingCount DEF TypeInv
  <2>2. free + Cardinality(coding) + 1 <= Encoders
    BY <1>1 DEF CountInv, InUse
  <2>3. QED BY <2>1, <2>2
<1>4. Arrived' = Arrived /\ Encoders' = Encoders
  BY <1>1 DEF Arrived, Encoders
<1> DEFINE limit == [encoders |-> Encoders, overlap |-> mode.ifp]
<1>5. limit.encoders = Encoders /\ limit.overlap = mode.ifp /\ limit' = limit
  BY <1>1, <1>4
<1> HIDE DEF limit
<1>6. /\ main.pic \in Arrived \ (coding \union reconstructed)
      /\ Cardinality(coding) < limit.encoders
      /\ Refs[main.pic] \subseteq reconstructed \union (IF limit.overlap THEN coding ELSE {})
      /\ coding' = coding \union {main.pic}
      /\ UNCHANGED <<limit, Arrived, reconstructed, written>>
  BY <1>1, <1>2, <1>3, <1>4, <1>5
<1>7. Coding!Cardinality(coding) = Cardinality(coding)
  BY DEF Coding!Cardinality, Cardinality
<1>8. Coding!Start(main.pic)
  BY <1>6, <1>7, Zenon DEF Coding!Start, limit
<1>9. QED BY <1>2, <1>8

(* Where a picture is left out with IFP there is one picture encoder, and  *)
(* nothing is being coded then.                                            *)
LEMMA SkipStep ==
  ASSUME TypeInv, PlaceInv, CountInv, QueueInv, ReadyInv, SkipPicture,
         mode.skip /\ mode.ifp => mode.frames <= 1
  PROVE  Coding!Skip(main.pic) /\ main.pic \in Pocs
<1>1. /\ main.at = "encode" /\ reconstructed' = reconstructed \union {main.pic}
      /\ UNCHANGED <<mode, pics, output, coding, written>> /\ mode.skip
  BY DEF SkipPicture, Skipped
<1>2. /\ main.pic \in Arrived \ (coding \union reconstructed) /\ main.pic \in Pocs
      /\ Refs[main.pic] \subseteq reconstructed \union (IF mode.ifp THEN coding ELSE {})
  BY <1>1, TakenMayStart
<1>3. mode.ifp => coding = {}
  <2>1. SUFFICES ASSUME mode.ifp PROVE coding = {}
    OBVIOUS
  <2>2. /\ free \in Nat /\ Encoders \in Nat \ {0} /\ Cardinality(coding) \in Nat
        /\ mode.frames \in Nat /\ coding \subseteq Pocs
    BY ModeIs, CodingCount DEF TypeInv, ModeType
  <2>3. Encoders <= 1
    BY <1>1, <2>1, <2>2 DEF Encoders
  <2>4. free + Cardinality(coding) + 1 <= Encoders
    BY <1>1 DEF CountInv, InUse
  <2>5. Cardinality(coding) = 0
    BY <2>2, <2>3, <2>4
  <2>6. QED BY <2>2, <2>5, CodingCount
<1>4. Refs[main.pic] \subseteq reconstructed
  BY <1>2, <1>3
<1>5. Arrived' = Arrived /\ Encoders' = Encoders
  BY <1>1 DEF Arrived, Encoders
<1>6. QED BY <1>1, <1>2, <1>4, <1>5 DEF Coding!Skip

LEMMA FinishStep ==
  ASSUME NEW p \in Pocs, Finish(p)
  PROVE  Coding!Finish(p)
BY DEF Finish, lists, Coding!Finish, Arrived, Encoders

(* The first picture of the output comes before all others that are not    *)
(* written.                                                                *)
LEMMA WriteStep ==
  ASSUME TypeInv, OrderInv, Write
  PROVE  Coding!Write(Head(output)) /\ Head(output) \in Pocs
<1> DEFINE h == Head(output)
           out == written \o output
<1>1. /\ Begun' = Begun /\ h \in reconstructed /\ written' = Append(written, h) /\ output # <<>>
      /\ UNCHANGED <<mode, pics, coding, reconstructed>>
  BY WriteIs DEF Write
<1>2. written \in Seq(Pocs) /\ output \in Seq(Pocs)
  BY DEF TypeInv
<1>3. h \in Pocs /\ ToSet(output) = {h} \union ToSet(Tail(output)) /\ h \in ToSet(output)
  BY <1>1, <1>2, HeadTail
<1>4. Sorted(written) /\ Sorted(output) /\ Precedes(written, output)
  BY <1>2, SplitSorted DEF OrderInv
<1>5. \A p : Coding!InWritten(p) <=> p \in ToSet(written)
  <2>1. DOMAIN written = 1 .. Len(written)
    BY <1>2
  <2>2. QED BY <2>1, InToSet DEF Coding!InWritten
<1>6. ~Coding!InWritten(h)
  <2>1. SUFFICES ASSUME h \in ToSet(written) PROVE FALSE
    BY <1>5
  <2>2. CodingNums[h] < CodingNums[h] /\ CodingNums[h] \in Nat
    BY <1>3, <1>4, <2>1, PrecedesIs, NumbersAreNumbers
  <2>3. QED BY <2>2
<1>7. ASSUME NEW q \in Arrived, CodingNums[q] < CodingNums[h]
      PROVE  Coding!InWritten(q)
  <2>1. q \in Pocs
    BY BegunIs
  <2>2. CodingNums[q] \in Nat /\ CodingNums[h] \in Nat
    BY <1>3, <2>1, NumbersAreNumbers
  <2>3. q \notin ToSet(pics)
    <3>1. SUFFICES ASSUME q \in ToSet(pics) PROVE FALSE
      OBVIOUS
    <3>2. h \in ToSet(out)
      BY <1>2, <1>3, JoinSet
    <3>3. CodingNums[h] < CodingNums[q]
      BY <3>1, <3>2, PrecedesIs DEF OrderInv
    <3>4. QED BY <1>7, <2>2, <3>3
  <2>4. q \notin ToSet(output)
    <3>1. SUFFICES ASSUME q \in ToSet(output) PROVE FALSE
      OBVIOUS
    <3>2. q = h \/ CodingNums[h] < CodingNums[q]
      BY <1>2, <1>4, <3>1, HeadLeast
    <3>3. QED BY <1>7, <2>2, <3>2
  <2>5. QED BY <1>5, <2>3, <2>4 DEF Arrived
<1>8. Arrived' = Arrived /\ Encoders' = Encoders
  BY <1>1 DEF Arrived, Begun, Encoders
<1>9. QED BY <1>1, <1>3, <1>6, <1>7, <1>8 DEF Coding!Write

PromiseInv == StateInv /\ ModeInv /\ QueueInv /\ ReadyInv

LEMMA CodingStep ==
  ASSUME PromiseInv, [Next]_vars, mode.skip /\ mode.ifp => mode.frames <= 1
  PROVE  [Coding!Next]_(Coding!vars)
<1>1. TypeInv /\ OrderInv /\ PlaceInv /\ CountInv /\ QueueInv /\ ReadyInv
  BY DEF PromiseInv, StateInv
<1>2. CASE Arrive
  BY <1>1, <1>2, ArriveStep DEF Coding!Next
<1>3. CASE EncodePicture
  BY <1>1, <1>3, EncodeStep DEF Coding!Next
<1>4. CASE SkipPicture
  BY <1>1, <1>4, SkipStep DEF Coding!Next
<1>5. CASE \E p \in Pocs : Finish(p)
  BY <1>5, FinishStep DEF Coding!Next
<1>6. CASE Write
  BY <1>1, <1>6, WriteStep DEF Coding!Next
<1>7. CASE ~Arrive /\ ~EncodePicture /\ ~SkipPicture /\ ~Write /\ ~(\E p \in Pocs : Finish(p))
  BY <1>1, <1>7, OthersStutter, Stutters
<1>8. QED BY <1>2, <1>3, <1>4, <1>5, <1>6, <1>7

(* The safety part of KeepsPromise.  Whatever the mode, a picture is given *)
(* a picture encoder of its own when all that it predicts from are         *)
(* reconstructed, or with IFP have been given one before, and is written   *)
(* once, in coding order, after all that have come before it.              *)
THEOREM PromiseKeptSafely ==
  ASSUME \A m \in Modes : /\ m.rateCap /\ m.ifp => m.cuts = {}
                          /\ m.skip /\ m.ifp => m.frames <= 1
  PROVE  Spec => Coding!Init /\ [][Coding!Next]_(Coding!vars)
<1> DEFINE Inv == ModeInv /\ QueueInv /\ ReadyInv
<1>1. \A m \in Modes : /\ m.rateCap /\ m.ifp => m.cuts = {}
                       /\ m.skip /\ m.ifp => m.frames <= 1
  OBVIOUS
<1>2. Init => Inv
  BY ModeInit, QueueInit
<1>3. StateInv /\ StateInv' /\ Inv /\ [Next]_vars => Inv'
  <2>1. SUFFICES ASSUME StateInv, StateInv', Inv, [Next]_vars PROVE Inv'
    OBVIOUS
  <2>2. TypeInv /\ TypeInv' /\ PlaceInv
    BY <2>1 DEF StateInv
  <2>3. mode.rateCap /\ mode.ifp => mode.cuts = {}
    BY <1>1, <2>2 DEF TypeInv
  <2>4. ModeInv'
    BY <2>1, <2>2, ModeNext
  <2>5. QueueInv' /\ ReadyInv'
    BY <2>1, <2>2, <2>3, QueueNext
  <2>6. QED BY <2>4, <2>5
<1>4. StateInv /\ Inv /\ [Next]_vars => [Coding!Next]_(Coding!vars)
  <2>1. SUFFICES ASSUME StateInv, Inv, [Next]_vars PROVE [Coding!Next]_(Coding!vars)
    OBVIOUS
  <2>2. mode.skip /\ mode.ifp => mode.frames <= 1
    BY <1>1, <2>1 DEF StateInv, TypeInv
  <2>3. PromiseInv
    BY <2>1 DEF PromiseInv
  <2>4. QED BY <2>1, <2>2, <2>3, CodingStep
<1>5. Init => Coding!Init
  <2>1. SUFFICES ASSUME Init PROVE Coding!Init
    OBVIOUS
  <2>2. /\ mode \in Modes /\ pics = <<>> /\ output = <<>> /\ written = <<>>
        /\ coding = {} /\ reconstructed = {}
    BY <2>1 DEF Init
  <2>3. Encoders \in Nat \ {0} /\ mode.ifp \in BOOLEAN
    BY <2>2, ModeIs DEF ModeType
  <2>4. Arrived = {}
    BY <2>2 DEF Arrived, ToSet
  <2>5. QED BY <2>2, <2>3, <2>4 DEF Coding!Init
<1> HIDE DEF Inv
<1>6. QED BY <1>2, <1>3, <1>4, <1>5, StateInvariant, PTL DEF Spec

-----------------------------------------------------------------------------
(* GOPs arrive whole, and their numbers leave no gap.                      *)

LEMMA DivisionIs ==
  ASSUME NEW n \in Nat \ {0}, NEW g \in Nat, NEW r \in 0 .. n - 1, NEW x \in Nat, x = g * n + r
  PROVE  x \div n = g /\ x % n = r
<1> DEFINE h == x \div n
           t == x % n
<1>1. h \in Nat /\ t \in 0 .. n - 1 /\ x = n * h + t
  BY DivisionTheorem
<1> HIDE DEF h, t
<1>2. n * h = h * n /\ h * n \in Nat /\ g * n \in Nat
  BY <1>1
<1>3. ~(h < g)
  <2>1. SUFFICES ASSUME h < g PROVE FALSE
    OBVIOUS
  <2>2. h * n + n <= g * n
    BY <1>1, <2>1, LaterGop
  <2>3. QED BY <1>1, <1>2, <2>2
<1>4. ~(g < h)
  <2>1. SUFFICES ASSUME g < h PROVE FALSE
    OBVIOUS
  <2>2. g * n + n <= h * n
    BY <1>1, <2>1, LaterGop
  <2>3. QED BY <1>1, <1>2, <2>2
<1>5. h = g
  BY <1>1, <1>3, <1>4
<1>6. t = r
  <2>1. h * n + t = g * n + r
    BY <1>1, <1>2
  <2> DEFINE y == g * n
  <2>2. y \in Nat /\ y + t = y + r
    BY <1>2, <1>5, <2>1
  <2> HIDE DEF y
  <2>3. QED BY <1>1, <2>2
<1>7. QED BY <1>5, <1>6 DEF h, t

(* Every number is that of a picture. *)
LEMMA NumberFound ==
  ASSUME NEW m \in Nat
  PROVE  \E q \in Nat : CodingNum(q) = m
<1>1. GopSize \in Nat \ {0} /\ Poc0Idr \in BOOLEAN
  BY GopAssumption
<1>2. CASE m < First
  <2>1. m = 0 /\ Poc0Idr
    BY <1>2 DEF First
  <2>2. CodingNum(0) = 0
    BY <2>1 DEF CodingNum, IsLeading0
  <2>3. QED BY <2>1, <2>2
<1>3. CASE ~(m < First)
  <2> DEFINE k == m - First
             g == k \div GopSize
             e == (k % GopSize) + 1
             o == GopOrder[e]
             place == g * GopSize + (o - 1)
             q == place + First
  <2>1. First \in Nat /\ k \in Nat
    BY <1>1, <1>3 DEF First
  <2> HIDE DEF k
  <2>2. g \in Nat /\ e \in 1 .. GopSize /\ k = g * GopSize + (e - 1)
    BY <1>1, <2>1, DivisionTheorem
  <2> HIDE DEF g, e
  <2>3. o \in 1 .. GopSize
    BY <2>2, GopAssumption
  <2> HIDE DEF o
  <2>4. g * GopSize \in Nat /\ place \in Nat /\ q \in Nat
    BY <1>1, <2>1, <2>2, <2>3
  <2>5. place \div GopSize = g /\ place % GopSize = o - 1
    <3>1. o - 1 \in 0 .. GopSize - 1
      BY <1>1, <2>3
    <3> HIDE DEF place
    <3>2. QED BY <1>1, <2>2, <2>4, <3>1, DivisionIs DEF place
  <2> HIDE DEF place
  <2>6. ~IsLeading0(q) /\ Place(q) = place
    BY <1>1, <2>4 DEF IsLeading0, First, Place
  <2> HIDE DEF q
  <2>7. /\ GopNum(q) = g /\ PocInGop(q) = (o - 1) + 1
        /\ EntryOf(q) \in 1 .. GopSize /\ GopOrder[EntryOf(q)] = PocInGop(q)
    BY <2>4, <2>5, <2>6, EntryIs
  <2>8. EntryOf(q) = e
    <3>1. GopOrder[EntryOf(q)] = GopOrder[e]
      BY <1>1, <2>3, <2>7 DEF o
    <3>2. QED BY <2>2, <2>7, <3>1, OneEntry
  <2>9. CodingNum(q) = First + g * GopSize + e - 1
    BY <2>4, <2>6, <2>7, <2>8, NumberIs
  <2>10. First + g * GopSize + e - 1 = m
    <3> DEFINE y == g * GopSize
    <3>1. y \in Nat /\ k = y + (e - 1) /\ k = m - First
      BY <2>2, <2>4 DEF k
    <3> HIDE DEF y
    <3>2. First + y + e - 1 = m
      BY <1>1, <2>1, <2>2, <3>1
    <3>3. QED BY <3>2 DEF y
  <2>11. QED BY <2>4, <2>9, <2>10
<1>4. QED BY <1>2, <1>3

(* A later picture is in no earlier GOP. *)
LEMMA GopsAscend ==
  ASSUME NEW p \in Nat, NEW q \in Nat, p <= q
  PROVE  GopNum(p) \in Nat /\ GopNum(q) \in Nat /\ GopNum(p) <= GopNum(q)
<1>1. GopSize \in Nat \ {0} /\ Poc0Idr \in BOOLEAN
  BY GopAssumption
<1>2. \A x \in Nat : GopNum(x) \in Nat
  <2> SUFFICES ASSUME NEW x \in Nat PROVE GopNum(x) \in Nat
    OBVIOUS
  <2>1. CASE IsLeading0(x)
    BY <2>1 DEF GopNum
  <2>2. CASE ~IsLeading0(x)
    BY <2>2, EntryIs
  <2>3. QED BY <2>1, <2>2
<1>3. CASE IsLeading0(p)
  <2>1. GopNum(p) = 0
    BY <1>3 DEF GopNum
  <2>2. QED BY <1>2, <2>1
<1>4. CASE ~IsLeading0(p)
  <2>1. ~IsLeading0(q)
    BY <1>4 DEF IsLeading0
  <2> DEFINE a == Place(p)
             b == Place(q)
  <2>2. /\ a \in Nat /\ b \in Nat /\ GopNum(p) = a \div GopSize /\ GopNum(q) = b \div GopSize
    BY <1>4, <2>1, EntryIs
  <2>3. a <= b
    BY <1>1 DEF Place
  <2> HIDE DEF a, b
  <2> DEFINE g == GopNum(p)
             h == GopNum(q)
  <2>4. /\ g \in Nat /\ h \in Nat
        /\ a % GopSize \in 0 .. GopSize - 1 /\ a = GopSize * g + (a % GopSize)
        /\ b % GopSize \in 0 .. GopSize - 1 /\ b = GopSize * h + (b % GopSize)
    BY <1>1, <2>2, DivisionTheorem
  <2> HIDE DEF g, h
  <2>5. ~(h < g)
    <3>1. SUFFICES ASSUME h < g PROVE FALSE
      OBVIOUS
    <3>2. h * GopSize + GopSize <= g * GopSize
      BY <1>1, <2>4, <3>1, LaterGop
    <3>3. /\ GopSize * g = g * GopSize /\ GopSize * h = h * GopSize
          /\ g * GopSize \in Nat /\ h * GopSize \in Nat
      BY <1>1, <2>4
    <3> DEFINE u == g * GopSize
               v == h * GopSize
               s == a % GopSize
               t == b % GopSize
    <3>4. /\ u \in Nat /\ v \in Nat /\ v + GopSize <= u
          /\ s \in 0 .. GopSize - 1 /\ a = u + s /\ t \in 0 .. GopSize - 1 /\ b = v + t
      BY <2>4, <3>2, <3>3
    <3> HIDE DEF u, v, s, t
    <3>5. QED BY <1>1, <2>2, <2>3, <3>4

  <2>6. QED BY <2>4, <2>5 DEF g, h
<1>5. QED BY <1>3, <1>4

(* All pictures of a GOP are there, and all of the GOPs before it. *)
WholeGops(set) ==
  \A p \in set, q \in Pocs :
    GopNums[q] < GopNums[p] \/ (GopNums[q] = GopNums[p] /\ ~IsLeading0(p)) => q \in set

(* While more are to come, every smaller number is that of a picture that  *)
(* is there.                                                               *)
LEMMA SmallerNumbers ==
  ASSUME NEW set \in SUBSET Pocs, WholeGops(set), NEW r \in Pocs, r \notin set,
         NEW p \in set, NEW m \in Nat, m <= CodingNums[p]
  PROVE  \E q \in set : CodingNums[q] = m
<1>1. /\ p \in Nat /\ r \in Nat /\ CodingNums[p] = CodingNum(p) /\ GopNums[p] = GopNum(p)
      /\ GopNums[r] = GopNum(r) /\ LastPoc \in Nat /\ p \in Pocs /\ Pocs = 0 .. LastPoc
  BY LayersAssumption DEF Pocs, CodingNums, GopNums
<1>2. GopSize \in Nat \ {0} /\ First \in Nat
  BY GopAssumption DEF First
<1>3. CASE IsLeading0(p)
  <2>1. CodingNums[p] = 0
    BY <1>1, <1>3, NumbersAreNumbers
  <2>2. QED BY <2>1
<1>4. CASE ~IsLeading0(p)
  <2>1. PICK q \in Nat : CodingNum(q) = m
    BY NumberFound
  <2>2. /\ GopNum(p) \in Nat /\ GopNum(r) \in Nat /\ GopNum(q) \in Nat
    BY <1>1, <2>1, GopsAscend
  <2>3. GopNum(p) < GopNum(r)
    <3>1. ~(GopNum(r) < GopNum(p)) /\ GopNum(r) # GopNum(p)
      BY <1>1, <1>4 DEF WholeGops
    <3>2. QED BY <2>2, <3>1
  <2>4. q \in Pocs
    <3>1. SUFFICES ASSUME r < q PROVE FALSE
      BY <1>1, <2>1
    <3>2. GopNum(r) <= GopNum(q)
      BY <1>1, <2>1, <3>1, GopsAscend
    <3>3. ~IsLeading0(q)
      BY <1>1, <2>1, <3>1 DEF IsLeading0
    <3>4. /\ EntryOf(q) \in 1 .. GopSize /\ EntryOf(p) \in 1 .. GopSize
          /\ CodingNum(q) = First + GopNum(q) * GopSize + EntryOf(q) - 1
          /\ CodingNum(p) = First + GopNum(p) * GopSize + EntryOf(p) - 1
      BY <1>1, <1>4, <2>1, <3>3, EntryIs, NumberIs
    <3>5. GopNum(p) * GopSize + GopSize <= GopNum(q) * GopSize
      <4>1. GopNum(p) < GopNum(q)
        BY <2>2, <2>3, <3>2
      <4>2. QED BY <1>2, <2>2, <4>1, LaterGop
    <3> DEFINE u == GopNum(p) * GopSize
               v == GopNum(q) * GopSize
    <3>6. /\ u \in Nat /\ v \in Nat /\ u + GopSize <= v
          /\ CodingNum(q) = First + v + EntryOf(q) - 1
          /\ CodingNum(p) = First + u + EntryOf(p) - 1
      BY <1>2, <2>2, <3>4, <3>5
    <3> HIDE DEF u, v
    <3>7. QED BY <1>1, <1>2, <2>1, <3>4, <3>6
  <2>5. CodingNums[q] = m /\ GopNums[q] = GopNum(q)
    BY <2>1, <2>4 DEF CodingNums, GopNums
  <2>6. ~(GopNums[p] < GopNums[q])
    <3>1. SUFFICES ASSUME GopNums[p] < GopNums[q] PROVE FALSE
      OBVIOUS
    <3>2. CodingNums[p] < CodingNums[q]
      BY <1>1, <2>4, <3>1, GopsInOrder
    <3>3. CodingNums[p] \in Nat
      BY <1>1, NumbersAreNumbers
    <3>4. QED BY <2>5, <3>2, <3>3
  <2>7. GopNums[q] < GopNums[p] \/ GopNums[q] = GopNums[p]
    BY <1>1, <2>2, <2>5, <2>6
  <2>8. q \in set
    BY <1>4, <2>4, <2>7 DEF WholeGops
  <2>9. QED BY <2>5, <2>8
<1>5. QED BY <1>3, <1>4

(* Then the numbers of a list in coding order are those from 0. *)
LEMMA NumbersFromZero ==
  ASSUME NEW s \in Seq(Pocs), Sorted(s),
         \A p \in ToSet(s), m \in Nat : m <= CodingNums[p] => \E q \in ToSet(s) : CodingNums[q] = m
  PROVE  \A i \in 1 .. Len(s) : CodingNums[s[i]] = i - 1
<1> DEFINE Bad == {i \in 1 .. Len(s) : CodingNums[s[i]] # i - 1}
<1>1. SUFFICES ASSUME Bad # {} PROVE FALSE
  OBVIOUS
<1>2. DOMAIN s = 1 .. Len(s) /\ Len(s) \in Nat
  OBVIOUS
<1>3. Bad \subseteq Nat
  OBVIOUS
<1>4. PICK b \in Bad : \A i \in Bad : b <= i
  <2> HIDE DEF Bad
  <2>1. QED BY <1>1, <1>3, LeastNumber
<1>5. b \in 1 .. Len(s) /\ CodingNums[s[b]] # b - 1
  BY <1>4
<1>6. \A i \in 1 .. b - 1 : CodingNums[s[i]] = i - 1
  <2> SUFFICES ASSUME NEW i \in 1 .. b - 1 PROVE CodingNums[s[i]] = i - 1
    OBVIOUS
  <2>1. i \in 1 .. Len(s) /\ ~(b <= i)
    BY <1>2, <1>5
  <2>2. i \notin Bad
    BY <1>4, <2>1
  <2>3. QED BY <2>1, <2>2
<1> HIDE DEF Bad
<1>7. \A i \in 1 .. Len(s) : s[i] \in Pocs /\ s[i] \in ToSet(s) /\ CodingNums[s[i]] \in Nat
  BY <1>2, InToSet, NumbersAreNumbers
<1>8. \A i, j \in 1 .. Len(s) : i < j => CodingNums[s[i]] < CodingNums[s[j]]
  BY <1>2 DEF Sorted
<1>9. CodingNums[s[b]] > b - 1
  <2>1. CASE b = 1
    BY <1>5, <1>7, <2>1
  <2>2. CASE b # 1
    <3>1. b - 1 \in 1 .. b - 1 /\ b - 1 \in 1 .. Len(s) /\ b - 1 < b
      BY <1>2, <1>5, <2>2
    <3>2. CodingNums[s[b - 1]] = (b - 1) - 1 /\ CodingNums[s[b - 1]] < CodingNums[s[b]]
      BY <1>5, <1>6, <1>8, <3>1
    <3>3. QED BY <1>5, <1>7, <3>2
  <2>3. QED BY <2>1, <2>2
<1>10. PICK q \in ToSet(s) : CodingNums[q] = b - 1
  <2>1. b - 1 \in Nat /\ b - 1 <= CodingNums[s[b]] /\ s[b] \in ToSet(s)
    BY <1>5, <1>7, <1>9
  <2>2. QED BY <2>1
<1>11. PICK j \in 1 .. Len(s) : q = s[j]
  BY <1>2, InToSet
<1>12. CASE j < b
  BY <1>5, <1>6, <1>10, <1>11, <1>12
<1>13. CASE j = b
  BY <1>5, <1>10, <1>11, <1>13
<1>14. CASE b < j
  BY <1>5, <1>7, <1>8, <1>9, <1>10, <1>11, <1>14
<1>15. QED BY <1>5, <1>11, <1>12, <1>13, <1>14

(* Then all pictures that have arrived are initialised in one go.          *)
LEMMA AllBegin ==
  ASSUME TypeInv, OrderInv, WholeGops(Arrived), mode.frames > 0, ~mode.rateCap, InitPics
  PROVE  pics' = <<>>
<1>1. pics \in Seq(Pocs) /\ DOMAIN pics = 1 .. Len(pics) /\ Len(pics) \in Nat
  BY DEF TypeInv
<1> DEFINE out == written \o output
           all == out \o pics
<1>2. /\ out \in Seq(Pocs) /\ ToSet(out) = Begun /\ Arrived = ToSet(pics) \union Begun
      /\ Len(out) = Len(written) + Len(output) /\ Arrived \subseteq Pocs
      /\ Sorted(out) /\ Sorted(pics) /\ Precedes(out, pics)
  BY BegunIs DEF TypeInv, OrderInv
<1> HIDE DEF out
<1>3. /\ all \in Seq(Pocs) /\ Sorted(all) /\ ToSet(all) = Arrived /\ Len(all) = Len(out) + Len(pics)
      /\ \A i \in 1 .. Len(pics) : all[i + Len(out)] = pics[i]
  <2>1. /\ out \o pics \in Seq(Pocs) /\ Len(out \o pics) = Len(out) + Len(pics)
        /\ \A i \in 1 .. Len(pics) : (out \o pics)[i + Len(out)] = pics[i]
    BY <1>1, <1>2
  <2>2. ToSet(out \o pics) = ToSet(out) \union ToSet(pics)
    BY <1>1, <1>2, JoinSet
  <2>3. Sorted(out \o pics)
    BY <1>1, <1>2, JoinSorted
  <2>4. QED BY <1>2, <2>1, <2>2, <2>3
<1> HIDE DEF all

<1>4. ASSUME NEW i \in 1 .. Len(pics), NotArrived # {}
      PROVE  CodingNums[pics[i]] = Len(written) + Len(output) + i - 1
  <2>1. PICK r \in Pocs : r \notin Arrived
    BY <1>4 DEF NotArrived
  <2>2. \A p \in ToSet(all), m \in Nat : m <= CodingNums[p] => \E q \in ToSet(all) : CodingNums[q] = m
    BY <1>2, <1>3, <2>1, SmallerNumbers, SMTT(30)
  <2>3. \A j \in 1 .. Len(all) : CodingNums[all[j]] = j - 1
    BY <1>3, <2>2, NumbersFromZero
  <2>4. Len(out) \in Nat /\ i + Len(out) \in 1 .. Len(all)
    BY <1>1, <1>2, <1>3
  <2>5. CodingNums[all[i + Len(out)]] = (i + Len(out)) - 1
    BY <2>3, <2>4
  <2>6. QED BY <1>2, <1>3, <2>4, <2>5
<1>5. \A i \in DOMAIN pics : MayInit(i)
  <2> SUFFICES ASSUME NEW i \in DOMAIN pics PROVE MayInit(i)
    OBVIOUS
  <2>1. NotArrived = {} \/ CodingNums[pics[i]] = Len(written) + Len(output) + i - 1
    BY <1>1, <1>4
  <2>2. QED BY <2>1 DEF MayInit
<1> DEFINE held == {i \in DOMAIN pics : ~MayInit(i)}
           end == IF held = {} THEN Len(pics) ELSE (CHOOSE i \in held : \A j \in held : i <= j) - 1
           n == IF mode.frames > 0 \/ end = 0 THEN end ELSE 1
<1>6. held = {}
  BY <1>5
<1>7. end = Len(pics)
  BY <1>6
<1>8. n = Len(pics)
  BY <1>7
<1>9. pics' = SubSeq(pics, n + 1, Len(pics))
  BY DEF InitPics
<1> HIDE DEF n, end, held
<1>10. QED BY <1>1, <1>8, <1>9

(* In lockstep, but with IFP another window is used. *)
Chunks == mode.lockStep /\ ~mode.ifp

LEMMA ChunksMode ==
  ASSUME mode \in Modes, Chunks
  PROVE  /\ mode.nonBlocking /\ mode.frames \in Nat \ {0} /\ Encoders = mode.frames
         /\ ~mode.skip /\ ~mode.rateCap
BY ModesAssumption DEF Chunks, ModeType, Encoders

ArriveInv ==
  Chunks =>
    /\ WholeGops(Arrived)
    /\ main.at \notin {"idle", "topwait", "init"} => pics = <<>>

LEMMA ArriveInit == TypeInv /\ Init => ArriveInv
<1> SUFFICES ASSUME TypeInv, Init PROVE ArriveInv
  OBVIOUS
<1>1. pics = <<>> /\ output = <<>> /\ written = <<>>
  BY DEF Init
<1>2. Arrived = {}
  BY <1>1 DEF Arrived, ToSet
<1>3. QED BY <1>1, <1>2 DEF ArriveInv, WholeGops

LEMMA ArriveNext ==
  ASSUME TypeInv, OrderInv, ArriveInv, ModeInv, [Next]_vars
  PROVE  ArriveInv'
<1>1. mode' = mode /\ mode \in Modes /\ main \in MainType /\ pics \in Seq(Pocs)
      /\ output \in Seq(Pocs) /\ written \in Seq(Pocs)
  BY ModeKept DEF TypeInv
<1>2. SUFFICES ASSUME Chunks
               PROVE  /\ WholeGops(Arrived')
                      /\ main'.at \notin {"idle", "topwait", "init"} => pics' = <<>>
  BY <1>1 DEF ArriveInv, Chunks, WholeGops
<1>3. mode.nonBlocking /\ mode.frames > 0 /\ ~mode.rateCap /\ ~mode.skip /\ mode.lockStep /\ ~mode.ifp
  BY <1>1, <1>2, ChunksMode DEF Chunks
<1>4. WholeGops(Arrived) /\ (main.at \notin {"idle", "topwait", "init"} => pics = <<>>)
  BY <1>2 DEF ArriveInv
<1>5. CASE Arrive
  <2> DEFINE first == CHOOSE p \in NotArrived : \A q \in NotArrived : p <= q
             new == IF IsLeading0(first) THEN {first}
                    ELSE {p \in NotArrived : GopNums[p] = GopNums[first]}
  <2>1. pics' = Keep(CodingOrder, new \union ToSet(pics)) /\ UNCHANGED <<output, written, main>>
        /\ main.at = "idle" /\ NotArrived # {}
    BY <1>3, <1>5 DEF Arrive, lists
  <2>2. first \in NotArrived /\ \A q \in NotArrived : first <= q
    <3>1. NotArrived \subseteq Nat
      BY LayersAssumption DEF NotArrived, Pocs
    <3>2. \E p \in NotArrived : \A q \in NotArrived : p <= q
      BY <2>1, <3>1, LeastNumber
    <3>3. QED BY <3>2, Zenon
  <2> HIDE DEF first
  <2>3. new \subseteq NotArrived /\ NotArrived \subseteq Pocs /\ ToSet(pics) \subseteq Pocs
    BY <1>1, <2>2 DEF NotArrived, ToSet
  <2>4. ToSet(pics') = new \union ToSet(pics)
    BY <2>1, <2>3, CodingOrderIs, KeepSet
  <2>5. Arrived' = Arrived \union new
    <3>1. Arrived' = ToSet(pics') \union ToSet(output) \union ToSet(written)
      BY <2>1 DEF Arrived
    <3>2. QED BY <2>4, <3>1 DEF Arrived
  <2>6. \A p \in new : GopNums[p] = GopNums[first]
    BY <2>2
  <2>7. \A q \in Pocs : /\ GopNums[q] < GopNums[first] => q \in Arrived
                        /\ GopNums[q] = GopNums[first] /\ ~IsLeading0(first) => q \in Arrived \union new
    <3> SUFFICES ASSUME NEW q \in Pocs, q \notin Arrived
                 PROVE  /\ ~(GopNums[q] < GopNums[first])
                        /\ GopNums[q] = GopNums[first] /\ ~IsLeading0(first) => q \in new
      OBVIOUS
    <3>1. q \in NotArrived
      BY DEF NotArrived
    <3>2. first <= q /\ first \in Pocs /\ first \in Nat /\ q \in Nat
      BY <2>2, <2>3, <3>1, LayersAssumption DEF Pocs
    <3>3. GopNum(first) \in Nat /\ GopNum(q) \in Nat /\ GopNum(first) <= GopNum(q)
      BY <3>2, GopsAscend
    <3>4. GopNums[first] = GopNum(first) /\ GopNums[q] = GopNum(q)
      BY <3>2 DEF GopNums
    <3>5. QED BY <3>1, <3>3, <3>4
  <2>8. \A p \in new : IsLeading0(first) => IsLeading0(p)
    OBVIOUS
  <2>9. WholeGops(Arrived')
    <3> SUFFICES ASSUME NEW p \in Arrived', NEW q \in Pocs,
                        GopNums[q] < GopNums[p] \/ (GopNums[q] = GopNums[p] /\ ~IsLeading0(p))
                 PROVE  q \in Arrived'
      BY DEF WholeGops
    <3>1. CASE p \in Arrived
      BY <1>4, <2>5, <3>1 DEF WholeGops
    <3>2. CASE p \in new
      <4> HIDE DEF new
      <4>1. QED BY <2>5, <2>6, <2>7, <2>8, <3>2
    <3>3. QED BY <2>5, <3>1, <3>2
  <2>10. QED BY <2>1, <2>9
<1>6. CASE InitPics
  <2>1. pics' = <<>>
    BY <1>3, <1>4, <1>6, AllBegin
  <2>2. PICK n \in Nat : Initialised(n)
    BY <1>1, <1>6, InitPicsIs
  <2>3. PICK pre \in Seq(Pocs) :
          /\ pics' \in Seq(Pocs) /\ pics = pre \o pics' /\ input' = input \o pre
          /\ Len(pre) = n /\ \A i \in 1 .. n : MayInit(i) /\ pre[i] = pics[i]
          /\ output' = output \o pre
    BY <2>2, InitialisedIs
  <2>4. ToSet(pics) = ToSet(pre) \union ToSet(pics') /\ ToSet(output') = ToSet(output) \union ToSet(pre)
    BY <1>1, <2>3, JoinSet
  <2>5. written' = written
    BY <1>6 DEF InitPics
  <2>6. Arrived' = Arrived
    BY <2>4, <2>5 DEF Arrived
  <2>7. QED BY <1>4, <2>1, <2>6
<1>7. CASE Write
  <2>1. Begun' = Begun /\ pics' = pics /\ Goto("idle")
    BY <1>7, WriteIs DEF Write
  <2>2. Arrived' = Arrived
    BY <2>1 DEF Arrived, Begun
  <2>3. QED BY <1>1, <1>4, <2>1, <2>2, GotoIs
<1>8. CASE ~Arrive /\ ~InitPics /\ ~Write
  <2>1. UNCHANGED <<pics, output, written>>
    BY <1>8 DEF Next, Stage, vars, lists, CallStage, WaitForFreeEncoders, NoLists, PlainList,
                NextChunk, StartReorder, Reorder, FillWindow, FillReorder, Fetch, LoopEnds,
                WaitForPicture, EncodePicture, SkipPicture, PushEncoder, UpdateRc, NoOutput,
                Finish, WakeUp
  <2>2. Arrived' = Arrived
    BY <2>1 DEF Arrived
  <2>3. main.at \in {"idle", "topwait", "init"} => main'.at \in {"idle", "topwait", "init"}
    <3>1. SUFFICES ASSUME main.at \in {"idle", "topwait", "init"}
                   PROVE  main'.at \in {"idle", "topwait", "init"}
      OBVIOUS
    <3>2. CASE CallStage \/ WaitForFreeEncoders
      <4>1. Goto("init") \/ Goto("topwait")
        BY <3>2 DEF CallStage, WaitForFreeEncoders
      <4>2. QED BY <1>1, <4>1, GotoIs
    <3>3. CASE WakeUp
      <4>1. Goto("idle") \/ Goto("fetch")
        BY <3>3 DEF WakeUp
      <4>2. main.at # "wait"
        BY <3>1
      <4>3. Goto("idle")
        BY <3>3, <4>2 DEF WakeUp
      <4>4. QED BY <1>1, <4>3, GotoIs
    <3>4. CASE \E p \in Pocs : Finish(p)
      <4>1. PICK p : Goto(CASE main.at = "wait" -> "fetch" [] main.at = "topwait" -> "idle"
                          [] OTHER -> main.at)
        BY <3>4 DEF Finish
      <4>2. CASE main.at = "topwait"
        <5>1. Goto("idle")
          BY <4>1, <4>2
        <5>2. QED BY <1>1, <5>1, GotoIs
      <4>3. CASE main.at # "wait" /\ main.at # "topwait"
        <5>1. Goto(main.at)
          BY <4>1, <4>3, Zenon
        <5>2. QED BY <1>1, <3>1, <5>1, GotoIs
      <4>4. QED BY <3>1, <4>2, <4>3
    <3>5. CASE UNCHANGED vars
      BY <3>1, <3>5 DEF vars
    <3>6. ASSUME ~CallStage, ~WaitForFreeEncoders, ~WakeUp, ~(\E p \in Pocs : Finish(p)), ~UNCHANGED vars
          PROVE  FALSE
      BY <1>8, <3>1, <3>6
      DEF Next, Stage, lists, NoLists, PlainList,
                NextChunk, StartReorder, Reorder, FillWindow, FillReorder, Fetch, LoopEnds,
                WaitForPicture, EncodePicture, SkipPicture, PushEncoder, UpdateRc, NoOutput
    <3>7. QED BY <3>2, <3>3, <3>4, <3>5, <3>6
  <2>4. QED BY <1>4, <2>1, <2>2, <2>3
<1>9. QED BY <1>5, <1>6, <1>7, <1>8

-----------------------------------------------------------------------------
(* Chunks.                                                                 *)

(* A list in coding order is known by its set. *)
LEMMA SortedPrefix ==
  ASSUME NEW s \in Seq(Pocs), NEW t \in Seq(Pocs), Sorted(s), Sorted(t), ToSet(s) = ToSet(t)
  PROVE  \A i \in 1 .. Len(s) : i <= Len(t) /\ s[i] = t[i]
<1> DEFINE Bad == {i \in 1 .. Len(s) : ~(i <= Len(t) /\ s[i] = t[i])}
<1>1. SUFFICES ASSUME Bad # {} PROVE FALSE
  OBVIOUS
<1>2. DOMAIN s = 1 .. Len(s) /\ Len(s) \in Nat /\ DOMAIN t = 1 .. Len(t) /\ Len(t) \in Nat
  OBVIOUS
<1>3. Bad \subseteq Nat
  OBVIOUS
<1>4. PICK b \in Bad : \A i \in Bad : b <= i
  <2> HIDE DEF Bad
  <2>1. QED BY <1>1, <1>3, LeastNumber
<1>5. b \in 1 .. Len(s) /\ ~(b <= Len(t) /\ s[b] = t[b])
  BY <1>4
<1>6. \A i \in 1 .. b - 1 : i <= Len(t) /\ s[i] = t[i]
  <2> SUFFICES ASSUME NEW i \in 1 .. b - 1 PROVE i <= Len(t) /\ s[i] = t[i]
    OBVIOUS
  <2>1. i \in 1 .. Len(s) /\ ~(b <= i)
    BY <1>2, <1>5
  <2>2. i \notin Bad
    BY <1>4, <2>1
  <2>3. QED BY <2>1, <2>2
<1> HIDE DEF Bad
<1>7. /\ \A i \in 1 .. Len(s) : s[i] \in Pocs /\ s[i] \in ToSet(s) /\ CodingNums[s[i]] \in Nat
      /\ \A i \in 1 .. Len(t) : t[i] \in Pocs /\ t[i] \in ToSet(t) /\ CodingNums[t[i]] \in Nat
  BY <1>2, InToSet, NumbersAreNumbers
<1>8. /\ \A i, j \in 1 .. Len(s) : i < j => CodingNums[s[i]] < CodingNums[s[j]]
      /\ \A i, j \in 1 .. Len(t) : i < j => CodingNums[t[i]] < CodingNums[t[j]]
  BY <1>2 DEF Sorted
<1>9. PICK j \in 1 .. Len(t) : s[b] = t[j]
  BY <1>2, <1>5, <1>7, InToSet
<1>10. ~(j < b)
  <2>1. SUFFICES ASSUME j < b PROVE FALSE
    OBVIOUS
  <2>2. j \in 1 .. b - 1 /\ j \in 1 .. Len(s)
    BY <1>2, <1>5, <2>1
  <2>3. s[j] = s[b] /\ CodingNums[s[j]] < CodingNums[s[b]]
    BY <1>5, <1>6, <1>8, <1>9, <2>1, <2>2
  <2>4. QED BY <1>5, <1>7, <2>3
<1>11. b \in 1 .. Len(t)
  BY <1>2, <1>5, <1>10
<1>12. PICK k \in 1 .. Len(s) : t[b] = s[k]
  BY <1>2, <1>7, <1>11, InToSet
<1>13. ~(k < b)
  <2>1. SUFFICES ASSUME k < b PROVE FALSE
    OBVIOUS
  <2>2. k \in 1 .. b - 1 /\ k \in 1 .. Len(t)
    BY <1>2, <1>11, <2>1
  <2>3. t[k] = t[b] /\ CodingNums[t[k]] < CodingNums[t[b]]
    BY <1>6, <1>8, <1>11, <1>12, <2>1, <2>2
  <2>4. QED BY <1>7, <1>11, <2>3
<1>14. CodingNums[s[b]] <= CodingNums[t[b]]
  <2>1. CASE k = b
    BY <1>5, <1>7, <1>12, <2>1
  <2>2. CASE b < k
    BY <1>5, <1>7, <1>8, <1>12, <2>2
  <2>3. QED BY <1>5, <1>13, <2>1, <2>2
<1>15. CodingNums[t[b]] <= CodingNums[s[b]]
  <2>1. CASE j = b
    BY <1>7, <1>9, <1>11, <2>1
  <2>2. CASE b < j
    BY <1>7, <1>8, <1>9, <1>11, <2>2
  <2>3. QED BY <1>5, <1>10, <2>1, <2>2
<1>16. CodingNums[s[b]] = CodingNums[t[b]]
  BY <1>5, <1>7, <1>11, <1>14, <1>15
<1>17. s[b] = t[b]
  BY <1>5, <1>7, <1>11, <1>16, NumbersDiffer
<1>18. QED BY <1>5, <1>11, <1>17

LEMMA SortedEqual ==
  ASSUME NEW s \in Seq(Pocs), NEW t \in Seq(Pocs), Sorted(s), Sorted(t), ToSet(s) = ToSet(t)
  PROVE  s = t
<1>1. \A i \in 1 .. Len(s) : i <= Len(t) /\ s[i] = t[i]
  BY SortedPrefix
<1>2. \A i \in 1 .. Len(t) : i <= Len(s) /\ t[i] = s[i]
  BY SortedPrefix
<1>3. Len(s) \in Nat /\ Len(t) \in Nat
  OBVIOUS
<1>4. Len(s) = Len(t)
  <2>1. Len(s) <= Len(t)
    BY <1>1, <1>3
  <2>2. Len(t) <= Len(s)
    BY <1>2, <1>3
  <2>3. QED BY <1>3, <2>1, <2>2
<1>5. QED BY <1>1, <1>4

(* The pictures of the input that may be in a chunk with the first one. *)
Fitting ==
  {p \in ToSet(input) : /\ GopNums[p] = GopNums[Head(input)] /\ TLayer[p] = TLayer[Head(input)]
                        /\ Refs[p] \subseteq reconstructed}

InputUpTo(i) == {p \in Fitting : \E j \in 1 .. i : p = input[j]}

(* The first ones of them are taken. *)
FirstOf(set, size) == {p \in set : Cardinality(Fitting \intersect CodedBefore(p)) < size}

LEMMA InputCounts ==
  ASSUME NEW s, s \subseteq Pocs
  PROVE  IsFiniteSet(s) /\ Cardinality(s) \in Nat
<1>1. IsFiniteSet(Pocs)
  BY LayersAssumption, FS_Interval DEF Pocs
<1>2. QED BY <1>1, FS_Subset, FS_CardinalityType

LEMMA FirstTaken ==
  ASSUME input \in Seq(Pocs), Sorted(input), ~mode.ifp, NEW size \in Nat
  PROVE  Reordered(<<>>, size, TRUE) = FirstOf(Fitting, size)
<1> DEFINE n == Len(input)
<1>1. n \in Nat /\ input \in [1 .. n -> Pocs] /\ DOMAIN input = 1 .. n
  OBVIOUS
<1>2. PICK f : TakesBy(f, <<>>, size, TRUE)
  BY ReorderedRuns
<1>3. /\ f[0] = {} /\ \A i \in 1 .. n : f[i] = TakenWith(f[i - 1], input[i], <<>>, size, TRUE)
      /\ Reordered(<<>>, size, TRUE) = f[n]
  BY <1>2 DEF TakesBy
<1>4. Fitting \subseteq ToSet(input) /\ ToSet(input) \subseteq Pocs
  BY DEF Fitting, ToSet
<1> DEFINE Good(i) == /\ f[i] = FirstOf(InputUpTo(i), size)
                      /\ f[i] = InputUpTo(i) \/ size <= Cardinality(f[i])
           G == {i \in 0 .. n : Good(i)}
<1>5. 0 \in G
  <2>1. InputUpTo(0) = {}
    BY DEF InputUpTo
  <2>2. FirstOf({}, size) = {}
    BY DEF FirstOf
  <2>3. Good(0)
    BY <1>3, <2>1, <2>2
  <2>4. QED BY <1>1, <2>3
<1>6. ASSUME NEW i \in 1 .. n, Good(i - 1)
      PROVE  Good(i)
  <2> DEFINE p == input[i]
             old == f[i - 1]
             new == f[i]
             before == InputUpTo(i - 1)
             upTo == InputUpTo(i)
  <2>1. p \in Pocs /\ p \in ToSet(input) /\ i - 1 \in Nat
    BY <1>1, InToSet
  <2>2. before \subseteq Pocs /\ before \subseteq Fitting
    BY <1>4 DEF InputUpTo
  <2>3. upTo = before \union {q \in {p} : q \in Fitting}
    <3>1. 1 .. i = (1 .. i - 1) \union {i}
      BY <1>1
    <3>2. QED BY <3>1 DEF InputUpTo
  <2>4. Fitting \intersect CodedBefore(p) = before
    <3>1. ASSUME NEW q \in Fitting, q \in CodedBefore(p) PROVE q \in before
      <4>1. PICK j \in 1 .. n : q = input[j]
        BY <1>1, <1>4, InToSet
      <4>2. CodingNums[input[j]] < CodingNums[input[i]] /\ CodingNums[input[j]] \in Nat
            /\ CodingNums[input[i]] \in Nat
        BY <1>1, <3>1, <4>1, NumbersAreNumbers DEF CodedBefore
      <4>3. ~(i < j) /\ i # j
        <5>1. i < j => CodingNums[input[i]] < CodingNums[input[j]]
          BY <1>1 DEF Sorted
        <5>2. QED BY <4>2, <5>1
      <4>4. j \in 1 .. i - 1
        BY <1>1, <4>3
      <4>5. QED BY <4>1, <4>4 DEF InputUpTo
    <3>2. ASSUME NEW q \in before PROVE q \in CodedBefore(p)
      <4>1. PICK j \in 1 .. i - 1 : q = input[j]
        BY DEF InputUpTo
      <4>2. j \in 1 .. n /\ j < i
        BY <1>1
      <4>3. CodingNums[input[j]] < CodingNums[input[i]]
        BY <1>1, <4>2 DEF Sorted
      <4>4. QED BY <2>2, <4>1, <4>3 DEF CodedBefore
    <3> HIDE DEF before, p
    <3>3. QED BY <2>2, <3>1, <3>2
  <2>5. Good(i - 1)
    BY <1>6
  <2>6. old = FirstOf(before, size) /\ (old = before \/ size <= Cardinality(old))
    BY <2>5
  <2>7. /\ Cardinality(before) \in Nat /\ Cardinality(old) \in Nat /\ Cardinality(old) <= Cardinality(before)
    <3> HIDE DEF before, old
    <3>1. old \subseteq before
      BY <2>6 DEF FirstOf
    <3>2. IsFiniteSet(before)
      BY <2>2, InputCounts
    <3>3. QED BY <2>2, <3>1, <3>2, InputCounts, FS_Subset
  <2>8. new = old \union {q \in {p} : q \in Fitting /\ Cardinality(old) < size}
    <3>1. new = TakenWith(old, p, <<>>, size, TRUE)
      BY <1>3
    <3>2. \A q \in {p} : Fits(q, old, <<>>, size, TRUE) <=> q \in Fitting /\ Cardinality(old) < size
      <4>1. Fits(p, old, <<>>, size, TRUE) <=> p \in Fitting /\ 0 + Cardinality(old) < size
        <5>1. Len(<<>>) = 0
          OBVIOUS
        <5> HIDE DEF old, p
        <5>2. CanFollow(p, listed \union old) <=> Refs[p] \subseteq reconstructed
          BY DEF CanFollow
        <5> DEFINE follows == CanFollow(p, listed \union old)
        <5>3. Fits(p, old, <<>>, size, TRUE)
                <=> /\ Len(<<>>) + Cardinality(old) < size /\ GopNums[p] = GopNums[Head(input)]
                    /\ TLayer[p] = TLayer[Head(input)] /\ follows
          BY Zenon DEF Fits
        <5> HIDE DEF follows
        <5>4. follows <=> Refs[p] \subseteq reconstructed
          BY <5>2 DEF follows
        <5>5. p \in Fitting <=> /\ GopNums[p] = GopNums[Head(input)] /\ TLayer[p] = TLayer[Head(input)]
                                /\ Refs[p] \subseteq reconstructed
          BY <2>1 DEF Fitting
        <5>6. Len(<<>>) + Cardinality(old) < size <=> 0 + Cardinality(old) < size
          BY <5>1
        <5>7. QED BY <5>3, <5>4, <5>5, <5>6, Zenon
      <4>2. 0 + Cardinality(old) < size <=> Cardinality(old) < size
        BY <2>7
      <4>3. QED BY <4>1, <4>2, Zenon
    <3> HIDE DEF old, p, new
    <3>3. QED BY <3>1, <3>2 DEF TakenWith
  <2>9. FirstOf(upTo, size) = FirstOf(before, size)
                                \union {q \in {p} : q \in Fitting /\ Cardinality(before) < size}
    <3> HIDE DEF before, upTo, p
    <3>1. QED BY <2>3, <2>4 DEF FirstOf
  <2> HIDE DEF p, old, new, before, upTo, Good
  <2>10. CASE old = before
    <3>1. new = FirstOf(upTo, size)
      BY <2>6, <2>8, <2>9, <2>10
    <3>2. CASE p \in Fitting /\ ~(Cardinality(old) < size)
      <4>1. new = old
        BY <2>8, <3>2
      <4>2. size <= Cardinality(new)
        BY <2>7, <3>2, <4>1
      <4>3. QED BY <3>1, <4>2 DEF Good, new, upTo
    <3>3. CASE ~(p \in Fitting /\ ~(Cardinality(old) < size))
      <4>1. new = upTo
        BY <2>3, <2>8, <2>10, <3>3
      <4>2. QED BY <3>1, <4>1 DEF Good, new, upTo
    <3>4. QED BY <3>2, <3>3
  <2>11. CASE size <= Cardinality(old)
    <3>1. ~(Cardinality(old) < size) /\ ~(Cardinality(before) < size)
      BY <2>7, <2>11
    <3>2. new = old /\ new = FirstOf(upTo, size)
      BY <2>6, <2>8, <2>9, <3>1
    <3>3. size <= Cardinality(new)
      BY <2>11, <3>2
    <3>4. QED BY <3>2, <3>3 DEF Good, new, upTo
  <2>12. QED BY <2>6, <2>10, <2>11
<1>7. \A i \in 1 .. n : i - 1 \in G => i \in G
  <2>1. \A i \in 1 .. n : i \in 0 .. n
    BY <1>1
  <2> HIDE DEF Good
  <2>2. QED BY <1>6, <2>1
<1> HIDE DEF G
<1>8. 0 .. n \subseteq G
  <2> HIDE DEF n
  <2>1. QED BY <1>1, <1>5, <1>7, Upwards
<1>9. Good(n)
  BY <1>1, <1>8 DEF G
<1>10. InputUpTo(n) = Fitting
  <2>1. \A p \in Fitting : \E j \in 1 .. n : p = input[j]
    BY <1>1, <1>4, InToSet
  <2>2. QED BY <2>1 DEF InputUpTo
<1>11. QED BY <1>3, <1>9, <1>10

(* What comes after the pictures that are done. *)
ChunkRest(done) == Pocs \ ToSet(done)

ChunkFirst(done) ==
  CHOOSE p \in ChunkRest(done) : \A q \in ChunkRest(done) : CodingNums[p] <= CodingNums[q]

ChunkFits(done) ==
  {p \in ChunkRest(done) : /\ GopNums[p] = GopNums[ChunkFirst(done)]
                           /\ TLayer[p] = TLayer[ChunkFirst(done)]
                           /\ Refs[p] \subseteq ToSet(done)}

ChunkPics(done, frames) ==
  {p \in ChunkFits(done) :
     Cardinality(ChunkFits(done) \intersect CodedBefore(p)) < ChunkSize(ChunkFirst(done), frames)}

LEMMA ChunkAfterIs ==
  ASSUME NEW done, NEW frames
  PROVE  /\ ChunkAfter(done, frames) \in Seq(Pocs)
         /\ Sorted(ChunkAfter(done, frames))
         /\ ToSet(ChunkAfter(done, frames)) = ChunkPics(done, frames)
         /\ ChunkPics(done, frames) \subseteq ChunkFits(done) /\ ChunkFits(done) \subseteq Pocs \ ToSet(done)
<1>1. ChunkAfter(done, frames) = Keep(CodingOrder, ChunkPics(done, frames))
  BY Zenon DEF ChunkAfter, ChunkPics, ChunkFits, ChunkFirst, ChunkRest
<1>2. ChunkPics(done, frames) \subseteq ChunkFits(done) /\ ChunkFits(done) \subseteq ChunkRest(done)
  BY DEF ChunkPics, ChunkFits
<1>3. ChunkFits(done) \subseteq Pocs \ ToSet(done)
  BY <1>2 DEF ChunkRest
<1>4. /\ Keep(CodingOrder, ChunkPics(done, frames)) \in Seq(Pocs)
      /\ Sorted(Keep(CodingOrder, ChunkPics(done, frames)))
      /\ ToSet(Keep(CodingOrder, ChunkPics(done, frames))) = Pocs \intersect ChunkPics(done, frames)
  BY CodingOrderIs, KeepSet, KeepSorted
<1>5. Pocs \intersect ChunkPics(done, frames) = ChunkPics(done, frames)
  BY <1>2, <1>3
<1> HIDE DEF ChunkPics, ChunkFits, ChunkRest, ChunkFirst
<1>6. QED BY <1>1, <1>2, <1>3, <1>4, <1>5

(* The chunks follow each other. *)
ChunkStep(frames) ==
  [x \in Seq(Pocs) \X Pocs |-> x[1] \o ChunkAfter(x[1], frames)]

LEMMA DoneIs ==
  ASSUME NEW frames
  PROVE  /\ DoneBefore(frames)[0] = <<>>
         /\ \A n \in 1 .. LastPoc + 1 :
              DoneBefore(frames)[n] = DoneBefore(frames)[n - 1] \o ChunkAfter(DoneBefore(frames)[n - 1], frames)
<1> DEFINE n == LastPoc + 1
           s == [i \in 1 .. n |-> i - 1]
           After(list) == list \o ChunkAfter(list, frames)
           IsDone(h) == h = [i \in 0 .. n |-> IF i = 0 THEN <<>> ELSE h[i - 1] \o ChunkAfter(h[i - 1], frames)]
<1>1. n \in Nat /\ s \in [1 .. n -> Pocs] /\ <<>> \in Seq(Pocs)
  BY LayersAssumption DEF Pocs
<1>2. ChunkStep(frames) \in [Seq(Pocs) \X Pocs -> Seq(Pocs)]
  <2>1. \A x \in Seq(Pocs) \X Pocs : x[1] \o ChunkAfter(x[1], frames) \in Seq(Pocs)
    <3> SUFFICES ASSUME NEW list \in Seq(Pocs)
                 PROVE  list \o ChunkAfter(list, frames) \in Seq(Pocs)
      OBVIOUS
    <3>1. ChunkAfter(list, frames) \in Seq(Pocs)
      BY ChunkAfterIs
    <3>2. QED BY <3>1, JoinSet
  <2>2. QED BY <2>1 DEF ChunkStep
<1>3. PICK g \in [0 .. n -> Seq(Pocs)] : IsRun(g, <<>>, ChunkStep(frames), s, n)
  <2> HIDE DEF n, s
  <2>1. QED BY <1>1, <1>2, RunExists
<1>4. g[0] = <<>> /\ \A i \in 1 .. n : g[i] = After(g[i - 1])
  <2>1. ASSUME NEW i \in 1 .. n PROVE g[i] = After(g[i - 1])
    <3>1. g[i - 1] \in Seq(Pocs) /\ i - 1 \in Pocs /\ s[i] = i - 1
      BY <1>1, <1>3 DEF Pocs
    <3>2. g[i] = ChunkStep(frames)[<<g[i - 1], i - 1>>]
      BY <1>3, <3>1 DEF IsRun
    <3>3. QED BY <3>1, <3>2 DEF ChunkStep
  <2>2. QED BY <1>3, <2>1 DEF IsRun
<1>5. IsDone(g)
  <2>1. \A i \in 0 .. n : i # 0 => i \in 1 .. n
    BY <1>1
  <2>2. \A i \in 0 .. n : g[i] = IF i = 0 THEN <<>> ELSE g[i - 1] \o ChunkAfter(g[i - 1], frames)
    BY <1>4, <2>1
  <2>3. g = [i \in 0 .. n |-> g[i]]
    BY <1>3
  <2>4. QED BY <2>2, <2>3
<1> DEFINE f == CHOOSE h : IsDone(h)
<1>6. IsDone(f)
  <2> HIDE DEF IsDone
  <2>1. QED BY <1>5, Zenon
<1>7. DoneBefore(frames) = f
  BY Zenon DEF DoneBefore
<1>8. f[0] = <<>> /\ \A i \in 1 .. n : f[i] = f[i - 1] \o ChunkAfter(f[i - 1], frames)
  <2>1. f = [i \in 0 .. n |-> IF i = 0 THEN <<>> ELSE f[i - 1] \o ChunkAfter(f[i - 1], frames)]
    BY <1>6
  <2>2. \A i \in 1 .. n : i \in 0 .. n /\ i # 0
    BY <1>1
  <2>3. 0 \in 0 .. n
    BY <1>1
  <2> HIDE DEF f
  <2>4. QED BY <2>1, <2>2, <2>3
<1> HIDE DEF f, IsDone
<1>9. QED BY <1>7, <1>8, Zenon

(* A chunk is no larger than it may be. *)
LEMMA ChunkSmall ==
  ASSUME NEW done, NEW frames \in Nat \ {0}
  PROVE  /\ Cardinality(ToSet(ChunkAfter(done, frames))) <= ChunkSize(ChunkFirst(done), frames)
         /\ ChunkSize(ChunkFirst(done), frames) \in 1 .. frames
<1> DEFINE s == ChunkAfter(done, frames)
           fits == ChunkFits(done)
           size == ChunkSize(ChunkFirst(done), frames)
           c == ToSet(s)
<1>1. size \in 1 .. frames
  BY DEF ChunkSize
<1>2. /\ s \in Seq(Pocs) /\ Sorted(s) /\ c = ChunkPics(done, frames) /\ c \subseteq fits
      /\ fits \subseteq Pocs
  BY ChunkAfterIs
<1>3. \A p \in c : Cardinality(fits \intersect CodedBefore(p)) < size
  BY <1>2 DEF ChunkPics
<1> HIDE DEF s, fits, size
<1>4. Len(s) \in Nat /\ DOMAIN s = 1 .. Len(s)
  BY <1>2
<1>5. CASE Len(s) = 0
  <2>1. c = {}
    BY <1>4, <1>5, InToSet
  <2>2. Cardinality(c) = 0
    BY <2>1, FS_EmptySet
  <2>3. QED BY <1>1, <2>2 DEF s, size
<1>6. CASE Len(s) # 0
  <2> DEFINE m == s[Len(s)]
             others == c \ {m}
             b == fits \intersect CodedBefore(m)
  <2>1. m \in c /\ c \subseteq Pocs
    BY <1>2, <1>4, <1>6, InToSet
  <2>2. ASSUME NEW p \in c, p # m PROVE p \in CodedBefore(m)
    <3>1. PICK i \in 1 .. Len(s) : p = s[i]
      BY <1>4, InToSet
    <3>2. i < Len(s) /\ Len(s) \in 1 .. Len(s)
      BY <1>4, <2>2, <3>1
    <3>3. CodingNums[s[i]] < CodingNums[s[Len(s)]]
      BY <1>2, <1>4, <3>2 DEF Sorted
    <3>4. QED BY <2>1, <3>1, <3>3 DEF CodedBefore
  <2> HIDE DEF m, c
  <2>3. others \subseteq b /\ b \subseteq Pocs
    BY <1>2, <2>2
  <2>4. Cardinality(b) < size
    BY <1>3, <2>1
  <2> HIDE DEF b
  <2>5. IsFiniteSet(b) /\ Cardinality(b) \in Nat /\ IsFiniteSet(c) /\ Cardinality(c) \in Nat
    BY <2>1, <2>3, InputCounts
  <2>6. Cardinality(others) = Cardinality(c) - 1
    BY <2>1, <2>5, FS_RemoveElement
  <2> HIDE DEF others
  <2>7. Cardinality(others) <= Cardinality(b)
    BY <2>3, <2>5, FS_Subset
  <2>8. Cardinality(c) <= size
    BY <1>1, <2>4, <2>5, <2>6, <2>7
  <2>9. QED BY <1>1, <2>8 DEF c, s, size
<1>7. QED BY <1>5, <1>6

Done == ToSet(accounted)

Chunk == ToSet(rcUpdate)

(* Whose filter parameters do not come from a picture of this chunk or one *)
(* before it.                                                              *)
Blocked(p) == mode.alf /\ ~(RefAps[p] \subseteq Done \union Chunk)

(* In lockstep the pictures whose bits are known are those of the first    *)
(* chunks, the update list is the next one or empty, and only pictures of  *)
(* that chunk are coded.                                                   *)
ChunkInv ==
  /\ rcUpdate = <<>> \/ rcUpdate = ChunkAfter(accounted, mode.frames)
  /\ Distinct(accounted)
  /\ \E n \in 0 .. LastPoc + 1 : n <= Len(accounted) /\ accounted = DoneBefore(mode.frames)[n]

CodedInv ==
  /\ Begun = ToSet(input) \union Done \union Chunk
  /\ ToSet(input) \intersect (Done \union Chunk) = {}
  /\ coding \subseteq Chunk
  /\ main.at = "encode" => main.pic \in Chunk
  /\ rcUpdate # <<>> => Done \subseteq reconstructed
  /\ \A p \in ToSet(procList) : p \in Chunk \/ Blocked(p)
  /\ main.at \notin {"fetch", "encode"} => \A p \in ToSet(procList) : Blocked(p)

LockInv == Chunks => ChunkInv /\ CodedInv

LEMMA LockInit == TypeInv /\ Init => LockInv
<1> SUFFICES ASSUME TypeInv, Init PROVE ChunkInv /\ CodedInv
  BY DEF LockInv
<1>1. /\ input = <<>> /\ output = <<>> /\ procList = <<>> /\ rcUpdate = <<>>
      /\ written = <<>> /\ accounted = <<>> /\ coding = {} /\ main.at = "idle"
  BY DEF Init
<1>2. ToSet(<<>>) = {} /\ Distinct(<<>>) /\ Len(<<>>) = 0
  BY DEF ToSet, Distinct
<1>3. DoneBefore(mode.frames)[0] = <<>>
  BY DoneIs
<1>4. 0 \in 0 .. LastPoc + 1 /\ 0 <= 0
  BY LayersAssumption
<1>5. ChunkInv
  BY <1>1, <1>2, <1>3, <1>4 DEF ChunkInv
<1>6. CodedInv
  BY <1>1, <1>2 DEF CodedInv, Done, Chunk, Begun
<1>7. QED BY <1>5, <1>6

(* Of a set with a least picture, a chunk of one has just that.            *)
LEMMA ChunkOfOne ==
  ASSUME NEW set \in SUBSET Pocs, NEW h \in set, \A q \in set : CodingNums[h] <= CodingNums[q]
  PROVE  {p \in set : Cardinality(set \intersect CodedBefore(p)) < 1} = {h}
<1>1. \A p \in set : CodingNums[p] \in Nat
  BY NumbersAreNumbers
<1>2. Cardinality(set \intersect CodedBefore(h)) < 1
  <2>1. set \intersect CodedBefore(h) = {}
    BY <1>1 DEF CodedBefore
  <2>2. QED BY <2>1, FS_EmptySet
<1>3. ASSUME NEW p \in set, p # h PROVE ~(Cardinality(set \intersect CodedBefore(p)) < 1)
  <2> DEFINE b == set \intersect CodedBefore(p)
  <2>1. CodingNums[h] < CodingNums[p]
    <3>1. CodingNums[h] # CodingNums[p]
      BY <1>3, NumbersDiffer
    <3>2. QED BY <1>1, <3>1
  <2>2. h \in b /\ b \subseteq Pocs
    BY <2>1 DEF CodedBefore
  <2> HIDE DEF b
  <2>3. IsFiniteSet(b) /\ Cardinality(b) \in Nat
    BY <2>2, InputCounts
  <2>4. Cardinality(b) # 0
    BY <2>2, <2>3, FS_EmptySet
  <2>5. ~(Cardinality(b) < 1)
    BY <2>3, <2>4
  <2>6. QED BY <2>5 DEF b
<1>4. QED BY <1>2, <1>3

(* What is not done when the chunk before is: the input.                   *)
LEMMA AllDone ==
  ASSUME TypeInv, OrderInv, PlaceInv, ModeInv, ArriveInv, LockInv, Chunks,
         rcUpdate = <<>>, procList = <<>>, main.at = "lists"
  PROVE  /\ reconstructed = Done /\ Begun = ToSet(input) \union Done
         /\ ToSet(input) \intersect Done = {}
         /\ Arrived = Begun /\ WholeGops(Begun)
         /\ reorder = <<>> /\ coding = {}
<1>1. ToSet(<<>>) = {}
  BY DEF ToSet
<1>2. Chunk = {} /\ coding = {}
  BY <1>1 DEF LockInv, CodedInv, Chunk
<1>3. Begun = ToSet(input) \union Done /\ ToSet(input) \intersect Done = {}
  BY <1>2 DEF LockInv, CodedInv
<1>4. reorder = <<>>
  BY DEF ModeInv, Chunks
<1>5. /\ Begun = ToSet(input) \union reconstructed /\ ToSet(input) \intersect reconstructed = {}
  BY <1>1, <1>2, <1>4 DEF PlaceInv
<1>6. reconstructed = Done
  BY <1>3, <1>5
<1>7. pics = <<>>
  BY DEF ArriveInv
<1>8. Arrived = Begun
  BY <1>1, <1>7 DEF Arrived, Begun
<1>9. WholeGops(Begun)
  BY <1>8 DEF ArriveInv
<1>10. QED BY <1>2, <1>3, <1>4, <1>6, <1>8, <1>9

(* The first of the input is the first of all that are not done. *)
LEMMA FirstIsHead ==
  ASSUME TypeInv, OrderInv, PlaceInv, input # <<>>,
         Begun = ToSet(input) \union Done, ToSet(input) \intersect Done = {}
  PROVE  /\ Head(input) \in ToSet(input) /\ ToSet(input) \subseteq ChunkRest(accounted)
         /\ ChunkFirst(accounted) = Head(input)
         /\ \A q \in ChunkRest(accounted) : CodingNums[Head(input)] <= CodingNums[q]
<1> DEFINE h == Head(input)
           rest == ChunkRest(accounted)
<1>1. input \in Seq(Pocs) /\ Sorted(input) /\ ToSet(input) \subseteq Pocs
  BY DEF TypeInv, PlaceInv, ToSet
<1>2. h \in Pocs /\ h \in ToSet(input)
  BY <1>1, HeadTail
<1>3. ToSet(input) \subseteq rest /\ rest \subseteq Pocs
  BY <1>1 DEF ChunkRest, Done
<1>4. ASSUME NEW q \in rest PROVE CodingNums[h] <= CodingNums[q]
  <2>1. q \in Pocs /\ q \notin Done
    BY DEF ChunkRest, Done
  <2>2. CodingNums[h] \in Nat /\ CodingNums[q] \in Nat
    BY <1>2, <2>1, NumbersAreNumbers
  <2>3. CASE q \in Begun
    <3>1. q \in ToSet(input)
      BY <2>1, <2>3
    <3>2. q = h \/ CodingNums[h] < CodingNums[q]
      BY <1>1, <3>1, HeadLeast
    <3>3. QED BY <2>2, <3>2
  <2>4. CASE q \notin Begun
    <3>1. h \in Begun
      BY <1>2
    <3>2. ~(CodingNums[q] < CodingNums[h])
      BY <2>1, <2>4, <3>1, EarlierBegun
    <3>3. QED BY <2>2, <3>2
  <2>5. QED BY <2>3, <2>4
<1> DEFINE first == ChunkFirst(accounted)
<1> HIDE DEF h, rest
<1>5. first \in rest /\ \A q \in rest : CodingNums[first] <= CodingNums[q]
  <2>1. \E p \in rest : \A q \in rest : CodingNums[p] <= CodingNums[q]
    BY <1>2, <1>3, <1>4
  <2>2. QED BY <2>1, Zenon DEF ChunkFirst, rest
<1> HIDE DEF first
<1>6. first = h
  <2>1. CodingNums[first] <= CodingNums[h] /\ CodingNums[h] <= CodingNums[first]
    BY <1>2, <1>3, <1>4, <1>5
  <2>2. CodingNums[first] \in Nat /\ CodingNums[h] \in Nat
    BY <1>3, <1>5, <1>2, NumbersAreNumbers
  <2>3. CodingNums[first] = CodingNums[h]
    BY <2>1, <2>2
  <2>4. QED BY <1>2, <1>3, <1>5, <2>3, NumbersDiffer
<1>7. QED BY <1>2, <1>3, <1>4, <1>6 DEF h, first, rest

(* NextChunk takes the next chunk. *)
LEMMA ChunkTaken ==
  ASSUME TypeInv, OrderInv, PlaceInv, ModeInv, ArriveInv, LockInv, Chunks,
         rcUpdate = <<>>, NextChunk
  PROVE  /\ procList' = ChunkAfter(accounted, mode.frames) /\ rcUpdate' = procList'
         /\ reconstructed = Done /\ Begun = ToSet(input) \union Done
         /\ ToSet(input) \intersect Done = {}
         /\ ToSet(procList') \subseteq ToSet(input)
         /\ ToSet(input') = ToSet(input) \ ToSet(procList')
<1> DEFINE h == Head(input)
           size == ChunkSize(h, mode.frames)
           taken == FirstOf(Fitting, size)
           fits == ChunkFits(accounted)
<1>1. main.at = "lists" /\ procList = <<>> /\ (input # <<>> \/ reorder # <<>>)
  BY DEF NextChunk, NeedLists
<1>2. /\ reconstructed = Done /\ Begun = ToSet(input) \union Done
      /\ ToSet(input) \intersect Done = {}
      /\ Arrived = Begun /\ WholeGops(Begun)
      /\ reorder = <<>> /\ coding = {}
  BY <1>1, AllDone
<1>3. input # <<>> /\ input \in Seq(Pocs) /\ Sorted(input) /\ ToSet(input) \subseteq Pocs
  BY <1>1, <1>2 DEF TypeInv, PlaceInv, ToSet
<1>4. /\ h \in ToSet(input) /\ ToSet(input) \subseteq ChunkRest(accounted)
      /\ ChunkFirst(accounted) = h
      /\ \A q \in ChunkRest(accounted) : CodingNums[h] <= CodingNums[q]
  BY <1>2, <1>3, FirstIsHead
<1>5. mode.frames \in Nat \ {0} /\ ~mode.ifp
  BY ChunksMode DEF TypeInv, Chunks
<1>6. size \in Nat
  BY <1>5 DEF ChunkSize
<1>7. Reordered(<<>>, size, TRUE) = taken
  BY <1>3, <1>5, <1>6, FirstTaken
<1>8. /\ fits = {p \in ChunkRest(accounted) : /\ GopNums[p] = GopNums[h] /\ TLayer[p] = TLayer[h]
                                              /\ Refs[p] \subseteq Done}
      /\ Fitting = {p \in ToSet(input) : /\ GopNums[p] = GopNums[h] /\ TLayer[p] = TLayer[h]
                                         /\ Refs[p] \subseteq Done}
  BY <1>2, <1>4 DEF ChunkFits, Fitting, Done
<1> HIDE DEF h, fits
<1>9. Fitting \subseteq ToSet(input) /\ Fitting \subseteq fits /\ fits \subseteq Pocs
  BY <1>4, <1>8 DEF ChunkRest
<1>10. ChunkPics(accounted, mode.frames) = {p \in fits : Cardinality(fits \intersect CodedBefore(p)) < size}
  BY <1>4 DEF ChunkPics, fits, h
<1>11. taken = {p \in Fitting : Cardinality(Fitting \intersect CodedBefore(p)) < size}
  BY DEF FirstOf
<1> HIDE DEF size, taken
<1>12. ChunkPics(accounted, mode.frames) = taken
  <2>1. CASE ~IsLeading0(h)
    <3>1. ASSUME NEW q \in ChunkRest(accounted), GopNums[q] = GopNums[h]
          PROVE  q \in ToSet(input)
      <4>1. q \in Pocs /\ q \notin Done
        BY DEF ChunkRest, Done
      <4>2. h \in Begun
        BY <1>2, <1>4
      <4>3. q \in Begun
        BY <1>2, <2>1, <3>1, <4>1, <4>2 DEF WholeGops
      <4>4. QED BY <1>2, <4>1, <4>3
    <3>2. fits \subseteq Fitting
      BY <1>8, <3>1
    <3>3. fits = Fitting
      BY <1>9, <3>2
    <3>4. QED BY <1>10, <1>11, <3>3
  <2>2. CASE IsLeading0(h)
    <3>1. h \in Pocs
      BY <1>3, <1>4
    <3>2. TLayer[h] = 0 /\ Refs[h] = {}
      BY <2>2, <3>1 DEF TLayer, Refs, Active
    <3>3. size = 1
      BY <1>5, <3>2 DEF size, ChunkSize, MinSerialDepth
    <3>4. h \in Fitting /\ h \in fits
      BY <1>4, <1>8, <1>9, <3>2
    <3>5. /\ \A q \in fits : CodingNums[h] <= CodingNums[q]
          /\ \A q \in Fitting : CodingNums[h] <= CodingNums[q]
      BY <1>4, <1>8, <1>9
    <3>6. {p \in fits : Cardinality(fits \intersect CodedBefore(p)) < 1} = {h}
      BY <1>9, <3>4, <3>5, ChunkOfOne
    <3>7. {p \in Fitting : Cardinality(Fitting \intersect CodedBefore(p)) < 1} = {h}
      BY <1>9, <3>4, <3>5, ChunkOfOne
    <3>8. QED BY <1>10, <1>11, <3>3, <3>6, <3>7
  <2>3. QED BY <2>1, <2>2
<1>13. /\ procList' = procList \o Keep(input, taken) /\ rcUpdate' = procList'
       /\ input' = Keep(input, Pocs \ taken)
  BY <1>1, <1>7 DEF NextChunk, TakeFromInput, size, h
<1>14. taken \subseteq ToSet(input)
  BY <1>9, <1>11
<1>15. /\ Keep(input, taken) \in Seq(Pocs) /\ Sorted(Keep(input, taken))
       /\ ToSet(Keep(input, taken)) = taken /\ ToSet(input') = ToSet(input) \ taken
  <2>1. /\ Keep(input, taken) \in Seq(Pocs) /\ Sorted(Keep(input, taken))
        /\ ToSet(Keep(input, taken)) = ToSet(input) \intersect taken
    BY <1>3, KeepSet, KeepSorted
  <2>2. ToSet(Keep(input, Pocs \ taken)) = ToSet(input) \intersect (Pocs \ taken)
    BY <1>3, KeepSet
  <2>3. ToSet(input) \intersect taken = taken /\ ToSet(input) \intersect (Pocs \ taken) = ToSet(input) \ taken
    BY <1>3, <1>14
  <2>4. QED BY <1>13, <2>1, <2>2, <2>3, Zenon
<1>16. procList' = Keep(input, taken)
  BY <1>1, <1>13, <1>15
<1>17. Keep(input, taken) = ChunkAfter(accounted, mode.frames)
  <2> DEFINE s == Keep(input, taken)
             t == ChunkAfter(accounted, mode.frames)
  <2>1. t \in Seq(Pocs) /\ Sorted(t) /\ ToSet(t) = taken
    BY <1>12, ChunkAfterIs
  <2>2. s \in Seq(Pocs) /\ Sorted(s) /\ ToSet(s) = taken
    BY <1>15
  <2> HIDE DEF s, t
  <2>3. s = t
    BY <2>1, <2>2, SortedEqual
  <2>4. QED BY <2>3 DEF s, t
<1>18. QED BY <1>2, <1>13, <1>14, <1>15, <1>16, <1>17

(* The pictures of a chunk. *)
LEMMA ChunkIs ==
  ASSUME TypeInv, ChunkInv, Chunks, rcUpdate # <<>>
  PROVE  /\ Chunk \subseteq Pocs /\ Chunk \intersect Done = {}
         /\ Distinct(rcUpdate) /\ Cardinality(Chunk) <= mode.frames
         /\ \A p \in Chunk : Refs[p] \subseteq Done
         /\ \A p, q \in Chunk : /\ TLayer[p] = TLayer[q]
                                /\ TLayer[p] = 0 => p = q
<1> DEFINE c == ChunkAfter(accounted, mode.frames)
           first == ChunkFirst(accounted)
           size == ChunkSize(first, mode.frames)
<1>1. rcUpdate = c /\ mode.frames \in Nat \ {0}
  BY ChunksMode DEF ChunkInv, TypeInv
<1>2. /\ c \in Seq(Pocs) /\ Sorted(c) /\ ToSet(c) \subseteq ChunkFits(accounted)
      /\ ChunkFits(accounted) \subseteq Pocs \ ToSet(accounted)
  BY ChunkAfterIs
<1>3. Cardinality(ToSet(c)) <= size /\ size \in 1 .. mode.frames
  BY <1>1, ChunkSmall
<1>4. Distinct(c)
  BY <1>2, SortedIsDistinct
<1>5. \A p \in ChunkFits(accounted) : TLayer[p] = TLayer[first] /\ Refs[p] \subseteq ToSet(accounted)
  BY DEF ChunkFits
<1>6. TLayer[first] = 0 => size = 1
  BY <1>1 DEF ChunkSize, MinSerialDepth
<1> HIDE DEF c, first, size
<1>7. Chunk = ToSet(c) /\ Done = ToSet(accounted)
  BY <1>1 DEF Chunk, Done
<1>8. Chunk \subseteq Pocs /\ Chunk \intersect Done = {}
  BY <1>2, <1>7
<1>9. IsFiniteSet(Chunk) /\ Cardinality(Chunk) \in Nat
  BY <1>8, InputCounts
<1>10. Cardinality(Chunk) <= mode.frames
  BY <1>1, <1>3, <1>7, <1>9
<1>11. ASSUME NEW p \in Chunk, NEW q \in Chunk, TLayer[p] = 0 PROVE p = q
  <2>1. size = 1
    BY <1>2, <1>5, <1>6, <1>7, <1>11
  <2>2. Cardinality(Chunk) <= 1
    BY <1>3, <1>7, <2>1
  <2>3. SUFFICES ASSUME p # q PROVE FALSE
    OBVIOUS
  <2> DEFINE a == Chunk \ {p}
  <2>4. Cardinality(a) = Cardinality(Chunk) - 1 /\ IsFiniteSet(a)
    BY <1>9, FS_RemoveElement
  <2>5. q \in a
    BY <2>3
  <2> HIDE DEF a
  <2>6. Cardinality(a) # 0 /\ Cardinality(a) \in Nat
    BY <2>4, <2>5, FS_EmptySet, FS_CardinalityType
  <2>7. QED BY <1>9, <2>2, <2>4, <2>6
<1>12. QED BY <1>1, <1>2, <1>4, <1>5, <1>7, <1>8, <1>10, <1>11

(* What is reconstructed was in a chunk. *)
LEMMA ReconstructedIs ==
  ASSUME TypeInv, PlaceInv, CodedInv
  PROVE  reconstructed \subseteq Done \union Chunk
BY DEF PlaceInv, CodedInv

(* A picture that waits, and is not in the chunk, waits for no picture of  *)
(* this chunk.                                                             *)
LEMMA NotReadyBlocked ==
  ASSUME TypeInv, PlaceInv, ChunkInv, CodedInv, Chunks, NEW p \in ToSet(procList), ~Ready(p)
  PROVE  Blocked(p)
<1>1. SUFFICES ASSUME p \in Chunk PROVE Blocked(p)
  BY DEF CodedInv
<1>2. rcUpdate # <<>>
  <2>1. ToSet(<<>>) = {}
    BY DEF ToSet
  <2>2. QED BY <1>1, <2>1 DEF Chunk
<1>3. Done \subseteq reconstructed
  BY <1>2 DEF CodedInv
<1>4. /\ Chunk \subseteq Pocs /\ Refs[p] \subseteq Done
      /\ \A q \in Chunk : TLayer[q] = TLayer[p] /\ (TLayer[q] = 0 => p = q)
  BY <1>1, <1>2, ChunkIs
<1>5. ~mode.rateCap
  BY ChunksMode DEF TypeInv
<1>6. mode.alf /\ ~(RefAps[p] \subseteq reconstructed)
  BY <1>3, <1>4, <1>5 DEF Ready
<1>7. PICK q \in RefAps[p] : q \notin reconstructed
  BY <1>6
<1>8. /\ q \in Pocs /\ CodingNums[q] < CodingNums[p]
      /\ TLayer[q] < TLayer[p] \/ (TLayer[q] = 0 /\ TLayer[p] = 0)
  <2>1. p \in Pocs
    BY <1>1, <1>4
  <2>2. QED BY <2>1, <1>7 DEF RefAps
<1>9. q \notin Chunk
  <2>1. SUFFICES ASSUME q \in Chunk PROVE FALSE
    OBVIOUS
  <2>2. TLayer[q] = TLayer[p] /\ (TLayer[q] = 0 => p = q)
    BY <1>4, <2>1
  <2>3. p \in Pocs /\ CodingNums[p] \in Nat
    BY <1>1, <1>4, NumbersAreNumbers
  <2>4. p # q
    BY <1>8, <2>3
  <2>5. TLayer[p] \in Nat
    <3>1. p \in Nat
      BY <2>3, LayersAssumption DEF Pocs
    <3>2. CASE IsLeading0(p)
      BY <2>3, <3>2 DEF TLayer
    <3>3. CASE ~IsLeading0(p)
      <4>1. EntryOf(p) \in 1 .. GopSize
        BY <3>1, <3>3, EntryIs
      <4>2. GopLayer[EntryOf(p)] \in Nat
        BY <4>1, LayersAssumption DEF GopSize
      <4>3. QED BY <2>3, <3>3, <4>2 DEF TLayer
    <3>4. QED BY <3>2, <3>3
  <2>6. TLayer[q] = 0
    BY <1>8, <2>2, <2>5
  <2>7. QED BY <2>2, <2>4, <2>6
<1>10. q \notin Done \union Chunk
  BY <1>3, <1>7, <1>9
<1>11. QED BY <1>6, <1>7, <1>10 DEF Blocked

(* When the loop ends, the chunk is being coded, or waits for pictures     *)
(* that are.                                                               *)
LEMMA LoopEndsBlocked ==
  ASSUME StateInv, ChunkInv, CodedInv, Chunks, LoopEnds
  PROVE  \A p \in ToSet(procList) : Blocked(p)
<1>1. TypeInv /\ PlaceInv /\ NoneLost
  BY DEF StateInv
<1>2. /\ mode.nonBlocking /\ mode.frames \in Nat \ {0} /\ Encoders = mode.frames /\ ~mode.skip
  BY <1>1, ChunksMode DEF TypeInv
<1>3. SUFFICES ASSUME NEW p \in ToSet(procList) PROVE Blocked(p)
  OBVIOUS
<1>4. procList # <<>>
  <2>1. ToSet(<<>>) = {}
    BY DEF ToSet
  <2>2. QED BY <1>3, <2>1
<1>5. free = 0 \/ ReadyPics = {}
  BY <1>4 DEF LoopEnds, LeaveLoop, NothingToStart, NoEncoder
<1>6. CASE ReadyPics = {}
  <2>1. PICK i \in DOMAIN procList : p = procList[i]
    BY InToSet
  <2>2. ~Ready(p)
    BY <1>6, <2>1 DEF ReadyPics
  <2>3. QED BY <1>1, <2>2, NotReadyBlocked
<1>7. CASE free = 0
  <2>1. main.at = "fetch"
    BY DEF LoopEnds
  <2>2. InUse = 0
    BY <2>1 DEF InUse
  <2>3. Cardinality(coding) = mode.frames
    <3>1. coding \subseteq Pocs
      BY <1>1 DEF TypeInv
    <3>2. Cardinality(coding) \in Nat
      BY <3>1, CodingCount
    <3>3. free + Cardinality(coding) + InUse = Encoders
      BY <1>1, <1>2 DEF NoneLost
    <3>4. QED BY <1>2, <1>7, <2>2, <3>2, <3>3
  <2>4. coding # {}
    BY <1>2, <2>3, FS_EmptySet
  <2>5. coding \subseteq Chunk
    BY DEF CodedInv
  <2>6. rcUpdate # <<>>
    <3>1. ToSet(<<>>) = {}
      BY DEF ToSet
    <3>2. QED BY <2>4, <2>5, <3>1 DEF Chunk
  <2>7. Cardinality(Chunk) <= mode.frames /\ Chunk \subseteq Pocs
    BY <1>1, <2>6, ChunkIs
  <2>8. IsFiniteSet(Chunk) /\ Cardinality(Chunk) \in Nat
    BY <2>7, InputCounts
  <2>9. Cardinality(coding) <= Cardinality(Chunk)
    BY <2>5, <2>8, FS_Subset
  <2>10. coding = Chunk
    <3>1. Cardinality(coding) = Cardinality(Chunk)
      BY <1>2, <2>3, <2>7, <2>8, <2>9
    <3>2. QED BY <2>5, <2>8, <3>1, FS_Subset
  <2>11. p \notin Chunk
    BY <1>1, <1>3, <2>10 DEF PlaceInv
  <2>12. QED BY <1>3, <2>11 DEF CodedInv
<1>8. QED BY <1>5, <1>6, <1>7

(* What the steps that leave the chunk alone have to show. *)
LEMMA LockSame ==
  ASSUME ChunkInv, CodedInv, mode' = mode, UNCHANGED <<input, rcUpdate, accounted>>,
         Begun' = Begun, ToSet(procList') \subseteq ToSet(procList), coding' \subseteq Chunk,
         reconstructed \subseteq reconstructed',
         main'.at = "encode" => main'.pic \in Chunk,
         main'.at \notin {"fetch", "encode"} => \A p \in ToSet(procList') : Blocked(p)
  PROVE  ChunkInv' /\ CodedInv'
<1>1. ChunkInv'
  BY DEF ChunkInv
<1>2. Done' = Done /\ Chunk' = Chunk
  BY DEF Done, Chunk
<1>3. \A p : Blocked(p)' <=> Blocked(p)
  BY <1>2 DEF Blocked
<1>4. /\ Begun' = ToSet(input') \union Done' \union Chunk'
      /\ ToSet(input') \intersect (Done' \union Chunk') = {}
      /\ coding' \subseteq Chunk' /\ (main'.at = "encode" => main'.pic \in Chunk')
      /\ (rcUpdate' # <<>> => Done' \subseteq reconstructed')
  BY <1>2 DEF CodedInv
<1>5. \A p \in ToSet(procList') : p \in Chunk' \/ Blocked(p)'
  BY <1>2, <1>3 DEF CodedInv
<1>6. main'.at \notin {"fetch", "encode"} => \A p \in ToSet(procList') : Blocked(p)'
  BY <1>3
<1>7. CodedInv'
  BY <1>4, <1>5, <1>6 DEF CodedInv
<1>8. QED BY <1>1, <1>7

(* A list without repetitions has no more than all pictures. *)
LEMMA DistinctShort ==
  ASSUME NEW s \in Seq(Pocs), Distinct(s)
  PROVE  Len(s) <= LastPoc + 1
<1> DEFINE n == Len(s)
           S == 1 .. n
<1>1. n \in Nat /\ DOMAIN s = S /\ s \in [S -> Pocs]
  OBVIOUS
<1>2. IsFiniteSet(S) /\ Cardinality(S) = n
  BY <1>1, FS_Interval
<1>3. IsFiniteSet(Pocs) /\ Cardinality(Pocs) = LastPoc + 1
  BY LayersAssumption, FS_Interval DEF Pocs
<1>4. s \in Injection(S, Pocs)
  BY <1>1 DEF Injection, IsInjective, Distinct
<1> HIDE DEF S, n
<1>5. Cardinality(S) <= Cardinality(Pocs)
  BY <1>2, <1>3, <1>4, FS_Injection
<1>6. QED BY <1>2, <1>3, <1>5 DEF n

(* The pictures that are initialised were in no list. *)
LEMMA LockInitPics ==
  ASSUME StateInv, ChunkInv, CodedInv, mode' = mode, InitPics
  PROVE  ChunkInv' /\ CodedInv'
<1>1. TypeInv /\ OrderInv /\ main \in MainType
  BY DEF StateInv, TypeInv
<1>2. PICK n \in Nat : Initialised(n)
  BY <1>1, InitPicsIs DEF TypeInv
<1>3. PICK pre \in Seq(Pocs) :
        /\ pics' \in Seq(Pocs) /\ pics = pre \o pics' /\ input' = input \o pre
        /\ Len(pre) = n /\ \A i \in 1 .. n : MayInit(i) /\ pre[i] = pics[i]
        /\ output' = output \o pre
  BY <1>1, <1>2, InitialisedIs
<1>4. /\ UNCHANGED <<procList, rcUpdate, accounted, coding, reconstructed, written>>
      /\ main.at = "init" /\ Goto("lists")
  BY DEF InitPics
<1>5. main'.at = "lists"
  BY <1>1, <1>4, GotoIs
<1>6. /\ input \in Seq(Pocs) /\ output \in Seq(Pocs)
  BY <1>1 DEF TypeInv
<1>7. /\ ToSet(input') = ToSet(input) \union ToSet(pre)
      /\ ToSet(output') = ToSet(output) \union ToSet(pre)
      /\ ToSet(pics) = ToSet(pre) \union ToSet(pics')
  BY <1>3, <1>6, JoinSet
<1>8. Begun' = Begun \union ToSet(pre)
  <2>1. Begun' = ToSet(written') \union ToSet(output')
    BY DEF Begun
  <2>2. QED BY <1>4, <1>7, <2>1 DEF Begun
<1>9. Begun \intersect ToSet(pre) = {}
  <2>1. \A x \in Begun, y \in ToSet(pics) : CodingNums[x] < CodingNums[y]
    BY <1>1, BegunIs, PrecedesIs DEF OrderInv
  <2>2. \A x \in Begun : CodingNums[x] \in Nat
    BY <1>1, BegunIs, NumbersAreNumbers
  <2>3. QED BY <1>7, <2>1, <2>2
<1>10. ChunkInv'
  BY <1>4 DEF ChunkInv
<1>11. Done' = Done /\ Chunk' = Chunk
  BY <1>4 DEF Done, Chunk
<1>12. \A p : Blocked(p)' <=> Blocked(p)
  BY <1>11 DEF Blocked
<1>13. /\ Begun' = ToSet(input') \union Done' \union Chunk'
       /\ ToSet(input') \intersect (Done' \union Chunk') = {}
  BY <1>7, <1>8, <1>9, <1>11 DEF CodedInv
<1>14. \A p \in ToSet(procList') : Blocked(p)'
  BY <1>4, <1>12 DEF CodedInv
<1>15. CodedInv'
  BY <1>4, <1>5, <1>11, <1>13, <1>14 DEF CodedInv
<1>16. QED BY <1>10, <1>15

LEMMA LockNextChunk ==
  ASSUME StateInv, ModeInv, ArriveInv, LockInv, Chunks, ChunkInv, CodedInv, mode' = mode,
         rcUpdate = <<>>, NextChunk
  PROVE  ChunkInv' /\ CodedInv'
<1>1. TypeInv /\ OrderInv /\ PlaceInv /\ main \in MainType
  BY DEF StateInv, TypeInv
<1>2. /\ procList' = ChunkAfter(accounted, mode.frames) /\ rcUpdate' = procList'
      /\ reconstructed = Done /\ Begun = ToSet(input) \union Done
      /\ ToSet(input) \intersect Done = {}
      /\ ToSet(procList') \subseteq ToSet(input)
      /\ ToSet(input') = ToSet(input) \ ToSet(procList')
  BY <1>1, ChunkTaken
<1>3. /\ UNCHANGED <<accounted, coding, reconstructed, written, output>> /\ ListsDone
  BY DEF NextChunk
<1>4. main'.at \in {"rc", "fetch"} /\ (procList' # <<>> => main'.at = "fetch")
  BY <1>1, <1>3, GotoIs DEF ListsDone
<1>5. ToSet(<<>>) = {}
  BY DEF ToSet
<1>6. coding = {}
  BY <1>5 DEF CodedInv, Chunk
<1>7. ChunkInv'
  BY <1>2, <1>3 DEF ChunkInv
<1>8. Done' = Done /\ Chunk' = ToSet(procList')
  BY <1>2, <1>3 DEF Done, Chunk
<1>9. Begun' = Begun
  BY <1>3 DEF Begun
<1>10. /\ Begun' = ToSet(input') \union Done' \union Chunk'
       /\ ToSet(input') \intersect (Done' \union Chunk') = {}
  BY <1>2, <1>8, <1>9
<1>11. main'.at \notin {"fetch", "encode"} => ToSet(procList') = {}
  BY <1>4, <1>5
<1>12. CodedInv'
  BY <1>2, <1>3, <1>4, <1>6, <1>8, <1>10, <1>11 DEF CodedInv
<1>13. QED BY <1>7, <1>12

LEMMA LockWrite ==
  ASSUME StateInv, Chunks, ChunkInv, CodedInv, mode' = mode, Write
  PROVE  ChunkInv' /\ CodedInv'
<1> DEFINE matches == rcUpdate # <<>> /\ Head(rcUpdate) = Head(output)
<1>1. TypeInv /\ CountInv /\ main \in MainType /\ accounted \in Seq(Pocs) /\ rcUpdate \in Seq(Pocs)
  BY DEF StateInv, TypeInv
<1>2. /\ UNCHANGED <<input, procList, reconstructed, coding>> /\ main.at = "output"
      /\ Goto("idle") /\ ~ChunkOpen
      /\ accounted' = IF matches THEN accounted \o rcUpdate ELSE accounted
      /\ rcUpdate' = IF matches THEN <<>> ELSE rcUpdate
  BY DEF Write, Chunks, CanWrite
<1>3. Begun' = Begun
  BY <1>1, WriteIs
<1>4. main'.at = "idle"
  BY <1>1, <1>2, GotoIs
<1>5. \A p \in ToSet(procList) : Blocked(p)
  BY <1>2 DEF CodedInv
<1>6. CASE ~matches
  <2>1. UNCHANGED <<input, rcUpdate, accounted>>
    BY <1>2, <1>6
  <2>2. coding' \subseteq Chunk
    BY <1>2 DEF CodedInv
  <2>3. QED BY <1>2, <1>3, <1>4, <1>5, <2>1, <2>2, LockSame
<1>7. CASE matches
  <2>1. accounted' = accounted \o rcUpdate /\ rcUpdate' = <<>>
    BY <1>2, <1>7
  <2>2. ToSet(<<>>) = {}
    BY DEF ToSet
  <2>3. Done' = Done \union Chunk /\ Chunk' = {}
    <3>1. ToSet(accounted \o rcUpdate) = ToSet(accounted) \union ToSet(rcUpdate)
      BY <1>1, JoinSet
    <3>2. QED BY <2>1, <2>2, <3>1 DEF Done, Chunk
  <2>4. coding = {}
    <3>1. free >= Encoders
      BY <1>2, <1>7 DEF ChunkOpen, Chunks, EncodersFinished
    <3>2. free \in Nat /\ coding \subseteq Pocs /\ Encoders \in Nat
      BY <1>1, ModeIs DEF TypeInv
    <3>3. free + Cardinality(coding) + InUse <= Encoders /\ InUse \in {0, 1}
      BY <1>1 DEF CountInv, InUse
    <3>4. Cardinality(coding) \in Nat
      BY <3>2, CodingCount
    <3>5. Cardinality(coding) = 0
      BY <3>1, <3>2, <3>3, <3>4
    <3>6. QED BY <3>2, <3>5, CodingCount
  <2>5. /\ Distinct(rcUpdate) /\ Chunk \intersect Done = {}
    BY <1>1, <1>7, ChunkIs
  <2>6. Distinct(accounted')
    BY <1>1, <2>1, <2>5, JoinDistinct DEF ChunkInv, Done, Chunk
  <2>7. PICK n \in 0 .. LastPoc + 1 : n <= Len(accounted) /\ accounted = DoneBefore(mode.frames)[n]
    BY DEF ChunkInv
  <2>8. rcUpdate = ChunkAfter(accounted, mode.frames)
    BY <1>7 DEF ChunkInv
  <2>9. /\ accounted' \in Seq(Pocs) /\ Len(accounted') = Len(accounted) + Len(rcUpdate)
        /\ Len(accounted) \in Nat /\ Len(rcUpdate) \in Nat /\ Len(rcUpdate) # 0
    BY <1>1, <1>7, <2>1
  <2>10. Len(accounted') <= LastPoc + 1
    BY <2>6, <2>9, DistinctShort
  <2>11. n + 1 \in 1 .. LastPoc + 1 /\ n + 1 <= Len(accounted') /\ (n + 1) - 1 = n
    BY <2>7, <2>9, <2>10, LayersAssumption
  <2>12. DoneBefore(mode.frames)[n + 1]
           = DoneBefore(mode.frames)[(n + 1) - 1] \o ChunkAfter(DoneBefore(mode.frames)[(n + 1) - 1], mode.frames)
    BY <2>11, DoneIs
  <2>13. accounted' = DoneBefore(mode.frames)[n + 1]
    BY <2>1, <2>7, <2>8, <2>11, <2>12
  <2>14. n + 1 \in 0 .. LastPoc + 1
    BY <2>11
  <2>15. ChunkInv'
    BY <2>1, <2>6, <2>11, <2>13, <2>14 DEF ChunkInv
  <2>16. \A p : Blocked(p)' <=> Blocked(p)
    BY <2>3 DEF Blocked
  <2>17. \A p \in ToSet(procList') : Blocked(p)'
    BY <1>2, <1>5, <2>16
  <2>18. /\ Begun' = ToSet(input') \union Done' \union Chunk'
         /\ ToSet(input') \intersect (Done' \union Chunk') = {}
    BY <1>2, <1>3, <2>3 DEF CodedInv
  <2>19. CodedInv'
    BY <1>2, <1>4, <2>1, <2>4, <2>17, <2>18 DEF CodedInv
  <2>20. QED BY <2>15, <2>19
<1>8. QED BY <1>6, <1>7

(* A picture is taken that is ready, so it is one of the chunk.            *)
LEMMA LockFetch ==
  ASSUME StateInv, Chunks, ChunkInv, CodedInv, mode' = mode, Fetch
  PROVE  ChunkInv' /\ CodedInv'
<1>1. TypeInv /\ PlaceInv /\ main \in MainType
  BY DEF StateInv, TypeInv
<1>2. PICK i \in ReadyPics : main' = [main EXCEPT !.at = "encode", !.pic = procList[i]]
  BY DEF Fetch
<1>3. main'.at = "encode" /\ main'.pic = procList[i]
  BY <1>1, <1>2 DEF MainType
<1>4. i \in DOMAIN procList /\ Ready(procList[i])
  BY DEF ReadyPics
<1>5. procList[i] \in ToSet(procList)
  BY <1>4, InToSet
<1>6. RefAps[procList[i]] \subseteq Done \union Chunk \/ ~mode.alf
  BY <1>1, <1>4, ReconstructedIs DEF Ready
<1>7. procList[i] \in Chunk
  BY <1>5, <1>6 DEF CodedInv, Blocked
<1>8. UNCHANGED <<input, output, procList, rcUpdate, accounted, coding, reconstructed, written>>
  BY DEF Fetch, lists
<1>9. Begun' = Begun /\ coding' \subseteq Chunk
  BY <1>8 DEF Begun, CodedInv
<1>10. QED BY <1>3, <1>7, <1>8, <1>9, LockSame

LEMMA LockEncode ==
  ASSUME StateInv, Chunks, ChunkInv, CodedInv, mode' = mode, EncodePicture
  PROVE  ChunkInv' /\ CodedInv'
<1>1. main \in MainType /\ procList \in Seq(Pocs)
  BY DEF StateInv, TypeInv
<1>2. /\ UNCHANGED <<input, output, rcUpdate, accounted, reconstructed, written>>
      /\ procList' = Keep(procList, Pocs \ {main.pic}) /\ coding' = coding \union {main.pic}
      /\ main.at = "encode" /\ Goto("fetch")
  BY DEF EncodePicture
<1>3. main'.at = "fetch"
  BY <1>1, <1>2, GotoIs
<1>4. ToSet(procList') \subseteq ToSet(procList)
  BY <1>1, <1>2, KeepSet
<1>5. coding' \subseteq Chunk /\ Begun' = Begun
  BY <1>2 DEF CodedInv, Begun
<1>6. QED BY <1>2, <1>3, <1>4, <1>5, LockSame

LEMMA LockFinish ==
  ASSUME StateInv, Chunks, ChunkInv, CodedInv, mode' = mode, NEW p, Finish(p)
  PROVE  ChunkInv' /\ CodedInv'
<1>1. TypeInv /\ main \in MainType
  BY DEF StateInv, TypeInv
<1>2. /\ UNCHANGED <<input, output, procList, rcUpdate, accounted, written>>
      /\ coding' = coding \ {p} /\ reconstructed' = reconstructed \union {p}
      /\ Goto(CASE main.at = "wait" -> "fetch" [] main.at = "topwait" -> "idle" [] OTHER -> main.at)
  BY DEF Finish, lists
<1>3. /\ main'.pic = main.pic
      /\ main'.at \in {"encode", "push"} <=> main.at \in {"encode", "push"}
      /\ main.at \in {"encode", "push"} => main' = main
  BY <1>1, FinishIs
<1>4. main'.at = "encode" => main.at = "encode"
  BY <1>3
<1>5. main'.at \notin {"fetch", "encode"} => main.at \notin {"fetch", "encode"}
  <2>1. SUFFICES ASSUME main.at \in {"fetch", "encode"} PROVE main'.at \in {"fetch", "encode"}
    OBVIOUS
  <2>2. main.at # "wait" /\ main.at # "topwait"
    BY <2>1
  <2>3. Goto(main.at)
    BY <1>2, <2>2, Zenon
  <2>4. QED BY <1>1, <2>1, <2>3, GotoIs
<1>6. /\ coding' \subseteq Chunk /\ Begun' = Begun /\ reconstructed \subseteq reconstructed'
      /\ main'.at = "encode" => main'.pic \in Chunk
  BY <1>2, <1>3, <1>4 DEF CodedInv, Begun
<1>7. main'.at \notin {"fetch", "encode"} => \A q \in ToSet(procList') : Blocked(q)
  BY <1>2, <1>5 DEF CodedInv
<1>8. ToSet(procList') \subseteq ToSet(procList)
  BY <1>2
<1>9. QED BY <1>2, <1>6, <1>7, <1>8, LockSame

(* With chunks, what is taken otherwise is not. *)
LEMMA LockOnly ==
  ASSUME StateInv, ModeInv, Chunks
  PROVE  /\ ~PlainList /\ ~StartReorder /\ ~Reorder /\ ~FillWindow /\ ~FillReorder
         /\ ~SkipPicture /\ ~PushEncoder /\ ~WaitForPicture
<1>1. mode.nonBlocking /\ ~mode.skip /\ mode.lockStep /\ ~mode.ifp
  BY ChunksMode DEF StateInv, TypeInv, Chunks
<1>2. main.at \notin {"push", "reorder", "fill"}
  BY <1>1 DEF StateInv, CountInv, ModeInv
<1>3. QED
  BY <1>1, <1>2 DEF PlainList, StartReorder, Reorder, FillWindow, FillReorder, SkipPicture,
                    Skipped, PushEncoder, WaitForPicture, MayOutput

(* The other steps move the thread on. *)
LEMMA LockMoves ==
  ASSUME StateInv, Chunks, ChunkInv, CodedInv, mode' = mode,
         UNCHANGED <<input, output, procList, rcUpdate, accounted, coding, reconstructed, written>>,
         \/ main' = main
         \/ main'.at \notin {"encode"} /\ main.at \notin {"fetch", "encode"}
         \/ main'.at = "fetch"
  PROVE  ChunkInv' /\ CodedInv'
<1>1. Begun' = Begun /\ coding' \subseteq Chunk
  BY DEF Begun, CodedInv
<1>2. main'.at = "encode" => main'.pic \in Chunk
  BY DEF CodedInv
<1>3. main'.at \notin {"fetch", "encode"} => \A p \in ToSet(procList') : Blocked(p)
  BY DEF CodedInv
<1>4. ToSet(procList') \subseteq ToSet(procList)
  OBVIOUS
<1>5. QED BY <1>1, <1>2, <1>3, <1>4, LockSame

LEMMA LockNext ==
  ASSUME StateInv, ModeInv, ArriveInv, LockInv, [Next]_vars
  PROVE  LockInv'
<1> DEFINE kept == UNCHANGED <<input, output, procList, rcUpdate, accounted, coding, reconstructed, written>>
           Inv == ChunkInv' /\ CodedInv'
<1>1. mode' = mode /\ main \in MainType
  BY ModeKept DEF StateInv, TypeInv
<1>2. SUFFICES ASSUME Chunks PROVE Inv
  BY <1>1 DEF LockInv, Chunks
<1>3. ChunkInv /\ CodedInv /\ mode.lockStep /\ ~mode.ifp /\ mode.nonBlocking /\ ~mode.rateCap
  BY <1>2, ChunksMode DEF LockInv, Chunks, StateInv, TypeInv
<1>4. CASE InitPics
  BY <1>1, <1>3, <1>4, LockInitPics
<1>5. CASE NextChunk
  <2>1. CASE rcUpdate = <<>>
    BY <1>1, <1>2, <1>3, <1>5, <2>1, LockNextChunk
  <2>2. CASE rcUpdate # <<>>
    <3>1. kept /\ main.at = "lists" /\ ListsDone
      BY <1>5, <2>2 DEF NextChunk
    <3>2. main'.at \in {"rc", "fetch"}
      BY <1>1, <3>1, GotoIs DEF ListsDone
    <3>3. QED BY <1>1, <1>2, <1>3, <3>1, <3>2, LockMoves
  <2>3. QED BY <2>1, <2>2
<1>6. CASE Write
  BY <1>1, <1>2, <1>3, <1>6, LockWrite
<1>7. CASE Fetch
  BY <1>1, <1>2, <1>3, <1>7, LockFetch
<1>8. CASE EncodePicture
  BY <1>1, <1>2, <1>3, <1>8, LockEncode
<1>9. CASE \E p \in Pocs : Finish(p)
  BY <1>1, <1>2, <1>3, <1>9, LockFinish
<1>10. CASE LoopEnds
  <2>1. kept /\ Goto("rc")
    BY <1>10 DEF LoopEnds, lists
  <2>2. main'.at = "rc"
    BY <1>1, <2>1, GotoIs
  <2>3. \A p \in ToSet(procList) : Blocked(p)
    BY <1>2, <1>3, <1>10, LoopEndsBlocked
  <2>4. Begun' = Begun /\ coding' \subseteq Chunk
    BY <1>3, <2>1 DEF Begun, CodedInv
  <2>5. ToSet(procList') = ToSet(procList)
    BY <2>1
  <2>6. QED BY <1>1, <1>3, <2>1, <2>2, <2>3, <2>4, <2>5, LockSame
<1>11. CASE UpdateRc
  <2>1. main.at = "rc" /\ kept
    BY <1>3, <1>11 DEF UpdateRc
  <2>2. main' = [main EXCEPT !.at = "output", !.n = 0]
    BY <1>3, <1>11 DEF UpdateRc
  <2>3. main'.at = "output"
    BY <1>1, <2>2 DEF MainType
  <2>4. QED BY <1>1, <1>2, <1>3, <2>1, <2>3, LockMoves
<1>12. CASE NoLists
  <2>1. kept /\ main.at = "lists" /\ ListsDone
    BY <1>12 DEF NoLists, lists
  <2>2. main'.at \in {"rc", "fetch"}
    BY <1>1, <2>1, GotoIs DEF ListsDone
  <2>3. QED BY <1>1, <1>2, <1>3, <2>1, <2>2, LockMoves
<1>13. CASE CallStage \/ WaitForFreeEncoders \/ NoOutput \/ WakeUp
  <2>1. kept /\ main.at \notin {"fetch", "encode"}
    BY <1>13 DEF CallStage, WaitForFreeEncoders, NoOutput, WakeUp, lists
  <2>2. \E at \in Places \ {"encode"} : Goto(at)
    BY <1>13 DEF Places, CallStage, WaitForFreeEncoders, NoOutput, WakeUp
  <2>3. main'.at # "encode"
    BY <1>1, <2>2, GotoIs
  <2>4. QED BY <1>1, <1>2, <1>3, <2>1, <2>3, LockMoves
<1>14. CASE Arrive \/ UNCHANGED vars
  <2>1. kept /\ main' = main
    BY <1>14 DEF Arrive, vars, lists
  <2>2. QED BY <1>1, <1>2, <1>3, <2>1, LockMoves
<1>15. /\ ~PlainList /\ ~StartReorder /\ ~Reorder /\ ~FillWindow /\ ~FillReorder
       /\ ~SkipPicture /\ ~PushEncoder /\ ~WaitForPicture
  BY <1>2, LockOnly
<1> HIDE DEF Inv, kept
<1>16. QED
  BY <1>4, <1>5, <1>6, <1>7, <1>8, <1>9, <1>10, <1>11, <1>12, <1>13, <1>14, <1>15 DEF Next, Stage

LEMMA JoinLength ==
  ASSUME NEW s \in Seq(Pocs), NEW t \in Seq(Pocs)
  PROVE  Len(s \o t) = Len(s) + Len(t)
OBVIOUS

(* In lockstep, whatever the timing of the threads, the parameters of a    *)
(* picture are set from the bits of all chunks before its own, as they     *)
(* would be if every picture were finished at once.                        *)
THEOREM RateControlKnowsTheSame == Spec => []RateControlDeterministic
<1> DEFINE Inv == ModeInv /\ ArriveInv /\ LockInv
<1>1. StateInv /\ Init => Inv
  BY ModeInit, ArriveInit, LockInit DEF StateInv
<1>2. StateInv /\ Inv /\ [Next]_vars => Inv'
  BY ModeNext, ArriveNext, LockNext DEF StateInv
<1>3. StateInv /\ Inv => RateControlDeterministic
  <2> SUFFICES ASSUME StateInv, Inv, main.at = "encode", mode.lockStep /\ ~mode.ifp
               PROVE  \E n \in 0 .. LastPoc :
                        /\ accounted = DoneBefore(mode.frames)[n]
                        /\ main.pic \in ToSet(ChunkAfter(accounted, mode.frames))
    BY DEF RateControlDeterministic
  <2>1. TypeInv /\ Chunks /\ ChunkInv /\ CodedInv
    BY DEF LockInv, Chunks, StateInv
  <2>2. main.pic \in Chunk
    BY <2>1 DEF CodedInv
  <2>3. rcUpdate # <<>>
    <3>1. ToSet(<<>>) = {}
      BY DEF ToSet
    <3>2. QED BY <2>2, <3>1 DEF Chunk
  <2>4. rcUpdate = ChunkAfter(accounted, mode.frames)
    BY <2>1, <2>3 DEF ChunkInv
  <2>5. PICK n \in 0 .. LastPoc + 1 : n <= Len(accounted) /\ accounted = DoneBefore(mode.frames)[n]
    BY <2>1 DEF ChunkInv
  <2>6. n \in 0 .. LastPoc
    <3> DEFINE one == <<main.pic>>
    <3>1. main.pic \in Pocs /\ main.pic \notin Done /\ accounted \in Seq(Pocs) /\ Distinct(accounted)
      BY <2>1, <2>2, <2>3, ChunkIs DEF ChunkInv, TypeInv
    <3>2. one \in Seq(Pocs) /\ ToSet(one) = {main.pic} /\ Distinct(one) /\ Len(one) = 1
      <4>1. one \in Seq(Pocs) /\ ToSet(one) = {main.pic} /\ Sorted(one)
        BY <3>1, OneElement
      <4>2. QED BY <4>1, SortedIsDistinct
    <3> HIDE DEF one
    <3>3. Distinct(accounted \o one) /\ accounted \o one \in Seq(Pocs)
      <4>1. ToSet(accounted) \intersect ToSet(one) = {}
        BY <3>1, <3>2 DEF Done
      <4>2. Distinct(accounted \o one)
        BY <3>1, <3>2, <4>1, JoinDistinct
      <4>3. accounted \o one \in Seq(Pocs)
        BY <3>1, <3>2
      <4>4. QED BY <4>2, <4>3
    <3>4. Len(accounted \o one) = Len(accounted) + 1 /\ Len(accounted) \in Nat
      <4>1. accounted \in Seq(Pocs) /\ one \in Seq(Pocs) /\ Len(one) = 1
        BY <3>1, <3>2
      <4>2. Len(accounted \o one) = Len(accounted) + Len(one)
        BY <4>1, JoinLength
      <4>3. QED BY <4>1, <4>2
    <3>5. Len(accounted) + 1 <= LastPoc + 1
      BY <3>3, <3>4, DistinctShort
    <3>6. QED BY <2>5, <3>4, <3>5, LayersAssumption
  <2>7. main.pic \in ToSet(ChunkAfter(accounted, mode.frames))
    BY <2>2, <2>4 DEF Chunk
  <2>8. QED BY <2>5, <2>6, <2>7
<1>4. Init => StateInv
  BY TypeInit, InitPlaces, CountInit DEF StateInv
<1>5. Init => Inv
  BY <1>1, <1>4
<1> HIDE DEF Inv
<1>6. QED BY <1>2, <1>3, <1>5, StateInvariant, PTL DEF Spec
=============================================================================
