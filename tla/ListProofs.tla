----------------------------- MODULE ListProofs -----------------------------
(***************************************************************************)
(* Induction over numbers, functions defined by recursion along a list,    *)
(* and what Keep does to a list.                                           *)
(***************************************************************************)
EXTENDS Lists, Integers, SequencesExt, WellFoundedInduction, TLAPS

(* A set of numbers has a least one. *)
LEMMA LeastNumber ==
  ASSUME NEW T, T \subseteq Nat, T # {}
  PROVE  \E m \in T : \A k \in T : m <= k
<1>1. \E x \in T : \A y \in T : ~(<<y, x>> \in OpToRel(<, Nat))
  BY NatLessThanWellFounded, WFMin
<1>2. OpToRel(<, Nat) = {ss \in Nat \X Nat : ss[1] < ss[2]}
  BY Zenon DEF OpToRel
<1>3. \A x, y \in T : y < x => <<y, x>> \in {ss \in Nat \X Nat : ss[1] < ss[2]}
  OBVIOUS
<1>4. \A x, y \in T : y < x => <<y, x>> \in OpToRel(<, Nat)
  BY <1>2, <1>3, Zenon
<1>5. \E x \in T : \A y \in T : ~(y < x)
  BY <1>1, <1>4, Zenon
<1>6. QED BY <1>5

(* Induction, over a set of numbers. *)
LEMMA Upwards ==
  ASSUME NEW n \in Nat, NEW G, 0 \in G, \A m \in 1 .. n : m - 1 \in G => m \in G
  PROVE  0 .. n \subseteq G
<1> DEFINE Bad == {m \in 0 .. n : m \notin G}
<1>1. SUFFICES ASSUME Bad # {} PROVE FALSE
  OBVIOUS
<1>2. Bad \subseteq Nat
  OBVIOUS
<1>3. PICK m \in Bad : \A k \in Bad : m <= k
  <2> HIDE DEF Bad
  <2>1. QED BY <1>1, <1>2, LeastNumber
<1>4. m \in 1 .. n /\ m - 1 \notin Bad
  BY <1>3
<1>5. QED BY <1>3, <1>4

(* What is defined by recursion along a list exists. *)
IsRun(f, base, step, s, n) ==
  f[0] = base /\ \A i \in 1 .. n : f[i] = step[<<f[i - 1], s[i]>>]

LEMMA RunExists ==
  ASSUME NEW Acc, NEW Item, NEW base \in Acc, NEW step \in [Acc \X Item -> Acc],
         NEW n \in Nat, NEW s \in [1 .. n -> Item]
  PROVE  \E f \in [0 .. n -> Acc] : IsRun(f, base, step, s, n)
<1> DEFINE G == {m \in 0 .. n : \E f \in [0 .. m -> Acc] : IsRun(f, base, step, s, m)}
<1>1. 0 \in G
  <2>1. [i \in 0 .. 0 |-> base] \in [0 .. 0 -> Acc]
    OBVIOUS
  <2>2. IsRun([i \in 0 .. 0 |-> base], base, step, s, 0)
    BY DEF IsRun
  <2>3. QED BY <2>1, <2>2
<1>2. ASSUME NEW m \in 1 .. n, m - 1 \in G
      PROVE  m \in G
  <2>1. PICK f \in [0 .. m - 1 -> Acc] : IsRun(f, base, step, s, m - 1)
    BY <1>2
  <2> DEFINE g == [i \in 0 .. m |-> IF i < m THEN f[i] ELSE step[<<f[m - 1], s[m]>>]]
  <2>2. step[<<f[m - 1], s[m]>>] \in Acc
    BY <2>1
  <2>3. g \in [0 .. m -> Acc]
    BY <2>1, <2>2
  <2>4. \A i \in 0 .. m - 1 : g[i] = f[i]
    OBVIOUS
  <2>5. g[m] = step[<<f[m - 1], s[m]>>]
    OBVIOUS
  <2> HIDE DEF g
  <2>6. g[0] = base
    BY <2>1, <2>4 DEF IsRun
  <2>7. ASSUME NEW i \in 1 .. m
        PROVE  g[i] = step[<<g[i - 1], s[i]>>]
    <3>1. CASE i = m
      <4>1. m - 1 \in 0 .. m - 1
        OBVIOUS
      <4>2. g[m - 1] = f[m - 1]
        BY <2>4, <4>1
      <4>3. QED BY <2>5, <3>1, <4>2
    <3>2. CASE i < m
      <4>1. i \in 1 .. m - 1 /\ i - 1 \in 0 .. m - 1 /\ i \in 0 .. m - 1
        BY <3>2
      <4>2. QED BY <2>1, <2>4, <4>1 DEF IsRun
    <3>3. QED BY <3>1, <3>2
  <2>8. IsRun(g, base, step, s, m)
    BY <2>6, <2>7 DEF IsRun
  <2>9. QED BY <2>3, <2>8
<1> HIDE DEF G
<1>3. \A m \in 1 .. n : m - 1 \in G => m \in G
  BY <1>2
<1>4. 0 .. n \subseteq G
  BY <1>1, <1>3, Upwards
<1>5. n \in G
  BY <1>4
<1>6. QED BY <1>5 DEF G

(* Keep has a list of the elements of a list that are in a set, in their   *)
(* order.                                                                  *)
KeepStep(Item, set) ==
  [x \in Seq(Item) \X Item |-> IF x[2] \in set THEN Append(x[1], x[2]) ELSE x[1]]

InOrderOf(kept, list, m) ==
  \A i, j \in DOMAIN kept : i < j =>
    \E a, b \in 1 .. m : a < b /\ kept[i] = list[a] /\ kept[j] = list[b]

KeptOf(Item, kept, list, set, m) ==
  /\ kept \in Seq(Item)
  /\ \A i \in DOMAIN kept : \E a \in 1 .. m : kept[i] = list[a] /\ list[a] \in set
  /\ \A a \in 1 .. m : list[a] \in set => \E i \in DOMAIN kept : kept[i] = list[a]
  /\ InOrderOf(kept, list, m)

LEMMA KeepRuns ==
  ASSUME NEW Item, NEW list \in Seq(Item), NEW set
  PROVE  \E f \in [0 .. Len(list) -> Seq(Item)] :
           IsRun(f, <<>>, KeepStep(Item, set), list, Len(list)) /\ Keep(list, set) = f[Len(list)]
<1> DEFINE n == Len(list)
           IsKept(f) == f = [i \in 0 .. n |->
                               IF i = 0 THEN <<>>
                               ELSE IF list[i] \in set THEN Append(f[i - 1], list[i]) ELSE f[i - 1]]
<1>1. n \in Nat /\ list \in [1 .. n -> Item] /\ <<>> \in Seq(Item)
  OBVIOUS
<1>2. KeepStep(Item, set) \in [Seq(Item) \X Item -> Seq(Item)]
  BY DEF KeepStep
<1>3. PICK g \in [0 .. n -> Seq(Item)] : IsRun(g, <<>>, KeepStep(Item, set), list, n)
  <2> HIDE DEF n
  <2>1. QED BY <1>1, <1>2, RunExists
<1>4. \A i \in 1 .. n : g[i] = IF list[i] \in set THEN Append(g[i - 1], list[i]) ELSE g[i - 1]
  <2> SUFFICES ASSUME NEW i \in 1 .. n
               PROVE  g[i] = IF list[i] \in set THEN Append(g[i - 1], list[i]) ELSE g[i - 1]
    OBVIOUS
  <2>1. g[i - 1] \in Seq(Item) /\ list[i] \in Item
    BY <1>1, <1>3
  <2>2. g[i] = KeepStep(Item, set)[<<g[i - 1], list[i]>>]
    BY <1>3 DEF IsRun
  <2>3. QED BY <2>1, <2>2 DEF KeepStep
<1>5. g[0] = <<>>
  BY <1>3 DEF IsRun
<1>6. IsKept(g)
  <2>1. \A i \in 0 .. n : g[i] = IF i = 0 THEN <<>>
                                ELSE IF list[i] \in set THEN Append(g[i - 1], list[i]) ELSE g[i - 1]
    <3>1. \A i \in 0 .. n : i # 0 => i \in 1 .. n
      BY <1>1
    <3>2. QED BY <1>4, <1>5, <3>1
  <2>2. g = [i \in 0 .. n |-> g[i]]
    BY <1>3
  <2>3. QED BY <2>1, <2>2
<1> DEFINE f == CHOOSE h : IsKept(h)
<1>7. IsKept(f)
  <2> HIDE DEF IsKept
  <2>1. QED BY <1>6, Zenon
<1>8. f = g
  <2> SUFFICES ASSUME NEW h, IsKept(h) PROVE h = g
    BY <1>7
  <2> DEFINE G == {i \in 0 .. n : h[i] = g[i]}
  <2>1. 0 \in G
    BY <1>5
  <2>2. \A i \in 1 .. n : i - 1 \in G => i \in G
    <3>1. \A i \in 1 .. n : i \in 0 .. n /\ i # 0
      BY <1>1
    <3>2. \A i \in 1 .. n :
            h[i] = IF list[i] \in set THEN Append(h[i - 1], list[i]) ELSE h[i - 1]
      BY <3>1
    <3>3. QED BY <1>4, <3>1, <3>2
  <2> HIDE DEF G
  <2>3. 0 .. n \subseteq G
    BY <1>1, <2>1, <2>2, Upwards
  <2>4. \A i \in 0 .. n : h[i] = g[i]
    BY <2>3 DEF G
  <2>5. h = [i \in 0 .. n |-> h[i]] /\ g = [i \in 0 .. n |-> g[i]]
    BY <1>3
  <2>6. QED BY <2>4, <2>5
<1>9. Keep(list, set) = f[n]
  BY Zenon DEF Keep
<1>10. QED BY <1>3, <1>8, <1>9

LEMMA KeptAppend ==
  ASSUME NEW Item, NEW list \in Seq(Item), NEW set, NEW m \in 1 .. Len(list), NEW kept,
         KeptOf(Item, kept, list, set, m - 1)
  PROVE  KeptOf(Item, IF list[m] \in set THEN Append(kept, list[m]) ELSE kept, list, set, m)
<1>1. kept \in Seq(Item) /\ list[m] \in Item /\ 1 .. m - 1 \subseteq 1 .. m
  BY DEF KeptOf
<1>2. CASE list[m] \notin set
  <2>1. \A a \in 1 .. m : a \in 1 .. m - 1 \/ a = m
    OBVIOUS
  <2>2. InOrderOf(kept, list, m)
    BY <1>1 DEF KeptOf, InOrderOf
  <2>3. KeptOf(Item, kept, list, set, m)
    BY <1>1, <1>2, <2>1, <2>2 DEF KeptOf
  <2>4. QED BY <1>2, <2>3
<1>3. CASE list[m] \in set
  <2> DEFINE k == Append(kept, list[m])
             l == Len(kept)
  <2>1. /\ k \in Seq(Item) /\ l \in Nat /\ DOMAIN k = 1 .. l + 1 /\ DOMAIN kept = 1 .. l
        /\ k[l + 1] = list[m] /\ \A i \in 1 .. l : k[i] = kept[i]
    BY <1>1
  <2> HIDE DEF k, l
  <2>2. \A i \in DOMAIN k : \E a \in 1 .. m : k[i] = list[a] /\ list[a] \in set
    <3>1. \A i \in 1 .. l : \E a \in 1 .. m - 1 : k[i] = list[a] /\ list[a] \in set
      <4>1. \A i \in 1 .. l : i \in DOMAIN kept /\ k[i] = kept[i]
        BY <2>1
      <4>2. QED BY <4>1, Zenon DEF KeptOf
    <3>2. \A i \in 1 .. l + 1 : i \in 1 .. l \/ i = l + 1
      BY <2>1
    <3>3. m \in 1 .. m
      OBVIOUS
    <3>4. QED BY <1>1, <1>3, <2>1, <3>1, <3>2, <3>3
  <2>3. \A a \in 1 .. m : list[a] \in set => \E i \in DOMAIN k : k[i] = list[a]
    <3>1. \A a \in 1 .. m : a \in 1 .. m - 1 \/ a = m
      OBVIOUS
    <3>2. \A a \in 1 .. m - 1 : list[a] \in set => \E i \in DOMAIN k : k[i] = list[a]
      <4>1. \A i \in 1 .. l : i \in 1 .. l + 1
        BY <2>1
      <4>2. QED BY <2>1, <4>1 DEF KeptOf
    <3>3. l + 1 \in 1 .. l + 1
      BY <2>1
    <3>4. QED BY <2>1, <3>1, <3>2, <3>3
  <2>4. ASSUME NEW i \in DOMAIN k, NEW j \in DOMAIN k, i < j
        PROVE  \E a, b \in 1 .. m : a < b /\ k[i] = list[a] /\ k[j] = list[b]
    <3>1. CASE j = l + 1
      <4>1. i \in 1 .. l
        BY <2>1, <2>4, <3>1
      <4>2. PICK a \in 1 .. m - 1 : kept[i] = list[a]
        BY <2>1, <4>1 DEF KeptOf
      <4>3. a \in 1 .. m /\ m \in 1 .. m /\ a < m
        OBVIOUS
      <4>4. QED BY <2>1, <3>1, <4>1, <4>2, <4>3
    <3>2. CASE j # l + 1
      <4>1. i \in 1 .. l /\ j \in 1 .. l
        BY <2>1, <2>4, <3>2
      <4>2. \E a, b \in 1 .. m - 1 : a < b /\ kept[i] = list[a] /\ kept[j] = list[b]
        BY <2>1, <2>4, <4>1 DEF KeptOf, InOrderOf
      <4>3. QED BY <1>1, <2>1, <4>1, <4>2
    <3>3. QED BY <3>1, <3>2
  <2>5. KeptOf(Item, k, list, set, m)
    BY <2>1, <2>2, <2>3, <2>4 DEF KeptOf, InOrderOf
  <2>6. QED BY <1>3, <2>5 DEF k
<1>4. QED BY <1>2, <1>3

LEMMA KeepIs ==
  ASSUME NEW Item, NEW list \in Seq(Item), NEW set
  PROVE  KeptOf(Item, Keep(list, set), list, set, Len(list))
<1> DEFINE n == Len(list)
<1>1. n \in Nat
  OBVIOUS
<1>2. PICK f \in [0 .. n -> Seq(Item)] :
        IsRun(f, <<>>, KeepStep(Item, set), list, n) /\ Keep(list, set) = f[n]
  BY KeepRuns
<1> DEFINE G == {m \in 0 .. n : KeptOf(Item, f[m], list, set, m)}
<1>3. 0 \in G
  <2>1. f[0] = <<>>
    BY <1>2 DEF IsRun
  <2>2. KeptOf(Item, <<>>, list, set, 0)
    BY DEF KeptOf, InOrderOf
  <2>3. QED BY <1>1, <2>1, <2>2
<1>4. ASSUME NEW m \in 1 .. n, m - 1 \in G
      PROVE  m \in G
  <2>1. f[m - 1] \in Seq(Item) /\ list[m] \in Item /\ m \in 0 .. n
    BY <1>1, <1>2
  <2>2. f[m] = KeepStep(Item, set)[<<f[m - 1], list[m]>>]
    BY <1>2 DEF IsRun
  <2>3. f[m] = IF list[m] \in set THEN Append(f[m - 1], list[m]) ELSE f[m - 1]
    BY <2>1, <2>2 DEF KeepStep
  <2>4. KeptOf(Item, f[m - 1], list, set, m - 1)
    BY <1>4
  <2>5. KeptOf(Item, f[m], list, set, m)
    BY <2>3, <2>4, KeptAppend
  <2>6. QED BY <2>1, <2>5
<1> HIDE DEF G
<1>5. \A m \in 1 .. n : m - 1 \in G => m \in G
  BY <1>4
<1>6. 0 .. n \subseteq G
  BY <1>1, <1>3, <1>5, Upwards
<1>7. n \in G
  BY <1>1, <1>6
<1>8. QED BY <1>2, <1>7 DEF G

LEMMA InToSet ==
  ASSUME NEW s, NEW x
  PROVE  x \in ToSet(s) <=> \E i \in DOMAIN s : x = s[i]
BY DEF ToSet
=============================================================================
