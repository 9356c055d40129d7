--------------------------- MODULE TUSchedulerProofs ---------------------------
(***************************************************************************)
(* What a scan executes.  The units of a pool that was built in new memory *)
(* run in the order of the pool, under every policy: those that have run   *)
(* are a prefix of it, and the next one waits for nothing.  The CTUs that  *)
(* have been encoded are closed under the neighbours the code checks.      *)
(***************************************************************************)
EXTENDS TUScheduler, ListProofs

-----------------------------------------------------------------------------
(* Induction, over a set of numbers from 1. *)
LEMMA UpwardsFromOne ==
  ASSUME NEW n \in Nat, NEW G, 1 \in G, \A m \in 2 .. n : m - 1 \in G => m \in G
  PROVE  1 .. n \subseteq G
<1> DEFINE Bad == {m \in 1 .. n : m \notin G}
<1>1. SUFFICES ASSUME Bad # {} PROVE FALSE
  OBVIOUS
<1>2. Bad \subseteq Nat
  OBVIOUS
<1>3. PICK m \in Bad : \A k \in Bad : m <= k
  <2> HIDE DEF Bad
  <2>1. QED BY <1>1, <1>2, LeastNumber
<1>4. m \in 2 .. n /\ m - 1 \notin Bad
  BY <1>3
<1>5. QED BY <1>3, <1>4

(* FlattenSeq is defined by recursion, which has a solution. *)
Concat(s, t) == s \o t

IsFlatten(f, seqs, n) ==
  f = [i \in 1 .. n |-> IF i = 1 THEN seqs[i] ELSE Concat(f[i - 1], seqs[i])]

LEMMA FlattenExists ==
  ASSUME NEW n \in Nat \ {0}, NEW seqs
  PROVE  \E f : IsFlatten(f, seqs, n)
<1> DEFINE Has(m) == \E f : IsFlatten(f, seqs, m)
<1>1. Has(1)
  <2>1. IsFlatten([i \in 1 .. 1 |-> seqs[i]], seqs, 1)
    BY DEF IsFlatten
  <2>2. QED BY <2>1
<1>2. ASSUME NEW m \in 2 .. n, NEW f, IsFlatten(f, seqs, m - 1)
      PROVE  Has(m)
  <2> DEFINE e(i) == IF i = 1 THEN seqs[i] ELSE Concat(f[i - 1], seqs[i])
             g == [i \in 1 .. m |-> e(i)]
  <2>1. f = [i \in 1 .. m - 1 |-> e(i)]
    BY <1>2 DEF IsFlatten
  <2>2. g = [i \in 1 .. m |-> e(i)]
    OBVIOUS
  <2> HIDE DEF e, g
  <2>3. \A i \in 2 .. m : g[i - 1] = f[i - 1]
    BY <2>1, <2>2
  <2>4. \A i \in 1 .. m : e(i) = IF i = 1 THEN seqs[i] ELSE Concat(g[i - 1], seqs[i])
    <3>1. e(1) = seqs[1]
      BY DEF e
    <3>2. \A i \in 2 .. m : e(i) = Concat(g[i - 1], seqs[i])
      BY <2>3 DEF e
    <3>3. QED BY <3>1, <3>2
  <2>5. g = [i \in 1 .. m |-> IF i = 1 THEN seqs[i] ELSE Concat(g[i - 1], seqs[i])]
    BY <2>2, <2>4
  <2>6. QED BY <2>5 DEF IsFlatten
<1>3. \A m \in 2 .. n : Has(m - 1) => Has(m)
  BY <1>2
<1> HIDE DEF Has
<1> DEFINE G == {m \in 1 .. n : Has(m)}
<1>4. 1 \in G /\ \A m \in 2 .. n : m - 1 \in G => m \in G
  BY <1>1, <1>3
<1> HIDE DEF G
<1>5. n \in G
  BY <1>4, UpwardsFromOne
<1>6. QED BY <1>5, Zenon DEF Has, G

LEMMA FlattenIs ==
  ASSUME NEW n \in Nat \ {0}, NEW seqs, Len(seqs) = n
  PROVE  \E f : IsFlatten(f, seqs, n) /\ FlattenSeq(seqs) = f[n]
<1> DEFINE f == CHOOSE g : IsFlatten(g, seqs, n)
<1>1. IsFlatten(f, seqs, n)
  BY FlattenExists, Zenon
<1>2. FlattenSeq(seqs) = (CHOOSE g : IsFlatten(g, seqs, Len(seqs)))[Len(seqs)]
  <2>1. Len(seqs) # 0
    OBVIOUS
  <2>2. QED BY <2>1, Zenon DEF FlattenSeq, IsFlatten, Concat
<1>3. FlattenSeq(seqs) = f[n]
  BY <1>2, Zenon
<1>4. QED BY <1>1, <1>3, Zenon

Ascending(s) == \A i, j \in DOMAIN s : i <= j => s[i] <= s[j]

(* The stages of a TU come one after the other, TU by TU. *)
LEMMA StagesAscend ==
  ASSUME NEW trial \in Trials
  PROVE  StagesOfTUs(trial) \in Seq(Nat) /\ Ascending(StagesOfTUs(trial))
<1> DEFINE n == Len(trial)
           number(t) == StagesPerComponent * trial[t]
           stages(t) == [s \in 1 .. number(t) |-> t]
           seqs == [t \in 1 .. n |-> stages(t)]
<1>1. n \in Nat /\ trial \in [1 .. n -> 0 .. 3]
  BY SchedulerAssumption
<1>2. StagesOfTUs(trial) = FlattenSeq(seqs)
  BY DEF StagesOfTUs
<1>3. Len(seqs) = n
  BY <1>1
<1>4. \A t \in 1 .. n : number(t) \in Nat
  BY <1>1 DEF StagesPerComponent
<1> HIDE DEF number
<1>5. \A t \in 1 .. n : stages(t) \in Seq({t})
  BY <1>4
<1> HIDE DEF stages
<1>6. CASE n = 0
  <2>1. FlattenSeq(seqs) = seqs
    BY <1>3, <1>6, Zenon DEF FlattenSeq
  <2>2. seqs \in [1 .. 0 -> Nat]
    BY <1>6
  <2>3. seqs \in Seq(Nat) /\ Ascending(seqs)
    BY <2>2 DEF Ascending
  <2>4. QED BY <1>2, <2>1, <2>3, Zenon
<1>7. CASE n # 0
  <2> HIDE DEF n, seqs
  <2>1. PICK f : IsFlatten(f, seqs, n) /\ FlattenSeq(seqs) = f[n]
    BY <1>1, <1>3, <1>7, FlattenIs
  <2> DEFINE G == {m \in 1 .. n : f[m] \in Seq(1 .. m) /\ Ascending(f[m])}
  <2>2. \A t \in 1 .. n : seqs[t] = stages(t)
    BY DEF seqs
  <2>3. 1 \in G
    <3>1. f[1] = stages(1)
      BY <1>1, <1>7, <2>1, <2>2 DEF IsFlatten
    <3>2. f[1] \in Seq({1})
      BY <1>1, <1>5, <1>7, <3>1
    <3>3. QED BY <1>1, <1>7, <3>2 DEF Ascending
  <2>4. ASSUME NEW m \in 2 .. n, m - 1 \in G
        PROVE  m \in G
    <3> DEFINE s == f[m - 1]
               t == stages(m)
    <3>1. f[m] = Concat(s, t)
      <4>1. m \in 1 .. n /\ m # 1
        OBVIOUS
      <4>2. QED BY <2>1, <2>2, <4>1 DEF IsFlatten
    <3>2. s \in Seq(1 .. m - 1) /\ Ascending(s)
      BY <2>4
    <3>3. t \in Seq({m})
      BY <1>5
    <3> HIDE DEF s, t
    <3>4. s \o t \in Seq(1 .. m)
      BY <3>2, <3>3
    <3>5. Ascending(s \o t)
      BY <3>2, <3>3 DEF Ascending
    <3>6. f[m] \in Seq(1 .. m) /\ Ascending(f[m])
      BY <3>1, <3>4, <3>5, Zenon DEF Concat
    <3>7. QED BY <3>6
  <2> HIDE DEF G
  <2>5. n \in G
    BY <1>1, <1>7, <2>3, <2>4, UpwardsFromOne, SMTT(30)
  <2>6. f[n] \in Seq(1 .. n) /\ Ascending(f[n])
    BY <2>5 DEF G
  <2>7. QED BY <1>1, <1>2, <2>1, <2>6
<1>8. QED BY <1>6, <1>7

-----------------------------------------------------------------------------
(* The state of a scheduler, and which pools hold what. *)
TypeInv ==
  /\ kind \in [Pools -> {"none", "stages", "ctus"}] /\ kind["caller"] # "ctus"
  /\ tuId \in [Pools -> Seq(Nat)]
  /\ depCount \in [Pools -> Seq(Int)]
  /\ dependents \in [Pools -> Seq(SUBSET Nat)]
  /\ \A p \in Pools : Len(depCount[p]) = Len(tuId[p]) /\ Len(dependents[p]) = Len(tuId[p])
  /\ ran \in [Pools -> Seq(Nat)]
  /\ \A p \in Pools : \A i \in DOMAIN ran[p] : ran[p][i] \in Units(p)
  /\ picture \in Pictures \union {NoPicture}
  /\ ctuStates \in SUBSET Nat
  /\ pc \in {"idle", "execute", "advance"} /\ pool \in Pools
  /\ unit \in Nat \ {0} /\ completed \in Nat /\ remaining \in Int
  /\ pc = "advance" => pool = "own"
  /\ pc = "execute" => kind[pool] = "stages"

(* LinkUnits, as a step of any of the calls that build. *)
LEMMA LinkUnitsType ==
  ASSUME TypeInv, NEW p \in Pools, NEW ids \in Seq(Nat), NEW counts \in Seq(Int),
         Len(counts) = Len(ids), LinkUnits(p, ids, counts)
  PROVE  /\ kind' = [kind EXCEPT ![p] = "stages"]
         /\ tuId' = [tuId EXCEPT ![p] = ids]
         /\ depCount' \in [Pools -> Seq(Int)] /\ dependents' \in [Pools -> Seq(SUBSET Nat)]
         /\ \A q \in Pools : Len(depCount'[q]) = Len(tuId'[q]) /\ Len(dependents'[q]) = Len(tuId'[q])
         /\ ran' = [ran EXCEPT ![p] = <<>>]
<1> DEFINE Linked(u) == u \in DOMAIN ids /\ WaitsForPrevious(ids, u)
           dc == [u \in DOMAIN ids |-> counts[u] + IF Linked(u) THEN 1 ELSE 0]
           dp == [u \in DOMAIN ids |-> {v \in {u + 1} : Linked(v)}]
<1>1. /\ depCount' = [depCount EXCEPT ![p] = dc]
      /\ dependents' = [dependents EXCEPT ![p] = dp]
      /\ kind' = [kind EXCEPT ![p] = "stages"]
      /\ tuId' = [tuId EXCEPT ![p] = ids]
      /\ ran' = [ran EXCEPT ![p] = <<>>]
  BY Zenon DEF LinkUnits
<1> HIDE DEF Linked
<1>2. dc \in Seq(Int) /\ Len(dc) = Len(ids)
  OBVIOUS
<1>3. dp \in Seq(SUBSET Nat) /\ Len(dp) = Len(ids)
  OBVIOUS
<1> HIDE DEF dc, dp
<1>4. QED BY <1>1, <1>2, <1>3 DEF TypeInv

(* The counts that the execution of the unit looked at leaves. *)
Counts ==
  [v \in Units(pool) |->
     IF v = unit THEN -1
     ELSE IF v \in dependents[pool][unit] THEN depCount[pool][v] - 1
     ELSE depCount[pool][v]]

LEMMA ExecuteStep ==
  ASSUME TypeInv, Execute
  PROVE  /\ depCount' = [depCount EXCEPT ![pool] = Counts]
         /\ dependents' = [dependents EXCEPT ![pool][unit] = {}]
         /\ ran' = [ran EXCEPT ![pool] = Append(@, unit)]
         /\ ctuStates' = IF MarksCtu THEN ctuStates \union {RsAddr(unit)} ELSE ctuStates
         /\ completed' = completed + 1 /\ unit' = unit + 1
         /\ unit \in Units(pool) /\ Ready(unit) /\ pc # "idle"
         /\ ctuStates' \in SUBSET Nat
         /\ Counts \in Seq(Int) /\ Len(Counts) = Len(tuId[pool])
         /\ UNCHANGED <<policy, kind, tuId, picture, pc, pool, activeTu, remaining, rebuilt>>
<1> USE DEF TypeInv
<1>1. /\ depCount' = [depCount EXCEPT ![pool] = Counts]
      /\ dependents' = [dependents EXCEPT ![pool][unit] = {}]
      /\ ran' = [ran EXCEPT ![pool] = Append(@, unit)]
      /\ ctuStates' = IF MarksCtu THEN ctuStates \union {RsAddr(unit)} ELSE ctuStates
      /\ completed' = completed + 1 /\ unit' = unit + 1
      /\ unit \in Units(pool) /\ Ready(unit) /\ pc # "idle"
      /\ UNCHANGED <<policy, kind, tuId, picture, pc, pool, activeTu, remaining, rebuilt>>
  BY Zenon DEF Execute, Look, OnComplete, Counts
<1>2. Counts \in Seq(Int) /\ Len(Counts) = Len(tuId[pool])
  <2> DEFINE n == Len(tuId[pool])
  <2>1. n \in Nat /\ Units(pool) = 1 .. n /\ depCount[pool] \in [1 .. n -> Int]
    BY DEF Units
  <2> HIDE DEF n
  <2>2. Counts \in [1 .. n -> Int]
    BY <2>1 DEF Counts
  <2>3. Counts \in Seq(Int) /\ Len(Counts) = n
    BY <2>1, <2>2
  <2>4. QED BY <2>3 DEF n
<1>3. ctuStates' \in SUBSET Nat
  <2>1. RsAddr(unit) \in Nat
    <3>1. tuId[pool] \in Seq(Nat) /\ unit \in DOMAIN tuId[pool]
      BY <1>1 DEF Units
    <3>2. QED BY <3>1 DEF RsAddr
  <2>2. QED BY <1>1, <2>1
<1>4. QED BY <1>1, <1>2, <1>3

LEMMA TypeInvariant == Spec => []TypeInv
<1>1. Init => TypeInv
  BY DEF Init, TypeInv, Pools, Units, NoPicture
<1>2. TypeInv /\ [Next]_vars => TypeInv'
  <2> SUFFICES ASSUME TypeInv, [Next]_vars PROVE TypeInv'
    OBVIOUS
  <2> USE DEF TypeInv
  <2>1. ASSUME NEW trial \in Trials, SubmitModeTrial(trial) PROVE TypeInv'
    <3>1. /\ StagesOfTUs(trial) \in Seq(Nat) /\ NewPool(StagesOfTUs(trial)) \in Seq(Int)
          /\ Len(NewPool(StagesOfTUs(trial))) = Len(StagesOfTUs(trial))
      BY StagesAscend DEF NewPool
    <3>2. "own" \in Pools
      BY DEF Pools
    <3>3. LinkUnits("own", StagesOfTUs(trial), NewPool(StagesOfTUs(trial)))
      BY <2>1 DEF SubmitModeTrial
    <3>4. /\ kind' = [kind EXCEPT !["own"] = "stages"]
          /\ tuId' = [tuId EXCEPT !["own"] = StagesOfTUs(trial)]
          /\ depCount' \in [Pools -> Seq(Int)] /\ dependents' \in [Pools -> Seq(SUBSET Nat)]
          /\ \A q \in Pools : Len(depCount'[q]) = Len(tuId'[q])
                               /\ Len(dependents'[q]) = Len(tuId'[q])
          /\ ran' = [ran EXCEPT !["own"] = <<>>]
      BY <3>1, <3>2, <3>3, LinkUnitsType
    <3>5. QED BY <2>1, <3>1, <3>4 DEF SubmitModeTrial, ExecuteAll, Scan, frameVars, Units, Pools
  <2>2. ASSUME NEW trial \in Trials, BuildPool(trial) PROVE TypeInv'
    <3>1. /\ StagesOfTUs(trial) \in Seq(Nat) /\ NewPool(StagesOfTUs(trial)) \in Seq(Int)
          /\ Len(NewPool(StagesOfTUs(trial))) = Len(StagesOfTUs(trial))
      BY StagesAscend DEF NewPool
    <3>2. "caller" \in Pools
      BY DEF Pools
    <3>3. LinkUnits("caller", StagesOfTUs(trial), NewPool(StagesOfTUs(trial)))
      BY <2>2 DEF BuildPool
    <3>4. /\ kind' = [kind EXCEPT !["caller"] = "stages"]
          /\ tuId' = [tuId EXCEPT !["caller"] = StagesOfTUs(trial)]
          /\ depCount' \in [Pools -> Seq(Int)] /\ dependents' \in [Pools -> Seq(SUBSET Nat)]
          /\ \A q \in Pools : Len(depCount'[q]) = Len(tuId'[q])
                               /\ Len(dependents'[q]) = Len(tuId'[q])
          /\ ran' = [ran EXCEPT !["caller"] = <<>>]
      BY <3>1, <3>2, <3>3, LinkUnitsType
    <3>5. QED BY <2>2, <3>1, <3>4 DEF BuildPool, Called, callVars, frameVars, Units, Pools
  <2>3. CASE RebuildPool
    <3>1. "caller" \in Pools
      BY DEF Pools
    <3>2. LinkUnits("caller", tuId["caller"], depCount["caller"])
      BY <2>3 DEF RebuildPool
    <3>3. tuId["caller"] \in Seq(Nat) /\ depCount["caller"] \in Seq(Int)
          /\ Len(depCount["caller"]) = Len(tuId["caller"])
      BY <3>1
    <3>4. /\ kind' = [kind EXCEPT !["caller"] = "stages"]
          /\ tuId' = [tuId EXCEPT !["caller"] = tuId["caller"]]
          /\ depCount' \in [Pools -> Seq(Int)] /\ dependents' \in [Pools -> Seq(SUBSET Nat)]
          /\ \A q \in Pools : Len(depCount'[q]) = Len(tuId'[q])
                               /\ Len(dependents'[q]) = Len(tuId'[q])
          /\ ran' = [ran EXCEPT !["caller"] = <<>>]
      BY <3>1, <3>2, <3>3, LinkUnitsType
    <3>5. QED BY <2>3, <3>3, <3>4 DEF RebuildPool, Called, callVars, frameVars, Units, Pools
  <2>4. CASE ExecuteWorkUnits
    BY <2>4 DEF ExecuteWorkUnits, ExecuteAll, Scan, frameVars, unitVars, Units, Pools
  <2>5. ASSUME NEW pic \in Pictures, SubmitFrame(pic) PROVE TypeInv'
    <3>1. pic.cols \in Nat \ {0} /\ pic.rows \in Nat \ {0}
      BY SchedulerAssumption
    <3>2. pic.cols * pic.rows \in Nat
      BY <3>1
    <3> DEFINE n == pic.cols * pic.rows
    <3>3. CtuUnits(pic) = [u \in 1 .. n |-> u - 1]
      BY DEF CtuUnits
    <3> HIDE DEF n
    <3>4. CtuUnits(pic) \in Seq(Nat) /\ DOMAIN CtuUnits(pic) = 1 .. n /\ n \in Nat
      <4>1. n \in Nat
        BY <3>2 DEF n
      <4>2. QED BY <3>3, <4>1
    <3>5. [u \in DOMAIN CtuUnits(pic) |-> 0] \in Seq(Int)
      BY <3>4
    <3>6. [u \in DOMAIN CtuUnits(pic) |-> {}] \in Seq(SUBSET Nat)
      BY <3>4
    <3>7. QED BY <2>5, <3>4, <3>5, <3>6 DEF SubmitFrame, Called, callVars, Units, Pools
  <2>6. CASE AdvanceFrame
    BY <2>6 DEF AdvanceFrame, unitVars, frameVars, Units, Pools
  <2>7. ASSUME NEW p \in Policies, SetPolicy(p) PROVE TypeInv'
    BY <2>7 DEF SetPolicy, Called, unitVars, frameVars, callVars, Units
  <2>8. CASE Destroy
    BY <2>8 DEF Destroy, Called, callVars, Units, Pools, NoPicture
  <2>9. CASE LoseTarget
    BY <2>9 DEF LoseTarget, Called, unitVars, callVars, Units
  <2>10. CASE Execute
    <3>1. /\ depCount' = [depCount EXCEPT ![pool] = Counts]
          /\ dependents' = [dependents EXCEPT ![pool][unit] = {}]
          /\ ran' = [ran EXCEPT ![pool] = Append(@, unit)]
          /\ completed' = completed + 1 /\ unit' = unit + 1
          /\ unit \in Units(pool)
          /\ ctuStates' \in SUBSET Nat
          /\ Counts \in Seq(Int) /\ Len(Counts) = Len(tuId[pool])
          /\ UNCHANGED <<kind, tuId, picture, pc, pool, remaining>>
      BY <2>10, ExecuteStep
    <3>2. depCount' \in [Pools -> Seq(Int)] /\ \A p \in Pools : Len(depCount'[p]) = Len(tuId'[p])
      BY <3>1
    <3>3. /\ dependents' \in [Pools -> Seq(SUBSET Nat)]
          /\ \A p \in Pools : Len(dependents'[p]) = Len(tuId'[p])
      BY <3>1 DEF Units
    <3>4. ran' \in [Pools -> Seq(Nat)] /\ \A p \in Pools : \A i \in DOMAIN ran'[p] : ran'[p][i] \in Units(p)'
      BY <3>1, SMTT(30) DEF Units
    <3>5. /\ kind' = kind /\ tuId' = tuId /\ picture' = picture /\ pc' = pc /\ pool' = pool
          /\ remaining' = remaining
          /\ unit' \in Nat \ {0} /\ completed' \in Nat /\ ctuStates' \in SUBSET Nat
      BY <3>1
    <3>6. QED BY <3>2, <3>3, <3>4, <3>5
  <2>11. CASE Skip
    BY <2>11 DEF Skip, Look, Units
  <2>12. CASE EndOfScan
    BY <2>12 DEF EndOfScan, Scan, unitVars, frameVars, Units
  <2>13. CASE EndOfAdvance
    BY <2>13 DEF EndOfAdvance, unitVars, Units
  <2>14. CASE UNCHANGED vars
    BY <2>14 DEF vars, unitVars, frameVars, callVars, Units
  <2>15. QED BY <2>1, <2>2, <2>3, <2>4, <2>5, <2>6, <2>7, <2>8, <2>9, <2>10, <2>11, <2>12,
                <2>13, <2>14 DEF Next
<1>3. QED BY <1>1, <1>2, PTL DEF Spec

-----------------------------------------------------------------------------
(* The CTUs of a picture. *)
Encoded == {tuId["own"][u] : u \in Range(ran["own"])}

(* A unit that has run is marked with -1, so that it does not run again;   *)
(* no CTU waits for a unit; what is marked as done has been encoded, and   *)
(* of what has been encoded, so have the neighbours that are checked.      *)
FrameInv ==
  kind["own"] = "ctus" =>
    /\ picture \in Pictures /\ tuId["own"] = CtuUnits(picture)
    /\ \A u \in Units("own") : dependents["own"][u] = {}
    /\ \A i \in DOMAIN ran["own"] : depCount["own"][ran["own"][i]] = -1
    /\ IsInjective(ran["own"])
    /\ ctuStates \subseteq Encoded
    /\ \A ctu \in Encoded : Neighbours(ctu) \subseteq Encoded

(* Nothing that the picture's invariant is about changes. *)
LEMMA FrameKept ==
  ASSUME FrameInv, kind'["own"] = kind["own"] \/ kind'["own"] # "ctus",
         kind'["own"] = "ctus" =>
           /\ picture' = picture /\ ctuStates' = ctuStates
           /\ tuId'["own"] = tuId["own"] /\ depCount'["own"] = depCount["own"]
           /\ dependents'["own"] = dependents["own"] /\ ran'["own"] = ran["own"]
  PROVE  FrameInv'
<1> SUFFICES ASSUME kind'["own"] = "ctus" PROVE FrameInv'
  BY DEF FrameInv
<1>1. Encoded' = Encoded /\ \A ctu : Neighbours(ctu)' = Neighbours(ctu)
  BY DEF Encoded, Neighbours
<1>2. QED BY <1>1 DEF FrameInv, Units, CtuUnits

(* A CTU is executed. *)
LEMMA FrameExecute ==
  ASSUME TypeInv, FrameInv, Execute, pool = "own", kind["own"] = "ctus"
  PROVE  FrameInv'
<1>1. /\ depCount' = [depCount EXCEPT !["own"] = Counts]
      /\ dependents' = [dependents EXCEPT !["own"][unit] = {}]
      /\ ran' = [ran EXCEPT !["own"] = Append(@, unit)]
      /\ ctuStates' = IF MarksCtu THEN ctuStates \union {RsAddr(unit)} ELSE ctuStates
      /\ unit \in Units("own") /\ Ready(unit) /\ pc = "advance"
      /\ UNCHANGED <<kind, tuId, picture>>
  BY ExecuteStep DEF TypeInv
<1>2. "own" \in Pools /\ RsAddr(unit) = tuId["own"][unit]
  BY DEF Pools, RsAddr
<1> DEFINE old == ran["own"]
           new == ran'["own"]
           ctu == tuId["own"][unit]
<1>3. old \in Seq(Nat) /\ new = Append(old, unit) /\ \A i \in DOMAIN old : old[i] \in Units("own")
  BY <1>1, <1>2 DEF TypeInv
<1>4. depCount["own"][unit] = 0 /\ Neighbours(ctu) \subseteq ctuStates
  BY <1>1 DEF Ready, CheckSpatialDeps
<1>5. depCount'["own"] = Counts /\ \A u \in Units("own") : dependents'["own"][u] = {}
  BY <1>1, <1>2 DEF TypeInv, FrameInv, Units
<1>6. \A u \in Units("own") : Counts[u] = IF u = unit THEN -1 ELSE depCount["own"][u]
  <2>1. \A u \in Units("own") : u \notin dependents["own"][unit]
    BY <1>1 DEF FrameInv
  <2>2. QED BY <2>1 DEF Counts
<1> HIDE DEF old, new
<1>7. /\ Len(old) \in Nat /\ DOMAIN old = 1 .. Len(old) /\ DOMAIN new = 1 .. Len(old) + 1
      /\ \A i \in DOMAIN old : new[i] = old[i]
      /\ new[Len(old) + 1] = unit
  BY <1>3
<1>8. \A i \in DOMAIN old : old[i] # unit
  BY <1>4 DEF FrameInv, old
<1>9. IsInjective(new)
  BY <1>7, <1>8 DEF FrameInv, IsInjective, old
<1>10. \A i \in DOMAIN new : depCount'["own"][new[i]] = -1
  BY <1>1, <1>3, <1>5, <1>6, <1>7 DEF FrameInv, old
<1>11. Range(new) = Range(old) \union {unit}
  BY <1>7 DEF Range
<1>12. Encoded' = Encoded \union {ctu}
  BY <1>1, <1>11 DEF Encoded, old, new
<1>13. \A d : Neighbours(d)' = Neighbours(d)
  BY <1>1 DEF Neighbours
<1>14. ctuStates' \subseteq Encoded'
  BY <1>1, <1>2, <1>12 DEF FrameInv
<1>15. \A d \in Encoded' : Neighbours(d)' \subseteq Encoded'
  BY <1>4, <1>12, <1>13 DEF FrameInv
<1>16. QED BY <1>1, <1>5, <1>9, <1>10, <1>14, <1>15 DEF FrameInv, Units, CtuUnits, new

LEMMA FrameInvariant == Spec => []FrameInv
<1>1. Init => FrameInv
  BY DEF Init, FrameInv, Pools
<1>2. TypeInv /\ FrameInv /\ [Next]_vars => FrameInv'
  <2> SUFFICES ASSUME TypeInv, FrameInv, [Next]_vars PROVE FrameInv'
    OBVIOUS
  <2>0. "own" \in Pools /\ "caller" \in Pools /\ "own" # "caller"
    BY DEF Pools
  <2>1. ASSUME NEW trial \in Trials, SubmitModeTrial(trial) PROVE FrameInv'
    <3>1. kind' = [kind EXCEPT !["own"] = "stages"]
      BY <2>1 DEF SubmitModeTrial, LinkUnits
    <3>2. QED BY <2>0, <3>1, FrameKept DEF TypeInv
  <2>2. ASSUME NEW trial \in Trials, BuildPool(trial) PROVE FrameInv'
    BY <2>0, <2>2, FrameKept DEF BuildPool, LinkUnits, frameVars, TypeInv
  <2>3. CASE RebuildPool
    BY <2>0, <2>3, FrameKept DEF RebuildPool, LinkUnits, frameVars, TypeInv
  <2>4. CASE ExecuteWorkUnits
    BY <2>4, FrameKept DEF ExecuteWorkUnits, frameVars, unitVars
  <2>5. ASSUME NEW pic \in Pictures, SubmitFrame(pic) PROVE FrameInv'
    <3>1. /\ picture' = pic /\ ctuStates' = {} /\ ran'["own"] = <<>>
          /\ tuId'["own"] = CtuUnits(pic)
          /\ dependents'["own"] = [u \in DOMAIN CtuUnits(pic) |-> {}]
      BY <2>0, <2>5 DEF SubmitFrame, TypeInv
    <3>2. Encoded' = {}
      BY <3>1 DEF Encoded, Range
    <3>3. QED BY <3>1, <3>2 DEF FrameInv, Units, IsInjective, CtuUnits
  <2>6. CASE AdvanceFrame
    BY <2>6, FrameKept DEF AdvanceFrame, unitVars, frameVars
  <2>7. ASSUME NEW p \in Policies, SetPolicy(p) PROVE FrameInv'
    BY <2>7, FrameKept DEF SetPolicy, unitVars, frameVars
  <2>8. CASE Destroy
    <3>1. kind' = [kind EXCEPT !["own"] = "none"]
      BY <2>8 DEF Destroy
    <3>2. QED BY <2>0, <3>1, FrameKept DEF TypeInv
  <2>9. CASE LoseTarget
    BY <2>9, FrameKept DEF LoseTarget, unitVars
  <2>10. CASE Execute
    <3>1. CASE pool = "own" /\ kind["own"] = "ctus"
      BY <2>10, <3>1, FrameExecute
    <3>2. CASE pool = "own" /\ kind["own"] # "ctus"
      BY <2>10, <3>2, ExecuteStep, FrameKept
    <3>3. CASE pool = "caller"
      <4>1. ctuStates' = ctuStates
        BY <2>10, <3>3, ExecuteStep DEF MarksCtu, TypeInv
      <4>2. QED BY <2>0, <2>10, <3>3, <4>1, ExecuteStep, FrameKept DEF TypeInv
    <3>4. QED BY <3>1, <3>2, <3>3 DEF TypeInv, Pools
  <2>11. CASE Skip
    BY <2>11, FrameKept DEF Skip, Look
  <2>12. CASE EndOfScan
    BY <2>12, FrameKept DEF EndOfScan, unitVars, frameVars
  <2>13. CASE EndOfAdvance
    BY <2>13, FrameKept DEF EndOfAdvance, unitVars
  <2>14. CASE UNCHANGED vars
    BY <2>14, FrameKept DEF vars, unitVars, frameVars
  <2>15. QED BY <2>1, <2>2, <2>3, <2>4, <2>5, <2>6, <2>7, <2>8, <2>9, <2>10, <2>11, <2>12,
                <2>13, <2>14 DEF Next
<1>3. QED BY <1>1, <1>2, TypeInvariant, PTL DEF Spec

(* The neighbours that the code looks at are those of the picture. *)
LEMMA NeighbourAddresses ==
  ASSUME picture \in Pictures, NEW ctu \in Nat
  PROVE  /\ ctu % picture.cols > 0 => ctu - 1 \in Neighbours(ctu)
         /\ ctu >= picture.cols =>
              ctu - picture.cols \in Neighbours(ctu) /\ ctu - picture.cols + 1 \in Neighbours(ctu)
<1> DEFINE n == picture.cols
<1>1. n \in Nat \ {0}
  BY SchedulerAssumption
<1> HIDE DEF n
<1>2. ctu >= n => ctu \div n > 0
  BY <1>1
<1>3. QED BY <1>1, <1>2 DEF Neighbours, n

(* In the picture that is encoded, a CTU comes after its left, upper and   *)
(* upper right neighbour, whatever else the scheduler does between two     *)
(* calls of advanceFrame.                                                  *)
THEOREM CtusAfterNeighbours == Spec => []NeighboursFirst
<1>1. TypeInv /\ FrameInv => NeighboursFirst
  <2> SUFFICES ASSUME TypeInv, FrameInv, kind["own"] = "ctus"
               PROVE  /\ ctuStates \subseteq Encoded
                      /\ IsInjective(ran["own"])
                      /\ \A ctu \in Encoded :
                           /\ ctu % picture.cols > 0 => ctu - 1 \in Encoded
                           /\ ctu >= picture.cols => ctu - picture.cols \in Encoded
                           /\ (ctu >= picture.cols /\ (ctu % picture.cols) + 1 < picture.cols)
                                => ctu - picture.cols + 1 \in Encoded
    BY DEF NeighboursFirst, Encoded
  <2>1. Encoded \subseteq Nat
    BY DEF TypeInv, Encoded, Range, Units, Pools
  <2>2. QED BY <2>1, NeighbourAddresses DEF FrameInv
<1>2. QED BY <1>1, TypeInvariant, FrameInvariant, PTL

-----------------------------------------------------------------------------
(* Pools of stages in new memory. *)

(* How many of its units have run. *)
Done(p) == Len(ran[p])

(* They are the first ones; the next one waits for nothing, and those      *)
(* after it still have all the links they were built with.                 *)
RunsInOrder(p) ==
  /\ Done(p) <= Len(tuId[p])
  /\ ran[p] = [i \in 1 .. Done(p) |-> i]
  /\ \A u \in 1 .. Len(tuId[p]) :
       /\ depCount[p][u] = IF u <= Done(p) THEN -1
                           ELSE IF u > Done(p) + 1 /\ WaitsForPrevious(tuId[p], u) THEN 1 ELSE 0
       /\ u > Done(p) => dependents[p][u] =
                           {v \in {u + 1} : v <= Len(tuId[p]) /\ WaitsForPrevious(tuId[p], v)}
  /\ Ascending(tuId[p])

(* The next unit is one of a TU that has to wait for the next scan. *)
HeldBack(p) ==
  /\ policy = "TU_SEQUENTIAL"
  /\ Done(p) < Len(tuId[p])
  /\ tuId[p][Done(p) + 1] > activeTu

(* A scan does not pass the next unit unless that is held back, and then   *)
(* it has executed something; between the calls nothing is left.           *)
ScanInv(p) ==
  IF pc = "execute" /\ pool = p
  THEN /\ unit <= Done(p) + 1 \/ HeldBack(p)
       /\ HeldBack(p) => completed > 0
       /\ Done(p) < Len(tuId[p]) =>
            activeTu \in Int /\ remaining - completed = Len(tuId[p]) - Done(p)
  ELSE Done(p) = Len(tuId[p]) \/ (p = "caller" /\ Done(p) = 0)

StagesInv == \A p \in Pools : NewlyBuilt(p) => RunsInOrder(p) /\ ScanInv(p)

(* The state of a pool and of the call. *)
LEMMA PoolKept ==
  ASSUME NEW p \in Pools, StagesInv, NewlyBuilt(p)' => NewlyBuilt(p),
         UNCHANGED <<tuId[p], depCount[p], dependents[p], ran[p]>>,
         ScanInv(p) => ScanInv(p)'
  PROVE  NewlyBuilt(p)' => RunsInOrder(p)' /\ ScanInv(p)'
BY DEF StagesInv, RunsInOrder, Done

(* A pool just built. *)
LEMMA BuiltInOrder ==
  ASSUME TypeInv, NEW p \in Pools, NEW ids \in Seq(Nat), Ascending(ids),
         LinkUnits(p, ids, NewPool(ids))
  PROVE  RunsInOrder(p)' /\ Done(p)' = 0 /\ tuId'[p] = ids
<1> DEFINE Linked(u) == u \in DOMAIN ids /\ WaitsForPrevious(ids, u)
           dc == [u \in DOMAIN ids |-> NewPool(ids)[u] + IF Linked(u) THEN 1 ELSE 0]
           dp == [u \in DOMAIN ids |-> {v \in {u + 1} : Linked(v)}]
<1>1. /\ depCount' = [depCount EXCEPT ![p] = dc]
      /\ dependents' = [dependents EXCEPT ![p] = dp]
      /\ tuId' = [tuId EXCEPT ![p] = ids]
      /\ ran' = [ran EXCEPT ![p] = <<>>]
  BY Zenon DEF LinkUnits
<1> HIDE DEF dc, dp
<1>2. depCount'[p] = dc /\ dependents'[p] = dp /\ tuId'[p] = ids /\ ran'[p] = <<>>
  BY <1>1 DEF TypeInv
<1>3. DOMAIN ids = 1 .. Len(ids)
  OBVIOUS
<1>4. \A u \in 1 .. Len(ids) :
        dc[u] = IF u > 1 /\ WaitsForPrevious(ids, u) THEN 1 ELSE 0
  BY <1>3 DEF dc, NewPool, WaitsForPrevious
<1>5. \A u \in 1 .. Len(ids) :
        dp[u] = {v \in {u + 1} : v <= Len(ids) /\ WaitsForPrevious(ids, v)}
  BY <1>3 DEF dp
<1>6. ran'[p] = [i \in 1 .. 0 |-> i] /\ Len(ran'[p]) = 0
  BY <1>2
<1>7. QED BY <1>2, <1>4, <1>5, <1>6 DEF RunsInOrder, Done

(* The TU that a scan begins with is the one of the next unit. *)
LEMMA ScanActive ==
  ASSUME NEW ids \in Seq(Nat), Ascending(ids), NEW k \in 0 .. Len(ids) - 1, NEW counts,
         \A u \in 1 .. Len(ids) : counts[u] >= 0 <=> u > k
  PROVE  /\ ActiveTu(counts, ids) \in Int
         /\ policy = "TU_SEQUENTIAL" => ActiveTu(counts, ids) = ids[k + 1]
<1> DEFINE left == NotDone(counts, ids)
           first == ids[k + 1]
<1>1. first \in left /\ first \in Nat /\ \A x \in left : x \in Nat /\ first <= x
  BY DEF NotDone, Ascending
<1> HIDE DEF left, first
<1>2. Min(left) = first
  <2>1. Min(left) \in left /\ \A y \in left : Min(left) <= y
    BY <1>1, Zenon DEF Min
  <2> DEFINE m == Min(left)
  <2> HIDE DEF m
  <2>2. m \in left /\ m <= first
    BY <1>1, <2>1, Zenon DEF m
  <2>3. m = first
    BY <1>1, <2>2
  <2>4. QED BY <2>3, Zenon DEF m
<1>3. CASE policy = "TU_SEQUENTIAL"
  <2>1. left # {}
    BY <1>1
  <2>2. ActiveTu(counts, ids) = Min(left)
    BY <1>3, <2>1, Zenon DEF ActiveTu, left
  <2>3. QED BY <1>1, <1>2, <2>2 DEF first
<1>4. CASE policy # "TU_SEQUENTIAL"
  <2>1. ActiveTu(counts, ids) = 0
    BY <1>4, Zenon DEF ActiveTu
  <2>2. QED BY <1>4, <2>1
<1>5. QED BY <1>3, <1>4

(* A unit is executed: it is the next one of its pool. *)
LEMMA NextExecuted ==
  ASSUME TypeInv, StagesInv, Execute, NewlyBuilt(pool)
  PROVE  /\ RunsInOrder(pool) /\ ScanInv(pool) /\ pool \in Pools
         /\ unit = Done(pool) + 1 /\ Done(pool) \in Nat /\ unit \in 1 .. Len(tuId[pool])
         /\ pc = "execute" /\ activeTu \in Int
         /\ remaining - completed = Len(tuId[pool]) - Done(pool)
<1> DEFINE k == Done(pool)
           n == Len(tuId[pool])
<1>1. /\ depCount' = [depCount EXCEPT ![pool] = Counts]
      /\ dependents' = [dependents EXCEPT ![pool][unit] = {}]
      /\ ran' = [ran EXCEPT ![pool] = Append(@, unit)]
      /\ completed' = completed + 1 /\ unit' = unit + 1
      /\ unit \in Units(pool) /\ Ready(unit) /\ pc # "idle"
      /\ UNCHANGED <<policy, kind, tuId, pc, pool, activeTu, remaining, rebuilt>>
  BY ExecuteStep
<1>2. RunsInOrder(pool) /\ ScanInv(pool) /\ pool \in Pools
  BY DEF StagesInv, TypeInv
<1>3. unit \in 1 .. n /\ n \in Nat /\ k \in Nat /\ k <= n
  BY <1>1, <1>2 DEF Units, TypeInv, RunsInOrder, Done
<1>4. depCount[pool][unit] = 0
  BY <1>1 DEF Ready
<1>5. unit >= k + 1
  BY <1>2, <1>3, <1>4 DEF RunsInOrder
<1>6. pc = "execute"
  BY <1>1, <1>2, <1>3, <1>5 DEF TypeInv, ScanInv
<1>7. k < n /\ activeTu \in Int /\ remaining - completed = n - k
  BY <1>2, <1>3, <1>5, <1>6 DEF ScanInv
<1>8. ~HeldBack(pool)
  <2>1. SUFFICES ASSUME HeldBack(pool) PROVE FALSE
    OBVIOUS
  <2>2. tuId[pool][k + 1] > activeTu /\ tuId[pool][unit] <= activeTu
    BY <1>1, <1>6, <2>1 DEF HeldBack, Ready
  <2>3. tuId[pool] \in Seq(Nat) /\ Ascending(tuId[pool])
    BY <1>2 DEF TypeInv, RunsInOrder
  <2>4. tuId[pool][k + 1] <= tuId[pool][unit]
    BY <1>3, <1>5, <2>3 DEF Ascending
  <2>5. QED BY <1>3, <1>7, <2>2, <2>3, <2>4, SMTT(30)
<1>9. unit = k + 1
  BY <1>2, <1>3, <1>5, <1>6, <1>8 DEF ScanInv
<1>10. QED BY <1>2, <1>3, <1>6, <1>7, <1>9

(* What was true of the pool is true of it with one more. *)
LEMMA StagesExecute ==
  ASSUME TypeInv, StagesInv, Execute, NewlyBuilt(pool)
  PROVE  RunsInOrder(pool)' /\ ScanInv(pool)'
<1> DEFINE k == Done(pool)
           n == Len(tuId[pool])
<1>1. /\ depCount' = [depCount EXCEPT ![pool] = Counts]
      /\ dependents' = [dependents EXCEPT ![pool][unit] = {}]
      /\ ran' = [ran EXCEPT ![pool] = Append(@, unit)]
      /\ completed' = completed + 1 /\ unit' = unit + 1
      /\ unit \in Units(pool) /\ Ready(unit) /\ pc # "idle"
      /\ UNCHANGED <<policy, kind, tuId, pc, pool, activeTu, remaining, rebuilt>>
  BY ExecuteStep
<1>2. RunsInOrder(pool) /\ ScanInv(pool) /\ pool \in Pools
  BY NextExecuted
<1>3. unit \in 1 .. n /\ n \in Nat /\ k \in Nat /\ k <= n
  BY NextExecuted DEF TypeInv, RunsInOrder, Done
<1>6. pc = "execute"
  BY NextExecuted
<1>7. k < n /\ activeTu \in Int /\ remaining - completed = n - k
  BY <1>3, NextExecuted
<1>9. unit = k + 1
  BY NextExecuted
<1>10. /\ depCount'[pool] = Counts
       /\ dependents'[pool] = [dependents[pool] EXCEPT ![unit] = {}]
       /\ ran'[pool] = Append(ran[pool], unit)
  BY <1>1, <1>2 DEF TypeInv
<1>11. ran'[pool] = [i \in 1 .. k + 1 |-> i] /\ Done(pool)' = k + 1
  <2> DEFINE old == ran[pool]
  <2>1. old \in Seq(Nat) /\ k = Len(old) /\ old = [i \in 1 .. k |-> i]
    BY <1>2 DEF TypeInv, RunsInOrder, Done
  <2>2. ran'[pool] = Append(old, k + 1)
    BY <1>9, <1>10
  <2> HIDE DEF old, k
  <2>3. Append(old, k + 1) = [i \in 1 .. k + 1 |-> i]
    BY <1>3, <2>1
  <2>4. Len(Append(old, k + 1)) = k + 1
    BY <2>1
  <2>5. QED BY <1>1, <2>2, <2>3, <2>4 DEF Done
<1> HIDE DEF k, n
<1>12. \A u \in 1 .. n :
         Counts[u] = IF u <= k + 1 THEN -1
                     ELSE IF u > k + 2 /\ WaitsForPrevious(tuId[pool], u) THEN 1 ELSE 0
  <2> SUFFICES ASSUME NEW u \in 1 .. n
               PROVE  Counts[u] = IF u <= k + 1 THEN -1
                                  ELSE IF u > k + 2 /\ WaitsForPrevious(tuId[pool], u) THEN 1
                                  ELSE 0
    OBVIOUS
  <2>1. Counts[u] = IF u = unit THEN -1
                    ELSE IF u \in dependents[pool][unit] THEN depCount[pool][u] - 1
                    ELSE depCount[pool][u]
    BY DEF Counts, n, Units, TypeInv
  <2>2. u \in dependents[pool][unit] <=> u = k + 2 /\ WaitsForPrevious(tuId[pool], u)
    BY <1>2, <1>3, <1>9 DEF RunsInOrder, k, n
  <2>3. depCount[pool][u] = IF u <= k THEN -1
                            ELSE IF u > k + 1 /\ WaitsForPrevious(tuId[pool], u) THEN 1 ELSE 0
    BY <1>2 DEF RunsInOrder, k, n
  <2>4. QED BY <1>3, <1>9, <2>1, <2>2, <2>3
<1>13. \A u \in 1 .. n : u > k + 1 => dependents'[pool][u] = dependents[pool][u]
  BY <1>3, <1>9, <1>10 DEF TypeInv
<1>14. RunsInOrder(pool)'
  <2>1. tuId'[pool'] = tuId[pool] /\ pool' = pool
    BY <1>1
  <2>2. \A u \in 1 .. n : u > k + 1 =>
          dependents'[pool][u] = {v \in {u + 1} : v <= n /\ WaitsForPrevious(tuId[pool], v)}
    BY <1>2, <1>3, <1>13 DEF RunsInOrder, k, n
  <2>3. Ascending(tuId[pool])
    BY <1>2 DEF RunsInOrder
  <2>4. Len(tuId'[pool']) = n /\ depCount'[pool'] = Counts /\ ran'[pool'] = ran'[pool]
        /\ dependents'[pool'] = dependents'[pool]
    BY <1>10, <2>1 DEF n
  <2>5. k + 1 <= n /\ k + 1 + 1 = k + 2
    BY <1>3, <1>7
  <2>6. QED BY <1>11, <1>12, <2>1, <2>2, <2>3, <2>4, <2>5 DEF RunsInOrder
<1>15. ScanInv(pool)'
  BY <1>1, <1>3, <1>6, <1>7, <1>9, <1>11 DEF ScanInv, n, TypeInv
<1>16. QED BY <1>14, <1>15

(* A scan begins with the first unit of a pool. *)
LEMMA ScanStarts ==
  ASSUME NEW p \in Pools, TypeInv', RunsInOrder(p)', policy' = policy,
         Scan(p, depCount'[p], tuId'[p]), pc' = "execute",
         Done(p)' < Len(tuId'[p]) => remaining' = Len(tuId'[p]) - Done(p)'
  PROVE  ScanInv(p)'
<1> DEFINE ids == tuId'[p]
           counts == depCount'[p]
           k == Done(p)'
<1>1. ids \in Seq(Nat) /\ k \in Nat /\ k <= Len(ids)
  BY DEF TypeInv, RunsInOrder, Done
<1>2. pool' = p /\ unit' = 1 /\ completed' = 0 /\ activeTu' = ActiveTu(counts, ids)
  BY DEF Scan
<1>3. CASE k = Len(ids)
  BY <1>1, <1>2, <1>3 DEF ScanInv, HeldBack, Done
<1>4. CASE k < Len(ids)
  <2>1. Ascending(ids) /\ \A u \in 1 .. Len(ids) : counts[u] >= 0 <=> u > k
    BY <1>1 DEF RunsInOrder
  <2>2. activeTu' \in Int /\ (policy = "TU_SEQUENTIAL" => activeTu' = ids[k + 1])
    <3>1. k \in 0 .. Len(ids) - 1
      BY <1>1, <1>4
    <3> HIDE DEF ids, counts, k
    <3>2. QED BY <1>1, <1>2, <2>1, <3>1, ScanActive
  <2>3. ids[k + 1] \in Nat
    BY <1>1, <1>4
  <2>4. ~HeldBack(p)'
    BY <2>2, <2>3 DEF HeldBack, Done
  <2>5. QED BY <1>1, <1>2, <1>4, <2>2, <2>4 DEF ScanInv, Done
<1>5. QED BY <1>1, <1>3, <1>4

LEMMA StagesInvariant == Spec => []StagesInv
<1>1. Init => StagesInv
  BY DEF Init, StagesInv, NewlyBuilt, Pools
<1>2. TypeInv /\ TypeInv' /\ StagesInv /\ [Next]_vars => StagesInv'
  <2> SUFFICES ASSUME TypeInv, TypeInv', StagesInv, [Next]_vars, NEW p \in Pools
               PROVE  NewlyBuilt(p)' => RunsInOrder(p)' /\ ScanInv(p)'
    BY DEF StagesInv, Pools
  <2>0. p \in {"own", "caller"} /\ kind \in [Pools -> {"none", "stages", "ctus"}]
    BY DEF Pools, TypeInv
  <2>1. ASSUME NEW trial \in Trials, SubmitModeTrial(trial)
        PROVE  NewlyBuilt(p)' => RunsInOrder(p)' /\ ScanInv(p)'
    <3>1. /\ LinkUnits("own", StagesOfTUs(trial), NewPool(StagesOfTUs(trial)))
          /\ ExecuteAll("own") /\ UNCHANGED <<policy, rebuilt>> /\ pc = "idle"
      BY <2>1 DEF SubmitModeTrial, Called
    <3>2. CASE p = "own"
      <4>1. RunsInOrder(p)' /\ Done(p)' = 0
        BY <3>1, <3>2, StagesAscend, BuiltInOrder
      <4>2. /\ Scan(p, depCount'[p], tuId'[p]) /\ pc' = "execute"
            /\ remaining' = Len(tuId'[p])
        BY <3>1, <3>2 DEF ExecuteAll
      <4>3. Len(tuId'[p]) \in Nat
        BY DEF TypeInv
      <4>4. QED BY <3>1, <4>1, <4>2, <4>3, ScanStarts
    <3>3. CASE p = "caller"
      <4>1. pc' = "execute" /\ pool' = "own"
        BY <3>1 DEF ExecuteAll, Scan
      <4>2. UNCHANGED <<kind[p], tuId[p], depCount[p], dependents[p], ran[p]>>
        BY <3>1, <3>3 DEF LinkUnits, TypeInv, Pools
      <4>3. NewlyBuilt(p)' => NewlyBuilt(p)
        BY <3>1, <4>2 DEF NewlyBuilt
      <4>4. ScanInv(p) => ScanInv(p)'
        BY <3>1, <3>3, <4>1, <4>2 DEF ScanInv, Done
      <4>5. QED BY <4>2, <4>3, <4>4, PoolKept
    <3>4. QED BY <2>0, <3>2, <3>3
  <2>2. ASSUME NEW trial \in Trials, BuildPool(trial)
        PROVE  NewlyBuilt(p)' => RunsInOrder(p)' /\ ScanInv(p)'
    <3>1. /\ LinkUnits("caller", StagesOfTUs(trial), NewPool(StagesOfTUs(trial)))
          /\ rebuilt' = FALSE /\ UNCHANGED <<policy, callVars>> /\ pc = "idle"
      BY <2>2 DEF BuildPool, Called
    <3>2. CASE p = "caller"
      <4>1. RunsInOrder(p)' /\ Done(p)' = 0
        BY <3>1, <3>2, StagesAscend, BuiltInOrder
      <4>2. QED BY <3>1, <3>2, <4>1 DEF ScanInv, callVars
    <3>3. CASE p = "own"
      <4>1. UNCHANGED <<kind[p], tuId[p], depCount[p], dependents[p], ran[p]>>
        BY <3>1, <3>3 DEF LinkUnits, TypeInv, Pools
      <4>2. NewlyBuilt(p)' => NewlyBuilt(p)
        BY <3>3, <4>1 DEF NewlyBuilt
      <4>3. ScanInv(p) => ScanInv(p)'
        BY <3>1, <4>1 DEF ScanInv, Done, callVars
      <4>4. QED BY <4>1, <4>2, <4>3, PoolKept
    <3>4. QED BY <2>0, <3>2, <3>3
  <2>3. CASE RebuildPool
    <3>1. /\ LinkUnits("caller", tuId["caller"], depCount["caller"])
          /\ rebuilt' = TRUE /\ UNCHANGED <<policy, callVars>> /\ pc = "idle"
      BY <2>3 DEF RebuildPool, Called
    <3>2. CASE p = "caller"
      BY <3>1, <3>2 DEF NewlyBuilt
    <3>3. CASE p = "own"
      <4>1. UNCHANGED <<kind[p], tuId[p], depCount[p], dependents[p], ran[p]>>
        BY <3>1, <3>3 DEF LinkUnits, TypeInv, Pools
      <4>2. NewlyBuilt(p)' => NewlyBuilt(p)
        BY <3>3, <4>1 DEF NewlyBuilt
      <4>3. ScanInv(p) => ScanInv(p)'
        BY <3>1, <4>1 DEF ScanInv, Done, callVars
      <4>4. QED BY <4>1, <4>2, <4>3, PoolKept
    <3>4. QED BY <2>0, <3>2, <3>3
  <2>4. CASE ExecuteWorkUnits
    <3>1. /\ ExecuteAll("caller") /\ pc = "idle"
          /\ UNCHANGED <<policy, unitVars, ran, rebuilt>>
      BY <2>4 DEF ExecuteWorkUnits, Called
    <3>2. UNCHANGED <<kind, tuId, depCount, dependents>>
      BY <3>1 DEF unitVars
    <3>3. NewlyBuilt(p)' => NewlyBuilt(p)
      BY <3>1, <3>2 DEF NewlyBuilt
    <3>4. CASE p = "caller" /\ NewlyBuilt(p)
      <4>1. RunsInOrder(p)' /\ Done(p)' = Done(p)
        BY <3>1, <3>2, <3>4 DEF StagesInv, RunsInOrder, Done
      <4>2. Done(p) = Len(tuId[p]) \/ Done(p) = 0
        BY <3>1, <3>4 DEF StagesInv, ScanInv
      <4>3. /\ Scan(p, depCount'[p], tuId'[p]) /\ pc' = "execute"
            /\ remaining' = Len(tuId'[p])
        BY <3>1, <3>4 DEF ExecuteAll
      <4>4. Len(tuId'[p]) \in Nat
        BY DEF TypeInv
      <4>5. QED BY <3>1, <3>2, <4>1, <4>2, <4>3, <4>4, ScanStarts
    <3>5. CASE p = "own"
      <4>1. pc' = "execute" /\ pool' = "caller"
        BY <3>1 DEF ExecuteAll, Scan
      <4>2. ScanInv(p) => ScanInv(p)'
        BY <3>1, <3>2, <3>5, <4>1 DEF ScanInv, Done
      <4>3. QED BY <3>1, <3>2, <3>3, <4>2, PoolKept
    <3>6. QED BY <2>0, <3>3, <3>4, <3>5
  <2>5. ASSUME NEW pic \in Pictures, SubmitFrame(pic)
        PROVE  NewlyBuilt(p)' => RunsInOrder(p)' /\ ScanInv(p)'
    <3>1. CASE p = "own"
      BY <2>0, <2>5, <3>1 DEF SubmitFrame, NewlyBuilt, Pools
    <3>2. CASE p = "caller"
      <4>1. /\ UNCHANGED <<kind[p], tuId[p], depCount[p], dependents[p], ran[p]>>
            /\ UNCHANGED <<policy, pc, pool, unit, activeTu, completed, remaining, rebuilt>>
        BY <2>5, <3>2 DEF SubmitFrame, callVars, TypeInv, Pools
      <4>2. NewlyBuilt(p)' => NewlyBuilt(p)
        BY <4>1 DEF NewlyBuilt
      <4>3. ScanInv(p) => ScanInv(p)'
        BY <4>1 DEF ScanInv, HeldBack, Done
      <4>4. QED BY <4>1, <4>2, <4>3, PoolKept
    <3>3. QED BY <2>0, <3>1, <3>2
  <2>6. CASE AdvanceFrame
    <3>1. /\ UNCHANGED <<policy, kind, tuId, depCount, dependents, ran, rebuilt>>
          /\ pc = "idle" /\ pc' = "advance"
      BY <2>6 DEF AdvanceFrame, unitVars
    <3>2. ScanInv(p) => ScanInv(p)'
      BY <3>1 DEF ScanInv, Done
    <3>3. QED BY <3>1, <3>2, PoolKept DEF NewlyBuilt
  <2>7. ASSUME NEW q \in Policies, SetPolicy(q)
        PROVE  NewlyBuilt(p)' => RunsInOrder(p)' /\ ScanInv(p)'
    <3>1. /\ UNCHANGED <<kind, tuId, depCount, dependents, ran, rebuilt, callVars>>
          /\ pc = "idle"
      BY <2>7 DEF SetPolicy, Called, unitVars
    <3>2. ScanInv(p) => ScanInv(p)'
      BY <3>1 DEF ScanInv, Done, callVars
    <3>3. QED BY <3>1, <3>2, PoolKept DEF NewlyBuilt
  <2>8. CASE Destroy
    <3>1. CASE p = "own"
      BY <2>0, <2>8, <3>1 DEF Destroy, NewlyBuilt, Pools
    <3>2. CASE p = "caller"
      <4>1. /\ UNCHANGED <<kind[p], tuId[p], depCount[p], dependents[p], ran[p]>>
            /\ UNCHANGED <<policy, pc, pool, unit, activeTu, completed, remaining, rebuilt>>
        BY <2>8, <3>2 DEF Destroy, callVars, TypeInv, Pools
      <4>2. NewlyBuilt(p)' => NewlyBuilt(p)
        BY <4>1 DEF NewlyBuilt
      <4>3. ScanInv(p) => ScanInv(p)'
        BY <4>1 DEF ScanInv, HeldBack, Done
      <4>4. QED BY <4>1, <4>2, <4>3, PoolKept
    <3>3. QED BY <2>0, <3>1, <3>2
  <2>9. CASE LoseTarget
    <3>1. UNCHANGED <<policy, kind, tuId, depCount, dependents, ran, rebuilt, callVars>>
      BY <2>9 DEF LoseTarget, unitVars
    <3>2. ScanInv(p) => ScanInv(p)'
      BY <3>1 DEF ScanInv, HeldBack, Done, callVars
    <3>3. QED BY <3>1, <3>2, PoolKept DEF NewlyBuilt
  <2>10. CASE Execute
    <3>1. /\ depCount' = [depCount EXCEPT ![pool] = Counts]
          /\ dependents' = [dependents EXCEPT ![pool][unit] = {}]
          /\ ran' = [ran EXCEPT ![pool] = Append(@, unit)]
          /\ UNCHANGED <<policy, kind, tuId, pc, pool, rebuilt>>
      BY <2>10, ExecuteStep
    <3>2. NewlyBuilt(p)' => NewlyBuilt(p)
      BY <3>1 DEF NewlyBuilt
    <3>3. CASE p = pool
      BY <2>10, <3>1, <3>2, <3>3, StagesExecute
    <3>4. CASE p # pool
      <4>1. UNCHANGED <<tuId[p], depCount[p], dependents[p], ran[p]>>
        BY <3>1, <3>4 DEF TypeInv
      <4>2. ScanInv(p) => ScanInv(p)'
        BY <3>1, <3>4, <4>1 DEF ScanInv, Done
      <4>3. QED BY <3>2, <4>1, <4>2, PoolKept
    <3>5. QED BY <3>3, <3>4
  <2>11. CASE Skip
    <3>1. /\ UNCHANGED <<policy, kind, tuId, depCount, dependents, ran, rebuilt>>
          /\ UNCHANGED <<pc, pool, activeTu, completed, remaining>>
          /\ unit' = unit + 1 /\ unit \in Units(pool) /\ ~Ready(unit)
      BY <2>11 DEF Skip, Look
    <3>2. NewlyBuilt(p)' => NewlyBuilt(p)
      BY <3>1 DEF NewlyBuilt
    <3>3. HeldBack(p)' <=> HeldBack(p)
      BY <3>1 DEF HeldBack, Done
    <3>4. ASSUME NewlyBuilt(p), pc = "execute", pool = p, unit = Done(p) + 1, ScanInv(p)
          PROVE  HeldBack(p)
      <4>1. RunsInOrder(p) /\ unit \in 1 .. Len(tuId[p])
        BY <3>1, <3>4 DEF StagesInv, Units, TypeInv
      <4>2. depCount[p][unit] = 0
        BY <3>4, <4>1 DEF RunsInOrder, Done
      <4>3. policy = "TU_SEQUENTIAL" /\ ~(tuId[p][unit] <= activeTu)
        BY <3>1, <3>4, <4>2 DEF Ready
      <4>4. Done(p) < Len(tuId[p]) /\ activeTu \in Int
        <5>1. Done(p) \in Nat /\ Len(tuId[p]) \in Nat
          BY DEF TypeInv, Done
        <5>2. Done(p) < Len(tuId[p])
          BY <3>4, <4>1, <5>1
        <5>3. QED BY <3>4, <5>2 DEF ScanInv
      <4>5. tuId[p][unit] \in Nat
        <5>1. tuId[p] \in Seq(Nat)
          BY DEF TypeInv
        <5>2. QED BY <4>1, <5>1
      <4>6. QED BY <3>4, <4>3, <4>4, <4>5 DEF HeldBack
    <3>5. NewlyBuilt(p) /\ ScanInv(p) => ScanInv(p)'
      <4>1. Done(p) \in Nat /\ unit \in Nat /\ Done(p)' = Done(p)
        BY <3>1 DEF TypeInv, Done
      <4>2. QED BY <3>1, <3>3, <3>4, <4>1 DEF ScanInv
    <3>6. QED BY <3>1, <3>2, <3>5, PoolKept DEF StagesInv
  <2>12. CASE EndOfScan
    <3>1. /\ UNCHANGED <<policy, kind, tuId, depCount, dependents, ran, rebuilt>>
          /\ pc = "execute" /\ unit \notin Units(pool) /\ remaining' = remaining - completed
      BY <2>12 DEF EndOfScan, unitVars
    <3>2. (NewlyBuilt(p)' <=> NewlyBuilt(p)) /\ Done(p)' = Done(p)
          /\ (RunsInOrder(p)' <=> RunsInOrder(p))
      BY <3>1 DEF NewlyBuilt, RunsInOrder, Done
    <3>3. CASE p # pool
      <4>1. pool' = pool
        BY <2>12 DEF EndOfScan, Scan
      <4>2. ScanInv(p) => ScanInv(p)'
        BY <3>1, <3>2, <3>3, <4>1 DEF ScanInv
      <4>3. QED BY <3>1, <3>2, <4>2, PoolKept
    <3>4. CASE p = pool /\ NewlyBuilt(p)
      <4>1. RunsInOrder(p) /\ ScanInv(p)
        BY <3>4 DEF StagesInv
      <4>2. /\ Done(p) \in Nat /\ Len(tuId[p]) \in Nat /\ Done(p) <= Len(tuId[p])
            /\ unit > Len(tuId[p])
        BY <3>1, <3>4, <4>1 DEF RunsInOrder, Done, Units, TypeInv
      <4>3. Done(p) = Len(tuId[p]) \/ HeldBack(p)
        BY <3>1, <3>4, <4>1, <4>2 DEF ScanInv, TypeInv
      <4>4. CASE remaining' > 0 /\ completed > 0
        <5>1. Scan(p, depCount'[p], tuId'[p]) /\ pc' = "execute"
          BY <2>12, <3>1, <3>4, <4>4 DEF EndOfScan
        <5>2. Done(p) < Len(tuId[p]) => remaining' = Len(tuId[p]) - Done(p)
          BY <3>1, <3>4, <4>1 DEF ScanInv
        <5>3. QED BY <3>1, <3>2, <4>1, <5>1, <5>2, ScanStarts
      <4>5. CASE ~(remaining' > 0 /\ completed > 0)
        <5>1. pc' = "idle"
          BY <2>12, <4>5 DEF EndOfScan
        <5>2. Done(p) = Len(tuId[p])
          BY <3>1, <3>4, <4>1, <4>2, <4>3, <4>5 DEF ScanInv, HeldBack, TypeInv
        <5>3. QED BY <3>1, <3>2, <4>1, <5>1, <5>2 DEF ScanInv
      <4>6. QED BY <4>4, <4>5
    <3>5. QED BY <3>2, <3>3, <3>4
  <2>13. CASE EndOfAdvance
    <3>1. /\ UNCHANGED <<kind, tuId, depCount, dependents, ran, rebuilt>>
          /\ pc = "advance" /\ pc' = "idle"
      BY <2>13 DEF EndOfAdvance, unitVars
    <3>2. ScanInv(p) => ScanInv(p)'
      BY <3>1 DEF ScanInv, Done
    <3>3. QED BY <3>1, <3>2, PoolKept DEF NewlyBuilt
  <2>14. CASE UNCHANGED vars
    <3>1. UNCHANGED <<policy, kind, tuId, depCount, dependents, ran, rebuilt, callVars>>
      BY <2>14 DEF vars, unitVars
    <3>2. ScanInv(p) => ScanInv(p)'
      BY <3>1 DEF ScanInv, HeldBack, Done, callVars
    <3>3. QED BY <3>1, <3>2, PoolKept DEF NewlyBuilt
  <2>15. QED BY <2>1, <2>2, <2>3, <2>4, <2>5, <2>6, <2>7, <2>8, <2>9, <2>10, <2>11, <2>12,
                <2>13, <2>14 DEF Next
<1>3. QED BY <1>1, <1>2, TypeInvariant, PTL DEF Spec

(* A unit of a pool built in new memory is executed at most once, after    *)
(* the stages before it in its TU under every policy, and under            *)
(* TU_SEQUENTIAL after the TUs before its own.                             *)
THEOREM StagesRunInOrder == Spec => UnitsInOrder
<1> DEFINE Order == \A v \in Units(pool) : Executes(v) =>
                      /\ ~HasRun(pool, v)
                      /\ \A u \in Units(pool) :
                           (\/ tuId[pool][u] = tuId[pool][v] /\ u < v
                            \/ policy = "TU_SEQUENTIAL" /\ tuId[pool][u] < tuId[pool][v])
                              => HasRun(pool, u)
<1>1. ASSUME TypeInv, StagesInv, Next, NEW v \in Units(pool), Executes(v)
      PROVE  Execute /\ v = unit
  <2>1. /\ pc = "execute" /\ pool \in Pools /\ ran[pool] \in Seq(Nat) /\ v \in Nat
        /\ ran'[pool] = Append(ran[pool], v)
    BY <1>1 DEF Executes, TypeInv, Units
  <2>2. ran'[pool] # ran[pool]
    BY <2>1
  <2>3. Execute
    <3>1. ran' # ran
      BY <2>2
    <3>2. ~Called /\ ~AdvanceFrame /\ ~EndOfAdvance
      BY <2>1 DEF Called, AdvanceFrame, EndOfAdvance
    <3>3. ~Skip /\ ~EndOfScan
      BY <3>1 DEF Skip, EndOfScan
    <3>4. QED
      BY <1>1, <3>2, <3>3, Zenon DEF Next, SubmitModeTrial, BuildPool, RebuildPool, SubmitFrame,
         SetPolicy, ExecuteWorkUnits, Destroy, LoseTarget
  <2>4. ran'[pool] = Append(ran[pool], unit) /\ unit \in Nat
    BY <1>1, <2>1, <2>3, ExecuteStep DEF TypeInv
  <2>5. Append(ran[pool], unit)[Len(ran[pool]) + 1] = unit
        /\ Append(ran[pool], v)[Len(ran[pool]) + 1] = v
    <3> DEFINE s == ran[pool]
    <3>1. s \in Seq(Nat) /\ v \in Nat /\ unit \in Nat
      BY <2>1, <2>4
    <3> HIDE DEF s
    <3>2. Append(s, unit)[Len(s) + 1] = unit /\ Append(s, v)[Len(s) + 1] = v
      BY <3>1
    <3>3. QED BY <3>2 DEF s
  <2>6. QED BY <2>1, <2>3, <2>4, <2>5
<1>2. ASSUME TypeInv, StagesInv, Next PROVE Order
  <2> SUFFICES ASSUME NEW v \in Units(pool), Executes(v)
               PROVE  /\ ~HasRun(pool, v)
                      /\ \A u \in Units(pool) :
                           (\/ tuId[pool][u] = tuId[pool][v] /\ u < v
                            \/ policy = "TU_SEQUENTIAL" /\ tuId[pool][u] < tuId[pool][v])
                              => HasRun(pool, u)
    OBVIOUS
  <2> DEFINE k == Done(pool)
             ids == tuId[pool]
  <2>1. Execute /\ v = unit /\ NewlyBuilt(pool)
    BY <1>1, <1>2 DEF Executes
  <2>2. /\ ran[pool] = [i \in 1 .. k |-> i] /\ k \in Nat /\ v = k + 1
        /\ ids \in Seq(Nat) /\ Ascending(ids) /\ Units(pool) = 1 .. Len(ids)
    BY <1>2, <2>1, NextExecuted DEF RunsInOrder, TypeInv, Units
  <2> HIDE DEF k, ids
  <2>3. \A u \in Nat : HasRun(pool, u) <=> u \in 1 .. k
    BY <2>2 DEF HasRun, Range
  <2>4. ASSUME NEW u \in 1 .. Len(ids), v <= u
        PROVE  ids[v] <= ids[u]
    <3>1. u \in DOMAIN ids /\ v \in DOMAIN ids
      BY <2>2
    <3>2. QED BY <2>2, <2>4, <3>1, Zenon DEF Ascending
  <2>5. ASSUME NEW u \in 1 .. Len(ids), (ids[u] = ids[v] /\ u < v) \/ ids[u] < ids[v]
        PROVE  u \in 1 .. k
    <3>1. v \in 1 .. Len(ids) /\ ids[u] \in Nat /\ ids[v] \in Nat
      BY <2>2
    <3>2. QED BY <2>2, <2>4, <2>5, <3>1
  <2>6. ASSUME NEW u \in Units(pool),
               \/ tuId[pool][u] = tuId[pool][v] /\ u < v
               \/ policy = "TU_SEQUENTIAL" /\ tuId[pool][u] < tuId[pool][v]
        PROVE  HasRun(pool, u)
    <3>1. u \in 1 .. Len(ids) /\ u \in Nat
      BY <2>2
    <3>2. (ids[u] = ids[v] /\ u < v) \/ ids[u] < ids[v]
      BY <2>6 DEF ids
    <3>3. QED BY <2>3, <2>5, <3>1, <3>2
  <2>7. ~HasRun(pool, v)
    BY <2>2, <2>3
  <2>8. QED BY <2>6, <2>7
<1>3. TypeInv /\ StagesInv /\ [Next]_vars => [Order]_vars
  BY <1>2
<1>4. QED BY <1>3, TypeInvariant, StagesInvariant, PTL DEF Spec, UnitsInOrder

(* When a call returns, every unit of the pool it was given has run.       *)
THEOREM CallsComplete == Spec => []ReturnsWhenDone
<1>1. TypeInv /\ StagesInv => ReturnsWhenDone
  <2> SUFFICES ASSUME TypeInv, StagesInv, NEW p \in Pools, NewlyBuilt(p), pc = "idle",
                      ran[p] # <<>>, NEW u \in Units(p)
               PROVE  HasRun(p, u)
    BY DEF ReturnsWhenDone
  <2>1. RunsInOrder(p) /\ ScanInv(p)
    BY DEF StagesInv
  <2>2. ran[p] \in Seq(Nat) /\ Done(p) # 0
    BY DEF Done, TypeInv
  <2>3. Done(p) = Len(tuId[p])
    BY <2>1, <2>2 DEF ScanInv
  <2>4. u \in 1 .. Done(p)
    BY <2>3 DEF Units, TypeInv
  <2>5. u \in DOMAIN ran[p] /\ ran[p][u] = u
    BY <2>1, <2>4 DEF RunsInOrder
  <2>6. QED BY <2>5 DEF HasRun, Range
<1>2. QED BY <1>1, TypeInvariant, StagesInvariant, PTL
=============================================================================
