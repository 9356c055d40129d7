------------------------- MODULE CtuWavefrontProofs -------------------------
(***************************************************************************)
(* What the CTU wavefront guarantees for every picture size, every tile    *)
(* layout, every number of workers and every configuration: a task that is *)
(* ready stays ready, what a filter reads is finished, and the counters of *)
(* finished lines are right.                                               *)
(***************************************************************************)
EXTENDS CtuWavefront, FiniteSetTheorems, TLAPS

(* A task that runs has not left its CTU behind. *)
RunningNotDone ==
  \A p \in Pics, c \in Ctu : <<p, c>> \in running => State(p, c) < PROCESS_DONE

TypeInv == TypeOK /\ RunningNotDone

(* A CTU that moves on moves to a later stage, the first one to deblocking,*)
(* and only the last CTU of a tile line gets past SAO without being done.  *)
LEMMA NextStateLater ==
  ASSUME NEW c \in Ctu, NEW s \in TaskType, s < PROCESS_DONE
  PROVE  /\ NextState(c, s) \in TaskType
         /\ NextState(c, s) > s
         /\ s = CTU_ENCODE => NextState(c, s) = RESHAPE_LF_VER
         /\ ~LastInTileLine(c) /\ s <= SAO_FILTER =>
              NextState(c, s) <= SAO_FILTER \/ NextState(c, s) = PROCESS_DONE
BY DEF NextState, TaskType, CTU_ENCODE, RESHAPE_LF_VER, LF_HOR, SAO_FILTER,
       ALF_GET_STATISTICS, ALF_DERIVE_FILTER, ALF_RECONSTRUCT, CCALF_GET_STATISTICS,
       CCALF_DERIVE_FILTER, CCALF_RECONSTRUCT, FINISH_SLICE, PROCESS_DONE

(* A task is taken at a stage that is left to do. *)
LEMMA ReadyNotDone ==
  ASSUME NEW p \in Pics, NEW c \in Ctu, Ready(p, c)
  PROVE  State(p, c) < PROCESS_DONE
BY DEF Ready, CTU_ENCODE, RESHAPE_LF_VER, LF_HOR, SAO_FILTER,
       ALF_GET_STATISTICS, ALF_DERIVE_FILTER, ALF_RECONSTRUCT, CCALF_GET_STATISTICS,
       CCALF_DERIVE_FILTER, CCALF_RECONSTRUCT, FINISH_SLICE, PROCESS_DONE

(* Ending a stage changes the state of one CTU, to NextState, and frees its *)
(* worker; the rest stays.                                                 *)
LEMMA StageDoneEffect ==
  ASSUME TypeInv, NEW p \in Pics, NEW c \in Ctu, StageDone(p, c)
  PROVE  /\ <<p, c>> \in running
         /\ running' = running \ {<<p, c>>}
         /\ conf' = conf
         /\ State(p, c) \in TaskType /\ State(p, c) < PROCESS_DONE
         /\ processStates' \in [Pics -> [Ctu -> TaskType]]
         /\ \A q \in Pics, d \in Ctu :
              processStates'[q][d] = IF q = p /\ d = c THEN NextState(c, State(p, c))
                                     ELSE State(q, d)
<1>1. State(p, c) \in TaskType /\ State(p, c) < PROCESS_DONE /\ <<p, c>> \in running
  BY DEF StageDone, TypeInv, TypeOK, RunningNotDone, State
<1>2. NextState(c, State(p, c)) \in TaskType
  BY <1>1, NextStateLater
<1>3. QED
  BY <1>1, <1>2 DEF StageDone, TypeInv, TypeOK, State

(* The values of the variables keep their types, the ALF stages are taken  *)
(* by the last CTU of a tile line only, and nothing runs on a CTU that is   *)
(* done, in every execution of the task pool.                              *)
THEOREM TypeInvariant == Spec => []TypeInv
<1>1. Init => TypeInv
  BY SizeAssumption DEF Init, TypeInv, TypeOK, RunningNotDone, State, TaskType, CTU_ENCODE,
     SAO_FILTER, PROCESS_DONE
<1>2. TypeInv /\ [Next]_vars => TypeInv'
  <2> SUFFICES ASSUME TypeInv, [Next]_vars PROVE TypeInv'
    OBVIOUS
  <2>1. ASSUME NEW p \in Pics, NEW c \in Ctu, StartStage(p, c) PROVE TypeInv'
    BY <2>1, ReadyNotDone DEF StartStage, TypeInv, TypeOK, RunningNotDone, State, LastInTileLine
  <2>2. ASSUME NEW p \in Pics, NEW c \in Ctu, StageDone(p, c) PROVE TypeInv'
    <3> DEFINE next == NextState(c, State(p, c))
    <3>1. /\ running' = running \ {<<p, c>>}
          /\ conf' = conf
          /\ State(p, c) \in TaskType /\ State(p, c) < PROCESS_DONE
          /\ processStates' \in [Pics -> [Ctu -> TaskType]]
          /\ \A q \in Pics, d \in Ctu :
               processStates'[q][d] = IF q = p /\ d = c THEN next ELSE State(q, d)
      BY <2>2, StageDoneEffect, ZenonT(60)
    <3>2. ~LastInTileLine(c) => next <= SAO_FILTER \/ next = PROCESS_DONE
      <4>1. ~LastInTileLine(c) => State(p, c) <= SAO_FILTER
        BY <3>1 DEF TypeInv, TypeOK, PROCESS_DONE
      <4>2. QED BY <3>1, <4>1, NextStateLater
    <3>3. tileColsDone' \in [Pics -> [Y -> Nat]]
      <4>1. \A n \in Nat : CountTileCol(n) \in Nat
        BY DEF CountTileCol
      <4>2. QED BY <2>2, <4>1 DEF StageDone, TypeInv, TypeOK
    <3>4. \A q \in Pics, d \in Ctu : ~LastInTileLine(d)' =>
            State(q, d)' <= SAO_FILTER \/ State(q, d)' = PROCESS_DONE
      <4> SUFFICES ASSUME NEW q \in Pics, NEW d \in Ctu, ~LastInTileLine(d)
                   PROVE  processStates'[q][d] <= SAO_FILTER \/ processStates'[q][d] = PROCESS_DONE
        BY <3>1 DEF State, LastInTileLine
      <4>1. CASE q = p /\ d = c
        BY <3>1, <3>2, <4>1
      <4>2. CASE ~(q = p /\ d = c)
        BY <3>1, <4>2 DEF TypeInv, TypeOK
      <4>3. QED BY <4>1, <4>2
    <3>5. RunningNotDone'
      <4> SUFFICES ASSUME NEW q \in Pics, NEW d \in Ctu, <<q, d>> \in running'
                   PROVE  processStates'[q][d] < PROCESS_DONE
        BY DEF RunningNotDone, State
      <4>1. <<q, d>> \in running /\ ~(q = p /\ d = c)
        BY <3>1
      <4>2. QED BY <3>1, <4>1 DEF TypeInv, RunningNotDone
    <3>6. conf' \in Configs /\ running' \subseteq Pics \X Ctu
      BY <3>1 DEF TypeInv, TypeOK
    <3>7. QED BY <3>1, <3>3, <3>4, <3>5, <3>6 DEF TypeInv, TypeOK
  <2>3. CASE UNCHANGED vars
    BY <2>3 DEF TypeInv, TypeOK, RunningNotDone, State, vars, LastInTileLine
  <2>4. QED BY <2>1, <2>2, <2>3 DEF Next
<1>3. QED BY <1>1, <1>2, PTL DEF Spec

(* The type invariant of the model, as TLC checks it. *)
THEOREM TypeCorrect == Spec => []TypeOK
BY TypeInvariant, PTL DEF TypeInv

-----------------------------------------------------------------------------
(* Prediction sees unfiltered samples.  The guards look at one CTU on the  *)
(* right and one on the bottom right; the invariant says what these two    *)
(* stand for.                                                              *)

(* The CTUs on the left of one that is being encoded, in its tile, are     *)
(* encoded.                                                                *)
EncodedFromLeft ==
  \A p \in Pics, c \in Ctu : Started(p, c, CTU_ENCODE) =>
    \A d \in Ctu : d[2] = c[2] /\ d[1] < c[1] /\ SameTile(c, d) => State(p, d) > CTU_ENCODE

(* A CTU is deblocked when those on its right, as far as the encoding      *)
(* delay reaches in the tile, are encoded ...                              *)
RightEncoded ==
  \A p \in Pics, c \in Ctu : Started(p, c, RESHAPE_LF_VER) =>
    \A d \in Ctu : /\ d[2] = c[2] /\ c[1] < d[1] /\ d[1] <= c[1] + conf.encDelay
                   /\ SameTile(c, d)
                   => State(p, d) > CTU_ENCODE

(* ... and the one on its bottom right, or below it at the tile's border.  *)
BottomRight(c) == Nb(c, Min2(1, conf.lastCol[c[1]] - c[1]), 1)

BottomRightEncoded ==
  \A p \in Pics, c \in Ctu : Started(p, c, RESHAPE_LF_VER) =>
    (BottomRight(c) \in Ctu /\ SameTile(c, BottomRight(c))
       => State(p, BottomRight(c)) > CTU_ENCODE)

EncodeInv == TypeInv /\ EncodedFromLeft /\ RightEncoded /\ BottomRightEncoded

(* A tile is an interval of columns that ends at its last column. *)
LEMMA TileColumns ==
  ASSUME TypeInv, NEW i \in X, NEW j \in X, conf.lastCol[i] = conf.lastCol[j]
  PROVE  /\ conf.lastCol[i] \in X /\ j <= conf.lastCol[i]
         /\ \A k \in X : i <= k /\ k <= conf.lastCol[i] => conf.lastCol[k] = conf.lastCol[i]
<1>1. conf \in ConfigType /\ IsTiling(conf.lastCol, Cols)
  BY ConfigsAssumption DEF TypeInv, TypeOK
<1>2. conf.lastCol \in [X -> X]
  BY <1>1 DEF ConfigType
<1> DEFINE last == conf.lastCol
<1>3. last \in [X -> X] /\ \A k \in X : k <= last[k] /\ \A l \in k .. last[k] : last[l] = last[k]
  BY <1>1, <1>2 DEF IsTiling, X
<1>4. X \subseteq Int
  BY SizeAssumption DEF X
<1> HIDE DEF last
<1>5. last[i] \in X /\ last[i] = last[j]
  BY <1>3 DEF last
<1>6. j <= last[i]
  BY <1>3, <1>5
<1>7. \A k \in X : i <= k /\ k <= last[i] => last[k] = last[i]
  BY <1>3, <1>4, <1>5
<1>8. QED BY <1>5, <1>6, <1>7 DEF last

(* States only grow, and a stage that is started had been started before   *)
(* or is ready.                                                            *)
LEMMA StepEffect ==
  ASSUME TypeInv, [Next]_vars
  PROVE  /\ conf' = conf
         /\ \A p \in Pics, c \in Ctu :
              /\ State(p, c) \in TaskType
              /\ processStates'[p][c] \in TaskType
              /\ processStates'[p][c] >= State(p, c)
         /\ \A p \in Pics, c \in Ctu, s \in {CTU_ENCODE, RESHAPE_LF_VER} :
              Started(p, c, s)' => Started(p, c, s) \/ (State(p, c) = s /\ Ready(p, c))
<1>1. \A q \in Pics, d \in Ctu : State(q, d) \in TaskType
  BY DEF TypeInv, TypeOK, State
<1>2. ASSUME NEW p \in Pics, NEW c \in Ctu, StartStage(p, c)
      PROVE  /\ conf' = conf /\ processStates' = processStates
             /\ \A q \in Pics, d \in Ctu, s \in {CTU_ENCODE, RESHAPE_LF_VER} :
                  Started(q, d, s)' => Started(q, d, s) \/ (State(q, d) = s /\ Ready(q, d))
  <2>1. /\ conf' = conf /\ processStates' = processStates
        /\ running' = running \cup {<<p, c>>} /\ Ready(p, c)
    BY <1>2 DEF StartStage
  <2>2. QED BY <2>1 DEF Started, State
<1>3. ASSUME NEW p \in Pics, NEW c \in Ctu, StageDone(p, c)
      PROVE  /\ conf' = conf
             /\ \A q \in Pics, d \in Ctu : /\ processStates'[q][d] >= State(q, d)
                                           /\ processStates'[q][d] \in TaskType
             /\ \A q \in Pics, d \in Ctu, s \in {CTU_ENCODE, RESHAPE_LF_VER} :
                  Started(q, d, s)' => Started(q, d, s)
  <2> DEFINE next == NextState(c, State(p, c))
  <2>1. /\ <<p, c>> \in running
        /\ running' = running \ {<<p, c>>}
        /\ conf' = conf
        /\ State(p, c) \in TaskType /\ State(p, c) < PROCESS_DONE
        /\ \A q \in Pics, d \in Ctu :
             processStates'[q][d] = IF q = p /\ d = c THEN next ELSE State(q, d)
    BY <1>3, StageDoneEffect
  <2>2. next \in TaskType /\ next > State(p, c)
        /\ (State(p, c) = CTU_ENCODE => next = RESHAPE_LF_VER)
    BY <2>1, NextStateLater
  <2>3. \A q \in Pics, d \in Ctu : /\ processStates'[q][d] >= State(q, d)
                                   /\ processStates'[q][d] \in TaskType
    <3> SUFFICES ASSUME NEW q \in Pics, NEW d \in Ctu
                 PROVE  processStates'[q][d] >= State(q, d) /\ processStates'[q][d] \in TaskType
      OBVIOUS
    <3> HIDE DEF next
    <3>1. State(q, d) \in Int
      BY <1>1 DEF TaskType, CTU_ENCODE, PROCESS_DONE
    <3>2. QED BY <1>1, <2>1, <2>2, <3>1 DEF TaskType, CTU_ENCODE, PROCESS_DONE
  <2>4. ASSUME NEW q \in Pics, NEW d \in Ctu, NEW s \in {CTU_ENCODE, RESHAPE_LF_VER},
               Started(q, d, s)'
        PROVE  Started(q, d, s)
    <3>1. processStates'[q][d] > s \/ (processStates'[q][d] = s /\ <<q, d>> \in running')
      BY <2>4 DEF Started, State
    <3>2. CASE q = p /\ d = c
      <4>1. <<q, d>> \notin running' /\ processStates'[q][d] = next
        BY <2>1, <3>2
      <4>2. next > s
        BY <3>1, <4>1
      <4> HIDE DEF next
      <4>3. State(p, c) >= s
        BY <2>1, <2>2, <4>2 DEF CTU_ENCODE, RESHAPE_LF_VER, TaskType, PROCESS_DONE
      <4>4. QED BY <2>1, <3>2, <4>3 DEF Started, CTU_ENCODE, RESHAPE_LF_VER, TaskType, PROCESS_DONE
    <3>3. CASE ~(q = p /\ d = c)
      <4>1. processStates'[q][d] = State(q, d) /\ (<<q, d>> \in running' => <<q, d>> \in running)
        BY <2>1, <3>3
      <4>2. QED BY <3>1, <4>1 DEF Started
    <3>4. QED BY <3>2, <3>3
  <2>5. QED BY <2>1, <2>3, <2>4
<1>4. CASE UNCHANGED vars
  BY <1>1, <1>4 DEF vars, Started, State, TaskType, CTU_ENCODE, PROCESS_DONE
<1>5. CASE \E p \in Pics, c \in Ctu : StartStage(p, c)
  BY <1>1, <1>2, <1>5 DEF State, TaskType, CTU_ENCODE, PROCESS_DONE
<1>6. CASE \E p \in Pics, c \in Ctu : StageDone(p, c)
  BY <1>1, <1>3, <1>6
<1>7. QED BY <1>4, <1>5, <1>6 DEF Next

(* A CTU that may be encoded has encoded CTUs on its left: its neighbour   *)
(* is, and that one was encoded after those on its left.                   *)
LEMMA EncodeReadyLeft ==
  ASSUME EncodeInv, NEW p \in Pics, NEW c \in Ctu,
         State(p, c) = CTU_ENCODE, Ready(p, c),
         NEW d \in Ctu, d[2] = c[2], d[1] < c[1], SameTile(c, d)
  PROVE  State(p, d) > CTU_ENCODE
<1> DEFINE left == Nb(c, -1, 0)
<1>1. /\ c[1] \in X /\ c[2] \in Y /\ d[1] \in X /\ d[2] \in Y
      /\ c = <<c[1], c[2]>> /\ d = <<d[1], d[2]>>
  BY DEF Ctu
<1>2. left \in Ctu /\ left[1] = c[1] - 1 /\ left[2] = c[2]
  BY <1>1, SizeAssumption DEF Nb, Ctu, X, Y
<1>3. SameTile(c, left) /\ SameTile(left, d)
  <2>1. /\ conf.lastCol[c[1]] = conf.lastCol[d[1]]
        /\ conf.lastRow[c[2]] = conf.lastRow[d[2]]
    BY DEF SameTile
  <2>2. conf.lastCol[d[1]] \in X /\ c[1] <= conf.lastCol[d[1]]
        /\ \A k \in X : d[1] <= k /\ k <= conf.lastCol[d[1]] => conf.lastCol[k] = conf.lastCol[d[1]]
    BY <1>1, <2>1, TileColumns DEF EncodeInv
  <2>3. left[1] \in X /\ d[1] <= left[1] /\ left[1] <= conf.lastCol[d[1]]
    BY <1>1, <1>2, <2>2, SizeAssumption DEF Ctu, X
  <2>4. QED BY <1>2, <2>1, <2>2, <2>3 DEF SameTile
<1>4. State(p, left) > CTU_ENCODE
  <2>1. ~NbBehind(p, c, -1, 0, CTU_ENCODE)
    BY <1>3 DEF Ready, LineOrder
  <2>2. State(p, left) \in TaskType
    BY <1>2 DEF EncodeInv, TypeInv, TypeOK, State
  <2>3. QED BY <1>2, <2>1, <2>2 DEF NbBehind, TaskType, CTU_ENCODE, PROCESS_DONE
<1>5. CASE d[1] = left[1]
  <2>1. left = <<left[1], left[2]>>
    BY DEF Nb
  <2>2. left = d
    BY <1>1, <1>2, <1>5, <2>1
  <2>3. QED BY <1>4, <2>2
<1>6. CASE d[1] # left[1]
  <2>1. d[1] < left[1]
    BY <1>1, <1>2, <1>6 DEF X
  <2>2. Started(p, left, CTU_ENCODE)
    BY <1>4 DEF Started
  <2>3. QED BY <1>2, <1>3, <2>1, <2>2 DEF EncodeInv, EncodedFromLeft
<1>7. QED BY <1>5, <1>6

(* A CTU that may be deblocked has encoded CTUs on its right and on its     *)
(* bottom right.                                                           *)
LEMMA DeblockReadyRight ==
  ASSUME EncodeInv, NEW p \in Pics, NEW c \in Ctu,
         State(p, c) = RESHAPE_LF_VER, Ready(p, c),
         NEW d \in Ctu, d[2] = c[2], c[1] < d[1], d[1] <= c[1] + conf.encDelay,
         SameTile(c, d)
  PROVE  State(p, d) > CTU_ENCODE
<1> DEFINE right == CheckRight(c)
           r     == Nb(c, right, 0)
<1>1. /\ c[1] \in X /\ c[2] \in Y /\ d[1] \in X /\ d[2] \in Y
      /\ c = <<c[1], c[2]>> /\ d = <<d[1], d[2]>>
      /\ conf.lastCol[c[1]] = conf.lastCol[d[1]] /\ conf.lastRow[c[2]] = conf.lastRow[d[2]]
  BY DEF Ctu, SameTile
<1>2. /\ conf.lastCol[c[1]] \in X /\ d[1] <= conf.lastCol[c[1]]
      /\ \A k \in X : c[1] <= k /\ k <= conf.lastCol[c[1]] => conf.lastCol[k] = conf.lastCol[c[1]]
  BY <1>1, TileColumns DEF EncodeInv
<1>3. conf.encDelay \in Nat \ {0}
  BY ConfigsAssumption DEF EncodeInv, TypeInv, TypeOK, ConfigType
<1>4. /\ right \in Nat /\ right > 0
      /\ c[1] + right <= conf.lastCol[c[1]] /\ d[1] <= c[1] + right
  BY <1>1, <1>2, <1>3, SizeAssumption DEF CheckRight, Min2, X
<1>5. r = <<c[1] + right, c[2]>> /\ r[1] = c[1] + right /\ r[2] = c[2]
  BY <1>1, SizeAssumption DEF Nb, Y
<1> HIDE DEF right
<1>6. r[1] \in X /\ r \in Ctu
  BY <1>1, <1>2, <1>4, <1>5, SizeAssumption DEF Ctu, X
<1>7. SameTile(c, r) /\ SameTile(r, d)
  <2>1. conf.lastCol[r[1]] = conf.lastCol[c[1]]
    BY <1>1, <1>2, <1>4, <1>5, <1>6, SizeAssumption DEF X
  <2>2. QED BY <1>1, <1>5, <2>1 DEF SameTile
<1>8. State(p, r) > CTU_ENCODE
  <2>1. LfVerReady(p, c)
    BY DEF Ready, CTU_ENCODE, RESHAPE_LF_VER, LF_HOR, SAO_FILTER,
       ALF_GET_STATISTICS, ALF_DERIVE_FILTER, ALF_RECONSTRUCT, CCALF_GET_STATISTICS,
       CCALF_DERIVE_FILTER, CCALF_RECONSTRUCT, FINISH_SLICE, PROCESS_DONE
  <2>2. ~FilterNbBehind(p, c, right, 0, CTU_ENCODE)
    <3> DEFINE leftmost == IF c[1] > 0 THEN -1 ELSE 0
               from     == IF HasTiles THEN leftmost ELSE right
    <3>1. \A dx \in from .. right : ~FilterNbBehind(p, c, dx, 0, CTU_ENCODE)
      BY <2>1 DEF LfVerReady, right
    <3>2. right \in from .. right
      BY <1>4
    <3>3. QED BY <3>1, <3>2
  <2>3. State(p, r) \in TaskType
    BY <1>6 DEF EncodeInv, TypeInv, TypeOK, State
  <2>4. ~(State(p, r) <= CTU_ENCODE)
    BY <1>6, <1>7, <2>2 DEF FilterNbBehind, NbBehind, CanFilterCtuBdry
  <2>5. QED BY <2>3, <2>4 DEF TaskType, CTU_ENCODE, PROCESS_DONE
<1>9. CASE d[1] = r[1]
  BY <1>1, <1>5, <1>8, <1>9
<1>10. CASE d[1] # r[1]
  <2>1. d[1] < r[1] /\ d[2] = r[2]
    BY <1>1, <1>4, <1>5, <1>10 DEF X
  <2>2. Started(p, r, CTU_ENCODE)
    BY <1>8 DEF Started
  <2>3. QED BY <1>6, <1>7, <2>1, <2>2 DEF EncodeInv, EncodedFromLeft
<1>11. QED BY <1>9, <1>10

(* The same of the CTU on the bottom right. *)
LEMMA DeblockReadyBottomRight ==
  ASSUME EncodeInv, NEW p \in Pics, NEW c \in Ctu,
         State(p, c) = RESHAPE_LF_VER, Ready(p, c),
         BottomRight(c) \in Ctu, SameTile(c, BottomRight(c))
  PROVE  State(p, BottomRight(c)) > CTU_ENCODE
<1>1. LfVerReady(p, c)
  BY DEF Ready, CTU_ENCODE, RESHAPE_LF_VER, LF_HOR, SAO_FILTER,
     ALF_GET_STATISTICS, ALF_DERIVE_FILTER, ALF_RECONSTRUCT, CCALF_GET_STATISTICS,
     CCALF_DERIVE_FILTER, CCALF_RECONSTRUCT, FINISH_SLICE, PROCESS_DONE
<1>2. ~FilterNbBehind(p, c, Min2(1, conf.lastCol[c[1]] - c[1]), 1, CTU_ENCODE)
  BY <1>1 DEF LfVerReady
<1>3. ~(State(p, BottomRight(c)) <= CTU_ENCODE)
  BY <1>2 DEF FilterNbBehind, NbBehind, CanFilterCtuBdry, BottomRight
<1>4. State(p, BottomRight(c)) \in TaskType
  BY DEF EncodeInv, TypeInv, TypeOK, State
<1>5. QED BY <1>3, <1>4 DEF TaskType, CTU_ENCODE, PROCESS_DONE

(* The invariant holds initially, when nothing is started, and every step  *)
(* keeps it, as states only grow.                                          *)
LEMMA EncodeInvariant == Spec => []EncodeInv
<1>1. Init => EncodeInv
  <2> SUFFICES ASSUME Init PROVE EncodeInv
    OBVIOUS
  <2>1. \A p \in Pics, c \in Ctu : ~Started(p, c, CTU_ENCODE) /\ ~Started(p, c, RESHAPE_LF_VER)
    BY DEF Init, Started, State, CTU_ENCODE, RESHAPE_LF_VER
  <2>2. TypeInv
    BY SizeAssumption DEF Init, TypeInv, TypeOK, RunningNotDone, State, TaskType, CTU_ENCODE,
       SAO_FILTER, PROCESS_DONE
  <2>3. QED BY <2>1, <2>2 DEF EncodeInv, EncodedFromLeft, RightEncoded, BottomRightEncoded
<1>2. EncodeInv /\ TypeInv' /\ [Next]_vars => EncodeInv'
  <2> SUFFICES ASSUME EncodeInv, TypeInv', [Next]_vars PROVE EncodeInv'
    OBVIOUS
  <2>1. /\ conf' = conf
        /\ \A p \in Pics, c \in Ctu :
             /\ State(p, c) \in TaskType
             /\ processStates'[p][c] \in TaskType
             /\ processStates'[p][c] >= State(p, c)
        /\ \A p \in Pics, c \in Ctu, s \in {CTU_ENCODE, RESHAPE_LF_VER} :
             Started(p, c, s)' => Started(p, c, s) \/ (State(p, c) = s /\ Ready(p, c))
    BY StepEffect DEF EncodeInv
  <2>2. \A p \in Pics, d \in Ctu : State(p, d) > CTU_ENCODE => processStates'[p][d] > CTU_ENCODE
    BY <2>1 DEF TaskType, CTU_ENCODE, PROCESS_DONE
  <2>3. \A c, d : SameTile(c, d)' <=> SameTile(c, d)
    BY <2>1 DEF SameTile
  <2>4. EncodedFromLeft'
    <3> SUFFICES ASSUME NEW p \in Pics, NEW c \in Ctu, Started(p, c, CTU_ENCODE)',
                        NEW d \in Ctu, d[2] = c[2], d[1] < c[1], SameTile(c, d)
                 PROVE  processStates'[p][d] > CTU_ENCODE
      BY <2>3 DEF EncodedFromLeft, State
    <3>1. CASE Started(p, c, CTU_ENCODE)
      BY <2>2, <3>1 DEF EncodeInv, EncodedFromLeft
    <3>2. CASE State(p, c) = CTU_ENCODE /\ Ready(p, c)
      BY <2>2, <3>2, EncodeReadyLeft
    <3>3. QED BY <2>1, <3>1, <3>2
  <2>5. RightEncoded'
    <3> SUFFICES ASSUME NEW p \in Pics, NEW c \in Ctu, Started(p, c, RESHAPE_LF_VER)',
                        NEW d \in Ctu, d[2] = c[2], c[1] < d[1], d[1] <= c[1] + conf.encDelay,
                        SameTile(c, d)
                 PROVE  processStates'[p][d] > CTU_ENCODE
      BY <2>1, <2>3 DEF RightEncoded, State
    <3>1. CASE Started(p, c, RESHAPE_LF_VER)
      BY <2>2, <3>1 DEF EncodeInv, RightEncoded
    <3>2. CASE State(p, c) = RESHAPE_LF_VER /\ Ready(p, c)
      BY <2>2, <3>2, DeblockReadyRight
    <3>3. QED BY <2>1, <3>1, <3>2
  <2>6. BottomRightEncoded'
    <3>1. \A c \in Ctu : BottomRight(c)' = BottomRight(c)
      BY <2>1 DEF BottomRight
    <3> SUFFICES ASSUME NEW p \in Pics, NEW c \in Ctu, Started(p, c, RESHAPE_LF_VER)',
                        BottomRight(c) \in Ctu, SameTile(c, BottomRight(c))
                 PROVE  processStates'[p][BottomRight(c)] > CTU_ENCODE
      BY <2>3, <3>1 DEF BottomRightEncoded, State
    <3>2. CASE Started(p, c, RESHAPE_LF_VER)
      BY <2>2, <3>2 DEF EncodeInv, BottomRightEncoded
    <3>3. CASE State(p, c) = RESHAPE_LF_VER /\ Ready(p, c)
      BY <2>2, <3>3, DeblockReadyBottomRight
    <3>4. QED BY <2>1, <3>2, <3>3
  <2>7. QED BY <2>4, <2>5, <2>6 DEF EncodeInv
<1>3. QED BY <1>1, <1>2, TypeInvariant, PTL DEF Spec

(* What the invariant is for: a CTU that is still to be encoded, or is      *)
(* being encoded, finds no CTU it predicts from reshaped or deblocked.     *)
LEMMA EncodeInvUnfiltered ==
  ASSUME EncodeInv, NEW p \in Pics, NEW c \in Ctu, NEW d \in PredictionNbs(c),
         Started(p, d, RESHAPE_LF_VER)
  PROVE  State(p, c) > CTU_ENCODE
<1>1. /\ d \in Ctu /\ SameTile(c, d) /\ SameTile(d, c)
      /\ c[1] \in X /\ c[2] \in Y /\ d[1] \in X /\ d[2] \in Y
      /\ c = <<c[1], c[2]>> /\ d = <<d[1], d[2]>>
      /\ conf.lastCol[d[1]] = conf.lastCol[c[1]] /\ conf.lastRow[d[2]] = conf.lastRow[c[2]]
      /\ \/ d[2] = c[2] /\ d[1] \in c[1] - conf.encDelay .. c[1] - 1
         \/ d[2] = c[2] - 1 /\ d[1] \in c[1] - 1 .. c[1] + 1
  BY SizeAssumption DEF PredictionNbs, SameTile, Ctu, X
<1>2. /\ conf.lastCol[d[1]] \in X
      /\ c[1] <= conf.lastCol[d[1]] /\ d[1] <= conf.lastCol[d[1]]
      /\ \A k \in X : d[1] <= k /\ k <= conf.lastCol[d[1]] => conf.lastCol[k] = conf.lastCol[d[1]]
  BY <1>1, TileColumns DEF EncodeInv
<1>3. conf.encDelay \in Nat
  BY ConfigsAssumption DEF EncodeInv, TypeInv, TypeOK, ConfigType
<1>4. CASE d[2] = c[2] /\ d[1] \in c[1] - conf.encDelay .. c[1] - 1
  <2>1. d[1] < c[1] /\ c[1] <= d[1] + conf.encDelay
    BY <1>1, <1>3, <1>4, SizeAssumption DEF X
  <2>2. QED BY <1>1, <1>4, <2>1 DEF EncodeInv, RightEncoded
<1>5. CASE d[2] = c[2] - 1 /\ d[1] \in c[1] - 1 .. c[1] + 1
  <2> DEFINE o  == Min2(1, conf.lastCol[d[1]] - d[1])
             br == BottomRight(d)
  <2>1. o \in {0, 1} /\ (o = 0 <=> d[1] = conf.lastCol[d[1]])
    BY <1>1, <1>2, SizeAssumption DEF Min2, X
  <2>2. br = <<d[1] + o, d[2] + 1>> /\ br[1] = d[1] + o /\ br[2] = d[2] + 1
    BY DEF BottomRight, Nb
  <2> HIDE DEF br, o
  <2>3. br[1] \in X /\ c[1] <= br[1] /\ br[1] <= conf.lastCol[d[1]] /\ d[1] <= br[1]
    BY <1>1, <1>2, <1>5, <2>1, <2>2, SizeAssumption DEF X
  <2>4. br[2] = c[2] /\ br \in Ctu
    <3>1. br[2] = c[2]
      BY <1>1, <1>5, <2>2, SizeAssumption DEF Y
    <3>2. QED BY <1>1, <2>2, <2>3, <3>1 DEF Ctu
  <2>5. SameTile(d, br) /\ SameTile(br, c)
    BY <1>1, <1>2, <2>3, <2>4 DEF SameTile
  <2>6. State(p, br) > CTU_ENCODE
    BY <1>1, <2>4, <2>5 DEF EncodeInv, BottomRightEncoded, br
  <2>7. CASE br[1] = c[1]
    BY <1>1, <2>2, <2>4, <2>6, <2>7
  <2>8. CASE br[1] # c[1]
    <3>1. c[1] < br[1] /\ c[2] = br[2]
      BY <1>1, <2>3, <2>4, <2>8, SizeAssumption DEF X
    <3>2. Started(p, br, CTU_ENCODE)
      BY <2>6 DEF Started
    <3>3. QED BY <2>4, <2>5, <3>1, <3>2 DEF EncodeInv, EncodedFromLeft
  <2>9. QED BY <2>7, <2>8
<1>6. QED BY <1>1, <1>4, <1>5

(* Prediction from the samples of another CTU never meets samples that the *)
(* luma reshaper or the deblocking filter has changed, whatever the number *)
(* of workers, the tiles and the encoding delay.                           *)
THEOREM PredictionUnfiltered == Spec => []PredictionSeesUnfiltered
<1>1. EncodeInv => PredictionSeesUnfiltered
  BY EncodeInvUnfiltered DEF PredictionSeesUnfiltered, CTU_ENCODE
<1>2. QED BY <1>1, EncodeInvariant, PTL

-----------------------------------------------------------------------------
(* The loop filters: a task that is ready stays ready, and what a filter   *)
(* reads is finished.  One fact carries all of it: the guard under which a *)
(* CTU started a stage stays true (AllowedStable), so a CTU that is past a *)
(* stage still finds its neighbours as that stage's guard left them        *)
(* (Allowed).                                                              *)

(* The stages of a CTU: only the last one of a tile line filters, the ones *)
(* before the deriving line skip the derivation, and one CTU finishes.     *)
Takes(c, s) ==
  \/ s \in {CTU_ENCODE, RESHAPE_LF_VER, LF_HOR, SAO_FILTER}
  \/ /\ LastInTileLine(c)
     /\ \/ s \in {ALF_GET_STATISTICS, ALF_RECONSTRUCT, CCALF_GET_STATISTICS, CCALF_RECONSTRUCT}
        \/ s = ALF_DERIVE_FILTER /\ ~Before(c, AlfDeriveCtu)
        \/ s = CCALF_DERIVE_FILTER /\ ~Before(c, CcalfDeriveCtu)
        \/ s = FINISH_SLICE /\ c = LastCtu

(* What Ready asks of a CTU at stage s, whether or not it is still there.  *)
StageAllowed(p, c, s) ==
  /\ \/ /\ conf.tileParallel
        /\ s = CTU_ENCODE
        /\ c[1] > 0 /\ ~SameTile(c, Nb(c, -1, 0))
     \/ ~NbBehind(p, c, -1, 0, s)
  /\ s = CTU_ENCODE           => EncodeReady(p, c)
  /\ s = RESHAPE_LF_VER       => LfVerReady(p, c)
  /\ s = LF_HOR               => LfHorReady(p, c)
  /\ s = SAO_FILTER           => SaoReady(p, c)
  /\ s = ALF_GET_STATISTICS   => AlfStatReady(p, c)
  /\ s = ALF_DERIVE_FILTER    => AlfDeriveReady(p, c)
  /\ s = ALF_RECONSTRUCT      => AlfReconReady(p, c)
  /\ s = CCALF_GET_STATISTICS => CcalfStatReady(p, c)
  /\ s = CCALF_DERIVE_FILTER  => CcalfDeriveReady(p, c)
  /\ s = CCALF_RECONSTRUCT    => CcalfReconReady(p, c)
  /\ s = FINISH_SLICE         => FinishReady(p, c)

-----------------------------------------------------------------------------
(* Guards stay true. *)

(* What no step takes back: the configuration, the stages, the counters.   *)
Grows ==
  /\ conf' = conf
  /\ \A p \in Pics, c \in Ctu :
       /\ State(p, c) \in TaskType
       /\ processStates'[p][c] \in TaskType
       /\ processStates'[p][c] >= State(p, c)
  /\ \A p \in Pics, y \in Y :
       /\ tileColsDone[p][y] \in Nat
       /\ tileColsDone'[p][y] \in Nat
       /\ tileColsDone'[p][y] >= tileColsDone[p][y]

LEMMA StepGrows ==
  ASSUME TypeInv, [Next]_vars
  PROVE  Grows
<1>1. \A p \in Pics, y \in Y : tileColsDone[p][y] \in Nat
  BY DEF TypeInv, TypeOK
<1>2. \A p \in Pics, y \in Y : /\ tileColsDone'[p][y] \in Nat
                               /\ tileColsDone'[p][y] >= tileColsDone[p][y]
  <2>1. CASE \E p \in Pics, c \in Ctu : StartStage(p, c)
    BY <1>1, <2>1 DEF StartStage
  <2>2. ASSUME NEW p \in Pics, NEW c \in Ctu, StageDone(p, c)
        PROVE  \A q \in Pics, y \in Y : /\ tileColsDone'[q][y] \in Nat
                                        /\ tileColsDone'[q][y] >= tileColsDone[q][y]
    <3>1. \A n \in Nat : CountTileCol(n) \in Nat /\ CountTileCol(n) >= n
      BY DEF CountTileCol
    <3>2. tileColsDone' = tileColsDone
            \/ tileColsDone' = [tileColsDone EXCEPT ![p][c[2]] = CountTileCol(@)]
      BY <2>2 DEF StageDone
    <3>3. c[2] \in Y /\ tileColsDone \in [Pics -> [Y -> Nat]]
      BY DEF Ctu, TypeInv, TypeOK
    <3>4. QED BY <1>1, <3>1, <3>2, <3>3
  <2>3. CASE UNCHANGED vars
    BY <1>1, <2>3 DEF vars
  <2>4. QED BY <2>1, <2>2, <2>3 DEF Next
<1>3. QED BY <1>1, <1>2, StepEffect DEF Grows

(* The CTUs that the ALF filters are derived at are in the picture, at the *)
(* end of a line of tiles, as is the end of an ALF unit.                   *)
LEMMA DeriveCtus ==
  ASSUME TypeInv
  PROVE  /\ LastCtu \in Ctu /\ AlfDeriveCtu \in Ctu /\ CcalfDeriveCtu \in Ctu
         /\ LastInTileLine(AlfDeriveCtu) /\ LastInTileLine(CcalfDeriveCtu)
         /\ LastInTileLine(LastCtu)
         /\ \A y \in Y : BotLineInAsu(y) \in Y
<1>1. /\ conf.ifpLines \in Nat /\ conf.asuHeight \in Nat \ {0}
      /\ conf.lastCol \in [X -> X] /\ IsTiling(conf.lastCol, Cols)
  BY ConfigsAssumption DEF TypeInv, TypeOK, ConfigType
<1>2. Cols - 1 \in X /\ Rows - 1 \in Y
  BY SizeAssumption DEF X, Y
<1>3. conf.lastCol[Cols - 1] = Cols - 1
  BY <1>1, <1>2, SizeAssumption DEF IsTiling, X
<1>4. \A n \in Nat \ {0} : Min2(n, Rows) - 1 \in Y
  BY SizeAssumption DEF Min2, Y
<1>5. \A n \in Nat : n \div conf.asuHeight \in Nat
  BY <1>1
<1>6. \A n \in Nat \ {0} : n * conf.asuHeight \in Nat \ {0}
  <2>1. \A n, m \in Nat \ {0} : n * m \in Nat \ {0}
    OBVIOUS
  <2>2. QED BY <1>1, <2>1
<1>7. Min2((conf.ifpLines \div conf.asuHeight + 1) * conf.asuHeight, Rows) - 1 \in Y
  <2> DEFINE n == conf.ifpLines \div conf.asuHeight
  <2>1. n \in Nat
    BY <1>1, <1>5
  <2> HIDE DEF n
  <2>2. n + 1 \in Nat \ {0}
    BY <2>1
  <2>3. (n + 1) * conf.asuHeight \in Nat \ {0}
    BY <1>6, <2>2
  <2>4. QED BY <1>4, <2>3 DEF n
<1>8. AlfDeriveCtu \in Ctu /\ LastInTileLine(AlfDeriveCtu)
  BY <1>2, <1>3, <1>7 DEF AlfDeriveCtu, LastCtu, Ctu, LastInTileLine
<1>9. CcalfDeriveCtu \in Ctu /\ LastInTileLine(CcalfDeriveCtu)
  <2>1. Min2(conf.ifpLines + 1, Rows) - 1 \in Y
    BY <1>1, <1>4
  <2>2. QED BY <1>2, <1>3, <2>1 DEF CcalfDeriveCtu, LastCtu, Ctu, LastInTileLine
<1>10. \A y \in Y : BotLineInAsu(y) \in Y
  <2> SUFFICES ASSUME NEW y \in Y PROVE BotLineInAsu(y) \in Y
    OBVIOUS
  <2> DEFINE n == y \div conf.asuHeight
  <2>1. n \in Nat
    BY <1>5, SizeAssumption DEF Y
  <2> HIDE DEF n
  <2>2. n * conf.asuHeight \in Nat
    <3>1. n = 0 => n * conf.asuHeight \in Nat
      BY <1>1
    <3>2. QED BY <1>6, <2>1, <3>1
  <2>3. n * conf.asuHeight + conf.asuHeight - 1 \in Nat
    BY <1>1, <2>2
  <2>4. QED BY <2>3, SizeAssumption DEF BotLineInAsu, Min2, Y, n
<1>11. LastCtu \in Ctu /\ LastInTileLine(LastCtu)
  BY <1>2, <1>3 DEF LastCtu, Ctu, LastInTileLine
<1>12. QED BY <1>8, <1>9, <1>10, <1>11

(* A neighbour that has passed a stage has passed it for good. *)
LEMMA NbPassed ==
  ASSUME Grows, NEW p \in Pics, NEW c \in Ctu, NEW dx, NEW dy, NEW s \in TaskType
  PROVE  /\ ~NbBehind(p, c, dx, dy, s) => ~NbBehind(p, c, dx, dy, s)'
         /\ ~FilterNbBehind(p, c, dx, dy, s) => ~FilterNbBehind(p, c, dx, dy, s)'
<1> DEFINE d == Nb(c, dx, dy)
<1>1. d \in Ctu => /\ State(p, d) \in TaskType /\ processStates'[p][d] \in TaskType
                   /\ processStates'[p][d] >= State(p, d)
  BY DEF Grows
<1>2. NbBehind(p, c, dx, dy, s)' <=> d \in Ctu /\ processStates'[p][d] <= s
  BY DEF NbBehind, State
<1>3. NbBehind(p, c, dx, dy, s) <=> d \in Ctu /\ State(p, d) <= s
  BY DEF NbBehind
<1>4. CanFilterCtuBdry(c, d)' <=> CanFilterCtuBdry(c, d)
  BY DEF Grows, CanFilterCtuBdry, SameTile
<1> HIDE DEF d
<1>5. NbBehind(p, c, dx, dy, s)' => NbBehind(p, c, dx, dy, s)
  BY <1>1, <1>2, <1>3 DEF TaskType, CTU_ENCODE, PROCESS_DONE
<1>6. QED BY <1>4, <1>5 DEF FilterNbBehind, d

(* The same of a CTU that is named. *)
LEMMA StatePassed ==
  ASSUME Grows, NEW p \in Pics, NEW d \in Ctu, NEW s \in TaskType
  PROVE  /\ State(p, d) > s => State(p, d)' > s
         /\ State(p, d) >= s => State(p, d)' >= s
BY DEF Grows, State, TaskType, CTU_ENCODE, PROCESS_DONE

(* The geometry does not change. *)
LEMMA SameGeometry ==
  ASSUME Grows
  PROVE  /\ conf' = conf /\ AlfDeriveCtu' = AlfDeriveCtu /\ CcalfDeriveCtu' = CcalfDeriveCtu
         /\ NumTileCols' = NumTileCols /\ (HasTiles' <=> HasTiles)
         /\ \A c : /\ LastInTileLine(c)' <=> LastInTileLine(c)
                   /\ LineStart(c)' <=> LineStart(c)
                   /\ CheckRight(c)' = CheckRight(c)
                   /\ \A d : /\ SameTile(c, d)' <=> SameTile(c, d)
                             /\ CanFilterCtuBdry(c, d)' <=> CanFilterCtuBdry(c, d)
         /\ \A y : BotLineInAsu(y)' = BotLineInAsu(y)
BY DEF Grows, AlfDeriveCtu, CcalfDeriveCtu, NumTileCols, HasTiles, LastInTileLine, LineStart,
   CheckRight, SameTile, CanFilterCtuBdry, BotLineInAsu

LEMMA Stages ==
  /\ TaskType = 0 .. 11
  /\ {CTU_ENCODE, RESHAPE_LF_VER, LF_HOR, SAO_FILTER, ALF_GET_STATISTICS, ALF_DERIVE_FILTER,
      ALF_RECONSTRUCT, CCALF_GET_STATISTICS, CCALF_DERIVE_FILTER, CCALF_RECONSTRUCT,
      FINISH_SLICE, PROCESS_DONE} \subseteq TaskType
BY DEF TaskType, CTU_ENCODE, RESHAPE_LF_VER, LF_HOR, SAO_FILTER,
   ALF_GET_STATISTICS, ALF_DERIVE_FILTER, ALF_RECONSTRUCT, CCALF_GET_STATISTICS,
   CCALF_DERIVE_FILTER, CCALF_RECONSTRUCT, FINISH_SLICE, PROCESS_DONE

(* Whatever stage it is and wherever the CTU is, what allowed the CTU to   *)
(* start the stage goes on allowing it.                                    *)
LEMMA AllowedStable ==
  ASSUME TypeInv, Grows, NEW p \in Pics, NEW c \in Ctu, NEW s \in TaskType,
         StageAllowed(p, c, s)
  PROVE  StageAllowed(p, c, s)'
<1>1. s = CTU_ENCODE => EncodeReady(p, c)'
  <2> SUFFICES ASSUME EncodeReady(p, c) PROVE EncodeReady(p, c)'
    BY DEF StageAllowed
  <2>1. ASSUME NEW y \in Nat, RefLineReady(p, y) PROVE RefLineReady(p, y)'
    <3>1. Min2(y, Rows - 1) \in Y
      BY SizeAssumption DEF Min2, Y
    <3>2. Refs[p] \subseteq Pics
      BY PicsAssumption
    <3>3. ASSUME NEW q \in Refs[p]
          PROVE  tileColsDone'[q][Min2(y, Rows - 1)] >= NumTileCols + 1
      <4> DEFINE n == tileColsDone[q][Min2(y, Rows - 1)]
                 m == tileColsDone'[q][Min2(y, Rows - 1)]
      <4>1. n \in Nat /\ m \in Nat /\ m >= n
        BY <3>1, <3>2 DEF Grows
      <4>2. n >= NumTileCols + 1
        BY <2>1 DEF RefLineReady
      <4> HIDE DEF n, m
      <4>3. NumTileCols \in Nat
        <5>1. IsFiniteSet(X)
          BY FS_Interval, SizeAssumption DEF X
        <5>2. {conf.lastCol[x] : x \in X} \subseteq X
          BY ConfigsAssumption DEF TypeInv, TypeOK, ConfigType
        <5>3. QED BY <5>1, <5>2, FS_Subset, FS_CardinalityType DEF NumTileCols
      <4>4. m >= NumTileCols + 1
        BY <4>1, <4>2, <4>3
      <4>5. QED BY <4>4 DEF m
    <3>4. QED BY <3>3, SameGeometry DEF RefLineReady
  <2>2. c[2] + conf.ifpLines \in Nat
    BY ConfigsAssumption, SizeAssumption DEF TypeInv, TypeOK, ConfigType, Ctu, Y
  <2>3. /\ ~NbBehind(p, c, 0, -1, CTU_ENCODE) => ~NbBehind(p, c, 0, -1, CTU_ENCODE)'
        /\ ~NbBehind(p, c, 1, -1, CTU_ENCODE) => ~NbBehind(p, c, 1, -1, CTU_ENCODE)'
    BY NbPassed, Stages
  <2>4. QED BY <2>1, <2>2, <2>3, SameGeometry DEF EncodeReady
<1>2. s = RESHAPE_LF_VER => LfVerReady(p, c)'
  <2>1. \A dx, dy : ~FilterNbBehind(p, c, dx, dy, CTU_ENCODE)
                      => ~FilterNbBehind(p, c, dx, dy, CTU_ENCODE)'
    BY NbPassed, Stages
  <2>2. QED BY <2>1, SameGeometry DEF StageAllowed, LfVerReady
<1>3. s = LF_HOR => LfHorReady(p, c)'
  BY NbPassed, Stages DEF StageAllowed, LfHorReady
<1>4. s = SAO_FILTER => SaoReady(p, c)'
  BY NbPassed, Stages DEF StageAllowed, SaoReady
<1>5. s = ALF_GET_STATISTICS => AlfStatReady(p, c)'
  BY NbPassed, Stages DEF StageAllowed, AlfStatReady
<1>6. ASSUME NEW y, NEW r \in TaskType, LinesPast(p, y, r) PROVE LinesPast(p, y, r)'
  BY <1>6, StatePassed, SameGeometry DEF LinesPast
<1>7. s = ALF_DERIVE_FILTER => AlfDeriveReady(p, c)'
  BY <1>6, NbPassed, StatePassed, SameGeometry, DeriveCtus, Stages
  DEF StageAllowed, AlfDeriveReady
<1>8. s = ALF_RECONSTRUCT => AlfReconReady(p, c)'
  <2>1. <<c[1], BotLineInAsu(c[2])>> \in Ctu
    BY DeriveCtus DEF Ctu
  <2>2. QED BY <2>1, StatePassed, SameGeometry, DeriveCtus, Stages DEF StageAllowed, AlfReconReady
<1>9. s = CCALF_GET_STATISTICS => CcalfStatReady(p, c)'
  BY NbPassed, Stages DEF StageAllowed, CcalfStatReady
<1>10. s = CCALF_DERIVE_FILTER => CcalfDeriveReady(p, c)'
  BY <1>6, NbPassed, StatePassed, SameGeometry, DeriveCtus, Stages
  DEF StageAllowed, CcalfDeriveReady
<1>11. s = CCALF_RECONSTRUCT => CcalfReconReady(p, c)'
  BY NbPassed, StatePassed, SameGeometry, DeriveCtus, Stages DEF StageAllowed, CcalfReconReady
<1>12. s = FINISH_SLICE => FinishReady(p, c)'
  BY StatePassed, Stages DEF StageAllowed, FinishReady
<1>13. \/ conf'.tileParallel /\ s = CTU_ENCODE /\ c[1] > 0 /\ ~SameTile(c, Nb(c, -1, 0))'
       \/ ~NbBehind(p, c, -1, 0, s)'
  BY NbPassed, SameGeometry DEF StageAllowed
<1>14. QED
  BY <1>1, <1>2, <1>3, <1>4, <1>5, <1>7, <1>8, <1>9, <1>10, <1>11, <1>12, <1>13
  DEF StageAllowed

(* Ready is StageAllowed at the stage that is next. *)
LEMMA ReadyIsAllowed ==
  ASSUME NEW p \in Pics, NEW c \in Ctu, State(p, c) \in TaskType
  PROVE  Ready(p, c) <=> State(p, c) # PROCESS_DONE /\ StageAllowed(p, c, State(p, c))
BY Stages DEF Ready, LineOrder, StageAllowed, TaskType, CTU_ENCODE, RESHAPE_LF_VER, LF_HOR, SAO_FILTER,
   ALF_GET_STATISTICS, ALF_DERIVE_FILTER, ALF_RECONSTRUCT, CCALF_GET_STATISTICS,
   CCALF_DERIVE_FILTER, CCALF_RECONSTRUCT, FINISH_SLICE, PROCESS_DONE

(* A CTU that is ready stays ready until its own task takes the stage: the *)
(* worker that found it ready, reading the states one by one while others  *)
(* change them, may start it.                                              *)
THEOREM ReadinessStable == Spec => ReadyIsStable
<1> DEFINE Stable == \A p \in Pics, c \in Ctu :
                       Ready(p, c) /\ State(p, c) = processStates'[p][c] => Ready(p, c)'
<1>1. TypeInv /\ [Next]_vars => Stable
  <2> SUFFICES ASSUME TypeInv, [Next]_vars, NEW p \in Pics, NEW c \in Ctu,
                      Ready(p, c), State(p, c) = processStates'[p][c]
               PROVE  Ready(p, c)'
    OBVIOUS
  <2>1. Grows
    BY StepGrows
  <2>2. State(p, c) \in TaskType /\ State(p, c)' = State(p, c)
    BY <2>1 DEF Grows, State
  <2>3. PICK s \in TaskType : s = State(p, c)
    BY <2>2
  <2>4. s # PROCESS_DONE /\ StageAllowed(p, c, s)
    BY <2>2, <2>3, ReadyIsAllowed
  <2>5. StageAllowed(p, c, s)'
    BY <2>1, <2>4, AllowedStable
  <2>6. processStates'[p][c] = s
    BY <2>3
  <2>7. QED
    BY <2>4, <2>5, <2>6
    DEF State, Ready, LineOrder, StageAllowed, TaskType, CTU_ENCODE, RESHAPE_LF_VER, LF_HOR,
        SAO_FILTER, ALF_GET_STATISTICS, ALF_DERIVE_FILTER, ALF_RECONSTRUCT,
        CCALF_GET_STATISTICS, CCALF_DERIVE_FILTER, CCALF_RECONSTRUCT, FINISH_SLICE, PROCESS_DONE
<1>2. TypeInv /\ [Next]_vars => [Stable]_vars
  BY <1>1
<1>3. QED BY <1>2, TypeInvariant, PTL DEF Spec, ReadyIsStable

-----------------------------------------------------------------------------
(* What the guards leave behind. *)

(* A CTU is at a stage it takes, or done. *)
StagesTaken ==
  \A p \in Pics, c \in Ctu : State(p, c) = PROCESS_DONE \/ Takes(c, State(p, c))

(* A CTU that has started a stage is allowed to. *)
Allowed ==
  \A p \in Pics, c \in Ctu, s \in TaskType :
    Takes(c, s) /\ Started(p, c, s) => StageAllowed(p, c, s)

(* SAO goes along a line from left to right. *)
SaoLeft ==
  \A p \in Pics, c \in Ctu : Started(p, c, SAO_FILTER) =>
    \A d \in Ctu : d[2] = c[2] /\ d[1] < c[1] => State(p, d) > SAO_FILTER

FilterInv == TypeInv /\ StagesTaken /\ Allowed /\ SaoLeft

(* No stage that a CTU takes is jumped over. *)
LEMMA NextStateTakes ==
  ASSUME NEW c \in Ctu, NEW s \in TaskType, Takes(c, s)
  PROVE  /\ s < PROCESS_DONE
         /\ NextState(c, s) = PROCESS_DONE \/ Takes(c, NextState(c, s))
         /\ \A r \in TaskType : Takes(c, r) /\ NextState(c, s) > r => s >= r
BY DEF NextState, Takes, TaskType, CTU_ENCODE, RESHAPE_LF_VER, LF_HOR, SAO_FILTER,
       ALF_GET_STATISTICS, ALF_DERIVE_FILTER, ALF_RECONSTRUCT, CCALF_GET_STATISTICS,
       CCALF_DERIVE_FILTER, CCALF_RECONSTRUCT, FINISH_SLICE, PROCESS_DONE

(* A stage that is started after a step had been before or was ready. *)
LEMMA StageStarted ==
  ASSUME TypeInv, StagesTaken, [Next]_vars,
         NEW p \in Pics, NEW c \in Ctu, NEW s \in TaskType, Takes(c, s), Started(p, c, s)'
  PROVE  Started(p, c, s) \/ (State(p, c) = s /\ StageAllowed(p, c, s) /\ p \in conf.pics)
<1>1. State(p, c) \in TaskType
  BY DEF TypeInv, TypeOK, State
<1>2. ASSUME NEW q \in Pics, NEW d \in Ctu, StartStage(q, d)
      PROVE  Started(p, c, s) \/ (State(p, c) = s /\ StageAllowed(p, c, s) /\ p \in conf.pics)
  <2>1. /\ processStates' = processStates /\ running' = running \cup {<<q, d>>}
        /\ Ready(q, d) /\ q \in conf.pics
    BY <1>2 DEF StartStage
  <2>2. Started(p, c, s) \/ (State(p, c) = s /\ Ready(p, c) /\ p \in conf.pics)
    BY <2>1 DEF Started, State
  <2>3. QED BY <1>1, <2>2, ReadyIsAllowed
<1>3. ASSUME NEW q \in Pics, NEW d \in Ctu, StageDone(q, d)
      PROVE  Started(p, c, s)
  <2>1. /\ <<q, d>> \in running
        /\ running' = running \ {<<q, d>>}
        /\ State(q, d) \in TaskType /\ State(q, d) < PROCESS_DONE
        /\ processStates'[p][c] = IF p = q /\ c = d THEN NextState(c, State(p, c))
                                  ELSE State(p, c)
    BY <1>3, StageDoneEffect
  <2>2. processStates'[p][c] > s \/ (processStates'[p][c] = s /\ <<p, c>> \in running')
    BY DEF Started, State
  <2>3. CASE p = q /\ c = d
    <3>1. NextState(c, State(p, c)) > s
      BY <2>1, <2>2, <2>3
    <3>2. Takes(c, State(p, c))
      BY <2>1, <2>3 DEF StagesTaken, PROCESS_DONE
    <3>3. State(p, c) >= s
      BY <1>1, <3>1, <3>2, NextStateTakes
    <3>4. QED BY <1>1, <2>1, <2>3, <3>3, Stages DEF Started
  <2>4. CASE ~(p = q /\ c = d)
    BY <2>1, <2>2, <2>4 DEF Started
  <2>5. QED BY <2>3, <2>4
<1>4. CASE UNCHANGED vars
  BY <1>4 DEF vars, Started, State
<1>5. QED BY <1>2, <1>3, <1>4 DEF Next

(* The neighbour on the left of a CTU, and that SAO has been there. *)
LEMMA LeftNeighbour ==
  ASSUME NEW c \in Ctu, NEW d \in Ctu, d[2] = c[2], d[1] < c[1]
  PROVE  /\ Nb(c, -1, 0) \in Ctu
         /\ Nb(c, -1, 0)[2] = c[2]
         /\ d = Nb(c, -1, 0) \/ d[1] < Nb(c, -1, 0)[1]
<1>1. /\ c[1] \in X /\ c[2] \in Y /\ d[1] \in X /\ d[2] \in Y
      /\ d = <<d[1], d[2]>>
  BY DEF Ctu
<1>2. c[1] - 1 \in X /\ c[2] + 0 = c[2] /\ (d[1] = c[1] - 1 \/ d[1] < c[1] - 1)
  BY <1>1, SizeAssumption DEF X, Y
<1>3. Nb(c, -1, 0) = <<c[1] - 1, c[2]>>
  BY <1>1, <1>2, SizeAssumption DEF Nb, X
<1>4. QED BY <1>1, <1>2, <1>3 DEF Ctu

LEMMA SaoLeftAllowed ==
  ASSUME FilterInv, NEW p \in Pics, NEW c \in Ctu, StageAllowed(p, c, SAO_FILTER),
         NEW d \in Ctu, d[2] = c[2], d[1] < c[1]
  PROVE  State(p, d) > SAO_FILTER
<1> DEFINE left == Nb(c, -1, 0)
<1>1. left \in Ctu /\ left[2] = c[2] /\ (d = left \/ d[1] < left[1])
  BY LeftNeighbour
<1>2. ~NbBehind(p, c, -1, 0, SAO_FILTER)
  BY DEF StageAllowed, SAO_FILTER, CTU_ENCODE
<1>3. State(p, left) > SAO_FILTER
  <2>1. State(p, left) \in TaskType
    BY <1>1 DEF FilterInv, TypeInv, TypeOK, State
  <2>2. ~(State(p, left) <= SAO_FILTER)
    BY <1>1, <1>2 DEF NbBehind
  <2>3. QED BY <2>1, <2>2, Stages DEF SAO_FILTER
<1>4. Started(p, left, SAO_FILTER)
  BY <1>3 DEF Started
<1>5. QED BY <1>1, <1>3, <1>4 DEF FilterInv, SaoLeft

(* The invariant of the filters: it holds initially, when nothing is       *)
(* started, and every step keeps it.                                       *)
LEMMA FilterInvariant == Spec => []FilterInv
<1>1. Init => FilterInv
  <2> SUFFICES ASSUME Init PROVE FilterInv
    OBVIOUS
  <2>1. TypeInv
    BY SizeAssumption DEF Init, TypeInv, TypeOK, RunningNotDone, State, TaskType, CTU_ENCODE,
       SAO_FILTER, PROCESS_DONE
  <2>2. \A p \in Pics, c \in Ctu : State(p, c) = CTU_ENCODE
    BY DEF Init, State
  <2>3. \A p \in Pics, c \in Ctu, s \in TaskType : ~Started(p, c, s)
    BY <2>2 DEF Init, Started, TaskType, CTU_ENCODE, PROCESS_DONE
  <2>4. QED BY <2>1, <2>2, <2>3, Stages DEF FilterInv, StagesTaken, Takes, Allowed, SaoLeft
<1>2. FilterInv /\ TypeInv' /\ [Next]_vars => FilterInv'
  <2> SUFFICES ASSUME FilterInv, TypeInv', [Next]_vars PROVE FilterInv'
    OBVIOUS
  <2>1. Grows
    BY StepGrows DEF FilterInv
  <2>2. \A c, s : Takes(c, s)' <=> Takes(c, s)
    BY <2>1, SameGeometry DEF Takes
  <2>3. StagesTaken'
    <3>1. ASSUME NEW p \in Pics, NEW c \in Ctu, StartStage(p, c) PROVE StagesTaken'
      BY <2>2, <3>1 DEF StartStage, FilterInv, StagesTaken, State
    <3>2. ASSUME NEW p \in Pics, NEW c \in Ctu, StageDone(p, c) PROVE StagesTaken'
      <4>1. /\ State(p, c) \in TaskType /\ State(p, c) < PROCESS_DONE
            /\ \A q \in Pics, d \in Ctu :
                 processStates'[q][d] = IF q = p /\ d = c THEN NextState(c, State(p, c))
                                        ELSE State(q, d)
        BY <3>2, StageDoneEffect, ZenonT(60) DEF FilterInv
      <4>2. Takes(c, State(p, c))
        BY <4>1 DEF FilterInv, StagesTaken, PROCESS_DONE
      <4>3. NextState(c, State(p, c)) = PROCESS_DONE \/ Takes(c, NextState(c, State(p, c)))
        BY <4>1, <4>2, NextStateTakes
      <4>4. ASSUME NEW q \in Pics, NEW d \in Ctu
            PROVE  processStates'[q][d] = PROCESS_DONE \/ Takes(d, processStates'[q][d])
        BY <4>1, <4>3 DEF FilterInv, StagesTaken
      <4>5. ASSUME NEW q \in Pics, NEW d \in Ctu
            PROVE  State(q, d)' = PROCESS_DONE \/ Takes(d, State(q, d))'
        BY <2>1, <4>4, SameGeometry DEF Takes, State
      <4>6. QED BY <4>5 DEF StagesTaken
    <3>3. CASE UNCHANGED vars
      BY <2>2, <3>3 DEF vars, FilterInv, StagesTaken, State
    <3>4. QED BY <3>1, <3>2, <3>3 DEF Next
  <2>4. Allowed'
    <3> SUFFICES ASSUME NEW p \in Pics, NEW c \in Ctu, NEW s \in TaskType,
                        Takes(c, s)', Started(p, c, s)'
                 PROVE  StageAllowed(p, c, s)'
      BY DEF Allowed
    <3>1. Takes(c, s)
      BY <2>2
    <3>2. StageAllowed(p, c, s)
      BY <3>1, StageStarted DEF FilterInv, Allowed
    <3>3. QED BY <2>1, <3>2, AllowedStable DEF FilterInv
  <2>5. SaoLeft'
    <3> SUFFICES ASSUME NEW p \in Pics, NEW c \in Ctu, Started(p, c, SAO_FILTER)',
                        NEW d \in Ctu, d[2] = c[2], d[1] < c[1]
                 PROVE  State(p, d)' > SAO_FILTER
      BY DEF SaoLeft
    <3>1. Takes(c, SAO_FILTER) /\ SAO_FILTER \in TaskType
      BY Stages DEF Takes
    <3>2. State(p, d) > SAO_FILTER
      <4>1. CASE Started(p, c, SAO_FILTER)
        BY <4>1 DEF FilterInv, SaoLeft
      <4>2. CASE StageAllowed(p, c, SAO_FILTER)
        BY <4>2, SaoLeftAllowed
      <4>3. QED BY <3>1, <4>1, <4>2, StageStarted DEF FilterInv
    <3>3. QED BY <2>1, <3>1, <3>2, StatePassed
  <2>6. QED BY <2>3, <2>4, <2>5 DEF FilterInv
<1>3. QED BY <1>1, <1>2, TypeInvariant, PTL DEF Spec

-----------------------------------------------------------------------------
(* What the filters read is finished. *)

(* A neighbour that is not behind is past the stage. *)
LEMMA NbPast ==
  ASSUME FilterInv, NEW p \in Pics, NEW c \in Ctu, NEW dx, NEW dy, NEW s \in TaskType,
         Nb(c, dx, dy) \in Ctu
  PROVE  /\ ~NbBehind(p, c, dx, dy, s) => State(p, Nb(c, dx, dy)) > s
         /\ ~FilterNbBehind(p, c, dx, dy, s) /\ CanFilterCtuBdry(c, Nb(c, dx, dy))
              => State(p, Nb(c, dx, dy)) > s
<1> DEFINE d == Nb(c, dx, dy)
<1>1. State(p, d) \in TaskType
  BY DEF FilterInv, TypeInv, TypeOK, State
<1>2. ~(State(p, d) <= s) => State(p, d) > s
  BY <1>1 DEF TaskType, CTU_ENCODE, PROCESS_DONE
<1>3. QED BY <1>2 DEF NbBehind, FilterNbBehind

(* A CTU one column and one line away at most is a neighbour, and one on   *)
(* the left is a neighbour of the left neighbour too.                      *)
LEMMA NbOf ==
  ASSUME NEW c \in Ctu, NEW d \in Around(c)
  PROVE  /\ \E dx \in -1 .. 1, dy \in -1 .. 1 : d = Nb(c, dx, dy)
         /\ \A dy \in -1 .. 1 : d = Nb(c, -1, dy) =>
              Nb(c, -1, 0) \in Ctu /\ d = Nb(Nb(c, -1, 0), 0, dy)
<1>1. /\ d \in Ctu /\ c[1] \in X /\ c[2] \in Y /\ d[1] \in X /\ d[2] \in Y
      /\ c = <<c[1], c[2]>> /\ d = <<d[1], d[2]>>
      /\ d[1] - c[1] \in -1 .. 1 /\ d[2] - c[2] \in -1 .. 1
  BY DEF Ctu, Around
<1>2. c[1] \in Int /\ c[2] \in Int /\ d[1] \in Int /\ d[2] \in Int
  BY <1>1, SizeAssumption DEF X, Y
<1>3. d = Nb(c, d[1] - c[1], d[2] - c[2])
  BY <1>1, <1>2 DEF Nb
<1>4. ASSUME NEW dy \in -1 .. 1, d = Nb(c, -1, dy)
      PROVE  Nb(c, -1, 0) \in Ctu /\ d = Nb(Nb(c, -1, 0), 0, dy)
  <2>1. d[1] = c[1] - 1 /\ d[2] = c[2] + dy
    BY <1>2, <1>4 DEF Nb
  <2>2. Nb(c, -1, 0) = <<d[1], c[2]>>
    BY <1>2, <2>1 DEF Nb
  <2>3. d[1] + 0 = d[1]
    BY <1>2
  <2>4. QED BY <1>1, <1>2, <2>1, <2>2, <2>3 DEF Nb, Ctu
<1>5. QED BY <1>1, <1>3, <1>4

(* What SAO found, its guard and the order of the line together. *)
LEMMA SaoHeld ==
  ASSUME FilterInv, NEW p \in Pics, NEW c \in Ctu, Started(p, c, SAO_FILTER)
  PROVE  SaoReady(p, c) /\ ~NbBehind(p, c, -1, 0, SAO_FILTER)
<1>1. Takes(c, SAO_FILTER) /\ SAO_FILTER \in TaskType
  BY Stages DEF Takes
<1>2. StageAllowed(p, c, SAO_FILTER)
  BY <1>1 DEF FilterInv, Allowed
<1>3. QED BY <1>2 DEF StageAllowed, SAO_FILTER, CTU_ENCODE

LEMMA SaoAround ==
  ASSUME FilterInv, NEW p \in Pics, NEW c \in Ctu, Started(p, c, SAO_FILTER), NEW d \in Around(c)
  PROVE  State(p, d) > LF_HOR
<1>1. d \in Ctu /\ State(p, d) \in TaskType
  BY DEF Around, FilterInv, TypeInv, TypeOK, State
<1>2. PICK dx \in -1 .. 1, dy \in -1 .. 1 : d = Nb(c, dx, dy)
  BY NbOf
<1>3. State(p, d) > SAO_FILTER => State(p, d) > LF_HOR
  BY <1>1, Stages DEF SAO_FILTER, LF_HOR
<1>4. SaoReady(p, c) /\ ~NbBehind(p, c, -1, 0, SAO_FILTER)
  BY SaoHeld
<1>5. CASE dx = 0 /\ dy = 0
  <2>1. d = c
    <3>1. c[1] \in Int /\ c[2] \in Int /\ c = <<c[1], c[2]>>
      BY SizeAssumption DEF Ctu, X, Y
    <3>2. QED BY <1>2, <1>5, <3>1 DEF Nb
  <2>2. QED BY <1>1, <2>1, Stages DEF Started, SAO_FILTER, LF_HOR
<1>6. CASE dx \in {0, 1} /\ dy = -1
  BY <1>1, <1>2, <1>3, <1>4, <1>6, NbPast, Stages DEF SaoReady
<1>7. CASE \/ dx = 1 /\ dy \in {0, 1}
           \/ dx = 0 /\ dy = 1
  BY <1>1, <1>2, <1>4, <1>7, NbPast, Stages DEF SaoReady
<1>8. CASE dx = -1
  <2> DEFINE left == Nb(c, -1, 0)
  <2>1. left \in Ctu /\ d = Nb(left, 0, dy)
    BY <1>2, <1>8, NbOf
  <2>2. State(p, left) > SAO_FILTER
    BY <1>4, <2>1, NbPast, Stages
  <2>3. Started(p, left, SAO_FILTER)
    BY <2>2 DEF Started
  <2> HIDE DEF left
  <2>4. SaoReady(p, left)
    BY <2>1, <2>3, SaoHeld
  <2>5. CASE dy = 0
    BY <1>2, <1>3, <1>8, <2>2, <2>5 DEF left
  <2>6. CASE dy \in {-1, 1}
    BY <1>1, <1>3, <2>1, <2>4, <2>6, NbPast, Stages DEF SaoReady
  <2>7. QED BY <2>5, <2>6
<1>9. QED BY <1>5, <1>6, <1>7, <1>8

(* SAO has been everywhere in a line up to a CTU that it has passed, and   *)
(* in the line above up to the next one.                                   *)
LEMMA SaoLine ==
  ASSUME FilterInv, NEW p \in Pics, NEW c \in Ctu, State(p, c) > SAO_FILTER,
         NEW d \in Ctu, d[2] = c[2], d[1] <= c[1]
  PROVE  State(p, d) > SAO_FILTER
<1>1. Started(p, c, SAO_FILTER)
  BY DEF Started
<1>2. d = c \/ d[1] < c[1]
  <2>1. /\ c[1] \in X /\ c[2] \in Y /\ d[1] \in X /\ d[2] \in Y
        /\ c = <<c[1], c[2]>> /\ d = <<d[1], d[2]>>
    BY DEF Ctu
  <2>2. d[1] = c[1] \/ d[1] < c[1]
    BY <2>1, SizeAssumption DEF X
  <2>3. QED BY <2>1, <2>2
<1>3. QED BY <1>1, <1>2 DEF FilterInv, SaoLeft

LEMMA SaoAbove ==
  ASSUME FilterInv, NEW p \in Pics, NEW c \in Ctu, Started(p, c, SAO_FILTER),
         NEW d \in Ctu, d[2] = c[2] - 1, d[1] <= c[1] + 1
  PROVE  State(p, d) > SAO_FILTER
<1>1. /\ c[1] \in X /\ c[2] \in Y /\ d[1] \in X /\ d[2] \in Y
      /\ c[1] \in Int /\ c[2] \in Int /\ d[1] \in Int
  BY SizeAssumption DEF Ctu, X, Y
<1>2. SaoReady(p, c)
  BY SaoHeld
<1>3. CASE d[1] <= c[1]
  <2> DEFINE up == Nb(c, 0, -1)
  <2>1. up = <<c[1], d[2]>> /\ up \in Ctu
    BY <1>1 DEF Nb, Ctu
  <2>2. State(p, up) > SAO_FILTER
    BY <1>2, <2>1, NbPast, Stages DEF SaoReady
  <2>3. up[1] = c[1] /\ up[2] = d[2]
    BY <2>1
  <2> HIDE DEF up
  <2>4. QED BY <1>3, <2>1, <2>2, <2>3, SaoLine
<1>4. CASE d[1] = c[1] + 1
  <2>1. d = Nb(c, 1, -1)
    BY <1>1, <1>4 DEF Nb, Ctu
  <2>2. QED BY <1>2, <2>1, NbPast, Stages DEF SaoReady
<1>5. QED BY <1>1, <1>3, <1>4

(* A CTU of a line of tiles lies at or before its last one. *)
LEMMA TileLineBefore ==
  ASSUME TypeInv, NEW c \in Ctu, LastInTileLine(c), NEW t \in TileLine(c)
  PROVE  /\ t \in Ctu /\ t[2] = c[2] /\ t[1] <= c[1]
         /\ conf.lastCol[t[1]] = c[1] /\ conf.lastCol[c[1]] = c[1]
<1>1. /\ t \in Ctu /\ t[2] = c[2] /\ conf.lastCol[t[1]] = conf.lastCol[c[1]]
      /\ t[1] \in X /\ c[1] \in X
  BY DEF TileLine, Ctu
<1>2. t[1] <= conf.lastCol[c[1]]
  BY <1>1, TileColumns
<1>3. QED BY <1>1, <1>2 DEF LastInTileLine

(* When the ALF statistics of a line of a tile are taken, SAO has passed   *)
(* every CTU that the line is filtered with: the guard looks to the right  *)
(* and below, the order of SAO gives the line itself and the one above.    *)
LEMMA LineNbsPast ==
  ASSUME FilterInv, NEW p \in Pics, NEW c \in Ctu, LastInTileLine(c),
         Started(p, c, ALF_GET_STATISTICS), NEW d \in LineNbs(c)
  PROVE  State(p, d) > SAO_FILTER
<1>1. PICK t \in TileLine(c) : d \in Around(t) /\ CanFilterCtuBdry(t, d)
  BY DEF LineNbs, FilterNbs
<1>2. /\ t \in Ctu /\ t[2] = c[2] /\ t[1] <= c[1] /\ conf.lastCol[t[1]] = c[1]
      /\ conf.lastCol[c[1]] = c[1]
  BY TileLineBefore DEF FilterInv
<1>3. /\ d \in Ctu /\ d = <<d[1], d[2]>> /\ c = <<c[1], c[2]>> /\ t = <<t[1], t[2]>>
      /\ c[1] \in X /\ c[2] \in Y /\ d[1] \in X /\ d[2] \in Y /\ t[1] \in X
      /\ c[1] \in Int /\ c[2] \in Int /\ d[1] \in Int /\ d[2] \in Int /\ t[1] \in Int
  BY <1>1, <1>2, SizeAssumption DEF Around, Ctu, X, Y
<1>4. d[1] <= t[1] + 1 /\ d[1] <= c[1] + 1 /\ d[2] \in {c[2] - 1, c[2], c[2] + 1}
  BY <1>1, <1>2, <1>3 DEF Around
<1>5. State(p, c) \in TaskType /\ State(p, c) > SAO_FILTER
  <2>1. State(p, c) \in TaskType
    BY DEF FilterInv, TypeInv, TypeOK, State
  <2>2. QED BY <2>1, Stages DEF Started, ALF_GET_STATISTICS, SAO_FILTER
<1>6. AlfStatReady(p, c)
  <2>1. Takes(c, ALF_GET_STATISTICS) /\ ALF_GET_STATISTICS \in TaskType
    BY Stages DEF Takes
  <2>2. StageAllowed(p, c, ALF_GET_STATISTICS)
    BY <2>1 DEF FilterInv, Allowed
  <2>3. QED BY <2>2 DEF StageAllowed
<1>7. CASE d[2] = c[2] - 1
  <2>1. Started(p, c, SAO_FILTER)
    BY <1>5 DEF Started
  <2>2. QED BY <1>3, <1>4, <1>7, <2>1, SaoAbove
<1>8. CASE d[1] = c[1] + 1 /\ d[2] # c[2] - 1
  <2>1. t = c
    BY <1>2, <1>3, <1>4, <1>8
  <2>2. d = Nb(c, 1, 0) \/ d = Nb(c, 1, 1)
    BY <1>3, <1>4, <1>8 DEF Nb
  <2>3. QED BY <1>1, <1>3, <1>6, <2>1, <2>2, NbPast, Stages DEF AlfStatReady, FilterNbBehind
<1>9. CASE d[1] <= c[1] /\ d[2] = c[2]
  BY <1>3, <1>5, <1>9, SaoLine
<1>10. CASE d[1] <= c[1] /\ d[2] = c[2] + 1
  <2> DEFINE down == Nb(c, 0, 1)
  <2>1. down = <<c[1], d[2]>> /\ down \in Ctu /\ down[1] = c[1] /\ down[2] = d[2]
    BY <1>3, <1>10 DEF Nb, Ctu
  <2>2. CanFilterCtuBdry(c, down)
    BY <1>1, <1>2, <2>1 DEF CanFilterCtuBdry, SameTile
  <2>3. State(p, down) > SAO_FILTER
    BY <1>6, <2>1, <2>2, NbPast, Stages DEF AlfStatReady
  <2> HIDE DEF down
  <2>4. QED BY <1>3, <1>10, <2>1, <2>3, SaoLine
<1>11. QED BY <1>3, <1>4, <1>7, <1>8, <1>9, <1>10

(* The last CTU of the line of a tile that a CTU lies in. *)
LineEnd(d) == <<conf.lastCol[d[1]], d[2]>>

LEMMA LineEndIsLast ==
  ASSUME TypeInv, NEW d \in Ctu
  PROVE  /\ LineEnd(d) \in Ctu /\ LastInTileLine(LineEnd(d))
         /\ LineEnd(d)[1] = conf.lastCol[d[1]] /\ LineEnd(d)[2] = d[2]
         /\ d[1] <= LineEnd(d)[1]
         /\ LastInTileLine(d) => LineEnd(d) = d
<1>1. /\ conf.lastCol \in [X -> X] /\ IsTiling(conf.lastCol, Cols)
      /\ d[1] \in X /\ d[2] \in Y /\ d = <<d[1], d[2]>>
  BY ConfigsAssumption DEF TypeInv, TypeOK, ConfigType, Ctu
<1>2. conf.lastCol[d[1]] \in X /\ d[1] <= conf.lastCol[d[1]]
  BY <1>1 DEF IsTiling, X
<1>3. conf.lastCol[conf.lastCol[d[1]]] = conf.lastCol[d[1]]
  <2>1. \A k \in X : d[1] <= k /\ k <= conf.lastCol[d[1]] => conf.lastCol[k] = conf.lastCol[d[1]]
    BY <1>1, TileColumns
  <2>2. \A k \in X : k <= k
    BY SizeAssumption DEF X
  <2>3. QED BY <1>2, <2>1, <2>2
<1>4. QED BY <1>1, <1>2, <1>3 DEF LineEnd, Ctu, LastInTileLine

(* A CTU is past a filter stage with the last one of its line: it is done  *)
(* since it passed SAO.                                                    *)
LEMMA PastWithLineEnd ==
  ASSUME FilterInv, NEW p \in Pics, NEW d \in Ctu, NEW s \in TaskType,
         SAO_FILTER < s, s < PROCESS_DONE, State(p, LineEnd(d)) > s
  PROVE  State(p, d) > s
<1>1. /\ LineEnd(d) \in Ctu /\ LineEnd(d)[2] = d[2] /\ d[1] <= LineEnd(d)[1]
      /\ LastInTileLine(d) => LineEnd(d) = d
  BY LineEndIsLast DEF FilterInv
<1>2. CASE LastInTileLine(d)
  BY <1>1, <1>2
<1>3. CASE ~LastInTileLine(d)
  <2>1. State(p, LineEnd(d)) \in TaskType
    BY <1>1 DEF FilterInv, TypeInv, TypeOK, State
  <2>2. State(p, LineEnd(d)) > SAO_FILTER
    BY <2>1, Stages DEF SAO_FILTER, PROCESS_DONE
  <2>3. State(p, d) > SAO_FILTER
    BY <1>1, <2>2, SaoLine
  <2>4. State(p, d) = PROCESS_DONE
    BY <1>3, <2>3 DEF FilterInv, TypeInv, TypeOK, SAO_FILTER, State, TaskType, CTU_ENCODE, PROCESS_DONE
  <2>5. QED BY <2>4
<1>4. QED BY <1>2, <1>3

(* The filters are derived when every line they are derived from has its   *)
(* statistics, and no line is filtered before.                             *)
LEMMA StatisticsComplete ==
  ASSUME FilterInv
  PROVE  FilterAfterStatistics
<1> SUFFICES ASSUME NEW p \in Pics, NEW c \in Ctu, LastInTileLine(c)
             PROVE
    /\ Started(p, c, ALF_RECONSTRUCT) =>
         \A d \in Ctu : (d = c \/ d[2] <= AlfDeriveCtu[2]) => State(p, d) > ALF_GET_STATISTICS
    /\ Started(p, c, CCALF_RECONSTRUCT) =>
         \A d \in Ctu : (d = c \/ d[2] <= CcalfDeriveCtu[2]) => State(p, d) > CCALF_GET_STATISTICS
  BY DEF FilterAfterStatistics
<1>1. \A d \in Ctu : State(p, d) \in TaskType
  BY DEF FilterInv, TypeInv, TypeOK, State
<1>2. /\ AlfDeriveCtu \in Ctu /\ LastInTileLine(AlfDeriveCtu)
      /\ CcalfDeriveCtu \in Ctu /\ LastInTileLine(CcalfDeriveCtu)
  BY DeriveCtus DEF FilterInv
<1>3. \A d \in Ctu : ~Before(d, d)
  BY SizeAssumption DEF Before, Ctu, X, Y
<1>4. \A d \in Ctu : LineEnd(d) \in Ctu /\ LastInTileLine(LineEnd(d)) /\ LineEnd(d)[2] = d[2]
  BY LineEndIsLast DEF FilterInv
<1>5. ASSUME Started(p, c, ALF_RECONSTRUCT), NEW d \in Ctu, d = c \/ d[2] <= AlfDeriveCtu[2]
      PROVE  State(p, d) > ALF_GET_STATISTICS
  <2>1. Takes(c, ALF_RECONSTRUCT) /\ Takes(AlfDeriveCtu, ALF_DERIVE_FILTER)
    BY <1>2, <1>3 DEF Takes
  <2>2. AlfReconReady(p, c)
    BY <1>5, <2>1, Stages DEF FilterInv, Allowed, StageAllowed
  <2>3. State(p, AlfDeriveCtu) > ALF_DERIVE_FILTER
    BY <1>1, <1>2, <2>2, Stages DEF AlfReconReady, ALF_RECONSTRUCT, ALF_DERIVE_FILTER
  <2>4. AlfDeriveReady(p, AlfDeriveCtu)
    BY <1>2, <2>1, <2>3, Stages DEF FilterInv, Allowed, StageAllowed, Started
  <2>5. LinesPast(p, AlfDeriveCtu[2], ALF_GET_STATISTICS)
    BY <2>4 DEF AlfDeriveReady
  <2>6. CASE d = c
    BY <1>1, <1>5, <2>6, Stages DEF Started, ALF_RECONSTRUCT, ALF_GET_STATISTICS
  <2>7. CASE d[2] <= AlfDeriveCtu[2]
    <3>1. State(p, LineEnd(d)) > ALF_GET_STATISTICS
      BY <1>4, <2>5, <2>7 DEF LinesPast
    <3>2. QED BY <3>1, PastWithLineEnd, Stages DEF SAO_FILTER, ALF_GET_STATISTICS, PROCESS_DONE
  <2>8. QED BY <1>5, <2>6, <2>7
<1>6. ASSUME Started(p, c, CCALF_RECONSTRUCT), NEW d \in Ctu, d = c \/ d[2] <= CcalfDeriveCtu[2]
      PROVE  State(p, d) > CCALF_GET_STATISTICS
  <2>1. Takes(c, CCALF_RECONSTRUCT) /\ Takes(CcalfDeriveCtu, CCALF_DERIVE_FILTER)
    BY <1>2, <1>3 DEF Takes
  <2>2. CcalfReconReady(p, c)
    BY <1>6, <2>1, Stages DEF FilterInv, Allowed, StageAllowed
  <2>3. State(p, CcalfDeriveCtu) > CCALF_DERIVE_FILTER
    BY <1>1, <1>2, <2>2, Stages DEF CcalfReconReady, CCALF_RECONSTRUCT, CCALF_DERIVE_FILTER
  <2>4. CcalfDeriveReady(p, CcalfDeriveCtu)
    BY <1>2, <2>1, <2>3, Stages DEF FilterInv, Allowed, StageAllowed, Started
  <2>5. LinesPast(p, CcalfDeriveCtu[2], CCALF_GET_STATISTICS)
    BY <2>4 DEF CcalfDeriveReady
  <2>6. CASE d = c
    BY <1>1, <1>6, <2>6, Stages DEF Started, CCALF_RECONSTRUCT, CCALF_GET_STATISTICS
  <2>7. CASE d[2] <= CcalfDeriveCtu[2]
    <3>1. State(p, LineEnd(d)) > CCALF_GET_STATISTICS
      BY <1>4, <2>5, <2>7 DEF LinesPast
    <3>2. QED BY <3>1, PastWithLineEnd, Stages DEF SAO_FILTER, CCALF_GET_STATISTICS, PROCESS_DONE
  <2>8. QED BY <1>6, <2>6, <2>7
<1>7. QED BY <1>5, <1>6

(* SAO finds deblocked samples and ALF finds samples after SAO on all      *)
(* sides, and no line is filtered before the statistics it needs, although *)
(* the guards look at a few neighbours only.                               *)
THEOREM FiltersFindFinishedInput == Spec => []FiltersSeeFinishedInput
<1>1. FilterInv => FiltersSeeFinishedInput
  BY SaoAround, LineNbsPast, StatisticsComplete DEF FiltersSeeFinishedInput
<1>2. QED BY <1>1, FilterInvariant, PTL

-----------------------------------------------------------------------------
(* The counters of finished lines.  Picture::m_tileColsDone counts the     *)
(* tiles whose part of a line has left CCALF, each once, and with IFP one  *)
(* more when the line is complete; a picture that predicts from this one   *)
(* reads the counter of one line, and only at the start of its own lines.  *)

(* The last columns of the tiles, and those that are done in a line. *)
LastCols == {x \in X : conf.lastCol[x] = x}

DoneCols(p, y) == {x \in LastCols : State(p, <<x, y>>) > CCALF_RECONSTRUCT}

(* The counter of a line counts its tiles, and the announcement.           *)
CountersExact ==
  \A p \in Pics, y \in Y :
    LET n == Cardinality(DoneCols(p, y))
    IN  tileColsDone[p][y] = IF n = NumTileCols /\ conf.ifpLines > 0 THEN n + 1 ELSE n

(* In a picture with one row of tiles and IFP, lines leave CCALF from the  *)
(* top to the bottom.                                                      *)
CcalfDownwards ==
  conf.ifpLines > 0 /\ conf.lastRow[0] = Rows - 1 =>
    \A p \in Pics, c \in Ctu : LastInTileLine(c) /\ Started(p, c, CCALF_RECONSTRUCT) =>
      \A d \in Ctu : d[1] = c[1] /\ d[2] < c[2] => State(p, d) > CCALF_RECONSTRUCT

(* A CTU is encoded when the lines it may refer to are final. *)
ReferencesFinal ==
  conf.ifpLines > 0 =>
    \A p \in Pics, c \in Ctu : Started(p, c, CTU_ENCODE) =>
      \A q \in Refs[p], d \in Ctu :
        d[2] <= Min2(c[2] + conf.ifpLines, Rows - 1) => State(q, d) >= FINISH_SLICE

LineInv == FilterInv /\ CountersExact /\ CcalfDownwards /\ ReferencesFinal

-----------------------------------------------------------------------------
(* There are as many tile columns as last columns of tiles. *)
LEMMA TileColsCount ==
  ASSUME TypeInv
  PROVE  /\ LastCols = {conf.lastCol[x] : x \in X}
         /\ IsFiniteSet(LastCols) /\ NumTileCols = Cardinality(LastCols) /\ NumTileCols \in Nat
<1>1. conf.lastCol \in [X -> X]
  BY ConfigsAssumption DEF TypeInv, TypeOK, ConfigType
<1>2. ASSUME NEW x \in X PROVE conf.lastCol[conf.lastCol[x]] = conf.lastCol[x]
  <2>1. conf.lastCol[x] \in X /\ x <= conf.lastCol[x]
    BY <1>1, TileColumns
  <2>2. \A k \in X : x <= k /\ k <= conf.lastCol[x] => conf.lastCol[k] = conf.lastCol[x]
    BY TileColumns
  <2>3. \A k \in X : k <= k
    BY SizeAssumption DEF X
  <2>4. QED BY <2>1, <2>2, <2>3
<1>3. LastCols = {conf.lastCol[x] : x \in X}
  BY <1>1, <1>2 DEF LastCols
<1>4. IsFiniteSet(X)
  BY FS_Interval, SizeAssumption DEF X
<1>5. LastCols \subseteq X
  BY DEF LastCols
<1>6. IsFiniteSet(LastCols) /\ Cardinality(LastCols) \in Nat
  BY <1>4, <1>5, FS_Subset, FS_CardinalityType
<1>7. QED BY <1>3, <1>6 DEF NumTileCols

LEMMA DoneColsCount ==
  ASSUME TypeInv, NEW p \in Pics, NEW y \in Y
  PROVE  /\ IsFiniteSet(DoneCols(p, y)) /\ Cardinality(DoneCols(p, y)) \in Nat
         /\ Cardinality(DoneCols(p, y)) <= NumTileCols
         /\ Cardinality(DoneCols(p, y)) = NumTileCols => DoneCols(p, y) = LastCols
<1>1. DoneCols(p, y) \in SUBSET LastCols
  BY DEF DoneCols
<1>2. QED BY <1>1, TileColsCount, FS_Subset, FS_CardinalityType

(* A last column that is not counted is counted next when its CTU leaves   *)
(* CCALF, and by nothing else.                                             *)
LEMMA DoneColsStep ==
  ASSUME FilterInv, NEW p \in Pics, NEW c \in Ctu, StageDone(p, c),
         NEW q \in Pics, NEW y \in Y
  PROVE  /\ DoneCols(q, y)' =
              IF q = p /\ y = c[2] /\ State(p, c) = CCALF_RECONSTRUCT
              THEN DoneCols(q, y) \cup {c[1]} ELSE DoneCols(q, y)
         /\ State(p, c) = CCALF_RECONSTRUCT =>
              c[1] \in LastCols /\ c[1] \notin DoneCols(p, c[2])
<1>1. /\ <<p, c>> \in running /\ conf' = conf
      /\ State(p, c) \in TaskType /\ State(p, c) < PROCESS_DONE
      /\ \A r \in Pics, d \in Ctu :
           processStates'[r][d] = IF r = p /\ d = c THEN NextState(c, State(p, c))
                                  ELSE State(r, d)
  BY StageDoneEffect DEF FilterInv
<1>2. PICK s \in TaskType : s = State(p, c)
  BY <1>1
<1>3. Takes(c, s)
  BY <1>1, <1>2 DEF FilterInv, StagesTaken, PROCESS_DONE
<1>4. /\ c[1] \in X /\ c[2] \in Y /\ c = <<c[1], c[2]>>
      /\ \A x \in X : <<x, y>> \in Ctu
  BY DEF Ctu
<1>5. s = CCALF_RECONSTRUCT => LastInTileLine(c) /\ NextState(c, s) > CCALF_RECONSTRUCT
  BY <1>3, NextStateLater, Stages DEF Takes, CTU_ENCODE, RESHAPE_LF_VER, LF_HOR, SAO_FILTER,
     CCALF_RECONSTRUCT, PROCESS_DONE
<1>6. s # CCALF_RECONSTRUCT /\ LastInTileLine(c) =>
        (NextState(c, s) > CCALF_RECONSTRUCT <=> s > CCALF_RECONSTRUCT)
  BY <1>3 DEF NextState, Takes, TaskType, CTU_ENCODE, RESHAPE_LF_VER, LF_HOR, SAO_FILTER,
     ALF_GET_STATISTICS, ALF_DERIVE_FILTER, ALF_RECONSTRUCT, CCALF_GET_STATISTICS,
     CCALF_DERIVE_FILTER, CCALF_RECONSTRUCT, FINISH_SLICE, PROCESS_DONE
<1>7. LastCols' = LastCols
  BY <1>1 DEF LastCols
<1>8. \A x \in LastCols : x \in X /\ conf.lastCol[x] = x
  BY DEF LastCols
<1>9. State(p, c) = CCALF_RECONSTRUCT => c[1] \in LastCols /\ c[1] \notin DoneCols(p, c[2])
  BY <1>2, <1>4, <1>5 DEF LastCols, DoneCols, LastInTileLine, CCALF_RECONSTRUCT
<1>10. ASSUME NEW x \in LastCols
       PROVE  processStates'[q][<<x, y>>] > CCALF_RECONSTRUCT <=>
                \/ State(q, <<x, y>>) > CCALF_RECONSTRUCT
                \/ q = p /\ y = c[2] /\ s = CCALF_RECONSTRUCT /\ x = c[1]
  <2>1. CASE q = p /\ <<x, y>> = c
    <3>1. x = c[1] /\ y = c[2] /\ LastInTileLine(c)
      BY <1>8, <2>1 DEF LastInTileLine
    <3>2. processStates'[q][<<x, y>>] = NextState(c, s) /\ State(q, <<x, y>>) = s
      BY <1>1, <1>2, <2>1
    <3>3. CASE s = CCALF_RECONSTRUCT
      BY <1>5, <2>1, <3>1, <3>2, <3>3
    <3>4. CASE s # CCALF_RECONSTRUCT
      BY <1>6, <3>1, <3>2, <3>4
    <3>5. QED BY <3>3, <3>4
  <2>2. CASE ~(q = p /\ <<x, y>> = c)
    <3>1. processStates'[q][<<x, y>>] = State(q, <<x, y>>)
      BY <1>1, <1>4, <1>8, <2>2
    <3>2. QED BY <1>4, <2>2, <3>1
  <2>3. QED BY <2>1, <2>2
<1>11. DoneCols(q, y)' = {x \in LastCols : processStates'[q][<<x, y>>] > CCALF_RECONSTRUCT}
  BY <1>7 DEF DoneCols, State
<1>12. QED BY <1>2, <1>9, <1>10, <1>11 DEF DoneCols

(* The counters stay exact. *)
LEMMA CountersStep ==
  ASSUME FilterInv, CountersExact, [Next]_vars
  PROVE  CountersExact'
<1>1. CASE UNCHANGED vars
  BY <1>1 DEF vars, CountersExact, DoneCols, LastCols, State, NumTileCols
<1>2. ASSUME NEW p \in Pics, NEW c \in Ctu, StartStage(p, c) PROVE CountersExact'
  BY <1>2 DEF StartStage, CountersExact, DoneCols, LastCols, State, NumTileCols
<1>3. ASSUME NEW p \in Pics, NEW c \in Ctu, StageDone(p, c) PROVE CountersExact'
  <2> SUFFICES ASSUME NEW q \in Pics, NEW y \in Y
               PROVE  LET n == Cardinality(DoneCols(q, y)')
                      IN  tileColsDone'[q][y]
                            = IF n = NumTileCols /\ conf.ifpLines > 0 THEN n + 1 ELSE n
    <3>1. NumTileCols' = NumTileCols /\ conf' = conf
      BY <1>3 DEF StageDone, NumTileCols
    <3>2. QED BY <3>1 DEF CountersExact
  <2>1. tileColsDone' = IF State(p, c) = CCALF_RECONSTRUCT
                        THEN [tileColsDone EXCEPT ![p][c[2]] = CountTileCol(@)]
                        ELSE tileColsDone
    BY <1>3 DEF StageDone
  <2>2. tileColsDone \in [Pics -> [Y -> Nat]] /\ c[2] \in Y
    BY DEF FilterInv, TypeInv, TypeOK, Ctu
  <2>3. DoneCols(q, y)' = IF q = p /\ y = c[2] /\ State(p, c) = CCALF_RECONSTRUCT
                          THEN DoneCols(q, y) \cup {c[1]} ELSE DoneCols(q, y)
    BY <1>3, DoneColsStep
  <2> DEFINE n == Cardinality(DoneCols(q, y))
  <2>4. tileColsDone[q][y] = IF n = NumTileCols /\ conf.ifpLines > 0 THEN n + 1 ELSE n
    BY DEF CountersExact
  <2>5. CASE ~(q = p /\ y = c[2] /\ State(p, c) = CCALF_RECONSTRUCT)
    <3>1. DoneCols(q, y)' = DoneCols(q, y)
      BY <2>3, <2>5
    <3>2. tileColsDone'[q][y] = tileColsDone[q][y]
      BY <2>1, <2>2, <2>5
    <3>3. QED BY <2>4, <3>1, <3>2
  <2>6. CASE q = p /\ y = c[2] /\ State(p, c) = CCALF_RECONSTRUCT
    <3>1. c[1] \in LastCols /\ c[1] \notin DoneCols(q, y)
      BY <1>3, <2>6, DoneColsStep
    <3>2. /\ IsFiniteSet(DoneCols(q, y)) /\ n \in Nat /\ n <= NumTileCols
          /\ n = NumTileCols => DoneCols(q, y) = LastCols
      BY DoneColsCount DEF FilterInv
    <3>3. NumTileCols \in Nat
      BY TileColsCount DEF FilterInv
    <3>4. Cardinality(DoneCols(q, y)') = n + 1
      BY <2>3, <2>6, <3>1, <3>2, FS_AddElement, SMTT(30)
    <3>5. tileColsDone'[q][y] = CountTileCol(tileColsDone[q][y])
      BY <2>1, <2>2, <2>6
    <3> HIDE DEF n
    <3>6. n < NumTileCols /\ tileColsDone[q][y] = n
      BY <2>4, <3>1, <3>2, <3>3
    <3>7. QED BY <3>2, <3>3, <3>4, <3>5, <3>6 DEF CountTileCol
  <2>7. QED BY <2>5, <2>6
<1>4. QED BY <1>1, <1>2, <1>3 DEF Next

(* With one row of tiles, a CTU and the one above it are in the same tile. *)
LEMMA OneTileRow ==
  ASSUME TypeInv, conf.lastRow[0] = Rows - 1, NEW y \in Y
  PROVE  conf.lastRow[y] = Rows - 1
<1>1. conf.lastRow \in [Y -> Y] /\ IsTiling(conf.lastRow, Rows)
  BY ConfigsAssumption DEF TypeInv, TypeOK, ConfigType
<1>2. 0 \in 0 .. Rows - 1 /\ y \in 0 .. Rows - 1
  BY SizeAssumption DEF Y
<1>3. \A j \in 0 .. conf.lastRow[0] : conf.lastRow[j] = conf.lastRow[0]
  BY <1>1, <1>2 DEF IsTiling
<1>4. QED BY <1>2, <1>3

LEMMA CcalfAllowedDownwards ==
  ASSUME FilterInv, CcalfDownwards, conf.ifpLines > 0, conf.lastRow[0] = Rows - 1,
         NEW p \in Pics, NEW c \in Ctu, LastInTileLine(c), StageAllowed(p, c, CCALF_RECONSTRUCT),
         NEW d \in Ctu, d[1] = c[1], d[2] < c[2]
  PROVE  State(p, d) > CCALF_RECONSTRUCT
<1> DEFINE up == Nb(c, 0, -1)
<1>1. /\ c[1] \in X /\ c[2] \in Y /\ d[2] \in Y /\ d = <<d[1], d[2]>>
      /\ c[1] \in Int /\ c[2] \in Int /\ d[2] \in Int
  BY SizeAssumption DEF Ctu, X, Y
<1>2. /\ up = <<c[1], c[2] - 1>> /\ up[1] = c[1] /\ up[2] = c[2] - 1
      /\ c[2] - 1 \in Y /\ up \in Ctu
  BY <1>1, SizeAssumption DEF Nb, Ctu, Y
<1>3. SameTile(c, up) /\ LastInTileLine(up)
  BY <1>1, <1>2, OneTileRow DEF SameTile, LastInTileLine, FilterInv
<1>4. State(p, up) > CCALF_RECONSTRUCT
  <2>1. CcalfReconReady(p, c)
    BY DEF StageAllowed
  <2>2. ~FilterNbBehind(p, c, 0, -1, CCALF_RECONSTRUCT)
    BY <2>1 DEF CcalfReconReady
  <2>3. QED BY <1>2, <1>3, <2>2, NbPast, Stages DEF CanFilterCtuBdry
<1> HIDE DEF up
<1>5. CASE d[2] = c[2] - 1
  BY <1>1, <1>2, <1>4, <1>5
<1>6. CASE d[2] < c[2] - 1
  <2>1. Started(p, up, CCALF_RECONSTRUCT)
    BY <1>4 DEF Started
  <2>2. QED BY <1>2, <1>3, <1>6, <2>1 DEF CcalfDownwards
<1>7. QED BY <1>1, <1>5, <1>6

(* A line whose counter exceeds the tiles is final, and so are the lines   *)
(* above it.                                                               *)
LEMMA CounterMeansFinal ==
  ASSUME FilterInv, CountersExact, CcalfDownwards,
         conf.ifpLines > 0, conf.lastRow[0] = Rows - 1,
         NEW q \in Pics, NEW y \in Y, tileColsDone[q][y] >= NumTileCols + 1,
         NEW d \in Ctu, d[2] <= y
  PROVE  State(q, d) >= FINISH_SLICE
<1> DEFINE n == Cardinality(DoneCols(q, y))
           w == LineEnd(d)
           e == <<w[1], y>>
<1>1. DoneCols(q, y) = LastCols
  <2>1. n \in Nat /\ (n = NumTileCols => DoneCols(q, y) = LastCols)
    BY DoneColsCount DEF FilterInv
  <2>2. n <= NumTileCols
    BY DoneColsCount DEF FilterInv
  <2>3. NumTileCols \in Nat
    BY TileColsCount DEF FilterInv
  <2>4. tileColsDone[q][y] = IF n = NumTileCols /\ conf.ifpLines > 0 THEN n + 1 ELSE n
    BY DEF CountersExact
  <2> HIDE DEF n
  <2>5. n = NumTileCols
    BY <2>1, <2>2, <2>3, <2>4
  <2>6. QED BY <2>1, <2>5
<1>2. w \in Ctu /\ LastInTileLine(w) /\ w[2] = d[2] /\ w = <<w[1], w[2]>> /\ w[1] \in X
  BY LineEndIsLast DEF FilterInv, Ctu
<1> HIDE DEF w
<1>3. e \in Ctu /\ LastInTileLine(e) /\ e[1] = w[1] /\ e[2] = y
  BY <1>2 DEF LastInTileLine, Ctu
<1>4. State(q, e) > CCALF_RECONSTRUCT
  <2>1. w[1] \in LastCols
    BY <1>2 DEF LastCols, LastInTileLine
  <2>2. QED BY <1>1, <2>1 DEF DoneCols
<1> HIDE DEF e
<1>5. State(q, w) > CCALF_RECONSTRUCT
  <2>1. CASE w[2] = y
    BY <1>2, <1>4, <2>1 DEF e
  <2>2. CASE w[2] < y
    <3>1. Started(q, e, CCALF_RECONSTRUCT)
      BY <1>4 DEF Started
    <3>2. QED BY <1>2, <1>3, <2>2, <3>1 DEF CcalfDownwards
  <2>3. w[2] = y \/ w[2] < y
    BY <1>2, SizeAssumption DEF Ctu, Y
  <2>4. QED BY <2>1, <2>2, <2>3
<1>6. State(q, d) > CCALF_RECONSTRUCT
  BY <1>5, PastWithLineEnd, Stages DEF w, SAO_FILTER, CCALF_RECONSTRUCT, PROCESS_DONE
<1>7. State(q, d) \in TaskType
  BY DEF FilterInv, TypeInv, TypeOK, State
<1>8. QED BY <1>6, <1>7, Stages DEF CCALF_RECONSTRUCT, FINISH_SLICE

(* The first CTU of a line looks at the counters, the others follow the    *)
(* one on their left.                                                      *)
LEMMA EncodeAllowedFinal ==
  ASSUME LineInv, conf.ifpLines > 0,
         NEW p \in Pics, NEW c \in Ctu, p \in conf.pics, StageAllowed(p, c, CTU_ENCODE),
         NEW q \in Refs[p], NEW d \in Ctu, d[2] <= Min2(c[2] + conf.ifpLines, Rows - 1)
  PROVE  State(q, d) >= FINISH_SLICE
<1>1. CASE LineStart(c)
  <2> DEFINE y == Min2(c[2] + conf.ifpLines, Rows - 1)
  <2>1. y \in Y
    <3>1. conf.ifpLines \in Nat
      BY ConfigsAssumption DEF LineInv, FilterInv, TypeInv, TypeOK, ConfigType
    <3>2. c[2] \in Nat
      BY SizeAssumption DEF Ctu, Y
    <3>3. QED BY <3>1, <3>2, SizeAssumption DEF Min2, Y
  <2>2. tileColsDone[q][y] >= NumTileCols + 1
    <3>1. EncodeReady(p, c)
      BY DEF StageAllowed
    <3>2. RefLineReady(p, c[2] + conf.ifpLines)
      BY <1>1, <3>1 DEF EncodeReady
    <3>3. QED BY <3>2 DEF RefLineReady
  <2>3. conf.lastRow[0] = Rows - 1
    BY IfpAssumption DEF LineInv, FilterInv, TypeInv, TypeOK
  <2>4. q \in Pics
    BY PicsAssumption
  <2> HIDE DEF y
  <2>5. d[2] <= y
    BY DEF y
  <2>6. QED BY <2>1, <2>2, <2>3, <2>4, <2>5, CounterMeansFinal DEF LineInv
<1>2. CASE ~LineStart(c)
  <2> DEFINE left == Nb(c, -1, 0)
  <2>1. left = <<c[1] - 1, c[2]>> /\ left \in Ctu /\ left[2] = c[2]
    BY <1>2, SizeAssumption DEF LineStart, Nb, Ctu, X, Y
  <2>2. ~NbBehind(p, c, -1, 0, CTU_ENCODE)
    BY <1>2 DEF LineStart, StageAllowed
  <2>3. Started(p, left, CTU_ENCODE)
    BY <2>1, <2>2, NbPast, Stages DEF Started, LineInv
  <2> HIDE DEF left
  <2>4. QED BY <2>1, <2>3 DEF LineInv, ReferencesFinal
<1>3. QED BY <1>1, <1>2

LEMMA LineInvariant == Spec => []LineInv
<1>1. Init /\ FilterInv => LineInv
  <2> SUFFICES ASSUME Init, FilterInv PROVE LineInv
    OBVIOUS
  <2>1. \A p \in Pics, c \in Ctu, s \in TaskType : ~Started(p, c, s)
    BY DEF Init, Started, State, TaskType, CTU_ENCODE, PROCESS_DONE
  <2>2. CountersExact
    <3> SUFFICES ASSUME NEW p \in Pics, NEW y \in Y
                 PROVE  LET n == Cardinality(DoneCols(p, y))
                        IN  tileColsDone[p][y]
                              = IF n = NumTileCols /\ conf.ifpLines > 0 THEN n + 1 ELSE n
      BY DEF CountersExact
    <3>1. DoneCols(p, y) = {} /\ tileColsDone[p][y] = 0
      BY DEF DoneCols, LastCols, Init, State, Ctu, CTU_ENCODE, CCALF_RECONSTRUCT
    <3>2. Cardinality(DoneCols(p, y)) = 0
      BY <3>1, FS_EmptySet
    <3>3. NumTileCols # 0
      <4>1. IsFiniteSet(LastCols) /\ NumTileCols = Cardinality(LastCols)
            /\ LastCols = {conf.lastCol[x] : x \in X}
        BY TileColsCount DEF FilterInv
      <4>2. 0 \in X
        BY SizeAssumption DEF X
      <4>3. LastCols # {}
        BY <4>1, <4>2
      <4>4. QED BY <4>1, <4>3, FS_EmptySet
    <3>4. QED BY <3>1, <3>2, <3>3
  <2>3. QED BY <2>1, <2>2, Stages DEF LineInv, CcalfDownwards, ReferencesFinal
<1>2. LineInv /\ FilterInv' /\ [Next]_vars => LineInv'
  <2> SUFFICES ASSUME LineInv, FilterInv', [Next]_vars PROVE LineInv'
    OBVIOUS
  <2>0. FilterInv /\ TypeInv /\ StagesTaken
    BY DEF LineInv, FilterInv
  <2>1. Grows /\ conf' = conf
    BY <2>0, StepGrows DEF Grows
  <2>2. CountersExact'
    BY <2>0, CountersStep DEF LineInv
  <2>3. CcalfDownwards'
    <3> SUFFICES ASSUME conf.ifpLines > 0, conf.lastRow[0] = Rows - 1,
                        NEW p \in Pics, NEW c \in Ctu, LastInTileLine(c),
                        Started(p, c, CCALF_RECONSTRUCT)',
                        NEW d \in Ctu, d[1] = c[1], d[2] < c[2]
                 PROVE  State(p, d)' > CCALF_RECONSTRUCT
      BY <2>1, SameGeometry DEF CcalfDownwards
    <3>1. Takes(c, CCALF_RECONSTRUCT) /\ CCALF_RECONSTRUCT \in TaskType
      BY Stages DEF Takes
    <3>2. CASE Started(p, c, CCALF_RECONSTRUCT)
      BY <2>1, <3>1, <3>2, StatePassed DEF LineInv, CcalfDownwards
    <3>3. CASE StageAllowed(p, c, CCALF_RECONSTRUCT)
      BY <2>0, <2>1, <3>1, <3>3, CcalfAllowedDownwards, StatePassed DEF LineInv
    <3>4. QED BY <2>0, <3>1, <3>2, <3>3, StageStarted
  <2>4. ReferencesFinal'
    <3> SUFFICES ASSUME conf.ifpLines > 0,
                        NEW p \in Pics, NEW c \in Ctu, Started(p, c, CTU_ENCODE)',
                        NEW q \in Refs[p], NEW d \in Ctu,
                        d[2] <= Min2(c[2] + conf.ifpLines, Rows - 1)
                 PROVE  State(q, d)' >= FINISH_SLICE
      BY <2>1 DEF ReferencesFinal
    <3>1. Takes(c, CTU_ENCODE) /\ CTU_ENCODE \in TaskType /\ FINISH_SLICE \in TaskType
      BY Stages DEF Takes
    <3>2. q \in Pics
      BY PicsAssumption
    <3>3. State(q, d) >= FINISH_SLICE
      <4>1. CASE Started(p, c, CTU_ENCODE)
        BY <4>1 DEF LineInv, ReferencesFinal
      <4>2. CASE StageAllowed(p, c, CTU_ENCODE) /\ p \in conf.pics
        BY <4>2, EncodeAllowedFinal
      <4>3. QED BY <2>0, <3>1, <4>1, <4>2, StageStarted
    <3>4. QED BY <2>1, <3>1, <3>2, <3>3, StatePassed
  <2>5. QED BY <2>2, <2>3, <2>4 DEF LineInv
<1>3. QED BY <1>1, <1>2, FilterInvariant, PTL DEF Spec

(* While a CTU is encoded, the lines of the reference pictures that motion *)
(* may reach are final, although one counter is read, at the line's start. *)
THEOREM ReferencesAreFinal == Spec => []ReferenceLinesFinal
<1>1. LineInv => ReferenceLinesFinal
  <2> SUFFICES ASSUME LineInv, conf.ifpLines > 0, NEW t \in running,
                      State(t[1], t[2]) = CTU_ENCODE, NEW q \in Refs[t[1]], NEW d \in Ctu,
                      d[2] <= Min2(t[2][2] + conf.ifpLines, Rows - 1)
               PROVE  State(q, d) >= FINISH_SLICE
    BY DEF ReferenceLinesFinal
  <2>1. PICK p \in Pics, c \in Ctu : t = <<p, c>>
    BY DEF LineInv, FilterInv, TypeInv, TypeOK
  <2>2. Started(p, c, CTU_ENCODE)
    BY <2>1 DEF Started
  <2>3. QED BY <2>1, <2>2 DEF LineInv, ReferencesFinal
<1>2. QED BY <1>1, LineInvariant, PTL

(* A picture whose last CTU is done has no CTU left, and has counted each  *)
(* of its lines once for every tile and once more with IFP.                *)
THEOREM CountersComplete == Spec => []DoneCountsAllLines
<1>1. LineInv => DoneCountsAllLines
  <2> SUFFICES ASSUME LineInv, NEW p \in Pics, State(p, LastCtu) = PROCESS_DONE
               PROVE  /\ \A c \in Ctu : State(p, c) = PROCESS_DONE /\ <<p, c>> \notin running
                      /\ \A y \in Y : tileColsDone[p][y]
                                        = NumTileCols + (IF conf.ifpLines > 0 THEN 1 ELSE 0)
    BY DEF DoneCountsAllLines
  <2>1. \A c \in Ctu : State(p, c) \in TaskType
    BY DEF LineInv, FilterInv, TypeInv, TypeOK, State
  <2>2. LastCtu \in Ctu /\ LastInTileLine(LastCtu)
    BY DeriveCtus DEF LineInv, FilterInv
  <2>3. FinishReady(p, LastCtu)
    <3>1. Started(p, LastCtu, FINISH_SLICE)
      BY DEF Started, FINISH_SLICE, PROCESS_DONE
    <3>2. Takes(LastCtu, FINISH_SLICE)
      BY <2>2 DEF Takes
    <3>3. QED BY <2>2, <3>1, <3>2, Stages DEF LineInv, FilterInv, Allowed, StageAllowed
  <2>4. ASSUME NEW c \in Ctu PROVE State(p, c) = PROCESS_DONE /\ <<p, c>> \notin running
    <3>1. State(p, c) = PROCESS_DONE
      <4>1. c # LastCtu => State(p, c) >= FINISH_SLICE
        BY <2>3 DEF FinishReady
      <4>2. c # LastCtu => ~Takes(c, FINISH_SLICE)
        BY DEF Takes, CTU_ENCODE, RESHAPE_LF_VER, LF_HOR, SAO_FILTER,
           ALF_GET_STATISTICS, ALF_DERIVE_FILTER, ALF_RECONSTRUCT, CCALF_GET_STATISTICS,
           CCALF_DERIVE_FILTER, CCALF_RECONSTRUCT, FINISH_SLICE
      <4>3. c # LastCtu => State(p, c) # FINISH_SLICE
        BY <4>2 DEF LineInv, FilterInv, StagesTaken, FINISH_SLICE, PROCESS_DONE
      <4>4. QED BY <2>1, <4>1, <4>3, Stages DEF FINISH_SLICE, PROCESS_DONE
    <3>2. QED BY <3>1 DEF LineInv, FilterInv, TypeInv, RunningNotDone, PROCESS_DONE
  <2>5. ASSUME NEW y \in Y
        PROVE  tileColsDone[p][y] = NumTileCols + (IF conf.ifpLines > 0 THEN 1 ELSE 0)
    <3>1. DoneCols(p, y) = LastCols
      <4>1. \A x \in LastCols : x \in X /\ State(p, <<x, y>>) = PROCESS_DONE
        BY <2>4 DEF LastCols, Ctu
      <4>2. PROCESS_DONE > CCALF_RECONSTRUCT
        BY DEF PROCESS_DONE, CCALF_RECONSTRUCT
      <4>3. QED BY <4>1, <4>2 DEF DoneCols
    <3>2. Cardinality(DoneCols(p, y)) = NumTileCols /\ NumTileCols \in Nat
      BY <3>1, TileColsCount DEF LineInv, FilterInv
    <3>3. QED BY <3>2 DEF LineInv, CountersExact
  <2>6. QED BY <2>4, <2>5
<1>2. QED BY <1>1, LineInvariant, PTL

-----------------------------------------------------------------------------
(***************************************************************************)
(* No two workers touch the same samples of a picture, unless both read    *)
(* them.  A stage that writes or reads samples of a CTU leaves its mark on *)
(* the state of that CTU or of the last CTU of its line of a tile          *)
(* (WriteState, ReadState), and no state bears two of the marks.           *)
(***************************************************************************)
SafeInv == FilterInv /\ EncodeInv

LEMMA SafeInvariant == Spec => []SafeInv
BY FilterInvariant, EncodeInvariant, PTL DEF SafeInv

(* A task that runs was allowed to. *)
LEMMA RunningAllowed ==
  ASSUME FilterInv, NEW p \in Pics, NEW c \in Ctu, <<p, c>> \in running
  PROVE  /\ State(p, c) \in TaskType
         /\ Takes(c, State(p, c)) /\ Started(p, c, State(p, c))
         /\ StageAllowed(p, c, State(p, c))
<1>1. State(p, c) \in TaskType /\ State(p, c) < PROCESS_DONE
  BY DEF FilterInv, TypeInv, TypeOK, RunningNotDone, State
<1>2. Takes(c, State(p, c)) /\ Started(p, c, State(p, c))
  BY <1>1 DEF FilterInv, StagesTaken, PROCESS_DONE, Started
<1>3. QED BY <1>1, <1>2 DEF FilterInv, Allowed

(* What a CTU that is past a stage, or at it, knows. *)
LEMMA StartedAllowed ==
  ASSUME FilterInv, NEW p \in Pics, NEW c \in Ctu, NEW s \in TaskType, Takes(c, s)
  PROVE  \/ StageAllowed(p, c, s)
         \/ State(p, c) < s
         \/ State(p, c) = s /\ <<p, c>> \notin running
<1>1. State(p, c) \in TaskType
  BY DEF FilterInv, TypeInv, TypeOK, State
<1>2. QED BY <1>1, Stages DEF FilterInv, Allowed, Started

(* Neighbours of neighbours. *)
LEMMA NbNb ==
  ASSUME NEW c \in Ctu
  PROVE  /\ Nb(Nb(c, -1, 0), 1, 0) = c /\ Nb(Nb(c, 1, 0), -1, 0) = c
         /\ Nb(Nb(c, 0, -1), 0, 1) = c /\ Nb(Nb(c, 0, 1), 0, -1) = c
         /\ Nb(Nb(c, 1, 1), -1, 0) = Nb(c, 0, 1) /\ Nb(Nb(c, 1, 0), 0, 1) = Nb(c, 1, 1)
         /\ Nb(c, 1, 1) \in Ctu => Nb(c, 1, 0) \in Ctu /\ Nb(c, 0, 1) \in Ctu
         /\ Nb(c, -1, 0) # c /\ Nb(c, 0, -1) # c
BY SizeAssumption DEF Nb, Ctu, X, Y

LEMMA CanFilterBoth ==
  \A c, d : CanFilterCtuBdry(c, d) <=> CanFilterCtuBdry(d, c)
BY DEF CanFilterCtuBdry, SameTile

LEMMA LineEndUnique ==
  ASSUME NEW c \in Ctu, LastInTileLine(c), NEW e \in TileLine(c)
  PROVE  c = LineEnd(e)
<1>1. c = <<c[1], c[2]>>
  BY DEF Ctu
<1>2. QED BY <1>1 DEF LastInTileLine, TileLine, LineEnd

(* Samples of the rest of a CTU, and of the copy that ALF filters from. *)
OfLower(x) == x[1] = "lower"
OfCopy(x)  == x[1] = "alf copy"

(* The samples named by Reco, Lower, Upper and Copy. *)
LEMMA SampleSets ==
  ASSUME NEW cs, NEW z
  PROVE  /\ z \in Reco(cs) => z = <<z[1], z[2]>> /\ ~OfCopy(z) /\ z[2] \in cs \cap Ctu
         /\ z \in Lower(cs) => /\ z = <<z[1], z[2]>> /\ OfLower(z) /\ ~OfCopy(z)
                               /\ z[2] \in cs \cap Ctu
         /\ z \in Upper(cs) => /\ z = <<z[1], z[2]>> /\ ~OfCopy(z) /\ ~OfLower(z)
                               /\ z[2] \in cs \cap Ctu
         /\ z \in Copy(cs) => z = <<z[1], z[2]>> /\ OfCopy(z) /\ z[2] \in cs \cap Ctu
<1>1. \A part, S : z \in {part} \X S => z = <<z[1], z[2]>> /\ z[1] = part /\ z[2] \in S
  OBVIOUS
<1>2. "upper" # "alf copy" /\ "lower" # "alf copy" /\ "upper" # "lower"
  OBVIOUS
<1>3. QED BY <1>1, <1>2 DEF Reco, Lower, Upper, Copy, OfLower, OfCopy

(* The CTUs whose samples each stage writes and reads. *)
LEMMA WritesOf ==
  ASSUME NEW c, NEW s \in TaskType, NEW x \in Writes(c, s)
  PROVE  /\ x = <<x[1], x[2]>> /\ x[2] \in Ctu
         /\ \/ s = CTU_ENCODE /\ x[2] = c /\ ~OfCopy(x)
            \/ s = RESHAPE_LF_VER /\ ~OfCopy(x)
                 /\ (x[2] = c \/ (x[2] = Nb(c, -1, 0) /\ x[2] \in FilterNbs(c)))
            \/ s = LF_HOR /\ ~OfCopy(x)
                 /\ (x[2] = c \/ (OfLower(x) /\ x[2] = Nb(c, 0, -1) /\ x[2] \in FilterNbs(c)))
            \/ s = SAO_FILTER /\ x[2] = c
            \/ s \in {ALF_RECONSTRUCT, CCALF_RECONSTRUCT} /\ ~OfCopy(x) /\ x[2] \in TileLine(c)
<1>1. CASE s = CTU_ENCODE
  <2>1. Writes(c, s) = Reco({c})
    <3>1. /\ s # RESHAPE_LF_VER
          /\ s # LF_HOR
          /\ s # SAO_FILTER
          /\ s # ALF_RECONSTRUCT
          /\ s # CCALF_RECONSTRUCT
      BY <1>1 DEF CTU_ENCODE, RESHAPE_LF_VER, LF_HOR, SAO_FILTER, ALF_RECONSTRUCT, CCALF_RECONSTRUCT
    <3>2. QED BY <1>1, <3>1, Zenon DEF Writes
  <2>2. x = <<x[1], x[2]>> /\ ~OfCopy(x) /\ x[2] \in {c} \cap Ctu
    <3>1. x \in Reco({c})
      BY <2>1
    <3>2. QED BY <3>1, SampleSets, Zenon
  <2>3. QED BY <1>1, <2>2
<1>2. CASE s = RESHAPE_LF_VER
  <2>1. Writes(c, s) = Reco({c} \cup ({Nb(c, -1, 0)} \cap FilterNbs(c)))
    <3>1. /\ s # CTU_ENCODE
          /\ s # LF_HOR
          /\ s # SAO_FILTER
          /\ s # ALF_RECONSTRUCT
          /\ s # CCALF_RECONSTRUCT
      BY <1>2 DEF CTU_ENCODE, RESHAPE_LF_VER, LF_HOR, SAO_FILTER, ALF_RECONSTRUCT, CCALF_RECONSTRUCT
    <3>2. QED BY <1>2, <3>1, Zenon DEF Writes
  <2> DEFINE cs == {c} \cup ({Nb(c, -1, 0)} \cap FilterNbs(c))
  <2>2. x \in Reco(cs)
    BY <2>1
  <2> HIDE DEF cs
  <2>3. x = <<x[1], x[2]>> /\ ~OfCopy(x) /\ x[2] \in cs \cap Ctu
    BY <2>2, SampleSets
  <2>4. QED BY <1>2, <2>3 DEF cs
<1>3. CASE s = LF_HOR
  <2>1. Writes(c, s) = Reco({c}) \cup Lower({Nb(c, 0, -1)} \cap FilterNbs(c))
    <3>1. /\ s # CTU_ENCODE
          /\ s # RESHAPE_LF_VER
          /\ s # SAO_FILTER
          /\ s # ALF_RECONSTRUCT
          /\ s # CCALF_RECONSTRUCT
      BY <1>3 DEF CTU_ENCODE, RESHAPE_LF_VER, LF_HOR, SAO_FILTER, ALF_RECONSTRUCT, CCALF_RECONSTRUCT
    <3>2. QED BY <1>3, <3>1, Zenon DEF Writes
  <2>2. CASE x \in Reco({c})
    <3>1. x = <<x[1], x[2]>> /\ ~OfCopy(x) /\ x[2] \in {c} \cap Ctu
      BY <2>2, SampleSets, Zenon
    <3>2. QED BY <1>3, <3>1
  <2>3. CASE x \in Lower({Nb(c, 0, -1)} \cap FilterNbs(c))
    <3> DEFINE cs == {Nb(c, 0, -1)} \cap FilterNbs(c)
    <3>1. x \in Lower(cs)
      BY <2>3
    <3> HIDE DEF cs
    <3>2. /\ x = <<x[1], x[2]>> /\ OfLower(x) /\ ~OfCopy(x)
          /\ x[2] \in cs \cap Ctu
      BY <3>1, SampleSets
    <3>3. QED BY <1>3, <3>2 DEF cs
  <2>4. QED BY <2>1, <2>2, <2>3
<1>4. CASE s = SAO_FILTER
  <2>1. Writes(c, s) = Reco({c}) \cup Copy({c})
    <3>1. /\ s # CTU_ENCODE
          /\ s # RESHAPE_LF_VER
          /\ s # LF_HOR
          /\ s # ALF_RECONSTRUCT
          /\ s # CCALF_RECONSTRUCT
      BY <1>4 DEF CTU_ENCODE, RESHAPE_LF_VER, LF_HOR, SAO_FILTER, ALF_RECONSTRUCT, CCALF_RECONSTRUCT
    <3>2. QED BY <1>4, <3>1, Zenon DEF Writes
  <2>2. x = <<x[1], x[2]>> /\ x[2] \in Ctu /\ x[2] \in {c}
    BY <2>1, SampleSets
  <2>3. QED BY <1>4, <2>2
<1>5. CASE s \in {ALF_RECONSTRUCT, CCALF_RECONSTRUCT}
  <2>1. Writes(c, s) = Reco(TileLine(c))
    <3>1. /\ s # CTU_ENCODE
          /\ s # RESHAPE_LF_VER
          /\ s # LF_HOR
          /\ s # SAO_FILTER
      BY <1>5 DEF CTU_ENCODE, RESHAPE_LF_VER, LF_HOR, SAO_FILTER, ALF_RECONSTRUCT, CCALF_RECONSTRUCT
    <3>2. QED BY <1>5, <3>1, Zenon DEF Writes
  <2>2. x = <<x[1], x[2]>> /\ ~OfCopy(x) /\ x[2] \in TileLine(c) \cap Ctu
    <3>1. x \in Reco(TileLine(c))
      BY <2>1
    <3>2. QED BY <3>1, SampleSets, Zenon
  <2>3. QED BY <1>5, <2>2
<1>6. CASE s \notin {CTU_ENCODE, RESHAPE_LF_VER, LF_HOR, SAO_FILTER, ALF_RECONSTRUCT, CCALF_RECONSTRUCT}
  <2>1. Writes(c, s) = {}
    BY <1>6, Zenon DEF Writes
  <2>2. QED BY <2>1
<1>7. QED BY <1>1, <1>2, <1>3, <1>4, <1>5, <1>6

LEMMA ReadsOf ==
  ASSUME NEW c, NEW s \in TaskType, NEW x \in Reads(c, s)
  PROVE  /\ x[2] \in Ctu
         /\ \/ s = CTU_ENCODE /\ ~OfCopy(x) /\ x[2] \in PredictionNbs(c)
            \/ s = SAO_FILTER /\ ~OfCopy(x) /\ x[2] \in FilterNbs(c)
                 /\ \/ x[2] = Nb(c, 1, 0)
                    \/ x[2] \in {Nb(c, 0, 1), Nb(c, 1, 1)} /\ ~OfLower(x)
            \/ /\ s \in {ALF_GET_STATISTICS, ALF_RECONSTRUCT, CCALF_GET_STATISTICS, CCALF_RECONSTRUCT}
               /\ OfCopy(x) /\ x[2] \in LineNbs(c)
            \/ /\ s = CCALF_GET_STATISTICS /\ ~OfCopy(x)
               /\ x[2] \in LineNbs(c) /\ \E t \in TileLine(c) : x[2][1] = t[1]
<1>1. CASE s = CTU_ENCODE
  <2>1. Reads(c, s) = Reco(PredictionNbs(c))
    <3>1. /\ s # SAO_FILTER
          /\ s # ALF_GET_STATISTICS
          /\ s # ALF_RECONSTRUCT
          /\ s # CCALF_RECONSTRUCT
          /\ s # CCALF_GET_STATISTICS
      BY <1>1 DEF CTU_ENCODE, SAO_FILTER, ALF_GET_STATISTICS, ALF_RECONSTRUCT, CCALF_GET_STATISTICS, CCALF_RECONSTRUCT
    <3>2. QED BY <1>1, <3>1, Zenon DEF Reads
  <2>2. ~OfCopy(x) /\ x[2] \in PredictionNbs(c) \cap Ctu
    <3>1. x \in Reco(PredictionNbs(c))
      BY <2>1
    <3>2. QED BY <3>1, SampleSets, Zenon
  <2>3. QED BY <1>1, <2>2
<1>2. CASE s = SAO_FILTER
  <2>1. Reads(c, s) = Reco({Nb(c, 1, 0)} \cap FilterNbs(c))
                        \cup Upper({Nb(c, 0, 1), Nb(c, 1, 1)} \cap FilterNbs(c))
    <3>1. /\ s # CTU_ENCODE
          /\ s # ALF_GET_STATISTICS
          /\ s # ALF_RECONSTRUCT
          /\ s # CCALF_RECONSTRUCT
          /\ s # CCALF_GET_STATISTICS
      BY <1>2 DEF CTU_ENCODE, SAO_FILTER, ALF_GET_STATISTICS, ALF_RECONSTRUCT, CCALF_GET_STATISTICS, CCALF_RECONSTRUCT
    <3>2. QED BY <1>2, <3>1, Zenon DEF Reads
  <2>2. CASE x \in Reco({Nb(c, 1, 0)} \cap FilterNbs(c))
    <3> DEFINE cs == {Nb(c, 1, 0)} \cap FilterNbs(c)
    <3>1. x \in Reco(cs)
      BY <2>2
    <3> HIDE DEF cs
    <3>2. ~OfCopy(x) /\ x[2] \in cs \cap Ctu
      BY <3>1, SampleSets
    <3>3. QED BY <1>2, <3>2 DEF cs
  <2>3. CASE x \in Upper({Nb(c, 0, 1), Nb(c, 1, 1)} \cap FilterNbs(c))
    <3> DEFINE cs == {Nb(c, 0, 1), Nb(c, 1, 1)} \cap FilterNbs(c)
    <3>1. x \in Upper(cs)
      BY <2>3
    <3> HIDE DEF cs
    <3>2. ~OfLower(x) /\ ~OfCopy(x) /\ x[2] \in cs \cap Ctu
      BY <3>1, SampleSets
    <3>3. QED BY <1>2, <3>2 DEF cs
  <2>4. QED BY <2>1, <2>2, <2>3
<1>3. CASE s \in {ALF_GET_STATISTICS, ALF_RECONSTRUCT, CCALF_RECONSTRUCT}
  <2>1. Reads(c, s) = Copy(LineNbs(c))
    <3>1. /\ s # CTU_ENCODE
          /\ s # SAO_FILTER
          /\ s # CCALF_GET_STATISTICS
      BY <1>3 DEF CTU_ENCODE, SAO_FILTER, ALF_GET_STATISTICS, ALF_RECONSTRUCT, CCALF_GET_STATISTICS, CCALF_RECONSTRUCT
    <3>2. QED BY <1>3, <3>1, Zenon DEF Reads
  <2>2. OfCopy(x) /\ x[2] \in LineNbs(c) \cap Ctu
    <3>1. x \in Copy(LineNbs(c))
      BY <2>1
    <3>2. QED BY <3>1, SampleSets, Zenon
  <2>3. QED BY <1>3, <2>2
<1>4. CASE s = CCALF_GET_STATISTICS
  <2> DEFINE column == {d \in LineNbs(c) : \E t \in TileLine(c) : d[1] = t[1]}
  <2>1. Reads(c, s) = Copy(LineNbs(c)) \cup Reco(column)
    <3>1. /\ s # CTU_ENCODE
          /\ s # SAO_FILTER
          /\ s # ALF_GET_STATISTICS
          /\ s # ALF_RECONSTRUCT
          /\ s # CCALF_RECONSTRUCT
      BY <1>4 DEF CTU_ENCODE, SAO_FILTER, ALF_GET_STATISTICS, ALF_RECONSTRUCT, CCALF_GET_STATISTICS, CCALF_RECONSTRUCT
    <3>2. QED BY <1>4, <3>1, Zenon DEF Reads
  <2>2. CASE x \in Copy(LineNbs(c))
    <3>1. OfCopy(x) /\ x[2] \in LineNbs(c) \cap Ctu
      BY <2>2, SampleSets, Zenon
    <3>2. QED BY <1>4, <3>1
  <2>3. CASE x \in Reco(column)
    <3>1. ~OfCopy(x) /\ x[2] \in column \cap Ctu
      BY <2>3, SampleSets, Zenon
    <3>2. QED BY <1>4, <3>1
  <2>4. QED BY <2>1, <2>2, <2>3
<1>5. CASE s \notin {CTU_ENCODE, SAO_FILTER, ALF_GET_STATISTICS, ALF_RECONSTRUCT, CCALF_RECONSTRUCT,
                     CCALF_GET_STATISTICS}
  <2>1. Reads(c, s) = {}
    BY <1>5, Zenon DEF Reads
  <2>2. QED BY <2>1
<1>6. QED BY <1>1, <1>2, <1>3, <1>4, <1>5

-----------------------------------------------------------------------------
(* The marks.  A stage writes samples of its own CTU, of a neighbour that  *)
(* waits for it, or of the line of a tile that it ends.                    *)
LEMMA WriteState ==
  ASSUME FilterInv, NEW p \in Pics, NEW c \in Ctu, <<p, c>> \in running,
         NEW x \in Writes(c, State(p, c))
  PROVE  LET s == State(p, c)
             e == x[2]
         IN  /\ x = <<x[1], x[2]>> /\ e \in Ctu
             /\ \/ s \in CTU_ENCODE .. LF_HOR /\ e = c /\ ~OfCopy(x)
                \/ s = SAO_FILTER /\ e = c
                \/ /\ s = RESHAPE_LF_VER /\ ~OfCopy(x)
                   /\ e = Nb(c, -1, 0) /\ State(p, e) = LF_HOR /\ <<p, e>> \notin running
                \/ /\ s = LF_HOR /\ OfLower(x) /\ ~OfCopy(x)
                   /\ e = Nb(c, 0, -1) /\ State(p, e) = SAO_FILTER /\ <<p, e>> \notin running
                \/ /\ s \in {ALF_RECONSTRUCT, CCALF_RECONSTRUCT} /\ ~OfCopy(x)
                   /\ c = LineEnd(e) /\ State(p, e) > SAO_FILTER
<1>1. /\ State(p, c) \in TaskType
      /\ Takes(c, State(p, c)) /\ Started(p, c, State(p, c))
      /\ StageAllowed(p, c, State(p, c))
  BY RunningAllowed
<1>2. PICK s \in TaskType : s = State(p, c) /\ Takes(c, s) /\ StageAllowed(p, c, s)
  BY <1>1
<1>3. PICK e \in Ctu : e = x[2]
  BY <1>1, WritesOf
<1>4. State(p, e) \in TaskType
  BY DEF FilterInv, TypeInv, TypeOK, State
<1>5. x \in Writes(c, s) /\ x = <<x[1], x[2]>>
  BY <1>1, <1>2, WritesOf
<1>6. CASE s = RESHAPE_LF_VER /\ e = Nb(c, -1, 0) /\ e \in FilterNbs(c) /\ ~OfCopy(x)
  <2>1. CanFilterCtuBdry(e, c)
    BY <1>6, CanFilterBoth DEF FilterNbs
  <2>2. State(p, e) > RESHAPE_LF_VER
    <3>1. ~NbBehind(p, c, -1, 0, RESHAPE_LF_VER)
      BY <1>1, <1>2, <1>6 DEF StageAllowed, RESHAPE_LF_VER, CTU_ENCODE
    <3>2. QED BY <1>6, <3>1, NbPast, Stages
  <2>3. ASSUME StageAllowed(p, e, LF_HOR) PROVE FALSE
    <3>1. ~FilterNbBehind(p, e, 1, 0, RESHAPE_LF_VER)
      BY <2>3 DEF StageAllowed, LfHorReady
    <3>2. Nb(e, 1, 0) = c
      BY <1>6, NbNb
    <3>3. State(p, c) > RESHAPE_LF_VER
      BY <2>1, <3>1, <3>2, NbPast, Stages
    <3>4. QED BY <1>2, <1>6, <3>3 DEF RESHAPE_LF_VER
  <2>4. Takes(e, LF_HOR) /\ LF_HOR \in TaskType
    BY Stages DEF Takes
  <2>5. State(p, e) = LF_HOR /\ <<p, e>> \notin running
    BY <1>4, <2>2, <2>3, <2>4, StartedAllowed, Stages DEF RESHAPE_LF_VER, LF_HOR
  <2>6. QED BY <1>2, <1>3, <1>5, <1>6, <2>5
<1>7. CASE s = LF_HOR /\ e = Nb(c, 0, -1) /\ e \in FilterNbs(c) /\ OfLower(x) /\ ~OfCopy(x)
  <2>1. CanFilterCtuBdry(c, e)
    BY <1>7 DEF FilterNbs
  <2>2. State(p, e) > LF_HOR
    <3>1. ~FilterNbBehind(p, c, 0, -1, LF_HOR)
      BY <1>1, <1>2, <1>7 DEF StageAllowed, LfHorReady
    <3>2. QED BY <1>7, <2>1, <3>1, NbPast, Stages
  <2>3. ASSUME StageAllowed(p, e, SAO_FILTER) PROVE FALSE
    <3>1. ~NbBehind(p, e, 0, 1, LF_HOR)
      BY <2>3 DEF StageAllowed, SaoReady
    <3>2. Nb(e, 0, 1) = c
      BY <1>7, NbNb
    <3>3. State(p, c) > LF_HOR
      BY <3>1, <3>2, NbPast, Stages
    <3>4. QED BY <1>2, <1>7, <3>3 DEF LF_HOR
  <2>4. Takes(e, SAO_FILTER) /\ SAO_FILTER \in TaskType
    BY Stages DEF Takes
  <2>5. State(p, e) = SAO_FILTER /\ <<p, e>> \notin running
    BY <1>4, <2>2, <2>3, <2>4, StartedAllowed, Stages DEF LF_HOR, SAO_FILTER
  <2>6. QED BY <1>2, <1>3, <1>5, <1>7, <2>5
<1>8. CASE s \in {ALF_RECONSTRUCT, CCALF_RECONSTRUCT} /\ ~OfCopy(x) /\ e \in TileLine(c)
  <2>1. LastInTileLine(c)
    BY <1>2, <1>8 DEF Takes, CTU_ENCODE, RESHAPE_LF_VER, LF_HOR, SAO_FILTER,
       ALF_RECONSTRUCT, CCALF_RECONSTRUCT
  <2>2. c = LineEnd(e)
    BY <1>8, <2>1, LineEndUnique
  <2>3. State(p, c) > SAO_FILTER
    <3>1. s > SAO_FILTER
      BY <1>8 DEF SAO_FILTER, ALF_RECONSTRUCT, CCALF_RECONSTRUCT
    <3>2. QED BY <1>2, <3>1
  <2>4. State(p, e) > SAO_FILTER
    BY <1>8, <2>1, <2>3, TileLineBefore, SaoLine DEF FilterInv
  <2>5. QED BY <1>2, <1>3, <1>5, <1>8, <2>2, <2>4
<1>9. CASE s \in CTU_ENCODE .. LF_HOR /\ e = c /\ ~OfCopy(x)
  BY <1>2, <1>3, <1>5, <1>9
<1>10. CASE s = SAO_FILTER /\ e = c
  BY <1>2, <1>3, <1>5, <1>10
<1>11. s \in CTU_ENCODE .. LF_HOR <=> s \in {CTU_ENCODE, RESHAPE_LF_VER, LF_HOR}
  BY Stages DEF CTU_ENCODE, RESHAPE_LF_VER, LF_HOR
<1>12. QED BY <1>3, <1>5, <1>6, <1>7, <1>8, <1>9, <1>10, <1>11, WritesOf

(* The CTUs that encoding predicts from are encoded: the guard looks at    *)
(* the left, the upper and the upper right CTU, those on their left were   *)
(* encoded before them.                                                    *)
LEMMA PredictionEncoded ==
  ASSUME SafeInv, NEW p \in Pics, NEW c \in Ctu, Started(p, c, CTU_ENCODE),
         NEW e \in PredictionNbs(c)
  PROVE  State(p, e) > CTU_ENCODE
<1>1. /\ e \in Ctu /\ e = <<e[1], e[2]>> /\ SameTile(c, e)
      /\ c[1] \in X /\ c[2] \in Y /\ e[1] \in X /\ e[2] \in Y
      /\ c[1] \in Int /\ c[2] \in Int /\ e[1] \in Int /\ e[2] \in Int
  BY SizeAssumption DEF PredictionNbs, Ctu, X, Y
<1>2. conf.encDelay \in Nat
  BY ConfigsAssumption DEF SafeInv, FilterInv, TypeInv, TypeOK, ConfigType
<1>3. CASE e[2] = c[2] /\ e[1] \in c[1] - conf.encDelay .. c[1] - 1
  <2>1. e[1] < c[1]
    BY <1>1, <1>2, <1>3
  <2>2. QED BY <1>1, <1>3, <2>1 DEF SafeInv, EncodeInv, EncodedFromLeft
<1>4. CASE e[2] = c[2] - 1 /\ e[1] \in c[1] - 1 .. (IF conf.wppSync THEN c[1] ELSE c[1] + 1)
  <2> DEFINE up == Nb(c, 0, -1)
  <2>1. up = <<c[1], e[2]>> /\ up[1] = c[1] /\ up[2] = e[2] /\ up \in Ctu /\ e[2] < c[2] /\ c[2] > 0
    BY <1>1, <1>4, SizeAssumption DEF Nb, Ctu, Y
  <2>2. SameTile(c, up) /\ SameTile(up, e)
    BY <1>1, <2>1 DEF SameTile
  <2>3. EncodeReady(p, c)
    BY Stages DEF SafeInv, FilterInv, Allowed, StageAllowed, Takes
  <2>4. /\ ~NbBehind(p, c, 0, -1, CTU_ENCODE)
        /\ conf.wppSync \/ ~NbBehind(p, c, 1, -1, CTU_ENCODE)
    BY <2>2, <2>3 DEF EncodeReady
  <2>5. State(p, up) > CTU_ENCODE
    BY <2>1, <2>4, NbPast, Stages DEF SafeInv
  <2> HIDE DEF up
  <2>6. CASE e[1] = c[1]
    BY <1>1, <2>1, <2>5, <2>6
  <2>7. CASE e[1] = c[1] + 1
    <3>1. ~conf.wppSync
      BY <1>1, <1>4, <2>7
    <3>2. e = Nb(c, 1, -1)
      BY <1>1, <1>4, <2>7 DEF Nb
    <3>3. QED BY <1>1, <2>4, <3>1, <3>2, NbPast, Stages DEF SafeInv
  <2>8. CASE e[1] = c[1] - 1
    <3>1. Started(p, up, CTU_ENCODE)
      BY <2>5 DEF Started
    <3>2. e[1] < up[1]
      BY <1>1, <2>1, <2>8
    <3>3. QED BY <1>1, <2>1, <2>2, <3>1, <3>2 DEF SafeInv, EncodeInv, EncodedFromLeft
  <2>9. QED BY <1>1, <1>4, <2>6, <2>7, <2>8
<1>5. QED BY <1>3, <1>4 DEF PredictionNbs

(* While the CCALF statistics of a line of a tile are taken, ALF has left  *)
(* the lines above and below, and CCALF has not begun with them.           *)
LEMMA StatisticsUndisturbed ==
  ASSUME FilterInv, NEW p \in Pics, NEW c \in Ctu, <<p, c>> \in running,
         State(p, c) = CCALF_GET_STATISTICS,
         NEW e \in LineNbs(c), NEW t \in TileLine(c), e[1] = t[1],
         <<p, LineEnd(e)>> \in running
  PROVE  State(p, LineEnd(e)) \notin {ALF_RECONSTRUCT, CCALF_RECONSTRUCT}
<1> DEFINE w == LineEnd(e)
<1>1. LastInTileLine(c) /\ CcalfStatReady(p, c)
  <2>1. Takes(c, CCALF_GET_STATISTICS) /\ StageAllowed(p, c, CCALF_GET_STATISTICS)
    BY RunningAllowed
  <2>2. LastInTileLine(c)
    BY <2>1 DEF Takes, CTU_ENCODE, RESHAPE_LF_VER, LF_HOR, SAO_FILTER, CCALF_GET_STATISTICS
  <2>3. QED BY <2>1, <2>2 DEF StageAllowed
<1>2. PICK u \in TileLine(c) : e \in Around(u) /\ CanFilterCtuBdry(u, e)
  BY DEF LineNbs, FilterNbs
<1>3. /\ u[2] = c[2] /\ conf.lastCol[u[1]] = c[1] /\ conf.lastCol[c[1]] = c[1]
      /\ conf.lastCol[t[1]] = c[1]
  BY <1>1, TileLineBefore DEF FilterInv
<1>4. /\ e \in Ctu /\ e = <<e[1], e[2]>> /\ c = <<c[1], c[2]>>
      /\ c[1] \in X /\ c[2] \in Y /\ e[2] \in Y
      /\ c[1] \in Int /\ c[2] \in Int /\ e[2] \in Int
      /\ e[2] \in {c[2] - 1, c[2], c[2] + 1}
  BY <1>2, <1>3, SizeAssumption DEF Around, Ctu, X, Y
<1>5. w = <<c[1], e[2]>> /\ w[1] = c[1] /\ w[2] = e[2] /\ w \in Ctu /\ LastInTileLine(w)
  BY <1>3, <1>4 DEF LineEnd, Ctu, LastInTileLine
<1>6. CanFilterCtuBdry(c, w) /\ CanFilterCtuBdry(w, c)
  BY <1>2, <1>3, <1>5 DEF CanFilterCtuBdry, SameTile
<1> HIDE DEF w
<1>7. CASE e[2] = c[2]
  BY <1>4, <1>5, <1>7 DEF w, ALF_RECONSTRUCT, CCALF_RECONSTRUCT, CCALF_GET_STATISTICS
<1>8. CASE e[2] # c[2]
  <2>1. w = Nb(c, 0, -1) \/ w = Nb(c, 0, 1)
    BY <1>4, <1>5, <1>8 DEF Nb
  <2>2. State(p, w) > ALF_RECONSTRUCT
    BY <1>1, <1>5, <1>6, <2>1, NbPast, Stages DEF CcalfStatReady
  <2>3. ASSUME State(p, w) = CCALF_RECONSTRUCT PROVE FALSE
    <3>1. Started(p, w, CCALF_RECONSTRUCT) /\ StageAllowed(p, w, CCALF_RECONSTRUCT)
      BY <1>5, <2>3, RunningAllowed DEF w
    <3>2. CcalfReconReady(p, w)
      BY <3>1 DEF StageAllowed
    <3>3. CASE conf.ifpLines = 0
      <4>1. CcalfDeriveCtu[2] = Rows - 1
        BY <3>3 DEF CcalfDeriveCtu, LastCtu
      <4>2. c[2] <= CcalfDeriveCtu[2]
        BY <1>4, <4>1, SizeAssumption DEF Y
      <4>3. State(p, c) > CCALF_GET_STATISTICS
        BY <1>5, <3>1, <4>2, StatisticsComplete DEF FilterAfterStatistics
      <4>4. QED BY <4>3 DEF CCALF_GET_STATISTICS
    <3>4. CASE conf.ifpLines > 0
      <4>1. /\ ~FilterNbBehind(p, w, 0, -1, CCALF_RECONSTRUCT)
            /\ ~FilterNbBehind(p, w, 0, 1, CCALF_GET_STATISTICS)
        BY <3>2, <3>4 DEF CcalfReconReady
      <4>2. c = Nb(w, 0, 1) \/ c = Nb(w, 0, -1)
        BY <2>1, NbNb
      <4>3. State(p, c) > CCALF_GET_STATISTICS \/ State(p, c) > CCALF_RECONSTRUCT
        BY <1>5, <1>6, <4>1, <4>2, NbPast, Stages
      <4>4. QED BY <4>3 DEF CCALF_GET_STATISTICS, CCALF_RECONSTRUCT
    <3>5. conf.ifpLines \in Nat
      BY ConfigsAssumption DEF FilterInv, TypeInv, TypeOK, ConfigType
    <3>6. QED BY <3>3, <3>4, <3>5
  <2>4. QED BY <2>2, <2>3 DEF w, ALF_RECONSTRUCT
<1>9. QED BY <1>7, <1>8

(* A stage reads samples of a CTU that is encoded and waits to be          *)
(* deblocked, or is deblocked and waits for SAO, or is past SAO.           *)
LEMMA ReadState ==
  ASSUME SafeInv, NEW p \in Pics, NEW c \in Ctu, <<p, c>> \in running,
         NEW x \in Reads(c, State(p, c))
  PROVE  LET e == x[2]
         IN  /\ e \in Ctu
             /\ \/ ~OfCopy(x) /\ State(p, e) = RESHAPE_LF_VER /\ <<p, e>> \notin running
                \/ /\ ~OfCopy(x) /\ State(p, e) = SAO_FILTER /\ <<p, e>> \notin running
                   /\ OfLower(x) /\ Nb(e, 0, 1) \in Ctu => State(p, Nb(e, 0, 1)) > LF_HOR
                \/ OfCopy(x) /\ State(p, e) > SAO_FILTER
                \/ /\ ~OfCopy(x) /\ State(p, e) > SAO_FILTER
                   /\ <<p, LineEnd(e)>> \in running =>
                        State(p, LineEnd(e)) \notin {ALF_RECONSTRUCT, CCALF_RECONSTRUCT}
<1>0. FilterInv
  BY DEF SafeInv
<1>1. /\ State(p, c) \in TaskType
      /\ Takes(c, State(p, c)) /\ Started(p, c, State(p, c))
      /\ StageAllowed(p, c, State(p, c))
  BY <1>0, RunningAllowed
<1>2. PICK s \in TaskType : s = State(p, c) /\ Takes(c, s) /\ StageAllowed(p, c, s)
  BY <1>1
<1>3. x \in Reads(c, s)
  BY <1>2
<1>4. PICK e \in Ctu : e = x[2]
  BY <1>3, ReadsOf
<1>5. State(p, e) \in TaskType
  BY <1>0 DEF FilterInv, TypeInv, TypeOK, State
<1>6. CASE s = CTU_ENCODE /\ ~OfCopy(x) /\ e \in PredictionNbs(c)
  <2>1. State(p, c) = CTU_ENCODE /\ Started(p, c, CTU_ENCODE)
    BY <1>1, <1>2, <1>6
  <2>2. State(p, e) > CTU_ENCODE
    BY <1>6, <2>1, PredictionEncoded
  <2>3. ~Started(p, e, RESHAPE_LF_VER)
    BY <1>6, <2>1, EncodeInvUnfiltered DEF SafeInv, CTU_ENCODE
  <2>4. State(p, e) = RESHAPE_LF_VER /\ <<p, e>> \notin running
    BY <1>5, <2>2, <2>3, Stages DEF Started, CTU_ENCODE, RESHAPE_LF_VER
  <2>5. QED BY <1>4, <1>6, <2>4
<1>7. CASE s = SAO_FILTER /\ ~OfCopy(x) /\ e \in FilterNbs(c)
             /\ \/ e = Nb(c, 1, 0)
                \/ e \in {Nb(c, 0, 1), Nb(c, 1, 1)} /\ ~OfLower(x)
  <2>1. SaoReady(p, c)
    BY <1>2, <1>7 DEF StageAllowed
  <2>2. State(p, c) = SAO_FILTER
    BY <1>2, <1>7
  <2>3. State(p, e) > LF_HOR
    BY <1>0, <1>7, <2>1, NbPast, Stages DEF SaoReady
  <2>4. ASSUME Started(p, e, SAO_FILTER) PROVE FALSE
    <3>1. SaoReady(p, e) /\ ~NbBehind(p, e, -1, 0, SAO_FILTER)
      BY <1>0, <2>4, SaoHeld
    <3>2. CASE e = Nb(c, 1, 0)
      <4>1. Nb(e, -1, 0) = c
        BY <3>2, NbNb
      <4>2. State(p, c) > SAO_FILTER
        BY <1>0, <3>1, <4>1, NbPast, Stages
      <4>3. QED BY <2>2, <4>2 DEF SAO_FILTER
    <3>3. CASE e = Nb(c, 0, 1)
      <4>1. Nb(e, 0, -1) = c
        BY <3>3, NbNb
      <4>2. State(p, c) > SAO_FILTER
        BY <1>0, <3>1, <4>1, NbPast, Stages DEF SaoReady
      <4>3. QED BY <2>2, <4>2 DEF SAO_FILTER
    <3>4. CASE e = Nb(c, 1, 1)
      <4> DEFINE down == Nb(c, 0, 1)
      <4>1. Nb(e, -1, 0) = down /\ down \in Ctu /\ Nb(down, 0, -1) = c
        BY <3>4, NbNb
      <4> HIDE DEF down
      <4>2. State(p, down) > SAO_FILTER
        BY <1>0, <3>1, <4>1, NbPast, Stages
      <4>3. Started(p, down, SAO_FILTER)
        BY <4>2 DEF Started
      <4>4. SaoReady(p, down)
        BY <1>0, <4>1, <4>3, SaoHeld
      <4>5. State(p, c) > SAO_FILTER
        BY <1>0, <4>1, <4>4, NbPast, Stages DEF SaoReady
      <4>6. QED BY <2>2, <4>5 DEF SAO_FILTER
    <3>5. QED BY <1>7, <3>2, <3>3, <3>4
  <2>5. State(p, e) = SAO_FILTER /\ <<p, e>> \notin running
    BY <1>5, <2>3, <2>4, Stages DEF Started, LF_HOR, SAO_FILTER
  <2>6. OfLower(x) /\ Nb(e, 0, 1) \in Ctu => State(p, Nb(e, 0, 1)) > LF_HOR
    <3> SUFFICES ASSUME OfLower(x), Nb(e, 0, 1) \in Ctu PROVE State(p, Nb(e, 0, 1)) > LF_HOR
      OBVIOUS
    <3>1. e = Nb(c, 1, 0)
      BY <1>7
    <3>2. Nb(e, 0, 1) = Nb(c, 1, 1)
      BY <3>1, NbNb
    <3>3. QED BY <1>0, <2>1, <3>2, NbPast, Stages DEF SaoReady
  <2>7. QED BY <1>4, <1>7, <2>5, <2>6
<1>8. s > SAO_FILTER => LastInTileLine(c)
  BY <1>2 DEF Takes, CTU_ENCODE, RESHAPE_LF_VER, LF_HOR, SAO_FILTER
<1>9. ASSUME s \in {ALF_GET_STATISTICS, ALF_RECONSTRUCT, CCALF_GET_STATISTICS, CCALF_RECONSTRUCT},
             e \in LineNbs(c)
      PROVE  LastInTileLine(c) /\ State(p, e) > SAO_FILTER
  <2>1. LastInTileLine(c)
    BY <1>8, <1>9 DEF SAO_FILTER, ALF_GET_STATISTICS, ALF_RECONSTRUCT, CCALF_GET_STATISTICS,
       CCALF_RECONSTRUCT
  <2>2. s = ALF_GET_STATISTICS \/ s > ALF_GET_STATISTICS
    BY <1>9 DEF ALF_GET_STATISTICS, ALF_RECONSTRUCT, CCALF_GET_STATISTICS, CCALF_RECONSTRUCT
  <2>3. Started(p, c, ALF_GET_STATISTICS)
    BY <1>2, <2>2 DEF Started
  <2>4. QED BY <1>0, <1>9, <2>1, <2>3, LineNbsPast
<1>10. CASE /\ s \in {ALF_GET_STATISTICS, ALF_RECONSTRUCT, CCALF_GET_STATISTICS, CCALF_RECONSTRUCT}
            /\ OfCopy(x) /\ e \in LineNbs(c)
  BY <1>4, <1>9, <1>10
<1>11. CASE /\ s = CCALF_GET_STATISTICS /\ ~OfCopy(x)
            /\ e \in LineNbs(c) /\ \E t \in TileLine(c) : e[1] = t[1]
  <2>1. <<p, LineEnd(e)>> \in running =>
          State(p, LineEnd(e)) \notin {ALF_RECONSTRUCT, CCALF_RECONSTRUCT}
    BY <1>0, <1>2, <1>11, StatisticsUndisturbed
  <2>2. QED BY <1>4, <1>9, <1>11, <2>1
<1>12. QED BY <1>3, <1>4, <1>6, <1>7, <1>10, <1>11, ReadsOf

(* No state bears two of the marks. *)
LEMMA NoConflict ==
  ASSUME SafeInv, NEW p \in Pics, NEW c \in Ctu, NEW d \in Ctu, c # d,
         <<p, c>> \in running, <<p, d>> \in running,
         NEW x \in Writes(c, State(p, c))
  PROVE  x \notin Reads(d, State(p, d)) /\ x \notin Writes(d, State(p, d))
<1>0. FilterInv
  BY DEF SafeInv
<1> DEFINE e == x[2]
<1>1. PICK s \in TaskType : s = State(p, c)
  BY <1>0, RunningAllowed
<1>2. PICK r \in TaskType : r = State(p, d)
  BY <1>0, RunningAllowed
<1>3. /\ e \in Ctu
      /\ \/ s \in CTU_ENCODE .. LF_HOR /\ e = c /\ ~OfCopy(x)
         \/ s = SAO_FILTER /\ e = c
         \/ /\ s = RESHAPE_LF_VER /\ ~OfCopy(x)
            /\ e = Nb(c, -1, 0) /\ State(p, e) = LF_HOR /\ <<p, e>> \notin running
         \/ /\ s = LF_HOR /\ OfLower(x) /\ ~OfCopy(x)
            /\ e = Nb(c, 0, -1) /\ State(p, e) = SAO_FILTER /\ <<p, e>> \notin running
         \/ /\ s \in {ALF_RECONSTRUCT, CCALF_RECONSTRUCT} /\ ~OfCopy(x)
            /\ c = LineEnd(e) /\ State(p, e) > SAO_FILTER
  BY <1>0, <1>1, WriteState
<1> HIDE DEF e
<1>4. State(p, e) \in TaskType
  BY <1>0, <1>3 DEF FilterInv, TypeInv, TypeOK, State
<1>5. PICK g \in TaskType : g = State(p, e)
  BY <1>4
<1>6. ASSUME x \in Reads(d, State(p, d)) PROVE FALSE
  <2>1. \/ ~OfCopy(x) /\ g = RESHAPE_LF_VER /\ <<p, e>> \notin running
        \/ /\ ~OfCopy(x) /\ g = SAO_FILTER /\ <<p, e>> \notin running
           /\ OfLower(x) /\ Nb(e, 0, 1) \in Ctu => State(p, Nb(e, 0, 1)) > LF_HOR
        \/ OfCopy(x) /\ g > SAO_FILTER
        \/ /\ ~OfCopy(x) /\ g > SAO_FILTER
           /\ <<p, LineEnd(e)>> \in running =>
                State(p, LineEnd(e)) \notin {ALF_RECONSTRUCT, CCALF_RECONSTRUCT}
    BY <1>5, <1>6, ReadState DEF e
  <2>2. CASE s \in CTU_ENCODE .. SAO_FILTER /\ e = c
    <3>1. g = s /\ <<p, e>> \in running
      BY <1>1, <1>5, <2>2
    <3>2. ~(g > SAO_FILTER)
      BY <2>2, <3>1, Stages DEF SAO_FILTER, CTU_ENCODE
    <3>3. QED BY <2>1, <3>1, <3>2
  <2>3. CASE s = RESHAPE_LF_VER /\ g = LF_HOR
    BY <2>1, <2>3 DEF LF_HOR, RESHAPE_LF_VER, SAO_FILTER
  <2>4. CASE s = LF_HOR /\ e = Nb(c, 0, -1) /\ OfLower(x) /\ ~OfCopy(x) /\ g = SAO_FILTER
    <3>1. Nb(e, 0, 1) = c
      BY <2>4, NbNb
    <3>2. OfLower(x) /\ Nb(e, 0, 1) \in Ctu => State(p, Nb(e, 0, 1)) > LF_HOR
      BY <2>1, <2>4 DEF RESHAPE_LF_VER, SAO_FILTER
    <3>3. s > LF_HOR
      BY <1>1, <2>4, <3>1, <3>2
    <3>4. QED BY <2>4, <3>3 DEF LF_HOR
  <2>5. CASE /\ s \in {ALF_RECONSTRUCT, CCALF_RECONSTRUCT} /\ ~OfCopy(x)
             /\ c = LineEnd(e) /\ g > SAO_FILTER
    <3>1. <<p, LineEnd(e)>> \in running /\ State(p, LineEnd(e)) = s
      BY <1>1, <2>5
    <3>2. <<p, LineEnd(e)>> \in running =>
            State(p, LineEnd(e)) \notin {ALF_RECONSTRUCT, CCALF_RECONSTRUCT}
      BY <2>1, <2>5 DEF RESHAPE_LF_VER, SAO_FILTER
    <3>3. QED BY <2>5, <3>1, <3>2
  <2>6. (s \in CTU_ENCODE .. LF_HOR \/ s = SAO_FILTER) => s \in CTU_ENCODE .. SAO_FILTER
    BY DEF CTU_ENCODE, LF_HOR, SAO_FILTER
  <2>7. QED BY <1>3, <1>5, <2>2, <2>3, <2>4, <2>5, <2>6
<1>7. ASSUME x \in Writes(d, State(p, d)) PROVE FALSE
  <2>1. \/ r \in CTU_ENCODE .. LF_HOR /\ e = d /\ ~OfCopy(x)
        \/ r = SAO_FILTER /\ e = d
        \/ /\ r = RESHAPE_LF_VER /\ ~OfCopy(x)
           /\ e = Nb(d, -1, 0) /\ g = LF_HOR /\ <<p, e>> \notin running
        \/ /\ r = LF_HOR /\ OfLower(x) /\ ~OfCopy(x)
           /\ e = Nb(d, 0, -1) /\ g = SAO_FILTER /\ <<p, e>> \notin running
        \/ /\ r \in {ALF_RECONSTRUCT, CCALF_RECONSTRUCT} /\ ~OfCopy(x)
           /\ d = LineEnd(e) /\ g > SAO_FILTER
    BY <1>0, <1>2, <1>5, <1>7, WriteState DEF e
  <2>2. \/ e = c /\ g <= SAO_FILTER
        \/ e = Nb(c, -1, 0) /\ g = LF_HOR /\ <<p, e>> \notin running
        \/ e = Nb(c, 0, -1) /\ g = SAO_FILTER /\ <<p, e>> \notin running
        \/ c = LineEnd(e) /\ g > SAO_FILTER
    <3>1. e = c => g = s
      BY <1>1, <1>5
    <3>2. s \in CTU_ENCODE .. LF_HOR \/ s = SAO_FILTER => s <= SAO_FILTER
      BY DEF CTU_ENCODE, LF_HOR, SAO_FILTER
    <3>3. QED BY <1>3, <1>5, <3>1, <3>2
  <2>3. \/ e = d /\ g <= SAO_FILTER
        \/ e = Nb(d, -1, 0) /\ g = LF_HOR /\ <<p, e>> \notin running
        \/ e = Nb(d, 0, -1) /\ g = SAO_FILTER /\ <<p, e>> \notin running
        \/ d = LineEnd(e) /\ g > SAO_FILTER
    <3>1. e = d => g = r
      BY <1>2, <1>5
    <3>2. r \in CTU_ENCODE .. LF_HOR \/ r = SAO_FILTER => r <= SAO_FILTER
      BY DEF CTU_ENCODE, LF_HOR, SAO_FILTER
    <3>3. QED BY <2>1, <3>1, <3>2
  <2>4. /\ e = Nb(c, -1, 0) => c = Nb(e, 1, 0)
        /\ e = Nb(d, -1, 0) => d = Nb(e, 1, 0)
        /\ e = Nb(c, 0, -1) => c = Nb(e, 0, 1)
        /\ e = Nb(d, 0, -1) => d = Nb(e, 0, 1)
    BY NbNb
  <2>5. /\ g <= SAO_FILTER => ~(g > SAO_FILTER)
        /\ g = LF_HOR => g # SAO_FILTER /\ ~(g > SAO_FILTER)
        /\ g = SAO_FILTER => ~(g > SAO_FILTER)
    BY Stages DEF LF_HOR, SAO_FILTER
  <2>6. QED BY <2>2, <2>3, <2>4, <2>5
<1>8. QED BY <1>6, <1>7

(* No worker writes samples of a picture that another one reads or writes. *)
THEOREM NoConflicts == Spec => []NoSampleConflict
<1>1. SafeInv => NoSampleConflict
  <2> SUFFICES ASSUME SafeInv, NEW t \in running, NEW u \in running, t # u, t[1] = u[1],
                      NEW x \in Writes(t[2], State(t[1], t[2])),
                      x \in Reads(u[2], State(u[1], u[2])) \cup Writes(u[2], State(u[1], u[2]))
               PROVE  FALSE
    BY DEF NoSampleConflict
  <2>1. t \in Pics \X Ctu /\ u \in Pics \X Ctu
    BY DEF SafeInv, FilterInv, TypeInv, TypeOK
  <2>2. PICK p \in Pics, c \in Ctu : t = <<p, c>>
    BY <2>1
  <2>3. PICK d \in Ctu : u = <<p, d>>
    BY <2>1, <2>2
  <2>4. c # d /\ t[1] = p /\ t[2] = c /\ u[1] = p /\ u[2] = d
    BY <2>2, <2>3
  <2>5. QED BY <2>2, <2>3, <2>4, NoConflict
<1>2. QED BY <1>1, SafeInvariant, PTL
=============================================================================
