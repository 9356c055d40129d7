---------------------------- MODULE CtuWavefront ----------------------------
(***************************************************************************)
(* The coding tree unit (CTU) wavefront of EncSlice::xProcessCtuTask.      *)
(*                                                                         *)
(* One task per CTU is put into the thread pool.  Every task walks its CTU *)
(* through the stages of TaskType: encoding, vertical and horizontal       *)
(* deblocking, SAO, and, on the last CTU of a line of a tile, ALF and      *)
(* cross-component ALF for the whole line.  A task may run its next stage  *)
(* when the stages of its neighbours, kept in m_processStates, allow it.   *)
(* Nothing else orders the workers: the guards below are all that keeps    *)
(* two of them from touching the same samples, and all that makes the      *)
(* samples a stage reads the ones it needs.                                *)
(*                                                                         *)
(* With inter-frame parallelism (IFP, ifpLines > 0) the CTUs of a picture  *)
(* also wait for finished lines of the reference pictures, which are being *)
(* coded by the same pool.                                                 *)
(*                                                                         *)
(* A stage is started when its guard holds and ended by a second step that *)
(* stores the next state, so that the stages of different CTUs overlap.    *)
(***************************************************************************)
EXTENDS Integers, FiniteSets

CONSTANTS
  Cols, Rows,  \* picture size in CTUs (pcv.widthInCtus, pcv.heightInCtus)
  NumThreads,  \* worker threads of the pool
  Pics,        \* pictures
  Refs,        \* Refs[p]: the pictures p predicts from
  Configs      \* encoder configurations, one is chosen in Init

X   == 0 .. Cols - 1
Y   == 0 .. Rows - 1
Ctu == X \X Y

(***************************************************************************)
(* A configuration.  lastCol[x] and lastRow[y] are the last column and row *)
(* of the tile of column x and row y (tileColBd + tileColWidth - 1), and   *)
(* so name the tile.                                                       *)
(***************************************************************************)
ConfigType ==
  [ pics         : SUBSET Pics,  \* the pictures in flight
    lastCol      : [X -> X],
    lastRow      : [Y -> Y],
    acrossTiles  : BOOLEAN,      \* pps.loopFilterAcrossTilesEnabled
    tileParallel : BOOLEAN,      \* m_tileParallelCtuEnc
    wppSync      : BOOLEAN,      \* sps.entropyCodingSyncEnabled
    encDelay     : Nat \ {0},    \* m_ctuEncDelay
    ifpLines     : Nat,          \* m_ifpLines, 0: off
    asuHeight    : Nat \ {0} ]   \* getAsuHeightInCtus

(* The last element of its tile is the same for every column of a tile. *)
IsTiling(last, n) ==
  \A i \in 0 .. n - 1 : /\ i <= last[i]
                        /\ \A j \in i .. last[i] : last[j] = last[i]

ASSUME SizeAssumption == Cols \in Nat \ {0} /\ Rows \in Nat \ {0}

ASSUME PicsAssumption == Refs \in [Pics -> SUBSET Pics]

ASSUME ConfigsAssumption ==
  /\ Configs \subseteq ConfigType
  /\ \A k \in Configs : /\ IsTiling(k.lastCol, Cols) /\ IsTiling(k.lastRow, Rows)
                         /\ \A p \in k.pics : Refs[p] \subseteq k.pics

(* Pictures that wait for lines of others have a single row of tiles       *)
(* ("IFP: Only single tile row is supported", vvencCfg.cpp).               *)
ASSUME IfpAssumption ==
  \A k \in Configs :
    k.ifpLines > 0 /\ (\E p \in k.pics : Refs[p] # {}) => k.lastRow[0] = Rows - 1

CTU_ENCODE           == 0
RESHAPE_LF_VER       == 1
LF_HOR               == 2
SAO_FILTER           == 3
ALF_GET_STATISTICS   == 4
ALF_DERIVE_FILTER    == 5
ALF_RECONSTRUCT      == 6
CCALF_GET_STATISTICS == 7
CCALF_DERIVE_FILTER  == 8
CCALF_RECONSTRUCT    == 9
FINISH_SLICE         == 10
PROCESS_DONE         == 11

TaskType == CTU_ENCODE .. PROCESS_DONE

VARIABLES
  conf,          \* the encoder configuration, never changed
  processStates, \* processStates[p][c]: the stage CTU c of picture p is at
  running,       \* <<p, c>> whose task is executing its stage in a worker
  tileColsDone   \* Picture::m_tileColsDone, a counter per CTU line

vars == <<conf, processStates, running, tileColsDone>>

-----------------------------------------------------------------------------
(* Geometry. *)

Nb(c, dx, dy) == <<c[1] + dx, c[2] + dy>>

SameTile(c, d) ==
  /\ conf.lastCol[c[1]] = conf.lastCol[d[1]]
  /\ conf.lastRow[c[2]] = conf.lastRow[d[2]]

CanFilterCtuBdry(c, d) == conf.acrossTiles \/ SameTile(c, d)

LastInTileLine(c) == c[1] = conf.lastCol[c[1]]

(* The CTUs that the last CTU of a tile line filters: firstCtuInRow .. rs. *)
TileLine(c) == {d \in Ctu : d[2] = c[2] /\ conf.lastCol[d[1]] = conf.lastCol[c[1]]}

NumTileCols == Cardinality({conf.lastCol[x] : x \in X})

HasTiles ==
  /\ conf.tileParallel
  /\ conf.lastCol[0] # Cols - 1 \/ conf.lastRow[0] # Rows - 1

Min2(a, b) == IF a <= b THEN a ELSE b

(* Raster order: ctuRsAddr < ctuRsAddr. *)
Before(c, d) == c[2] < d[2] \/ (c[2] = d[2] /\ c[1] < d[1])

LastCtu == <<Cols - 1, Rows - 1>>

(* m_alfDeriveCtu: the end of the lines the ALF filters are derived from,  *)
(* all of them or, with IFP, ifpLines rounded up to whole ALF units.       *)
AlfDeriveCtu ==
  IF conf.ifpLines = 0 THEN LastCtu
  ELSE LET units == conf.ifpLines \div conf.asuHeight + 1
       IN  <<Cols - 1, Min2(units * conf.asuHeight, Rows) - 1>>

CcalfDeriveCtu ==
  IF conf.ifpLines = 0 THEN LastCtu
  ELSE <<Cols - 1, Min2(conf.ifpLines + 1, Rows) - 1>>

-----------------------------------------------------------------------------
(* Guards: what xProcessCtuTask checks before it runs a stage. *)

State(p, c) == processStates[p][c]

(* The variants named Wrong... replace the definition that follows them in  *)
(* checks that a property notices such a mistake; nothing else uses them.  *)

WrongNbBehindEqual(p, c, dx, dy, s) ==
  Nb(c, dx, dy) \in Ctu /\ State(p, Nb(c, dx, dy)) = s

(* A neighbour c + (dx, dy) inside the picture that is not past stage s. *)
NbBehind(p, c, dx, dy, s) ==
  Nb(c, dx, dy) \in Ctu /\ State(p, Nb(c, dx, dy)) <= s

(* checkCtuTaskNb*: the same, for neighbours the filters reach across to.  *)
FilterNbBehind(p, c, dx, dy, s) ==
  NbBehind(p, c, dx, dy, s) /\ CanFilterCtuBdry(c, Nb(c, dx, dy))

(* CTUs of a line go from left to right, except that encoding may start    *)
(* anew at the left border of a tile.                                      *)
LineOrder(p, c) ==
  \/ /\ conf.tileParallel
     /\ State(p, c) = CTU_ENCODE
     /\ c[1] > 0 /\ ~SameTile(c, Nb(c, -1, 0))
  \/ ~NbBehind(p, c, -1, 0, State(p, c))

LineStart(c) ==
  c[1] = 0 \/ (conf.tileParallel /\ ~SameTile(c, Nb(c, -1, 0)))

(* refPicCtuLineReady: the counter of the line exceeds the tile columns.   *)
RefLineReady(p, y) ==
  \A q \in Refs[p] : tileColsDone[q][Min2(y, Rows - 1)] >= NumTileCols + 1

EncodeReady(p, c) ==
  /\ conf.ifpLines > 0 /\ LineStart(c) => RefLineReady(p, c[2] + conf.ifpLines)
  /\ \/ conf.tileParallel /\ c[2] > 0 /\ ~SameTile(c, Nb(c, 0, -1))
     \/ /\ ~NbBehind(p, c, 0, -1, CTU_ENCODE)
        /\ conf.wppSync \/ ~NbBehind(p, c, 1, -1, CTU_ENCODE)

CheckRight(c) == Min2(conf.encDelay, conf.lastCol[c[1]] - c[1])

WrongLfVerReadyRightOnly(p, c) ==
  ~FilterNbBehind(p, c, CheckRight(c), 0, CTU_ENCODE)

LfVerReady(p, c) ==
  LET right  == CheckRight(c)
      leftmost == IF c[1] > 0 THEN -1 ELSE 0
      encoded(dx, dy) == ~FilterNbBehind(p, c, dx, dy, CTU_ENCODE)
  IN  /\ HasTiles => \A dx \in leftmost .. right : encoded(dx, -1)
      /\ \A dx \in (IF HasTiles THEN leftmost ELSE right) .. right : encoded(dx, 0)
      /\ encoded(Min2(1, conf.lastCol[c[1]] - c[1]), 1)

WrongLfHorReadyTopOnly(p, c) == ~FilterNbBehind(p, c, 0, -1, LF_HOR)

LfHorReady(p, c) ==
  /\ ~FilterNbBehind(p, c, 0, -1, LF_HOR)
  /\ ~FilterNbBehind(p, c, 1, 0, RESHAPE_LF_VER)

SaoReady(p, c) ==
  /\ ~NbBehind(p, c, 0, -1, SAO_FILTER)
  /\ ~NbBehind(p, c, 1, -1, SAO_FILTER)
  /\ ~NbBehind(p, c, 1, 0, LF_HOR)
  /\ ~NbBehind(p, c, 0, 1, LF_HOR)
  /\ ~NbBehind(p, c, 1, 1, LF_HOR)

WrongAlfStatReadyNoBottomRight(p, c) ==
  /\ ~FilterNbBehind(p, c, 1, 0, SAO_FILTER)
  /\ ~FilterNbBehind(p, c, 0, 1, SAO_FILTER)

AlfStatReady(p, c) ==
  /\ ~FilterNbBehind(p, c, 1, 0, SAO_FILTER)
  /\ ~FilterNbBehind(p, c, 0, 1, SAO_FILTER)
  /\ ~FilterNbBehind(p, c, 1, 1, SAO_FILTER)

(* Every tile line down to line y is past stage s. *)
LinesPast(p, y, s) ==
  \A d \in Ctu : d[2] <= y /\ LastInTileLine(d) => State(p, d) > s

AlfDeriveReady(p, c) ==
  IF c = AlfDeriveCtu THEN LinesPast(p, c[2], ALF_GET_STATISTICS)
  ELSE conf.ifpLines > 0 =>
         /\ State(p, AlfDeriveCtu) >= ALF_RECONSTRUCT
         /\ ~FilterNbBehind(p, c, 0, -1, ALF_DERIVE_FILTER)

(* The last line of the ALF unit (ASU) of line y. *)
BotLineInAsu(y) ==
  Min2((y \div conf.asuHeight) * conf.asuHeight + conf.asuHeight - 1, Rows - 1)

AlfReconReady(p, c) ==
  /\ State(p, AlfDeriveCtu) >= ALF_RECONSTRUCT
  /\ conf.ifpLines > 0 /\ Before(AlfDeriveCtu, c) /\ conf.asuHeight > 1
       => State(p, <<c[1], BotLineInAsu(c[2])>>) >= ALF_RECONSTRUCT

WrongCcalfStatReadyOneLate(p, c) ==
  /\ ~FilterNbBehind(p, c, 0, -1, CCALF_GET_STATISTICS)
  /\ ~FilterNbBehind(p, c, 0, 1, CCALF_GET_STATISTICS)

CcalfStatReady(p, c) ==
  /\ ~FilterNbBehind(p, c, 0, -1, ALF_RECONSTRUCT)
  /\ ~FilterNbBehind(p, c, 0, 1, ALF_RECONSTRUCT)

CcalfDeriveReady(p, c) ==
  IF c = CcalfDeriveCtu THEN LinesPast(p, c[2], CCALF_GET_STATISTICS)
  ELSE conf.ifpLines > 0 =>
         /\ State(p, CcalfDeriveCtu) >= CCALF_RECONSTRUCT
         /\ ~FilterNbBehind(p, c, 0, -1, CCALF_DERIVE_FILTER)

WrongCcalfReconReadyAnyOrder(p, c) ==
  /\ State(p, CcalfDeriveCtu) >= CCALF_RECONSTRUCT
  /\ conf.ifpLines > 0 => ~FilterNbBehind(p, c, 0, 1, CCALF_GET_STATISTICS)

CcalfReconReady(p, c) ==
  /\ State(p, CcalfDeriveCtu) >= CCALF_RECONSTRUCT
  /\ conf.ifpLines > 0 =>
       /\ ~FilterNbBehind(p, c, 0, -1, CCALF_RECONSTRUCT)
       /\ ~FilterNbBehind(p, c, 0, 1, CCALF_GET_STATISTICS)

WrongFinishReadyLineOnly(p, c) ==
  \A d \in Ctu \ {c} : d[2] = c[2] => State(p, d) >= FINISH_SLICE

FinishReady(p, c) ==
  \A d \in Ctu \ {c} : State(p, d) >= FINISH_SLICE

Ready(p, c) ==
  /\ LineOrder(p, c)
  /\ \/ State(p, c) = CTU_ENCODE           /\ EncodeReady(p, c)
     \/ State(p, c) = RESHAPE_LF_VER       /\ LfVerReady(p, c)
     \/ State(p, c) = LF_HOR               /\ LfHorReady(p, c)
     \/ State(p, c) = SAO_FILTER           /\ SaoReady(p, c)
     \/ State(p, c) = ALF_GET_STATISTICS   /\ AlfStatReady(p, c)
     \/ State(p, c) = ALF_DERIVE_FILTER    /\ AlfDeriveReady(p, c)
     \/ State(p, c) = ALF_RECONSTRUCT      /\ AlfReconReady(p, c)
     \/ State(p, c) = CCALF_GET_STATISTICS /\ CcalfStatReady(p, c)
     \/ State(p, c) = CCALF_DERIVE_FILTER  /\ CcalfDeriveReady(p, c)
     \/ State(p, c) = CCALF_RECONSTRUCT    /\ CcalfReconReady(p, c)
     \/ State(p, c) = FINISH_SLICE         /\ FinishReady(p, c)

-----------------------------------------------------------------------------
(* Actions. *)

Init ==
  /\ conf \in Configs
  /\ processStates = [p \in Pics |-> [c \in Ctu |-> CTU_ENCODE]]
  /\ running = {}
  /\ tileColsDone = [p \in Pics |-> [y \in Y |-> 0]]

(* A worker takes the task of a CTU whose ready check passes.  The checks  *)
(* read the states of the neighbours one by one; ReadyIsStable is why one  *)
(* step can stand for all of the reads.                                    *)
StartStage(p, c) ==
  /\ p \in conf.pics /\ <<p, c>> \notin running
  /\ Cardinality(running) < NumThreads
  /\ Ready(p, c)
  /\ running' = running \cup {<<p, c>>}
  /\ UNCHANGED <<conf, processStates, tileColsDone>>

WrongNextStateEveryCtu(c, s) ==
  IF s = CCALF_RECONSTRUCT /\ c # LastCtu THEN PROCESS_DONE ELSE s + 1

(* The state a CTU moves to when its stage is done.                        *)
NextState(c, s) ==
  IF s = SAO_FILTER /\ ~LastInTileLine(c) THEN PROCESS_DONE
  ELSE IF s = ALF_GET_STATISTICS /\ Before(c, AlfDeriveCtu) THEN ALF_RECONSTRUCT
  ELSE IF s = CCALF_GET_STATISTICS /\ Before(c, CcalfDeriveCtu) THEN CCALF_RECONSTRUCT
  ELSE IF s = CCALF_RECONSTRUCT /\ c # LastCtu THEN PROCESS_DONE
  ELSE s + 1

(* The line of tile columns done: the last one extends the picture border  *)
(* and, with IFP, adds the increment that announces the line.              *)
CountTileCol(n) ==
  IF n + 1 >= NumTileCols /\ conf.ifpLines > 0 THEN n + 2 ELSE n + 1

StageDone(p, c) ==
  /\ <<p, c>> \in running
  /\ processStates' = [processStates EXCEPT ![p][c] = NextState(c, State(p, c))]
  /\ running' = running \ {<<p, c>>}
  /\ tileColsDone' = IF State(p, c) = CCALF_RECONSTRUCT
                     THEN [tileColsDone EXCEPT ![p][c[2]] = CountTileCol(@)]
                     ELSE tileColsDone
  /\ UNCHANGED conf

Next == \E p \in Pics, c \in Ctu : StartStage(p, c) \/ StageDone(p, c)

Spec == Init /\ [][Next]_vars

(* The workers scan the pool until its tasks are done and a stage that is  *)
(* started ends.                                                           *)
Fairness ==
  \A p \in Pics, c \in Ctu : WF_vars(StartStage(p, c)) /\ WF_vars(StageDone(p, c))

FairSpec == Spec /\ Fairness

-----------------------------------------------------------------------------
(* What the stages touch: of the reconstruction of a CTU its upper strip   *)
(* (the 8 lines that SAO of the CTU above reads) and the rest, which ends   *)
(* in the lines that deblocking the CTU below changes; and the copy of the *)
(* CTU that ALF filters from.                                              *)

Started(p, c, s) ==
  State(p, c) > s \/ (State(p, c) = s /\ <<p, c>> \in running)

Around(c) == {d \in Ctu : d[1] - c[1] \in -1 .. 1 /\ d[2] - c[2] \in -1 .. 1}

FilterNbs(c) == {d \in Around(c) : CanFilterCtuBdry(c, d)}

(* Intra prediction and intra block copy take samples of these CTUs.       *)
PredictionNbs(c) ==
  {d \in Ctu :
     /\ SameTile(c, d)
     /\ \/ d[2] = c[2] /\ d[1] \in c[1] - conf.encDelay .. c[1] - 1
        \/ d[2] = c[2] - 1 /\ d[1] \in c[1] - 1 .. (IF conf.wppSync THEN c[1] ELSE c[1] + 1)}

LineNbs(c) == UNION {FilterNbs(d) : d \in TileLine(c)}

Upper(cs) == {"upper"} \X (cs \cap Ctu)
Lower(cs) == {"lower"} \X (cs \cap Ctu)
Reco(cs)  == Upper(cs) \cup Lower(cs)
Copy(cs)  == {"alf copy"} \X (cs \cap Ctu)

(* SAO stores the samples right and below before they change; CCALF takes  *)
(* luma from the copy and chroma, with the lines around, from the          *)
(* reconstruction.                                                         *)
Reads(c, s) ==
  CASE s = CTU_ENCODE -> Reco(PredictionNbs(c))
    [] s = SAO_FILTER ->
         Reco({Nb(c, 1, 0)} \cap FilterNbs(c))
           \cup Upper({Nb(c, 0, 1), Nb(c, 1, 1)} \cap FilterNbs(c))
    [] s \in {ALF_GET_STATISTICS, ALF_RECONSTRUCT, CCALF_RECONSTRUCT} -> Copy(LineNbs(c))
    [] s = CCALF_GET_STATISTICS ->
         Copy(LineNbs(c)) \cup Reco({d \in LineNbs(c) : \E t \in TileLine(c) : d[1] = t[1]})
    [] OTHER -> {}

(* Deblocking filters both sides of the left and of the upper CTU edge.    *)
Writes(c, s) ==
  CASE s = CTU_ENCODE -> Reco({c})
    [] s = RESHAPE_LF_VER -> Reco({c} \cup ({Nb(c, -1, 0)} \cap FilterNbs(c)))
    [] s = LF_HOR -> Reco({c}) \cup Lower({Nb(c, 0, -1)} \cap FilterNbs(c))
    [] s = SAO_FILTER -> Reco({c}) \cup Copy({c})
    [] s \in {ALF_RECONSTRUCT, CCALF_RECONSTRUCT} -> Reco(TileLine(c))
    [] OTHER -> {}

-----------------------------------------------------------------------------
(* Properties. *)

(* The types; and only the last CTU of a tile line takes the ALF stages.   *)
TypeOK ==
  /\ conf \in Configs
  /\ processStates \in [Pics -> [Ctu -> TaskType]]
  /\ \A p \in Pics, c \in Ctu :
       ~LastInTileLine(c) => State(p, c) <= SAO_FILTER \/ State(p, c) = PROCESS_DONE
  /\ running \subseteq Pics \X Ctu
  /\ tileColsDone \in [Pics -> [Y -> Nat]]

(* Encoding predicts from unfiltered samples: as long as a CTU is not      *)
(* encoded, none of the CTUs it predicts from has begun to be reshaped or  *)
(* deblocked.  The stages check only the CTUs to the right and to the      *)
(* bottom right; the comments there say that the rest is implied.          *)
PredictionSeesUnfiltered ==
  \A p \in Pics, c \in Ctu : State(p, c) = CTU_ENCODE =>
    \A d \in PredictionNbs(c) : ~Started(p, d, RESHAPE_LF_VER)

(* No worker writes samples that another one, in any stage of the same     *)
(* picture, is reading or writing.                                         *)
NoSampleConflict ==
  \A t, u \in running : t # u /\ t[1] = u[1] =>
    Writes(t[2], State(t[1], t[2]))
      \cap (Reads(u[2], State(u[1], u[2])) \cup Writes(u[2], State(u[1], u[2]))) = {}

(* No line is filtered by ALF (CCALF) before the statistics of every line  *)
(* that the filters are derived from, and its own, have been gathered.     *)
FilterAfterStatistics ==
  \A p \in Pics, c \in Ctu : LastInTileLine(c) =>
    /\ Started(p, c, ALF_RECONSTRUCT) =>
         \A d \in Ctu : (d = c \/ d[2] <= AlfDeriveCtu[2]) => State(p, d) > ALF_GET_STATISTICS
    /\ Started(p, c, CCALF_RECONSTRUCT) =>
         \A d \in Ctu : (d = c \/ d[2] <= CcalfDeriveCtu[2]) => State(p, d) > CCALF_GET_STATISTICS

(* SAO sees deblocked samples on all sides, and ALF sees samples after SAO *)
(* on all sides, although each looks only to the right and below; and no   *)
(* line is filtered before the statistics it needs.                        *)
FiltersSeeFinishedInput ==
  /\ \A p \in Pics, c \in Ctu :
       /\ Started(p, c, SAO_FILTER) => \A d \in Around(c) : State(p, d) > LF_HOR
       /\ LastInTileLine(c) /\ Started(p, c, ALF_GET_STATISTICS) =>
            \A d \in LineNbs(c) : State(p, d) > SAO_FILTER
  /\ FilterAfterStatistics

(* While a CTU is encoded, the lines of its reference pictures down to     *)
(* ifpLines below it are final, although only the counter of the last of   *)
(* them is looked at, and only by the first CTU of a line.                 *)
ReferenceLinesFinal ==
  conf.ifpLines > 0 =>
    \A t \in running : State(t[1], t[2]) = CTU_ENCODE =>
      \A q \in Refs[t[1]], d \in Ctu :
        d[2] <= Min2(t[2][2] + conf.ifpLines, Rows - 1) => State(q, d) >= FINISH_SLICE

(* A picture is done with all of its lines counted, each exactly once.     *)
DoneCountsAllLines ==
  \A p \in Pics : State(p, LastCtu) = PROCESS_DONE =>
    /\ \A c \in Ctu : State(p, c) = PROCESS_DONE /\ <<p, c>> \notin running
    /\ \A y \in Y : tileColsDone[p][y] = NumTileCols + (IF conf.ifpLines > 0 THEN 1 ELSE 0)

(* A ready CTU stays ready until its task takes the stage: checks made one *)
(* after the other, and again after the ready check, see what one check    *)
(* would have seen.                                                        *)
ReadyIsStable ==
  [][\A p \in Pics, c \in Ctu :
       Ready(p, c) /\ State(p, c) = processStates'[p][c] => Ready(p, c)']_vars

(* Every picture is finished: no pattern of waiting CTUs, of one picture   *)
(* or of several, blocks itself.                                           *)
EveryPictureFinishes ==
  \A p \in Pics : <>(p \in conf.pics => State(p, LastCtu) = PROCESS_DONE)
=============================================================================
