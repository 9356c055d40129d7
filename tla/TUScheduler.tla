----------------------------- MODULE TUScheduler -----------------------------
(***************************************************************************)
(* The scheduler of work units (TUScheduler) with the graphs it runs: the  *)
(* stages of the transform units of one mode trial (TUPipelineDAG) and the *)
(* CTUs of one picture (PictureDAG).                                       *)
(*                                                                         *)
(* A pool of units is scanned from its first to its last unit, a unit that *)
(* is ready is executed on the spot, and the scan is repeated by the same  *)
(* thread: in a loop for a trial, by the next advanceFrame for a picture.  *)
(* One step here is the look at one unit.  The scheduler has a pool of its *)
(* own; executeWorkUnits is given one by its caller.                       *)
(***************************************************************************)
EXTENDS Integers, Sequences, FiniteSets, SequencesExt, FiniteSetsExt, Functions

CONSTANTS
  Trials,    \* the numbers of coded components of the TUs of a trial
  Pictures,  \* the pictures, [cols, rows] in CTUs
  MaxCalls   \* bound: calls that replace a pool or mark the trace target

ASSUME SchedulerAssumption ==
  /\ Trials \subseteq Seq(0 .. 3)
  /\ \A pic \in Pictures : {pic.cols, pic.rows} \subseteq Nat \ {0}
  /\ MaxCalls \in Nat

VARIABLES
  policy,       \* m_ePolicy
  kind,         \* what the units of each pool are: stages of TUs, CTUs
  tuId,         \* WorkUnit::m_tuId of the units of each pool
  depCount,     \* WorkUnit::m_depCount
  dependents,   \* WorkUnit::m_pDependents, up to m_numDependents
  picture,      \* the picture submitted last: m_numCtuCols, m_numCtuInPic
  ctuStates,    \* m_pCtuStates: the CTUs at WF_DONE
  frameActive,  \* m_bFrameActive
  target,       \* g_pSchedulerTraceTarget is this scheduler
  pc,           \* the call: idle, executing a trial, advancing a frame
  pool,         \* its pool,
  unit,         \*   the unit it looks at next,
  activeTu,     \*   and the local variables of the scan and of its loop
  completed,
  remaining,
  ran,          \* the units of each pool in the order they were executed
  rebuilt,      \* the caller has built a second time in the same memory
  calls         \* the calls so far

unitVars == <<kind, tuId, depCount, dependents>>
frameVars == <<picture, ctuStates, frameActive, target>>
callVars == <<pc, pool, unit, activeTu, completed, remaining>>
vars == <<policy, unitVars, frameVars, callVars, ran, rebuilt, calls>>

Pools == {"own", "caller"}

Units(p) == DOMAIN tuId[p]

NoPicture == [cols |-> 0, rows |-> 0]

Init ==
  /\ policy = "STAGE_GLOBAL"
  /\ kind = [p \in Pools |-> "none"]
  /\ tuId = [p \in Pools |-> <<>>]
  /\ depCount = [p \in Pools |-> <<>>]
  /\ dependents = [p \in Pools |-> <<>>]
  /\ picture = NoPicture
  /\ ctuStates = {}
  /\ frameActive = FALSE
  /\ target = FALSE
  /\ pc = "idle"
  /\ pool = "own"
  /\ unit = 1
  /\ activeTu = 0
  /\ completed = 0
  /\ remaining = 0
  /\ ran = [p \in Pools |-> <<>>]
  /\ rebuilt = FALSE
  /\ calls = 0

-----------------------------------------------------------------------------
(* TUPipelineDAG: every coded component of a TU has five stages.  Each     *)
(* waits for the one before it, and the first one of a component for the   *)
(* last one of the TU's component before: a unit waits for the one that    *)
(* precedes it in the pool if that is of the same TU.                      *)

StagesPerComponent == 5

StagesOfTUs(trial) ==
  FlattenSeq([t \in 1 .. Len(trial) |-> [s \in 1 .. StagesPerComponent * trial[t] |-> t]])

(* The number of the stage of a unit in its component (s_componentStages). *)
StageOf(u) == (u - 1) % StagesPerComponent

WaitsForPrevious(ids, u) == u > 1 /\ ids[u - 1] = ids[u]

(* The links are made anew, but the counts go up from what they are. *)
LinkUnits(p, ids, counts) ==
  LET Linked(u) == u \in DOMAIN ids /\ WaitsForPrevious(ids, u)
  IN  /\ kind' = [kind EXCEPT ![p] = "stages"]
      /\ tuId' = [tuId EXCEPT ![p] = ids]
      /\ depCount' = [depCount EXCEPT ![p] =
                        [u \in DOMAIN ids |-> counts[u] + IF Linked(u) THEN 1 ELSE 0]]
      /\ dependents' = [dependents EXCEPT ![p] =
                          [u \in DOMAIN ids |-> {v \in {u + 1} : Linked(v)}]]
      /\ ran' = [ran EXCEPT ![p] = <<>>]

NewPool(ids) == [u \in DOMAIN ids |-> 0]

(* PictureDAG: one unit for each CTU, none waiting for another one; its    *)
(* m_tuId is its address.                                                  *)
Ctus(pic) == 0 .. pic.cols * pic.rows - 1

CtuUnits(pic) == [u \in 1 .. pic.cols * pic.rows |-> u - 1]

(* The upper right neighbour, also in the first row. *)
WrongNeighbours(ctu) ==
  (IF ctu % picture.cols > 0 THEN {ctu - 1} ELSE {})
    \union (IF ctu \div picture.cols > 0 THEN {ctu - picture.cols} ELSE {})
    \union {ctu - picture.cols + 1}

(* The addresses of the left, upper and upper right neighbour.  The last   *)
(* one is computed alike in the last column.                               *)
Neighbours(ctu) ==
  (IF ctu % picture.cols > 0 THEN {ctu - 1} ELSE {})
    \union (IF ctu \div picture.cols > 0
              THEN {ctu - picture.cols, ctu - picture.cols + 1} ELSE {})

CheckSpatialDeps(ctu) == Neighbours(ctu) \subseteq ctuStates

-----------------------------------------------------------------------------
(* xSubmitReady begins with the TU whose units may run.                    *)
NotDone(counts, ids) == {ids[u] : u \in {v \in DOMAIN ids : counts[v] >= 0}}

ActiveTu(counts, ids) ==
  IF policy # "TU_SEQUENTIAL" THEN 0
  ELSE IF NotDone(counts, ids) # {} THEN Min(NotDone(counts, ids))
  ELSE Max(Range(ids)) + 1

Scan(p, counts, ids) ==
  /\ pool' = p
  /\ unit' = 1
  /\ completed' = 0
  /\ activeTu' = ActiveTu(counts, ids)

Called == pc = "idle" /\ calls < MaxCalls /\ calls' = calls + 1

ExecuteAll(p) ==
  /\ pc' = "execute"
  /\ remaining' = Len(tuId'[p])
  /\ Scan(p, depCount'[p], tuId'[p])

SubmitModeTrial(trial) ==
  /\ Called
  /\ StagesOfTUs(trial) # <<>>
  /\ LinkUnits("own", StagesOfTUs(trial), NewPool(StagesOfTUs(trial)))
  /\ ExecuteAll("own")
  /\ UNCHANGED <<policy, frameVars, rebuilt>>

(* The caller builds in new memory, or after a run the same trial again in *)
(* the same, and gives the pool to executeWorkUnits.                       *)
BuildPool(trial) ==
  /\ Called
  /\ StagesOfTUs(trial) # <<>>
  /\ LinkUnits("caller", StagesOfTUs(trial), NewPool(StagesOfTUs(trial)))
  /\ rebuilt' = FALSE
  /\ UNCHANGED <<policy, frameVars, callVars>>

RebuildPool ==
  /\ Called
  /\ ran["caller"] # <<>>
  /\ LinkUnits("caller", tuId["caller"], depCount["caller"])
  /\ rebuilt' = TRUE
  /\ UNCHANGED <<policy, frameVars, callVars>>

ExecuteWorkUnits ==
  /\ Called
  /\ kind["caller"] # "none"
  /\ UNCHANGED <<policy, unitVars, frameVars, ran, rebuilt>>
  /\ ExecuteAll("caller")

SubmitFrame(pic) ==
  /\ Called
  /\ kind' = [kind EXCEPT !["own"] = "ctus"]
  /\ tuId' = [tuId EXCEPT !["own"] = CtuUnits(pic)]
  /\ depCount' = [depCount EXCEPT !["own"] = [u \in DOMAIN CtuUnits(pic) |-> 0]]
  /\ dependents' = [dependents EXCEPT !["own"] = [u \in DOMAIN CtuUnits(pic) |-> {}]]
  /\ picture' = pic
  /\ ctuStates' = {}
  /\ target' = TRUE
  /\ frameActive' = TRUE
  /\ ran' = [ran EXCEPT !["own"] = <<>>]
  /\ UNCHANGED <<policy, callVars, rebuilt>>

AdvanceFrame ==
  /\ pc = "idle"
  /\ frameActive
  /\ pc' = "advance"
  /\ pool' = "own"
  /\ unit' = 1
  /\ completed' = 0
  /\ UNCHANGED <<policy, unitVars, frameVars, activeTu, remaining, ran, rebuilt, calls>>

SetPolicy(p) ==
  /\ Called
  /\ policy' = p
  /\ UNCHANGED <<unitVars, frameVars, callVars, ran, rebuilt>>

(* destroy, and an init after it. *)
Destroy ==
  /\ Called
  /\ kind' = [kind EXCEPT !["own"] = "none"]
  /\ tuId' = [tuId EXCEPT !["own"] = <<>>]
  /\ depCount' = [depCount EXCEPT !["own"] = <<>>]
  /\ dependents' = [dependents EXCEPT !["own"] = <<>>]
  /\ picture' = NoPicture
  /\ ctuStates' = {}
  /\ frameActive' = FALSE
  /\ target' = FALSE
  /\ ran' = [ran EXCEPT !["own"] = <<>>]
  /\ UNCHANGED <<policy, callVars, rebuilt>>

(* Another scheduler of the process submits a frame or is destroyed. *)
LoseTarget ==
  /\ Called
  /\ target
  /\ target' = FALSE
  /\ UNCHANGED <<policy, unitVars, picture, ctuStates, frameActive, callVars, ran, rebuilt>>

-----------------------------------------------------------------------------
Ready(u) ==
  /\ depCount[pool][u] = 0
  /\ IF pc = "execute"
       THEN policy = "TU_SEQUENTIAL" => tuId[pool][u] <= activeTu
       ELSE kind[pool] = "ctus" => CheckSpatialDeps(tuId[pool][u])

(* The test of the stage left out. *)
WrongMarksCtu == target

(* xOnComplete: the units that waited, and the state of the CTU.           *)
MarksCtu == target /\ kind[pool] = "ctus"

(* m_ctuRsAddr, 0 in the stages of a TU *)
RsAddr(u) == IF kind[pool] = "ctus" THEN tuId[pool][u] ELSE 0

(* The count left at 0. *)
WrongOnComplete(u) ==
  /\ depCount' = [depCount EXCEPT ![pool] =
                    [v \in Units(pool) |->
                       IF v \in dependents[pool][u] THEN @[v] - 1 ELSE @[v]]]
  /\ dependents' = [dependents EXCEPT ![pool][u] = {}]
  /\ ctuStates' = IF MarksCtu
                    THEN ctuStates \union {RsAddr(u)} ELSE ctuStates
  /\ completed' = completed + 1

OnComplete(u) ==
  /\ depCount' = [depCount EXCEPT ![pool] =
                    [v \in Units(pool) |->
                       IF v = u THEN -1
                       ELSE IF v \in dependents[pool][u] THEN @[v] - 1 ELSE @[v]]]
  /\ dependents' = [dependents EXCEPT ![pool][u] = {}]
  /\ ctuStates' = IF MarksCtu
                    THEN ctuStates \union {RsAddr(u)} ELSE ctuStates
  /\ completed' = completed + 1

Look ==
  /\ pc # "idle"
  /\ unit \in Units(pool)
  /\ unit' = unit + 1
  /\ UNCHANGED <<policy, kind, tuId, picture, frameActive, target,
                 pc, pool, activeTu, remaining, rebuilt, calls>>

Execute ==
  /\ Look
  /\ Ready(unit)
  /\ OnComplete(unit)
  /\ ran' = [ran EXCEPT ![pool] = Append(@, unit)]

Skip ==
  /\ Look
  /\ ~Ready(unit)
  /\ UNCHANGED <<depCount, dependents, ctuStates, completed, ran>>

(* What is left compared with what the scan has done. *)
WrongEndOfScan ==
  /\ pc = "execute"
  /\ unit \notin Units(pool)
  /\ remaining' = remaining - completed
  /\ IF remaining' > completed
       THEN Scan(pool, depCount[pool], tuId[pool]) /\ UNCHANGED pc
       ELSE pc' = "idle" /\ UNCHANGED <<pool, unit, completed, activeTu>>
  /\ UNCHANGED <<policy, unitVars, frameVars, ran, rebuilt, calls>>

(* A trial is scanned until nothing is left or a scan made no progress. *)
EndOfScan ==
  /\ pc = "execute"
  /\ unit \notin Units(pool)
  /\ remaining' = remaining - completed
  /\ IF remaining' > 0 /\ completed > 0
       THEN Scan(pool, depCount[pool], tuId[pool]) /\ UNCHANGED pc
       ELSE pc' = "idle" /\ UNCHANGED <<pool, unit, completed, activeTu>>
  /\ UNCHANGED <<policy, unitVars, frameVars, ran, rebuilt, calls>>

EndOfAdvance ==
  /\ pc = "advance"
  /\ unit \notin Units(pool)
  /\ pc' = "idle"
  /\ frameActive' = ~ Ctus(picture) \subseteq ctuStates
  /\ UNCHANGED <<policy, unitVars, picture, ctuStates, target,
                 pool, unit, activeTu, completed, remaining, ran, rebuilt, calls>>

Policies == {"TU_SEQUENTIAL", "STAGE_GLOBAL", "HYBRID", "WAVEFRONT"}

Next ==
  \/ \E trial \in Trials : SubmitModeTrial(trial) \/ BuildPool(trial)
  \/ RebuildPool
  \/ \E pic \in Pictures : SubmitFrame(pic)
  \/ \E p \in Policies : SetPolicy(p)
  \/ ExecuteWorkUnits
  \/ AdvanceFrame
  \/ Destroy
  \/ LoseTarget
  \/ Execute
  \/ Skip
  \/ EndOfScan
  \/ EndOfAdvance

(* A call runs to its end, and the caller of submitFrame calls             *)
(* advanceFrame until the frame is no longer active.                       *)
Fairness ==
  /\ WF_vars(Execute \/ Skip \/ EndOfScan \/ EndOfAdvance)
  /\ WF_vars(AdvanceFrame)

Spec == Init /\ [][Next]_vars /\ Fairness

-----------------------------------------------------------------------------
HasRun(p, u) == u \in Range(ran[p])

(* The pools whose units are the stages of TUs and that were built in new  *)
(* memory: m_depCount starts from 0 only in those.                         *)
NewlyBuilt(p) == kind[p] = "stages" /\ (p = "caller" => ~rebuilt)

Executes(v) ==
  /\ pc = "execute" /\ NewlyBuilt(pool)
  /\ ran'[pool] = Append(ran[pool], v)

(* submitModeTrial and executeWorkUnits execute a unit at most once and,   *)
(* under every policy, after all stages before it in its TU; under         *)
(* TU_SEQUENTIAL also after all units of the TUs before.                   *)
UnitsInOrder ==
  [][\A v \in Units(pool) : Executes(v) =>
       /\ ~HasRun(pool, v)
       /\ \A u \in Units(pool) :
            (\/ tuId[pool][u] = tuId[pool][v] /\ u < v
             \/ policy = "TU_SEQUENTIAL" /\ tuId[pool][u] < tuId[pool][v]) => HasRun(pool, u)]_vars

(* What Scheduler.spec.md and TUScheduler.spec.md say of STAGE_GLOBAL: all *)
(* units of a stage come before any unit of the next stage.  In the code a *)
(* scan executes a unit that the one before it has just made ready.        *)
StageByStage ==
  [][\A v \in Units(pool) : Executes(v) /\ policy = "STAGE_GLOBAL" =>
       \A u \in Units(pool) : StageOf(u) < StageOf(v) => HasRun(pool, u)]_vars

(* They return 0 without a look at what is left; in new memory nothing is. *)
ReturnsWhenDone ==
  \A p \in Pools : (NewlyBuilt(p) /\ pc = "idle" /\ ran[p] # <<>>) =>
    \A u \in Units(p) : HasRun(p, u)

(* A CTU is encoded after its left, upper and upper right neighbour in the *)
(* picture, also when trials run between two calls of advanceFrame, and is *)
(* marked as done only when it has been.                                   *)
NeighboursFirst ==
  kind["own"] = "ctus" =>
    LET encoded == {tuId["own"][u] : u \in Range(ran["own"])}
        Col(ctu) == ctu % picture.cols
    IN  /\ ctuStates \subseteq encoded
        /\ IsInjective(ran["own"])
        /\ \A ctu \in encoded :
             /\ Col(ctu) > 0 => ctu - 1 \in encoded
             /\ ctu >= picture.cols => ctu - picture.cols \in encoded
             /\ (ctu >= picture.cols /\ Col(ctu) + 1 < picture.cols)
                  => ctu - picture.cols + 1 \in encoded

(* A frame does not stay active for ever, unless a trial replaces the pool *)
(* of the scheduler or another scheduler takes the marks; but a picture of *)
(* one column and several rows does, as every CTU below the first waits    *)
(* for itself.                                                             *)
InProgress ==
  /\ frameActive
  /\ kind["own"] = "ctus" /\ target
  /\ picture.cols > 1 \/ picture.rows = 1

FrameFinishes == []<>~InProgress
=============================================================================
