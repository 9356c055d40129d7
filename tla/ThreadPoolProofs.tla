-------------------------- MODULE ThreadPoolProofs --------------------------
(***************************************************************************)
(* What the thread pool guarantees for every number of workers, clients    *)
(* and tasks, every size of a chunk and every program of the clients: a    *)
(* slot has one holder, a counter counts its tasks, and the pool keeps the *)
(* promise of TaskPool.                                                    *)
(***************************************************************************)
EXTENDS ThreadPool, FiniteSetTheorems, SequenceTheorems, TLAPS

WorkerPcs == {"scan", "look", "barriers", "check", "run", "unlock", "uncount",
              "free", "nothing", "parked", "exited"}

ClientPcs == {"op", "scan", "retry", "grow", "count", "fill", "advance", "join"}

(* The types of TypeOK, but for the counters, which are not known to stay  *)
(* above zero before CountersAgree.                                        *)
PoolType ==
  /\ slots \in Seq(SlotType) /\ Len(slots) >= 1
  /\ nextFill \in 1 .. Len(slots)
  /\ count \in [Counters -> Int]
  /\ blocked \in [Locks -> BOOLEAN]
  /\ exitThreads \in BOOLEAN
  /\ idle \subseteq Workers /\ idleOwner \in Workers \cup {NoWorker}
  /\ wpc \in [Workers -> WorkerPcs]
  /\ wpos \in [Workers -> 1 .. Len(slots)] /\ wnext \in [Workers -> 1 .. Len(slots)]
  /\ cpc \in [Clients -> ClientPcs]
  /\ cpos \in [Clients -> 1 .. Len(slots)] /\ cstart \in [Clients -> 1 .. Len(slots)]
  /\ next \in [Clients -> Nat \ {0}]
  /\ stage \in [Tasks -> Nat]

(* A client in addBarrierTask is at an operation that adds a task. *)
Adding(a) == cpc[a] \in {"scan", "retry", "grow", "count", "fill", "advance"}

AddsTask == \A a \in Clients : Adding(a) => next[a] <= Len(Program[a]) /\ Op(a).op = "add"

(* What is found in a slot that was filled is a task. *)
Filled(i) == slots[i].state \in {"WAITING", "RUNNING"}

FilledHasTask == \A i \in 1 .. Len(slots) : Filled(i) => slots[i].task \in Tasks

HolderInv == PoolType /\ AddsTask /\ FilledHasTask /\ OneHolderPerSlot

-----------------------------------------------------------------------------
(* The queue. *)

(* Iterator::incWrap stays in the queue. *)
LEMMA IncWrapInQueue ==
  ASSUME Len(slots) \in Nat, NEW i \in 1 .. Len(slots)
  PROVE  IncWrap(i) \in 1 .. Len(slots)
BY DEF IncWrap

(* The effect of a thread's store to a slot: this slot is r, all others are *)
(* as before.                                                              *)
Stored(i, r) ==
  /\ slots' \in Seq(SlotType) /\ Len(slots') = Len(slots)
  /\ slots'[i] = r
  /\ \A j \in 1 .. Len(slots) : j # i => slots'[j] = slots[j]

LEMMA Store ==
  ASSUME PoolType, NEW i \in 1 .. Len(slots), NEW r \in SlotType,
         slots' = [slots EXCEPT ![i] = r]
  PROVE  Stored(i, r)
BY ExceptSeq DEF PoolType, Stored

LEMMA StoreState ==
  ASSUME PoolType, NEW i \in 1 .. Len(slots),
         NEW s \in {"FREE", "PREPARING", "WAITING", "RUNNING"}, SetState(i, s)
  PROVE  Stored(i, [slots[i] EXCEPT !.state = s])
<1>1. slots[i] \in SlotType
  BY ElementOfSeq DEF PoolType
<1>2. [slots[i] EXCEPT !.state = s] \in SlotType
  BY <1>1 DEF SlotType
<1>3. slots' = [slots EXCEPT ![i] = [slots[i] EXCEPT !.state = s]]
  BY DEF SetState
<1>4. QED BY <1>2, <1>3, Store

(* A task that a client adds is one of the tasks. *)
LEMMA AddedTask ==
  ASSUME PoolType, AddsTask, NEW a \in Clients, Adding(a)
  PROVE  Op(a).task \in Tasks
<1>1. next[a] \in 1 .. Len(Program[a]) /\ Program[a][next[a]].op = "add"
  BY ProgramAssumption DEF PoolType, AddsTask, Op
<1>2. QED BY <1>1, ProgramAssumption DEF Op

-----------------------------------------------------------------------------
(* Every step keeps the types. *)

LEMMA DecrementTypes ==
  ASSUME NEW c, count \in [Counters -> Int], blocked \in [Locks -> BOOLEAN], Decrement(c)
  PROVE  count' \in [Counters -> Int] /\ blocked' \in [Locks -> BOOLEAN]
<1>1. CASE c = NoBarrier
  BY <1>1 DEF Decrement, lockVars
<1>2. CASE c # NoBarrier
  <2>1. count' = [count EXCEPT ![c] = count[c] - 1]
    BY <1>2 DEF Decrement
  <2>2. count' \in [Counters -> Int]
    <3>1. CASE c \in Counters
      <4>1. count[c] - 1 \in Int
        BY <3>1
      <4>2. QED BY <2>1, <3>1, <4>1
    <3>2. CASE c \notin Counters
      BY <2>1, <3>2
    <3>3. QED BY <3>1, <3>2
  <2>3. blocked' = [blocked EXCEPT ![c] = blocked[c] /\ count[c] # 1]
    BY <1>2 DEF Decrement
  <2>4. (blocked[c] /\ count[c] # 1) \in BOOLEAN
    OBVIOUS
  <2> DEFINE value == blocked[c] /\ count[c] # 1
  <2> HIDE DEF value
  <2>5. blocked' = [blocked EXCEPT ![c] = value] /\ value \in BOOLEAN
    BY <2>3, <2>4 DEF value
  <2>6. blocked' \in [Locks -> BOOLEAN]
    BY <2>5
  <2>7. QED BY <2>2, <2>6
<1>3. QED BY <1>1, <1>2

LEMMA ProgressType ==
  ASSUME NEW t, stage \in [Tasks -> Nat], Progress(t)
  PROVE  stage' \in [Tasks -> Nat]
<1>1. CASE Ready(t) /\ t \in Tasks
  <2>1. stage[t] + 1 \in Nat /\ stage' = [stage EXCEPT ![t] = stage[t] + 1]
    BY <1>1 DEF Progress
  <2>2. QED BY <1>1, <2>1
<1>2. CASE ~(Ready(t) /\ t \in Tasks)
  BY <1>2, Zenon DEF Progress
<1>3. QED BY <1>1, <1>2

(* A worker that goes on to the next slot or scan. *)
LEMMA MoveOnTypes ==
  ASSUME PoolType, NEW w \in Workers, Len(slots') = Len(slots), MoveOn(w)
  PROVE  /\ wpc' \in [Workers -> WorkerPcs]
         /\ wpos' \in [Workers -> 1 .. Len(slots')]
<1>1. wpos[w] \in 1 .. Len(slots) /\ IncWrap(wpos[w]) \in 1 .. Len(slots)
  BY IncWrapInQueue DEF PoolType
<1>2. QED BY <1>1 DEF PoolType, MoveOn, WGoto, WorkerPcs

(* What a worker does at its slot, and what it does after its scan. *)
LEMMA WorkerTypes ==
  ASSUME HolderInv, NEW w \in Workers, WorkerStep(w)
  PROVE  PoolType'
<1> USE DEF HolderInv
<1>1. wpos[w] \in 1 .. Len(slots) /\ IncWrap(wpos[w]) \in 1 .. Len(slots)
  BY IncWrapInQueue DEF PoolType
<1>2. ASSUME ClaimSlot(w) PROVE PoolType'
  <2>1. Stored(wpos[w], [slots[wpos[w]] EXCEPT !.state = "RUNNING"])
    BY <1>1, <1>2, StoreState DEF ClaimSlot
  <2>2. QED BY <1>2, <2>1
               DEF ClaimSlot, WGoto, WorkerPcs, clientVars, lockVars, PoolType, Stored
<1>3. ASSUME PassSlot(w) PROVE PoolType'
  BY <1>1, <1>3
     DEF PassSlot, MoveOn, WGoto, WorkerPcs, clientVars, lockVars, queueVars, PoolType
<1>4. ASSUME CheckBarriers(w) PROVE PoolType'
  <2>1. CASE \E b \in slots[wpos[w]].barriers : blocked[b]
    <3>1. Stored(wpos[w], [slots[wpos[w]] EXCEPT !.state = "WAITING"])
      BY <1>1, <1>4, <2>1, StoreState DEF CheckBarriers
    <3>2. MoveOn(w) /\ wnext' = wnext
      BY <1>4, <2>1 DEF CheckBarriers
    <3>3. QED BY <1>4, <3>1, <3>2, MoveOnTypes
              DEF CheckBarriers, clientVars, lockVars, PoolType, Stored
  <2>2. CASE ~(\E b \in slots[wpos[w]].barriers : blocked[b])
    <3>1. Stored(wpos[w], [slots[wpos[w]] EXCEPT !.barriers = {}])
      <4>1. slots[wpos[w]] \in SlotType
        BY <1>1, ElementOfSeq DEF PoolType
      <4>2. [slots[wpos[w]] EXCEPT !.barriers = {}] \in SlotType
        BY <4>1 DEF SlotType
      <4>3. slots' = [slots EXCEPT ![wpos[w]] = [slots[wpos[w]] EXCEPT !.barriers = {}]]
        BY <1>4, <2>2 DEF CheckBarriers
      <4>4. QED BY <1>1, <4>2, <4>3, Store
    <3>2. QED BY <1>1, <1>4, <2>2, <3>1
              DEF CheckBarriers, WGoto, WorkerPcs, clientVars, lockVars, PoolType, Stored
  <2>3. QED BY <2>1, <2>2
<1>5. ASSUME CheckReady(w) PROVE PoolType'
  <2>1. CASE Holds(w) \in HasCheck /\ ~Ready(Holds(w))
    <3>1. Stored(wpos[w], [slots[wpos[w]] EXCEPT !.state = "WAITING"])
      BY <1>1, <1>5, <2>1, StoreState DEF CheckReady
    <3>2. MoveOn(w) /\ wnext' = wnext /\ UNCHANGED <<idle, idleOwner>>
      BY <1>5, <2>1 DEF CheckReady
    <3>3. QED BY <1>5, <3>1, <3>2, MoveOnTypes
              DEF CheckReady, clientVars, lockVars, PoolType, Stored
  <2>2. CASE ~(Holds(w) \in HasCheck /\ ~Ready(Holds(w)))
    BY <1>5, <2>2 DEF CheckReady, WGoto, WorkerPcs, clientVars, lockVars, PoolType
  <2>3. QED BY <2>1, <2>2
<1>6. ASSUME ScanAgain(w) \/ Park(w) \/ Unpark(w) \/ Exit(w) PROVE PoolType'
  BY <1>6
     DEF ScanAgain, Park, Unpark, Exit, WGoto, WorkerPcs, clientVars, lockVars, queueVars, PoolType
<1>7. ASSUME Reschedule(w) PROVE PoolType'
  <2>1. Stored(wpos[w], [slots[wpos[w]] EXCEPT !.state = "WAITING"])
    BY <1>1, <1>7, StoreState DEF Reschedule
  <2>2. stage' \in [Tasks -> Nat]
    BY <1>7, ProgressType DEF Reschedule, PoolType
  <2>3. QED BY <1>1, <1>7, <2>1, <2>2
            DEF Reschedule, NextTask, WGoto, WorkerPcs, clientVars, lockVars, PoolType, Stored
<1>8. ASSUME Complete(w) PROVE PoolType'
  <2>1. stage' \in [Tasks -> Nat]
    BY <1>8, ProgressType DEF Complete, PoolType
  <2>2. QED BY <1>8, <2>1
               DEF Complete, AfterTask, WGoto, WorkerPcs, clientVars, lockVars, queueVars, PoolType
<1>9. ASSUME UnlockDone(w) PROVE PoolType'
  BY <1>9 DEF UnlockDone, Unlock, AfterTask, WGoto, WorkerPcs, clientVars, queueVars, PoolType
<1>10. ASSUME UncountTask(w) PROVE PoolType'
  <2>1. count' \in [Counters -> Int] /\ blocked' \in [Locks -> BOOLEAN]
    BY <1>10, DecrementTypes DEF UncountTask, PoolType
  <2>2. QED BY <1>10, <2>1
               DEF UncountTask, AfterTask, WGoto, WorkerPcs, clientVars, queueVars, PoolType
<1>11. ASSUME FreeTask(w) PROVE PoolType'
  <2>1. Stored(wpos[w], FreeSlot)
    BY <1>1, <1>11, Store DEF FreeTask, FreeSlot, SlotType
  <2>2. QED BY <1>1, <1>11, <2>1
            DEF FreeTask, NextTask, WGoto, WorkerPcs, clientVars, lockVars, PoolType, Stored
<1>12. QED
  BY <1>2, <1>3, <1>4, <1>5, <1>6, <1>7, <1>8, <1>9, <1>10, <1>11 DEF WorkerStep

LEMMA IncrementTypes ==
  ASSUME PoolType, NEW t \in Tasks, Increment(Counter[t])
  PROVE  count' \in [Counters -> Int] /\ blocked' \in [Locks -> BOOLEAN]
<1>1. CASE Counter[t] = NoBarrier
  BY <1>1 DEF Increment, lockVars, PoolType
<1>2. CASE Counter[t] # NoBarrier
  <2>1. Counter[t] \in Counters /\ Counter[t] \in Locks
    BY <1>2 DEF Counters, Locks
  <2>2. count[Counter[t]] + 1 \in Int
    BY <2>1 DEF PoolType
  <2>3. QED BY <1>2, <2>1, <2>2 DEF Increment, PoolType
<1>3. QED BY <1>1, <1>2

(* The queue with a new chunk. *)
LEMMA GrowEffect ==
  ASSUME PoolType, NEW a \in Clients, Grow(a)
  PROVE  /\ slots' \in Seq(SlotType) /\ Len(slots') = Len(slots) + ChunkSize
         /\ \A i \in 1 .. Len(slots) : slots'[i] = slots[i]
         /\ \A i \in 1 .. Len(slots') : i > Len(slots) => slots'[i] = FreeSlot
<1> DEFINE chunk == [i \in 1 .. ChunkSize |-> FreeSlot]
<1>1. FreeSlot \in SlotType
  BY DEF FreeSlot, SlotType
<1>2. chunk \in Seq(SlotType) /\ Len(chunk) = ChunkSize
  BY <1>1, SizesAssumption
<1>3. slots' = slots \o chunk
  BY DEF Grow
<1> HIDE DEF chunk
<1>4. /\ slots' \in Seq(SlotType) /\ Len(slots') = Len(slots) + ChunkSize
      /\ \A i \in 1 .. Len(slots) + ChunkSize :
           slots'[i] = IF i <= Len(slots) THEN slots[i] ELSE chunk[i - Len(slots)]
  BY <1>2, <1>3, ConcatProperties DEF PoolType
<1>5. Len(slots) \in Nat /\ ChunkSize \in Nat
  BY SizesAssumption, LenProperties DEF PoolType
<1>6. \A i \in 1 .. Len(slots') : i > Len(slots) => chunk[i - Len(slots)] = FreeSlot
  BY <1>4, <1>5 DEF chunk
<1>7. QED BY <1>4, <1>5, <1>6

LEMMA ClientTypes ==
  ASSUME HolderInv, NEW a \in Clients, ClientStep(a)
  PROVE  PoolType'
<1> USE DEF HolderInv
<1>1. cpos[a] \in 1 .. Len(slots) /\ IncWrap(cpos[a]) \in 1 .. Len(slots)
  BY IncWrapInQueue DEF PoolType
<1>2. next[a] + 1 \in Nat \ {0}
  BY DEF PoolType
<1>3. ASSUME StartAdd(a) PROVE PoolType'
  BY <1>3 DEF StartAdd, CGoto, ClientPcs, workerVars, lockVars, queueVars, PoolType
<1>4. ASSUME TakeSlot(a) PROVE PoolType'
  <2>1. Stored(cpos[a], [slots[cpos[a]] EXCEPT !.state = "PREPARING"])
    BY <1>1, <1>4, StoreState DEF TakeSlot
  <2>2. QED BY <1>4, <2>1
               DEF TakeSlot, AddStep, CGoto, ClientPcs, workerVars, lockVars, PoolType, Stored
<1>5. ASSUME SkipSlot(a) PROVE PoolType'
  BY <1>1, <1>5 DEF SkipSlot, CGoto, ClientPcs, workerVars, lockVars, queueVars, PoolType
<1>6. ASSUME Grow(a) PROVE PoolType'
  <2>1. /\ slots' \in Seq(SlotType) /\ Len(slots') >= 1
        /\ nextFill' \in 1 .. Len(slots')
        /\ \A i \in 1 .. Len(slots) : i \in 1 .. Len(slots')
    <3>1. Len(slots) \in Nat /\ ChunkSize \in Nat \ {0}
      BY SizesAssumption, LenProperties DEF PoolType
    <3>2. nextFill' = Len(slots) + 1
      BY <1>6 DEF Grow
    <3>3. QED BY <1>6, <3>1, <3>2, GrowEffect
  <2>2. QED BY <1>6, <2>1 DEF Grow, CGoto, ClientPcs, workerVars, lockVars, PoolType
<1>7. ASSUME CountTask(a) PROVE PoolType'
  <2>1. Op(a).task \in Tasks
    BY <1>7, AddedTask DEF CountTask, Adding
  <2>2. count' \in [Counters -> Int] /\ blocked' \in [Locks -> BOOLEAN]
    BY <1>7, <2>1, IncrementTypes DEF CountTask
  <2>3. QED BY <1>7, <2>2
               DEF CountTask, AddStep, CGoto, ClientPcs, workerVars, queueVars, PoolType
<1>8. ASSUME FillSlot(a) PROVE PoolType'
  <2>1. Op(a).task \in Tasks
    BY <1>8, AddedTask DEF FillSlot, Adding
  <2>2. Stored(cpos[a], [state |-> "WAITING", task |-> Op(a).task,
                         barriers |-> Barriers[Op(a).task]])
    BY <1>1, <1>8, <2>1, Store, TasksAssumption DEF FillSlot, SlotType
  <2>3. QED BY <1>8, <2>2
               DEF FillSlot, AddStep, CGoto, ClientPcs, workerVars, lockVars, PoolType, Stored
<1>9. ASSUME EndAdd(a) PROVE PoolType'
  <2>1. IncWrap(nextFill) \in 1 .. Len(slots)
    BY IncWrapInQueue DEF PoolType
  <2>2. QED BY <1>2, <1>9, <2>1
               DEF EndAdd, Advance, CGoto, ClientPcs, workerVars, lockVars, PoolType
<1>10. ASSUME Wait(a) \/ Await(a) \/ JoinThreads(a) PROVE PoolType'
  BY <1>2, <1>10
     DEF Wait, Await, JoinThreads, Advance, CGoto, ClientPcs, workerVars, lockVars, queueVars, PoolType
<1>11. ASSUME StopThreads(a) PROVE PoolType'
  BY <1>11 DEF StopThreads, CGoto, ClientPcs, workerVars, lockVars, queueVars, PoolType
<1>12. QED
  BY <1>3, <1>4, <1>5, <1>6, <1>7, <1>8, <1>9, <1>10, <1>11 DEF ClientStep

-----------------------------------------------------------------------------
(* What a worker's step does to the slot it is at: leave it to whom it     *)
(* belongs, claim it, or let go of it.                                     *)

SameTask(i) == slots'[i].task = slots[i].task

LeavesSlot(w) ==
  /\ slots'[wpos[w]].state = slots[wpos[w]].state /\ SameTask(wpos[w])
  /\ HoldsSlot(w)' => HoldsSlot(w) /\ wpos'[w] = wpos[w]
  /\ wpc[w] # "free"

ClaimsSlot(w) ==
  /\ slots[wpos[w]].state = "WAITING" /\ slots'[wpos[w]].state = "RUNNING" /\ SameTask(wpos[w])
  /\ wpos'[w] = wpos[w] /\ wpc[w] # "free"

PutsBack(w) ==
  /\ HoldsSlot(w) /\ ~HoldsSlot(w)'
  /\ slots'[wpos[w]].state = "WAITING" /\ SameTask(wpos[w])
  /\ wpc[w] # "free"

FreesSlot(w) ==
  /\ wpc[w] = "free" /\ ~HoldsSlot(w)'
  /\ slots'[wpos[w]].state = "FREE"

WorkerEffect(w) ==
  /\ Len(slots') = Len(slots)
  /\ \A j \in 1 .. Len(slots) : j # wpos[w] => slots'[j] = slots[j]
  /\ \A v \in Workers : v # w => wpc'[v] = wpc[v] /\ wpos'[v] = wpos[v]
  /\ cpc' = cpc /\ cpos' = cpos /\ next' = next
  /\ (wpc'[w] = "free") <=> (wpc[w] = "uncount")
  /\ LeavesSlot(w) \/ ClaimsSlot(w) \/ PutsBack(w) \/ FreesSlot(w)

LEMMA WorkerStepEffect ==
  ASSUME HolderInv, NEW w \in Workers, WorkerStep(w)
  PROVE  WorkerEffect(w)
<1> DEFINE i == wpos[w]
<1>1. PoolType /\ i \in 1 .. Len(slots) /\ slots[i] \in SlotType
  BY ElementOfSeq DEF HolderInv, PoolType
<1>2. \A s \in {"FREE", "PREPARING", "WAITING", "RUNNING"} :
        LET r == [slots[i] EXCEPT !.state = s] IN r.state = s /\ r.task = slots[i].task
  BY <1>1 DEF SlotType
<1>3. /\ wpc \in [Workers -> WorkerPcs] /\ wpos \in [Workers -> 1 .. Len(slots)]
  BY <1>1 DEF PoolType
<1>4. ASSUME ClaimSlot(w) PROVE WorkerEffect(w)
  <2>1. Stored(i, [slots[i] EXCEPT !.state = "RUNNING"])
    BY <1>1, <1>4, StoreState DEF ClaimSlot
  <2>2. ClaimsSlot(w)
    BY <1>2, <1>3, <1>4, <2>1
       DEF ClaimSlot, Looking, Claimable, ClaimsSlot, WGoto, SameTask, Stored
  <2>3. QED BY <1>3, <1>4, <2>1, <2>2
               DEF ClaimSlot, Looking, WorkerEffect, WGoto, clientVars, Stored
<1>5. ASSUME PassSlot(w) PROVE WorkerEffect(w)
  BY <1>3, <1>5 DEF PassSlot, Looking, MoveOn, WGoto, WorkerEffect, LeavesSlot, SameTask,
     HoldsSlot, clientVars, queueVars
<1>6. ASSUME MoveOn(w), wpc[w] \in {"barriers", "check"}, SetState(i, "WAITING"),
             UNCHANGED clientVars
      PROVE  WorkerEffect(w)
  <2>1. Stored(i, [slots[i] EXCEPT !.state = "WAITING"])
    BY <1>1, <1>6, StoreState
  <2>2. PutsBack(w)
    BY <1>2, <1>3, <1>6, <2>1 DEF MoveOn, WGoto, PutsBack, HoldsSlot, SameTask, Stored
  <2>3. QED BY <1>3, <1>6, <2>1, <2>2 DEF MoveOn, WGoto, WorkerEffect, clientVars, Stored
<1>7. ASSUME CheckBarriers(w) PROVE WorkerEffect(w)
  <2>1. CASE \E b \in slots[wpos[w]].barriers : blocked[b]
    BY <1>6, <1>7, <2>1 DEF CheckBarriers, HoldsSlot
  <2>2. CASE ~(\E b \in slots[wpos[w]].barriers : blocked[b])
    <3> DEFINE r == [slots[i] EXCEPT !.barriers = {}]
    <3>1. r \in SlotType /\ r.state = slots[i].state /\ r.task = slots[i].task
      BY <1>1 DEF SlotType
    <3>2. slots' = [slots EXCEPT ![i] = r]
      BY <1>7, <2>2 DEF CheckBarriers
    <3>3. Stored(i, r)
      BY <1>1, <3>1, <3>2, Store
    <3> HIDE DEF r
    <3>4. wpc' = [wpc EXCEPT ![w] = "check"] /\ wpos' = wpos /\ UNCHANGED clientVars
      BY <1>7, <2>2 DEF CheckBarriers, WGoto
    <3>5. LeavesSlot(w)
      BY <1>3, <1>7, <3>1, <3>3, <3>4
         DEF CheckBarriers, LeavesSlot, HoldsSlot, SameTask, Stored
    <3>6. QED BY <1>3, <1>7, <3>3, <3>4, <3>5
                 DEF CheckBarriers, WorkerEffect, clientVars, Stored
  <2>3. QED BY <2>1, <2>2
<1>8. ASSUME CheckReady(w) PROVE WorkerEffect(w)
  <2>1. CASE Holds(w) \in HasCheck /\ ~Ready(Holds(w))
    BY <1>6, <1>8, <2>1 DEF CheckReady, HoldsSlot
  <2>2. CASE ~(Holds(w) \in HasCheck /\ ~Ready(Holds(w)))
    BY <1>3, <1>8, <2>2 DEF CheckReady, WGoto, WorkerEffect, LeavesSlot, SameTask,
       HoldsSlot, clientVars
  <2>3. QED BY <2>1, <2>2
<1>9. ASSUME ScanAgain(w) \/ Park(w) \/ Unpark(w) \/ Exit(w) PROVE WorkerEffect(w)
  BY <1>3, <1>9 DEF ScanAgain, Park, Unpark, Exit, WGoto, WorkerEffect, LeavesSlot, SameTask,
     HoldsSlot, clientVars, queueVars
<1>10. ASSUME Reschedule(w) PROVE WorkerEffect(w)
  <2>1. Stored(i, [slots[i] EXCEPT !.state = "WAITING"])
    BY <1>1, <1>10, StoreState DEF Reschedule
  <2>2. PutsBack(w)
    BY <1>2, <1>3, <1>10, <2>1
       DEF Reschedule, NextTask, WGoto, PutsBack, HoldsSlot, SameTask, Stored
  <2>3. QED BY <1>3, <1>10, <2>1, <2>2
            DEF Reschedule, NextTask, WGoto, WorkerEffect, clientVars, Stored
<1>11. ASSUME Complete(w) \/ UnlockDone(w) \/ UncountTask(w) PROVE WorkerEffect(w)
  <2>1. /\ slots' = slots /\ wpos' = wpos /\ UNCHANGED clientVars
        /\ \/ wpc[w] = "run" /\ wpc' = [wpc EXCEPT ![w] = "unlock"]
           \/ wpc[w] = "unlock" /\ wpc' = [wpc EXCEPT ![w] = "uncount"]
           \/ wpc[w] = "uncount" /\ wpc' = [wpc EXCEPT ![w] = "free"]
    BY <1>11 DEF Complete, UnlockDone, UncountTask, AfterTask, WGoto, queueVars
  <2>2. QED BY <1>3, <2>1 DEF WorkerEffect, LeavesSlot, HoldsSlot, SameTask, clientVars
<1>12. ASSUME FreeTask(w) PROVE WorkerEffect(w)
  <2>1. Stored(i, FreeSlot)
    BY <1>1, <1>12, Store DEF FreeTask, FreeSlot, SlotType
  <2>2. FreesSlot(w)
    BY <1>3, <1>12, <2>1 DEF FreeTask, NextTask, WGoto, FreesSlot, HoldsSlot, FreeSlot, Stored
  <2>3. QED BY <1>3, <1>12, <2>1, <2>2
            DEF FreeTask, NextTask, WGoto, WorkerEffect, clientVars, Stored
<1>13. QED
  BY <1>4, <1>5, <1>7, <1>8, <1>9, <1>10, <1>11, <1>12 DEF WorkerStep

(* What a client's step does to the slot it is at: leave it, take it, or   *)
(* fill it with the task it adds.                                          *)

LeavesSlotAlone(a) ==
  /\ slots'[cpos[a]] = slots[cpos[a]]
  /\ Prepares(a)' => Prepares(a) /\ cpos'[a] = cpos[a]

TakesSlot(a) ==
  /\ slots[cpos[a]].state = "FREE" /\ slots'[cpos[a]].state = "PREPARING"
  /\ cpos'[a] = cpos[a]

FillsSlot(a) ==
  /\ cpc[a] = "fill" /\ ~Prepares(a)'
  /\ slots'[cpos[a]].state = "WAITING" /\ slots'[cpos[a]].task = Op(a).task

ClientEffect(a) ==
  /\ Len(slots) \in Nat /\ Len(slots') \in Nat /\ Len(slots) <= Len(slots')
  /\ \A j \in 1 .. Len(slots) : j # cpos[a] => slots'[j] = slots[j]
  /\ \A j \in 1 .. Len(slots') : j > Len(slots) => slots'[j].state = "FREE"
  /\ \A b \in Clients : b # a => cpc'[b] = cpc[b] /\ cpos'[b] = cpos[b] /\ next'[b] = next[b]
  /\ wpc' = wpc /\ wpos' = wpos
  /\ Adding(a)' => /\ next'[a] = next[a]
                   /\ Adding(a) \/ AtOp(a, "add")
  /\ (cpc'[a] = "fill") <=> (cpc[a] = "count")
  /\ (cpc[a] = "fill") => FillsSlot(a)
  /\ LeavesSlotAlone(a) \/ TakesSlot(a) \/ FillsSlot(a)

LEMMA ClientStepEffect ==
  ASSUME HolderInv, NEW a \in Clients, ClientStep(a)
  PROVE  ClientEffect(a)
<1> DEFINE i == cpos[a]
<1>1. PoolType /\ i \in 1 .. Len(slots) /\ slots[i] \in SlotType /\ Len(slots) \in Nat
  BY ElementOfSeq, LenProperties DEF HolderInv, PoolType
<1>2. /\ cpc \in [Clients -> ClientPcs] /\ cpos \in [Clients -> 1 .. Len(slots)]
      /\ next \in [Clients -> Nat \ {0}]
  BY <1>1 DEF PoolType
<1>3. ASSUME StartAdd(a) PROVE ClientEffect(a)
  BY <1>1, <1>2, <1>3
     DEF StartAdd, AtOp, CGoto, ClientEffect, LeavesSlotAlone, Prepares, Adding,
     workerVars, queueVars
<1>4. ASSUME TakeSlot(a) PROVE ClientEffect(a)
  <2> DEFINE r == [slots[i] EXCEPT !.state = "PREPARING"]
  <2>1. Stored(i, r)
    BY <1>1, <1>4, StoreState DEF TakeSlot
  <2>2. r.state = "PREPARING"
    BY <1>1 DEF SlotType
  <2> HIDE DEF r
  <2>3. TakesSlot(a)
    BY <1>4, <2>1, <2>2 DEF TakeSlot, Fillable, TakesSlot, Stored
  <2>4. QED BY <1>1, <1>2, <1>4, <2>1, <2>3
            DEF TakeSlot, AddStep, CGoto, ClientEffect, Adding, workerVars, Stored
<1>5. ASSUME SkipSlot(a) PROVE ClientEffect(a)
  BY <1>1, <1>2, <1>5 DEF SkipSlot, CGoto, ClientEffect, LeavesSlotAlone, Prepares, Adding,
     workerVars, queueVars
<1>6. ASSUME Grow(a) PROVE ClientEffect(a)
  <2>1. /\ Len(slots') = Len(slots) + ChunkSize /\ ChunkSize \in Nat
        /\ \A j \in 1 .. Len(slots) : slots'[j] = slots[j]
        /\ \A j \in 1 .. Len(slots') : j > Len(slots) => slots'[j].state = "FREE"
    BY <1>1, <1>6, GrowEffect, SizesAssumption DEF FreeSlot
  <2>2. QED BY <1>1, <1>2, <1>6, <2>1
            DEF Grow, CGoto, ClientEffect, LeavesSlotAlone, Prepares, Adding, workerVars
<1>7. ASSUME CountTask(a) PROVE ClientEffect(a)
  BY <1>1, <1>2, <1>7 DEF CountTask, AddStep, CGoto, ClientEffect, LeavesSlotAlone, Prepares,
     Adding, workerVars, queueVars
<1>8. ASSUME FillSlot(a) PROVE ClientEffect(a)
  <2> DEFINE r == [state |-> "WAITING", task |-> Op(a).task, barriers |-> Barriers[Op(a).task]]
  <2>1. Op(a).task \in Tasks
    BY <1>1, <1>8, AddedTask DEF FillSlot, Adding, HolderInv
  <2>2. Stored(i, r)
    BY <1>1, <1>8, <2>1, Store, TasksAssumption DEF FillSlot, SlotType
  <2>3. r.state = "WAITING" /\ r.task = Op(a).task
    OBVIOUS
  <2> HIDE DEF r
  <2>4. FillsSlot(a)
    BY <1>2, <1>8, <2>2, <2>3 DEF FillSlot, AddStep, CGoto, FillsSlot, Prepares, Stored
  <2>5. QED BY <1>1, <1>2, <1>8, <2>2, <2>4
            DEF FillSlot, AddStep, CGoto, ClientEffect, Adding, workerVars, Stored
<1>9. ASSUME EndAdd(a) \/ Wait(a) \/ Await(a) \/ StopThreads(a) \/ JoinThreads(a)
      PROVE  ClientEffect(a)
  BY <1>1, <1>2, <1>9 DEF EndAdd, Wait, Await, StopThreads, JoinThreads, AtOp, Advance, CGoto,
     ClientEffect, LeavesSlotAlone, Prepares, Adding, workerVars, queueVars
<1>10. QED
  BY <1>3, <1>4, <1>5, <1>6, <1>7, <1>8, <1>9 DEF ClientStep

-----------------------------------------------------------------------------
(* One holder per slot. *)

LEMMA WorkerKeepsHolders ==
  ASSUME HolderInv, NEW w \in Workers, WorkerEffect(w)
  PROVE  OneHolderPerSlot' /\ FilledHasTask' /\ AddsTask'
<1>1. /\ \A v \in Workers : wpos[v] \in 1 .. Len(slots)
      /\ \A a \in Clients : cpos[a] \in 1 .. Len(slots)
  BY DEF HolderInv, PoolType
<1>2. /\ \A v \in Workers : HoldsSlot(v) => slots[wpos[v]].state = "RUNNING"
      /\ \A a \in Clients : Prepares(a) => slots[cpos[a]].state = "PREPARING"
      /\ \A u, v \in Workers : u # v /\ HoldsSlot(u) /\ HoldsSlot(v) => wpos[u] # wpos[v]
      /\ \A a, b \in Clients : a # b /\ Prepares(a) /\ Prepares(b) => cpos[a] # cpos[b]
  BY DEF HolderInv, OneHolderPerSlot
<1>3. /\ \A v \in Workers : v # w => (HoldsSlot(v)' <=> HoldsSlot(v)) /\ wpos'[v] = wpos[v]
      /\ \A a \in Clients : (Prepares(a)' <=> Prepares(a)) /\ cpos'[a] = cpos[a]
      /\ \A j \in 1 .. Len(slots) : j # wpos[w] => slots'[j] = slots[j]
  BY DEF WorkerEffect, HoldsSlot, Prepares
<1>4. HoldsSlot(w)' => /\ wpos'[w] = wpos[w] /\ slots'[wpos[w]].state = "RUNNING"
                       /\ HoldsSlot(w) \/ slots[wpos[w]].state = "WAITING"
  BY <1>2 DEF WorkerEffect, LeavesSlot, ClaimsSlot, PutsBack, FreesSlot
<1>5. HoldsSlot(w) \/ slots[wpos[w]].state = "WAITING" \/ slots'[wpos[w]].state = slots[wpos[w]].state
  BY DEF WorkerEffect, LeavesSlot, ClaimsSlot, PutsBack, FreesSlot, HoldsSlot
<1>6. \A v \in Workers : v # w /\ HoldsSlot(v) =>
        slots'[wpos[v]].state = "RUNNING" /\ (HoldsSlot(w)' => wpos[v] # wpos[w])
  BY <1>1, <1>2, <1>3, <1>4, <1>5
<1>7. \A a \in Clients : Prepares(a) => slots'[cpos[a]].state = "PREPARING"
  BY <1>1, <1>2, <1>3, <1>5
<1>8. OneHolderPerSlot'
  <2>1. ASSUME NEW v \in Workers, HoldsSlot(v)' PROVE slots'[wpos'[v]].state = "RUNNING"
    <3>1. CASE v = w
      BY <1>4, <2>1, <3>1 DEF HoldsSlot
    <3>2. CASE v # w
      BY <1>3, <1>6, <2>1, <3>2
    <3>3. QED BY <3>1, <3>2
  <2>2. \A b \in Clients : Prepares(b)' => slots'[cpos'[b]].state = "PREPARING"
    BY <1>3, <1>7
  <2>3. ASSUME NEW u \in Workers, NEW v \in Workers, u # v, HoldsSlot(u)', HoldsSlot(v)'
       PROVE  wpos'[u] # wpos'[v]
    <3>1. CASE u = w
      BY <1>3, <1>4, <1>6, <2>3, <3>1 DEF HoldsSlot
    <3>2. CASE v = w
      BY <1>3, <1>4, <1>6, <2>3, <3>2 DEF HoldsSlot
    <3>3. CASE u # w /\ v # w
      BY <1>2, <1>3, <2>3, <3>3
    <3>4. QED BY <3>1, <3>2, <3>3
  <2>4. \A b, c \in Clients : b # c /\ Prepares(b)' /\ Prepares(c)' => cpos'[b] # cpos'[c]
    BY <1>2, <1>3
  <2>5. QED BY <2>1, <2>2, <2>3, <2>4 DEF OneHolderPerSlot
<1>9. FilledHasTask'
  <2> SUFFICES ASSUME NEW j \in 1 .. Len(slots), slots'[j].state \in {"WAITING", "RUNNING"}
               PROVE  slots'[j].task \in Tasks
    BY DEF WorkerEffect, FilledHasTask, Filled
  <2>1. CASE j # wpos[w]
    BY <1>3, <2>1 DEF HolderInv, FilledHasTask, Filled
  <2>2. CASE j = wpos[w]
    <3>1. slots'[j].task = slots[j].task /\ slots[j].state \in {"WAITING", "RUNNING"}
      BY <1>2, <2>2 DEF WorkerEffect, LeavesSlot, ClaimsSlot, PutsBack, FreesSlot, SameTask
    <3>2. QED BY <3>1 DEF HolderInv, FilledHasTask, Filled
  <2>3. QED BY <2>1, <2>2
<1>10. AddsTask'
  BY DEF WorkerEffect, HolderInv, AddsTask, Adding, Op
<1>11. QED BY <1>8, <1>9, <1>10

LEMMA ClientKeepsHolders ==
  ASSUME HolderInv, NEW a \in Clients, ClientEffect(a)
  PROVE  OneHolderPerSlot' /\ FilledHasTask' /\ AddsTask'
<1>1. /\ \A v \in Workers : wpos[v] \in 1 .. Len(slots)
      /\ \A b \in Clients : cpos[b] \in 1 .. Len(slots)
  BY DEF HolderInv, PoolType
<1>2. /\ \A v \in Workers : HoldsSlot(v) => slots[wpos[v]].state = "RUNNING"
      /\ \A b \in Clients : Prepares(b) => slots[cpos[b]].state = "PREPARING"
      /\ \A u, v \in Workers : u # v /\ HoldsSlot(u) /\ HoldsSlot(v) => wpos[u] # wpos[v]
      /\ \A b, c \in Clients : b # c /\ Prepares(b) /\ Prepares(c) => cpos[b] # cpos[c]
  BY DEF HolderInv, OneHolderPerSlot
<1>3. /\ \A v \in Workers : (HoldsSlot(v)' <=> HoldsSlot(v)) /\ wpos'[v] = wpos[v]
      /\ \A b \in Clients : b # a => (Prepares(b)' <=> Prepares(b)) /\ cpos'[b] = cpos[b]
      /\ \A j \in 1 .. Len(slots) : j # cpos[a] => slots'[j] = slots[j]
  BY DEF ClientEffect, HoldsSlot, Prepares
<1>4. Prepares(a)' => /\ cpos'[a] = cpos[a] /\ slots'[cpos[a]].state = "PREPARING"
                      /\ Prepares(a) \/ slots[cpos[a]].state = "FREE"
  BY <1>2 DEF ClientEffect, LeavesSlotAlone, TakesSlot, FillsSlot
<1>5. Prepares(a) \/ slots[cpos[a]].state = "FREE" \/ slots'[cpos[a]].state = slots[cpos[a]].state
  BY DEF ClientEffect, LeavesSlotAlone, TakesSlot, FillsSlot, Prepares
<1>6. \A v \in Workers : HoldsSlot(v) => slots'[wpos[v]].state = "RUNNING"
  BY <1>1, <1>2, <1>3, <1>5
<1>7. \A b \in Clients : b # a /\ Prepares(b) =>
        slots'[cpos[b]].state = "PREPARING" /\ (Prepares(a)' => cpos[b] # cpos[a])
  BY <1>1, <1>2, <1>3, <1>4, <1>5
<1>8. OneHolderPerSlot'
  <2>1. \A v \in Workers : HoldsSlot(v)' => slots'[wpos'[v]].state = "RUNNING"
    BY <1>3, <1>6
  <2>2. ASSUME NEW b \in Clients, Prepares(b)' PROVE slots'[cpos'[b]].state = "PREPARING"
    <3>1. CASE b = a
      BY <1>4, <2>2, <3>1 DEF Prepares
    <3>2. CASE b # a
      BY <1>3, <1>7, <2>2, <3>2
    <3>3. QED BY <3>1, <3>2
  <2>3. \A u, v \in Workers : u # v /\ HoldsSlot(u)' /\ HoldsSlot(v)' => wpos'[u] # wpos'[v]
    BY <1>2, <1>3
  <2>4. ASSUME NEW b \in Clients, NEW c \in Clients, b # c, Prepares(b)', Prepares(c)'
       PROVE  cpos'[b] # cpos'[c]
    <3>1. CASE b = a
      BY <1>3, <1>4, <1>7, <2>4, <3>1 DEF Prepares
    <3>2. CASE c = a
      BY <1>3, <1>4, <1>7, <2>4, <3>2 DEF Prepares
    <3>3. CASE b # a /\ c # a
      BY <1>2, <1>3, <2>4, <3>3
    <3>4. QED BY <3>1, <3>2, <3>3
  <2>5. QED BY <2>1, <2>2, <2>3, <2>4 DEF OneHolderPerSlot
<1>9. FilledHasTask'
  <2> SUFFICES ASSUME NEW j \in 1 .. Len(slots'), slots'[j].state \in {"WAITING", "RUNNING"}
               PROVE  slots'[j].task \in Tasks
    BY DEF FilledHasTask, Filled
  <2>1. j \in 1 .. Len(slots)
    BY DEF ClientEffect
  <2>2. CASE slots'[j] = slots[j]
    BY <2>1, <2>2 DEF HolderInv, FilledHasTask, Filled
  <2>3. CASE slots'[j] # slots[j]
    <3>1. FillsSlot(a) /\ j = cpos[a]
      BY <2>1, <2>3 DEF ClientEffect, LeavesSlotAlone, TakesSlot
    <3>2. QED BY <3>1, AddedTask DEF FillsSlot, Adding, HolderInv
  <2>4. QED BY <2>2, <2>3
<1>10. AddsTask'
  <2> SUFFICES ASSUME NEW b \in Clients, Adding(b)'
               PROVE  next'[b] <= Len(Program[b]) /\ Program[b][next'[b]].op = "add"
    BY DEF AddsTask, Op
  <2>1. CASE b # a
    BY <2>1 DEF ClientEffect, HolderInv, AddsTask, Adding, Op
  <2>2. CASE b = a
    BY <2>2 DEF ClientEffect, HolderInv, AddsTask, AtOp, Op
  <2>3. QED BY <2>1, <2>2
<1>11. QED BY <1>8, <1>9, <1>10

THEOREM HolderInvariant == Spec => []HolderInv
<1>1. Init => HolderInv
  <2> SUFFICES ASSUME Init PROVE HolderInv
    OBVIOUS
  <2>1. FreeSlot \in SlotType /\ ChunkSize \in Nat \ {0}
    BY SizesAssumption DEF FreeSlot, SlotType
  <2>2. slots \in Seq(SlotType) /\ Len(slots) = ChunkSize /\ 1 \in 1 .. Len(slots)
    BY <2>1 DEF Init
  <2>3. PoolType
    <3>1. blocked \in [Locks -> BOOLEAN]
      BY Zenon DEF Init
    <3>2. count \in [Counters -> Int] /\ stage \in [Tasks -> Nat]
      BY DEF Init
    <3>3. /\ wpc \in [Workers -> WorkerPcs] /\ cpc \in [Clients -> ClientPcs]
          /\ wpos \in [Workers -> 1 .. Len(slots)] /\ wnext \in [Workers -> 1 .. Len(slots)]
          /\ cpos \in [Clients -> 1 .. Len(slots)] /\ cstart \in [Clients -> 1 .. Len(slots)]
          /\ next \in [Clients -> Nat \ {0}]
      <4> USE DEF Init
      <4>1. wpc \in [Workers -> WorkerPcs] /\ cpc \in [Clients -> ClientPcs]
        BY DEF WorkerPcs, ClientPcs
      <4>2. /\ wpos \in [Workers -> 1 .. Len(slots)] /\ wnext \in [Workers -> 1 .. Len(slots)]
        BY <2>2
      <4>3. /\ cpos \in [Clients -> 1 .. Len(slots)] /\ cstart \in [Clients -> 1 .. Len(slots)]
        BY <2>2
      <4>4. next \in [Clients -> Nat \ {0}]
        OBVIOUS
      <4>5. QED BY <4>1, <4>2, <4>3, <4>4
    <3>4. /\ nextFill \in 1 .. Len(slots) /\ exitThreads \in BOOLEAN
          /\ idle \subseteq Workers /\ idleOwner \in Workers \cup {NoWorker}
      BY <2>2 DEF Init
    <3>5. QED BY <2>1, <2>2, <3>1, <3>2, <3>3, <3>4 DEF PoolType
  <2>4. FilledHasTask
    BY <2>2 DEF Init, FilledHasTask, Filled, FreeSlot
  <2>5. AddsTask /\ OneHolderPerSlot
    BY DEF Init, AddsTask, Adding, OneHolderPerSlot, HoldsSlot, Prepares
  <2>6. QED BY <2>3, <2>4, <2>5 DEF HolderInv
<1>2. HolderInv /\ [Next]_vars => HolderInv'
  <2> SUFFICES ASSUME HolderInv, [Next]_vars PROVE HolderInv'
    OBVIOUS
  <2>1. ASSUME NEW a \in Clients, ClientStep(a) PROVE HolderInv'
    BY <2>1, ClientTypes, ClientStepEffect, ClientKeepsHolders DEF HolderInv
  <2>2. ASSUME NEW w \in Workers, WorkerStep(w) PROVE HolderInv'
    BY <2>2, WorkerTypes, WorkerStepEffect, WorkerKeepsHolders DEF HolderInv
  <2>3. CASE UNCHANGED vars
    BY <2>3
       DEF vars, queueVars, lockVars, workerVars, clientVars, HolderInv, PoolType, AddsTask,
       Adding, Op, FilledHasTask, Filled, OneHolderPerSlot, HoldsSlot, Prepares
  <2>4. QED BY <2>1, <2>2, <2>3 DEF Next, Finished
<1>3. QED BY <1>1, <1>2, PTL DEF Spec

(* A slot that is filled or processed belongs to one thread, whatever the  *)
(* number of threads and however the queue grows meanwhile.                *)
THEOREM SlotsHeldOnce == Spec => []OneHolderPerSlot
BY HolderInvariant, PTL DEF HolderInv

-----------------------------------------------------------------------------
(* A counter counts its tasks: it is changed when a task of the counter    *)
(* changes from being added to being filled in, or is taken back.          *)

Uncounts(w, c) == wpc[w] = "uncount" /\ Counter[Holds(w)] = c

Counts(a, c) == cpc[a] = "count" /\ Counter[Op(a).task] = c

Fills(a, c) == cpc[a] = "fill" /\ Counter[Op(a).task] = c

LEMMA FiniteSides ==
  ASSUME HolderInv, NEW c \in Counters
  PROVE  /\ IsFiniteSet(BeingAdded(c)) /\ Cardinality(BeingAdded(c)) \in Nat
         /\ IsFiniteSet(Unfinished(c)) /\ Cardinality(Unfinished(c)) \in Nat
<1>1. BeingAdded(c) \subseteq Clients
  BY DEF BeingAdded
<1>2. Unfinished(c) \subseteq 1 .. Len(slots) /\ Len(slots) \in Nat
  BY LenProperties DEF Unfinished, HolderInv, PoolType
<1>3. IsFiniteSet(1 .. Len(slots))
  BY <1>2, FS_Interval
<1>4. QED BY <1>1, <1>2, <1>3, ProgramAssumption, FS_Subset, FS_CardinalityType

(* The places of the unfinished tasks, element by element. *)
LEMMA InUnfinished ==
  ASSUME HolderInv, NEW c
  PROVE  \A i : i \in Unfinished(c) <=>
           /\ i \in 1 .. Len(slots) /\ Filled(i) /\ Counter[slots[i].task] = c
           /\ \A w \in Workers : wpc[w] = "free" => wpos[w] # i
<1>1. DOMAIN slots = 1 .. Len(slots)
  BY LenProperties DEF HolderInv, PoolType
<1>2. QED BY <1>1 DEF Unfinished, Filled

LEMMA WorkerUnfinished ==
  ASSUME HolderInv, HolderInv', NEW w \in Workers, WorkerStep(w), NEW c \in Counters
  PROVE  /\ BeingAdded(c)' = BeingAdded(c)
         /\ Uncounts(w, c) => /\ wpos[w] \in Unfinished(c)
                              /\ Unfinished(c)' = Unfinished(c) \ {wpos[w]}
         /\ ~Uncounts(w, c) => Unfinished(c)' = Unfinished(c)
<1>1. WorkerEffect(w) /\ wpos[w] \in 1 .. Len(slots)
  BY WorkerStepEffect DEF HolderInv, PoolType
<1>2. BeingAdded(c)' = BeingAdded(c)
  BY <1>1 DEF WorkerEffect, BeingAdded, Op
<1> DEFINE FreeBut(i) == \A v \in Workers : v # w /\ wpc[v] = "free" => wpos[v] # i
<1>3. \A i : i \in Unfinished(c)' <=>
        /\ i \in 1 .. Len(slots) /\ slots'[i].state \in {"WAITING", "RUNNING"}
        /\ Counter[slots'[i].task] = c
        /\ FreeBut(i) /\ (wpc'[w] = "free" => wpos'[w] # i)
  <2>1. \A i : i \in Unfinished(c)' <=>
          /\ i \in 1 .. Len(slots') /\ Filled(i)' /\ Counter[slots'[i].task] = c
          /\ \A v \in Workers : wpc'[v] = "free" => wpos'[v] # i
    <3>1. DOMAIN slots' = 1 .. Len(slots')
      BY LenProperties DEF HolderInv, PoolType
    <3>2. QED BY <3>1 DEF Unfinished, Filled
  <2>2. QED BY <1>1, <2>1 DEF WorkerEffect, Filled
<1>4. \A i : i \in Unfinished(c) <=>
        /\ i \in 1 .. Len(slots) /\ slots[i].state \in {"WAITING", "RUNNING"}
        /\ Counter[slots[i].task] = c
        /\ FreeBut(i) /\ (wpc[w] = "free" => wpos[w] # i)
  BY InUnfinished DEF Filled
<1>5. \A i \in 1 .. Len(slots) : i # wpos[w] =>
        (i \in Unfinished(c)' <=> i \in Unfinished(c))
  <2>1. wpc'[w] = "free" => wpos'[w] = wpos[w]
    BY <1>1 DEF WorkerEffect, LeavesSlot, ClaimsSlot, PutsBack, FreesSlot, HoldsSlot
  <2>2. QED BY <1>1, <1>3, <1>4, <2>1 DEF WorkerEffect
<1>6. HoldsSlot(w) => FreeBut(wpos[w]) /\ slots[wpos[w]].state = "RUNNING"
  BY DEF HolderInv, OneHolderPerSlot, HoldsSlot
<1>7. CASE wpc[w] = "uncount"
  <2>1. /\ wpc'[w] = "free" /\ wpos'[w] = wpos[w] /\ HoldsSlot(w)
        /\ slots'[wpos[w]].state = slots[wpos[w]].state /\ SameTask(wpos[w])
    BY <1>1, <1>6, <1>7
       DEF WorkerEffect, LeavesSlot, ClaimsSlot, PutsBack, FreesSlot, HoldsSlot
  <2>2. wpos[w] \notin Unfinished(c)'
    BY <1>3, <2>1
  <2>3. wpos[w] \in Unfinished(c) <=> Uncounts(w, c)
    BY <1>1, <1>4, <1>6, <1>7, <2>1 DEF Uncounts, Holds
  <2>4. QED BY <1>2, <1>3, <1>4, <1>5, <2>2, <2>3
<1>8. CASE wpc[w] # "uncount"
  <2>1. wpos[w] \in Unfinished(c)' <=> wpos[w] \in Unfinished(c)
    <3>1. wpc'[w] # "free"
      BY <1>1, <1>8 DEF WorkerEffect
    <3>2. CASE FreesSlot(w)
      BY <1>3, <1>4, <3>2 DEF FreesSlot
    <3>3. CASE ClaimsSlot(w) \/ PutsBack(w) \/ LeavesSlot(w)
      BY <1>3, <1>4, <1>6, <3>1, <3>3 DEF ClaimsSlot, PutsBack, LeavesSlot, SameTask
    <3>4. QED BY <1>1, <3>2, <3>3 DEF WorkerEffect
  <2>2. QED BY <1>2, <1>3, <1>4, <1>5, <1>8, <2>1 DEF Uncounts
<1>9. QED BY <1>7, <1>8

LEMMA ClientUnfinished ==
  ASSUME HolderInv, HolderInv', NEW a \in Clients, ClientStep(a), NEW c \in Counters
  PROVE  /\ Counts(a, c) => /\ a \notin BeingAdded(c) /\ BeingAdded(c)' = BeingAdded(c) \cup {a}
                            /\ Unfinished(c)' = Unfinished(c)
         /\ Fills(a, c) => /\ a \in BeingAdded(c) /\ BeingAdded(c)' = BeingAdded(c) \ {a}
                           /\ cpos[a] \notin Unfinished(c)
                           /\ Unfinished(c)' = Unfinished(c) \cup {cpos[a]}
         /\ ~Counts(a, c) /\ ~Fills(a, c) => /\ BeingAdded(c)' = BeingAdded(c)
                                            /\ Unfinished(c)' = Unfinished(c)
<1>1. ClientEffect(a) /\ cpos[a] \in 1 .. Len(slots)
  BY ClientStepEffect DEF HolderInv, PoolType
<1>2. \A b \in Clients : b # a => (b \in BeingAdded(c)' <=> b \in BeingAdded(c))
  BY <1>1 DEF ClientEffect, BeingAdded, Op
<1>3. (a \in BeingAdded(c)' <=> Counts(a, c)) /\ (a \in BeingAdded(c) <=> Fills(a, c))
  BY <1>1 DEF ClientEffect, BeingAdded, Op, Counts, Fills, Adding
<1>4. ~(Counts(a, c) /\ Fills(a, c))
  BY DEF Counts, Fills
<1>5. BeingAdded(c)' \subseteq Clients /\ BeingAdded(c) \subseteq Clients
  BY DEF BeingAdded
<1>6. \A i : i \in Unfinished(c)' <=>
        /\ i \in 1 .. Len(slots') /\ slots'[i].state \in {"WAITING", "RUNNING"}
        /\ Counter[slots'[i].task] = c
        /\ \A v \in Workers : wpc[v] = "free" => wpos[v] # i
  <2>1. DOMAIN slots' = 1 .. Len(slots')
    BY LenProperties DEF HolderInv, PoolType
  <2>2. QED BY <1>1, <2>1 DEF ClientEffect, Unfinished
<1>7. \A i : i \in Unfinished(c) <=>
        /\ i \in 1 .. Len(slots) /\ slots[i].state \in {"WAITING", "RUNNING"}
        /\ Counter[slots[i].task] = c
        /\ \A v \in Workers : wpc[v] = "free" => wpos[v] # i
  BY InUnfinished DEF Filled
<1>8. \A i : i # cpos[a] => (i \in Unfinished(c)' <=> i \in Unfinished(c))
  <2>1. \A i \in 1 .. Len(slots') : i \in 1 .. Len(slots) \/ slots'[i].state = "FREE"
    BY <1>1 DEF ClientEffect
  <2>2. \A i \in 1 .. Len(slots) : i \in 1 .. Len(slots')
    BY <1>1 DEF ClientEffect
  <2>3. QED BY <1>1, <1>6, <1>7, <2>1, <2>2 DEF ClientEffect
<1>9. CASE cpc[a] = "fill"
  <2>1. FillsSlot(a) /\ cpos[a] \in 1 .. Len(slots') /\ slots[cpos[a]].state = "PREPARING"
    BY <1>1, <1>9 DEF ClientEffect, HolderInv, OneHolderPerSlot, Prepares
  <2>2. \A v \in Workers : wpc[v] = "free" => wpos[v] # cpos[a]
    BY <2>1 DEF HolderInv, OneHolderPerSlot, HoldsSlot
  <2>3. cpos[a] \notin Unfinished(c)
    BY <1>7, <2>1
  <2>4. cpos[a] \in Unfinished(c)' <=> Fills(a, c)
    BY <1>6, <1>9, <2>1, <2>2 DEF FillsSlot, Fills
  <2>5. ~Counts(a, c)
    BY <1>9 DEF Counts
  <2>6. QED BY <1>2, <1>3, <1>5, <1>8, <2>3, <2>4, <2>5
<1>10. CASE cpc[a] # "fill"
  <2>1. cpos[a] \in Unfinished(c)' <=> cpos[a] \in Unfinished(c)
    <3>1. cpos[a] \in 1 .. Len(slots')
      BY <1>1 DEF ClientEffect
    <3>2. LeavesSlotAlone(a) \/ TakesSlot(a)
      BY <1>1, <1>10 DEF ClientEffect, FillsSlot
    <3>3. QED BY <1>1, <1>6, <1>7, <3>1, <3>2 DEF LeavesSlotAlone, TakesSlot
  <2>2. ~Fills(a, c)
    BY <1>10 DEF Fills
  <2>3. QED BY <1>2, <1>3, <1>5, <1>8, <2>1, <2>2
<1>11. QED BY <1>9, <1>10

(* The counter itself. *)
LEMMA WorkerCounts ==
  ASSUME HolderInv, NEW w \in Workers, WorkerStep(w), NEW c \in Counters
  PROVE  /\ Uncounts(w, c) => /\ count'[c] = count[c] - 1
                              /\ blocked'[c] <=> (blocked[c] /\ count[c] # 1)
         /\ ~Uncounts(w, c) => count'[c] = count[c] /\ (blocked'[c] <=> blocked[c])
<1>1. /\ count \in [Counters -> Int] /\ blocked \in [Locks -> BOOLEAN] /\ c \in Locks
      /\ c # NoBarrier
  BY DEF HolderInv, PoolType, Counters, Locks
<1>2. CASE UncountTask(w)
  <2>1. wpc[w] = "uncount" /\ Decrement(Counter[Holds(w)])
    BY <1>2 DEF UncountTask
  <2>2. CASE Counter[Holds(w)] = c
    BY <1>1, <2>1, <2>2, Zenon DEF Decrement, Uncounts
  <2>3. CASE Counter[Holds(w)] # c
    BY <1>1, <2>1, <2>3, Zenon DEF Decrement, Uncounts, lockVars
  <2>4. QED BY <2>2, <2>3
<1>3. CASE UnlockDone(w)
  <2>1. wpc[w] = "unlock" /\ count' = count /\ Unlock(Done[Holds(w)])
    BY <1>3 DEF UnlockDone
  <2>2. Done[Holds(w)] # c
    <3>1. wpos[w] \in 1 .. Len(slots) /\ slots[wpos[w]].state = "RUNNING"
      BY <2>1 DEF HolderInv, PoolType, OneHolderPerSlot, HoldsSlot
    <3>2. Holds(w) \in Tasks
      BY <3>1 DEF HolderInv, FilledHasTask, Filled, Holds
    <3>3. QED BY <3>2, TasksAssumption
  <2>3. blocked'[c] = blocked[c]
    BY <1>1, <2>1, <2>2, Zenon DEF Unlock
  <2>4. QED BY <2>1, <2>3 DEF Uncounts
<1>4. CASE ~UncountTask(w) /\ ~UnlockDone(w)
  <2>1. UNCHANGED lockVars /\ wpc[w] # "uncount"
    BY <1>4
       DEF WorkerStep, ClaimSlot, Looking, PassSlot, CheckBarriers, CheckReady, ScanAgain, Park,
       Unpark, Exit, Reschedule, Complete, FreeTask
  <2>2. QED BY <2>1 DEF lockVars, Uncounts
<1>5. QED BY <1>2, <1>3, <1>4

LEMMA ClientCounts ==
  ASSUME HolderInv, NEW a \in Clients, ClientStep(a), NEW c \in Counters
  PROVE  /\ Counts(a, c) => count'[c] = count[c] + 1 /\ blocked'[c]
         /\ ~Counts(a, c) => count'[c] = count[c] /\ (blocked'[c] <=> blocked[c])
<1>1. /\ count \in [Counters -> Int] /\ blocked \in [Locks -> BOOLEAN] /\ c \in Locks
      /\ c # NoBarrier
  BY DEF HolderInv, PoolType, Counters, Locks
<1>2. CASE CountTask(a)
  <2>1. cpc[a] = "count" /\ Increment(Counter[Op(a).task])
    BY <1>2 DEF CountTask
  <2>2. CASE Counter[Op(a).task] = c
    BY <1>1, <2>1, <2>2, Zenon DEF Increment, Counts
  <2>3. CASE Counter[Op(a).task] # c
    BY <1>1, <2>1, <2>3, Zenon DEF Increment, Counts, lockVars
  <2>4. QED BY <2>2, <2>3
<1>3. CASE ~CountTask(a)
  <2>1. UNCHANGED lockVars /\ cpc[a] # "count"
    BY <1>3
       DEF ClientStep, StartAdd, AtOp, TakeSlot, SkipSlot, Grow, FillSlot, EndAdd, Wait, Await,
       StopThreads, JoinThreads
  <2>2. QED BY <2>1 DEF lockVars, Counts
<1>4. QED BY <1>2, <1>3

THEOREM CountInvariant == Spec => [](HolderInv /\ CountersAgree)
<1>1. Init /\ HolderInv => CountersAgree
  <2> SUFFICES ASSUME Init, HolderInv, NEW c \in Counters
               PROVE  /\ count[c] = Cardinality(BeingAdded(c)) + Cardinality(Unfinished(c))
                      /\ blocked[c] <=> count[c] > 0
    BY DEF CountersAgree
  <2>1. BeingAdded(c) = {}
    BY DEF Init, BeingAdded
  <2>2. Unfinished(c) = {}
    BY DEF Init, Unfinished, FreeSlot
  <2>3. count[c] = 0 /\ ~blocked[c]
    BY Zenon DEF Init, Locks
  <2>4. QED BY <2>1, <2>2, <2>3, FS_EmptySet
<1>2. CountersAgree /\ HolderInv /\ HolderInv' /\ [Next]_vars => CountersAgree'
  <2> SUFFICES ASSUME CountersAgree, HolderInv, HolderInv', [Next]_vars, NEW c \in Counters
               PROVE  /\ count'[c] = Cardinality(BeingAdded(c)') + Cardinality(Unfinished(c)')
                      /\ blocked'[c] <=> count'[c] > 0
    BY DEF CountersAgree
  <2> DEFINE added == BeingAdded(c)
             placed == Unfinished(c)
  <2>1. /\ count[c] = Cardinality(added) + Cardinality(placed)
        /\ blocked[c] <=> count[c] > 0
    BY DEF CountersAgree
  <2>2. /\ IsFiniteSet(added) /\ Cardinality(added) \in Nat
        /\ IsFiniteSet(placed) /\ Cardinality(placed) \in Nat
    BY FiniteSides
  <2>3. ASSUME NEW w \in Workers, WorkerStep(w)
        PROVE  /\ count'[c] = Cardinality(BeingAdded(c)') + Cardinality(Unfinished(c)')
               /\ blocked'[c] <=> count'[c] > 0
    <3>1. CASE Uncounts(w, c)
      <4>1. wpos[w] \in placed /\ Unfinished(c)' = placed \ {wpos[w]} /\ BeingAdded(c)' = added
        BY <2>3, <3>1, WorkerUnfinished
      <4>2. Cardinality(placed \ {wpos[w]}) = Cardinality(placed) - 1
            /\ IsFiniteSet(placed \ {wpos[w]})
        BY <2>2, <4>1, FS_RemoveElement
      <4>3. Cardinality(placed \ {wpos[w]}) \in Nat
        BY <4>2, FS_CardinalityType
      <4>4. count'[c] = count[c] - 1 /\ (blocked'[c] <=> (blocked[c] /\ count[c] # 1))
        BY <2>3, <3>1, WorkerCounts
      <4> HIDE DEF added, placed
      <4>5. QED BY <2>1, <2>2, <4>1, <4>2, <4>3, <4>4
    <3>2. CASE ~Uncounts(w, c)
      BY <2>1, <2>3, <3>2, WorkerUnfinished, WorkerCounts
    <3>3. QED BY <3>1, <3>2
  <2>4. ASSUME NEW a \in Clients, ClientStep(a)
        PROVE  /\ count'[c] = Cardinality(BeingAdded(c)') + Cardinality(Unfinished(c)')
               /\ blocked'[c] <=> count'[c] > 0
    <3>1. CASE Counts(a, c)
      <4>1. /\ a \notin added /\ BeingAdded(c)' = added \cup {a} /\ Unfinished(c)' = placed
        BY <2>4, <3>1, ClientUnfinished
      <4>2. Cardinality(added \cup {a}) = Cardinality(added) + 1
        BY <2>2, <4>1, FS_AddElement
      <4>3. count'[c] = count[c] + 1 /\ blocked'[c]
        BY <2>4, <3>1, ClientCounts
      <4> HIDE DEF added, placed
      <4>4. QED BY <2>1, <2>2, <4>1, <4>2, <4>3
    <3>2. CASE Fills(a, c)
      <4>1. /\ a \in added /\ BeingAdded(c)' = added \ {a}
            /\ cpos[a] \notin placed /\ Unfinished(c)' = placed \cup {cpos[a]}
        BY <2>4, <3>2, ClientUnfinished
      <4>2. Cardinality(added \ {a}) = Cardinality(added) - 1
        BY <2>2, <4>1, FS_RemoveElement
      <4>3. Cardinality(placed \cup {cpos[a]}) = Cardinality(placed) + 1
        BY <2>2, <4>1, FS_AddElement
      <4>4. count'[c] = count[c] /\ (blocked'[c] <=> blocked[c])
        BY <2>4, <3>2, ClientCounts DEF Counts, Fills
      <4> HIDE DEF added, placed
      <4>5. QED BY <2>1, <2>2, <4>1, <4>2, <4>3, <4>4
    <3>3. CASE ~Counts(a, c) /\ ~Fills(a, c)
      BY <2>1, <2>4, <3>3, ClientUnfinished, ClientCounts
    <3>4. QED BY <3>1, <3>2, <3>3
  <2>5. CASE UNCHANGED vars
    <3>1. BeingAdded(c)' = added /\ Unfinished(c)' = placed /\ count' = count /\ blocked' = blocked
      BY <2>5 DEF vars, queueVars, lockVars, workerVars, clientVars, BeingAdded, Op, Unfinished
    <3>2. QED BY <2>1, <3>1
  <2>6. QED BY <2>3, <2>4, <2>5 DEF Next, Finished
<1>3. QED BY <1>1, <1>2, HolderInvariant, PTL DEF Spec

(* A WaitCounter counts exactly the tasks that were added with it and not  *)
(* reported done, and its barrier says whether there are any: nobody comes *)
(* back from wait too early, for any number of threads and tasks.          *)
THEOREM CountersExact == Spec => []CountersAgree
BY CountInvariant, PTL

(* The types, of which that of the counters rests on what they count.      *)
THEOREM TypeCorrect == Spec => []TypeOK
<1>1. HolderInv /\ CountersAgree => TypeOK
  <2> SUFFICES ASSUME HolderInv, CountersAgree PROVE TypeOK
    OBVIOUS
  <2>1. \A c \in Counters : count[c] \in Nat
    <3> SUFFICES ASSUME NEW c \in Counters PROVE count[c] \in Nat
      OBVIOUS
    <3>1. Cardinality(BeingAdded(c)) \in Nat /\ Cardinality(Unfinished(c)) \in Nat
      BY FiniteSides
    <3>2. QED BY <3>1 DEF CountersAgree
  <2>2. count \in [Counters -> Nat]
    BY <2>1 DEF HolderInv, PoolType
  <2>3. QED BY <2>2 DEF HolderInv, PoolType, TypeOK, WorkerPcs, ClientPcs
<1>2. QED BY <1>1, CountInvariant, PTL

-----------------------------------------------------------------------------
(* Nothing is used after wait.                                             *)
(*                                                                         *)
(* At the time a client comes back from wait its counter is zero, so no    *)
(* task of the counter is with anybody.  Every one that is later was added *)
(* by the same client since.                                               *)

AddedSince(a, i, t) ==
  \E j \in i + 1 .. next[a] :
    j <= Len(Program[a]) /\ Program[a][j].op = "add" /\ Program[a][j].task = t

HasWaited(a, i) == i \in 1 .. next[a] - 1 /\ Program[a][i].op = "wait"

AddedAfterWait(a, i) ==
  LET c == Program[a][i].counter
  IN  /\ \A b \in BeingAdded(c) : AddedSince(a, i, Op(b).task)
      /\ \A s \in Unfinished(c) : AddedSince(a, i, slots[s].task)

InProgram(a) ==
  /\ next[a] \in 1 .. Len(Program[a]) + 1
  /\ cpc[a] = "join" => next[a] <= Len(Program[a]) /\ Op(a).op = "shutdown"

WaitInv ==
  \A a \in Clients : InProgram(a) /\ \A i \in Nat : HasWaited(a, i) => AddedAfterWait(a, i)

(* How a client goes on in its program. *)
Proceeds(a) ==
  \/ next'[a] = next[a]
  \/ /\ next'[a] = next[a] + 1 /\ next[a] <= Len(Program[a])
     /\ Op(a).op = "wait" => count[Op(a).counter] = 0

LEMMA ClientProceeds ==
  ASSUME HolderInv, NEW a \in Clients, InProgram(a), ClientStep(a)
  PROVE  InProgram(a)' /\ Proceeds(a)
<1>1. /\ next \in [Clients -> Nat \ {0}] /\ cpc \in [Clients -> ClientPcs]
      /\ Len(Program[a]) \in Nat
  BY ProgramAssumption DEF HolderInv, PoolType
<1>2. CASE EndAdd(a)
  <2>1. next[a] <= Len(Program[a]) /\ Op(a).op = "add"
    BY <1>2 DEF EndAdd, HolderInv, AddsTask, Adding
  <2>2. next'[a] = next[a] + 1 /\ cpc'[a] = "op"
    BY <1>1, <1>2 DEF EndAdd, Advance, CGoto
  <2>3. QED BY <1>1, <2>1, <2>2 DEF InProgram, Proceeds
<1>3. CASE Wait(a) \/ Await(a)
  <2>1. /\ next[a] <= Len(Program[a]) /\ cpc[a] = "op"
        /\ Op(a).op = "wait" => count[Op(a).counter] = 0
    BY <1>3 DEF Wait, Await, AtOp
  <2>2. next'[a] = next[a] + 1 /\ cpc'[a] = "op"
    BY <1>1, <1>3, <2>1 DEF Wait, Await, Advance
  <2>3. QED BY <1>1, <2>1, <2>2 DEF InProgram, Proceeds
<1>4. CASE JoinThreads(a)
  <2>1. next[a] <= Len(Program[a]) /\ Op(a).op = "shutdown"
    BY <1>4 DEF JoinThreads, InProgram
  <2>2. next'[a] = next[a] + 1 /\ cpc'[a] = "op"
    BY <1>1, <1>4 DEF JoinThreads, Advance, CGoto
  <2>3. QED BY <1>1, <2>1, <2>2 DEF InProgram, Proceeds
<1>5. CASE StopThreads(a)
  BY <1>1, <1>5 DEF StopThreads, AtOp, CGoto, InProgram, Proceeds, Op
<1>6. CASE StartAdd(a) \/ TakeSlot(a) \/ SkipSlot(a) \/ Grow(a) \/ CountTask(a) \/ FillSlot(a)
  <2>1. next' = next /\ cpc'[a] # "join"
    BY <1>1, <1>6 DEF StartAdd, TakeSlot, SkipSlot, Grow, CountTask, FillSlot, AddStep, CGoto
  <2>2. QED BY <2>1 DEF InProgram, Proceeds
<1>7. QED BY <1>2, <1>3, <1>4, <1>5, <1>6 DEF ClientStep

(* A client that comes back from wait finds no task of its counter. *)
LEMMA NothingLeft ==
  ASSUME HolderInv, CountersAgree, NEW c \in Counters, count[c] = 0
  PROVE  BeingAdded(c) = {} /\ Unfinished(c) = {}
<1>1. Cardinality(BeingAdded(c)) = 0 /\ Cardinality(Unfinished(c)) = 0
  BY FiniteSides DEF CountersAgree
<1>2. QED BY <1>1, FiniteSides, FS_EmptySet

(* The tasks of a counter that are with somebody after a step were before, *)
(* or are being added by the client that took the step.                    *)
LEMMA WorkerHandsOn ==
  ASSUME HolderInv, HolderInv', NEW w \in Workers, WorkerStep(w), NEW c \in Counters
  PROVE  /\ BeingAdded(c)' = BeingAdded(c) /\ \A b \in Clients : Op(b)' = Op(b)
         /\ Unfinished(c)' \subseteq Unfinished(c)
         /\ \A s \in Unfinished(c)' : slots'[s].task = slots[s].task
<1>1. WorkerEffect(w) /\ wpos[w] \in 1 .. Len(slots)
  BY WorkerStepEffect DEF HolderInv, PoolType
<1>2. BeingAdded(c)' = BeingAdded(c) /\ Unfinished(c)' \subseteq Unfinished(c)
  BY WorkerUnfinished
<1>3. ASSUME NEW s \in Unfinished(c)' PROVE slots'[s].task = slots[s].task
  <2>1. s \in 1 .. Len(slots) /\ s \in DOMAIN slots' /\ slots'[s].state # "FREE"
    BY <1>2, InUnfinished DEF Unfinished
  <2>2. QED BY <1>1, <2>1
            DEF WorkerEffect, LeavesSlot, ClaimsSlot, PutsBack, FreesSlot, SameTask
<1>4. QED BY <1>1, <1>2, <1>3 DEF WorkerEffect, Op

LEMMA ClientHandsOn ==
  ASSUME HolderInv, HolderInv', NEW a \in Clients, ClientStep(a), NEW c \in Counters
  PROVE  /\ BeingAdded(c)' \subseteq BeingAdded(c) \cup {a}
         /\ \A b \in BeingAdded(c)' : Op(b)' = Op(b)
         /\ a \in BeingAdded(c)' => Counts(a, c)
         /\ \A s \in Unfinished(c)' :
              \/ s \in Unfinished(c) /\ slots'[s].task = slots[s].task
              \/ a \in BeingAdded(c) /\ slots'[s].task = Op(a).task
<1>1. ClientEffect(a) /\ cpos[a] \in 1 .. Len(slots)
  BY ClientStepEffect DEF HolderInv, PoolType
<1>2. /\ BeingAdded(c)' \subseteq BeingAdded(c) \cup {a}
      /\ a \in BeingAdded(c)' => Counts(a, c)
  <2>1. a \in BeingAdded(c)' => Counts(a, c)
    BY <1>1 DEF ClientEffect, BeingAdded, Op, Counts, Adding
  <2>2. QED BY <2>1, ClientUnfinished
<1>3. \A b \in BeingAdded(c)' : Op(b)' = Op(b)
  BY <1>1 DEF ClientEffect, BeingAdded, Op, Adding
<1>4. ASSUME NEW s \in Unfinished(c)'
      PROVE  \/ s \in Unfinished(c) /\ slots'[s].task = slots[s].task
             \/ a \in BeingAdded(c) /\ slots'[s].task = Op(a).task
  <2>1. CASE Fills(a, c) /\ s = cpos[a]
    BY <1>1, <2>1, ClientUnfinished DEF ClientEffect, Fills, FillsSlot
  <2>2. CASE ~(Fills(a, c) /\ s = cpos[a])
    <3>1. s \in Unfinished(c)
      BY <2>2, ClientUnfinished
    <3>2. s \in 1 .. Len(slots) /\ slots[s].state \in {"WAITING", "RUNNING"}
      BY <3>1, InUnfinished DEF Filled
    <3>3. slots'[s] = slots[s]
      <4>1. CASE s # cpos[a]
        BY <1>1, <3>2, <4>1 DEF ClientEffect
      <4>2. CASE s = cpos[a]
        <5>1. ~FillsSlot(a)
          BY <1>1, <3>2, <4>2
             DEF HolderInv, OneHolderPerSlot, Prepares, FillsSlot
        <5>2. QED BY <1>1, <3>2, <4>2, <5>1 DEF ClientEffect, LeavesSlotAlone, TakesSlot
      <4>3. QED BY <4>1, <4>2
    <3>4. QED BY <3>1, <3>3
  <2>3. QED BY <2>1, <2>2
<1>5. QED BY <1>2, <1>3, <1>4

LEMMA AddedSinceStays ==
  ASSUME NEW a, NEW i \in Nat, NEW t, next[a] \in Nat, next'[a] \in Nat, next[a] <= next'[a],
         AddedSince(a, i, t)
  PROVE  AddedSince(a, i, t)'
BY DEF AddedSince

LEMMA WaitStep ==
  ASSUME HolderInv, HolderInv', CountersAgree, WaitInv, [Next]_vars
  PROVE  WaitInv'
<1>1. ASSUME NEW a \in Clients PROVE InProgram(a)' /\ Proceeds(a)
  <2>1. ASSUME NEW b \in Clients, ClientStep(b) PROVE InProgram(a)' /\ Proceeds(a)
    <3>1. CASE b = a
      BY <2>1, <3>1, ClientProceeds DEF WaitInv
    <3>2. CASE b # a
      <4>1. cpc'[a] = cpc[a] /\ next'[a] = next[a]
        BY <2>1, <3>2, ClientStepEffect DEF ClientEffect
      <4>2. QED BY <4>1 DEF WaitInv, InProgram, Proceeds, Op
    <3>3. QED BY <3>1, <3>2
  <2>2. ASSUME NEW w \in Workers, WorkerStep(w) PROVE InProgram(a)' /\ Proceeds(a)
    <3>1. cpc' = cpc /\ next' = next
      BY <2>2, WorkerStepEffect DEF WorkerEffect
    <3>2. QED BY <3>1 DEF WaitInv, InProgram, Proceeds, Op
  <2>3. CASE UNCHANGED vars
    BY <2>3 DEF vars, clientVars, WaitInv, InProgram, Proceeds, Op
  <2>4. QED BY <2>1, <2>2, <2>3 DEF Next, Finished
<1>2. ASSUME NEW a \in Clients, NEW i \in Nat, HasWaited(a, i)'
      PROVE  AddedAfterWait(a, i)'
  <2> DEFINE c == Program[a][i].counter
  <2>1. /\ next[a] \in Nat \ {0} /\ next'[a] \in Nat \ {0} /\ Len(Program[a]) \in Nat
        /\ next[a] <= Len(Program[a]) + 1 /\ next[a] <= next'[a]
        /\ InProgram(a) /\ InProgram(a)' /\ Proceeds(a)
    <3>1. InProgram(a) /\ InProgram(a)' /\ Proceeds(a)
      BY <1>1 DEF WaitInv
    <3>2. next[a] \in Nat \ {0} /\ next'[a] \in Nat \ {0}
      BY DEF HolderInv, PoolType
    <3>3. Len(Program[a]) \in Nat
      BY ProgramAssumption
    <3>4. next[a] <= next'[a]
      BY <3>1, <3>2 DEF Proceeds
    <3>5. QED BY <3>1, <3>2, <3>3, <3>4 DEF InProgram
  <2>2. i \in 1 .. Len(Program[a]) /\ Program[a][i].op = "wait" /\ i < next'[a]
    BY <1>2, <2>1 DEF HasWaited, InProgram
  <2>3. c \in Counters
    BY <2>2, WaitAssumption
  <2>4. AddedAfterWait(a, i)
    <3>1. CASE i < next[a]
      BY <2>1, <2>2, <3>1 DEF WaitInv, HasWaited
    <3>2. CASE i >= next[a]
      <4>1. i = next[a] /\ count[c] = 0
        BY <2>1, <2>2, <3>2 DEF Proceeds, Op
      <4>2. BeingAdded(c) = {} /\ Unfinished(c) = {}
        BY <2>3, <4>1, NothingLeft
      <4>3. QED BY <4>2 DEF AddedAfterWait
    <3>3. QED BY <2>1, <3>1, <3>2
  <2>5. /\ \A b \in BeingAdded(c) : AddedSince(a, i, Op(b).task)
        /\ \A s \in Unfinished(c) : AddedSince(a, i, slots[s].task)
    BY <2>4 DEF AddedAfterWait
  <2>6. \A t : AddedSince(a, i, t) => AddedSince(a, i, t)'
    BY <2>1, AddedSinceStays
  <2> HIDE DEF c
  <2> DEFINE Since == /\ \A b \in BeingAdded(c)' : AddedSince(a, i, Op(b).task)'
                      /\ \A s \in Unfinished(c)' : AddedSince(a, i, slots[s].task)'
  <2>7. Since
    <3>1. ASSUME NEW b \in Clients, ClientStep(b) PROVE Since
      <4>1. CASE Counts(b, c)
        <5>1. b = a
          <6>1. /\ next[b] \in 1 .. Len(Program[b]) /\ Program[b][next[b]].op = "add"
                /\ Counter[Program[b][next[b]].task] = c
            BY <4>1, ProgramAssumption, SMTT(30)
               DEF Counts, HolderInv, PoolType, AddsTask, Adding, Op
          <6>2. QED BY <2>2, <6>1, WaitAssumption DEF c
        <5>2. AddedSince(a, i, Op(a).task)'
          <6>1. next'[a] = next[a] /\ next[a] <= Len(Program[a]) /\ Op(a).op = "add"
            <7>1. cpc[a] = "count"
              BY <4>1, <5>1 DEF Counts
            <7>2. Adding(a) /\ Adding(a)'
              BY <3>1, <5>1, <7>1, ClientStepEffect DEF ClientEffect, Adding
            <7>3. QED BY <3>1, <5>1, <7>2, ClientStepEffect
                      DEF ClientEffect, HolderInv, AddsTask
          <6>2. QED BY <2>1, <2>2, <6>1 DEF AddedSince, Op
        <5>3. QED BY <2>3, <2>5, <2>6, <3>1, <5>1, <5>2, ClientHandsOn
      <4>2. CASE ~Counts(b, c)
        BY <2>3, <2>5, <2>6, <3>1, <4>2, ClientHandsOn
      <4>3. QED BY <4>1, <4>2
    <3>2. ASSUME NEW w \in Workers, WorkerStep(w) PROVE Since
      <4>1. \A b \in BeingAdded(c)' : b \in BeingAdded(c) /\ b \in Clients
        BY <2>3, <3>2, WorkerHandsOn DEF BeingAdded
      <4>2. QED BY <2>3, <2>5, <2>6, <3>2, <4>1, WorkerHandsOn
    <3>3. CASE UNCHANGED vars
      <4>1. BeingAdded(c)' = BeingAdded(c) /\ Unfinished(c)' = Unfinished(c) /\ slots' = slots
            /\ next' = next
        BY <3>3 DEF vars, queueVars, workerVars, clientVars, BeingAdded, Unfinished, Op
      <4>2. QED BY <2>5, <2>6, <4>1 DEF Op
    <3>4. QED BY <3>1, <3>2, <3>3 DEF Next, Finished
  <2>8. QED BY <2>7 DEF AddedAfterWait, c
<1>3. QED BY <1>1, <1>2 DEF WaitInv

(* A client that came back from wait may release its tasks, barriers and   *)
(* the counter: no worker is in one of its tasks or will touch them, for   *)
(* any number of workers and whatever other clients add meanwhile.         *)
THEOREM WaitReleases == Spec => []NothingUsedAfterWait
<1>1. Init => WaitInv
  BY ProgramAssumption DEF Init, WaitInv, InProgram, HasWaited
<1>2. HolderInv /\ WaitInv => NothingUsedAfterWait
  <2> SUFFICES ASSUME HolderInv, WaitInv, NEW a \in Clients, NEW i \in 1 .. next[a] - 1,
                      Program[a][i].op = "wait",
                      NEW w \in Workers, wpc[w] \in {"run", "unlock", "uncount"},
                      Counter[Holds(w)] = Program[a][i].counter
               PROVE  AddedSince(a, i, Holds(w))
    BY DEF NothingUsedAfterWait, AddedSince
  <2>1. HoldsSlot(w) /\ wpos[w] \in 1 .. Len(slots) /\ slots[wpos[w]].state = "RUNNING"
    BY DEF HoldsSlot, HolderInv, PoolType, OneHolderPerSlot
  <2>2. \A v \in Workers : wpc[v] = "free" => wpos[v] # wpos[w]
    BY <2>1 DEF HolderInv, OneHolderPerSlot, HoldsSlot
  <2>3. wpos[w] \in Unfinished(Program[a][i].counter)
    BY <2>1, <2>2, InUnfinished DEF Filled, Holds
  <2>4. AddedAfterWait(a, i)
    BY DEF WaitInv, HasWaited, HolderInv, PoolType
  <2>5. QED BY <2>3, <2>4 DEF AddedAfterWait, Holds
<1>3. QED BY <1>1, <1>2, CountInvariant, WaitStep, PTL DEF Spec

-----------------------------------------------------------------------------
(* The thread pool keeps the promise of TaskPool, for every number of      *)
(* workers, clients and tasks, every size of a chunk and every program:    *)
(* each step on slots, counters and barriers is a step of the promise, or  *)
(* changes nothing there.                                                  *)

(* Where a client is in its program: an operation that adds a task is over *)
(* when the slot is filled.                                                *)
Position(a) == IF cpc[a] = "advance" THEN next[a] + 1 ELSE next[a]

(* What is not filled has no task, and a task is in one slot, with its     *)
(* barriers or with none.                                                  *)
EmptyHasNoTask == \A i \in 1 .. Len(slots) : ~Filled(i) => slots[i].task = NoTask

OneSlotPerTask ==
  \A i, j \in 1 .. Len(slots) :
    Filled(i) /\ Filled(j) /\ slots[i].task = slots[j].task => i = j

BarriersOfTask ==
  \A i \in 1 .. Len(slots) :
    Filled(i) => slots[i].barriers \in {{}, Barriers[slots[i].task]}

(* A worker that went past the barriers, and one whose task has ended. *)
Passed(w) == wpc[w] \in {"check", "run", "unlock", "uncount", "free"}

Ended(w) == wpc[w] \in {"unlock", "uncount", "free"}

PassedBarriers == \A w \in Workers : Passed(w) => slots[wpos[w]].barriers = {}

EndedIsDone == \A w \in Workers : Ended(w) => stage[Holds(w)] = Stages[Holds(w)]

OthersAreNot ==
  \A i \in 1 .. Len(slots) : Filled(i) /\ (\A w \in Workers : Ended(w) => wpos[w] # i) =>
    stage[slots[i].task] < Stages[slots[i].task]

(* A task that a client has still to add is nowhere. *)
NotYetAdded ==
  \A a \in Clients : \A i \in 1 .. Len(Program[a]) :
    i >= Position(a) /\ Program[a][i].op = "add" =>
      /\ stage[Program[a][i].task] = 0
      /\ \A k \in 1 .. Len(slots) : slots[k].task # Program[a][i].task

TaskInv ==
  EmptyHasNoTask /\ OneSlotPerTask /\ BarriersOfTask /\ PassedBarriers /\ EndedIsDone
    /\ OthersAreNot /\ NotYetAdded

(* A barrier that is no counter was opened by a task that is done. *)
OpenedByTask ==
  \A b \in Locks \ Counters : ~blocked[b] => \E t \in Tasks : Done[t] = b /\ stage[t] = Stages[t]

PoolInv == HolderInv /\ CountersAgree /\ WaitInv

PromiseInv == PoolInv /\ TaskInv /\ OpenedByTask

-----------------------------------------------------------------------------
(* Steps that move no task: slots are taken, claimed and put back, scans   *)
(* go on, clients count and wait.                                          *)

Moves(i) == slots'[i].task # slots[i].task \/ slots'[i].barriers # slots[i].barriers

QuietSlots ==
  /\ Len(slots') = Len(slots)
  /\ \A i \in 1 .. Len(slots) : ~Moves(i) /\ (Filled(i)' <=> Filled(i))
  /\ stage' = stage

QuietWorkers ==
  \A w \in Workers :
    /\ Ended(w)' <=> Ended(w)
    /\ Passed(w)' => Passed(w)
    /\ Passed(w)' => wpos'[w] = wpos[w]

(* A client goes on by at most one operation. *)
Onwards == \A a \in Clients : Position(a)' \in {Position(a), Position(a) + 1}

LEMMA StillToAdd ==
  ASSUME HolderInv, Onwards, NEW a \in Clients, NEW i \in 1 .. Len(Program[a]), i >= Position(a)'
  PROVE  i >= Position(a)
<1>1. Position(a) \in Nat /\ Len(Program[a]) \in Nat
  BY ProgramAssumption DEF HolderInv, PoolType, Position
<1>2. QED BY <1>1 DEF Onwards

LEMMA QuietKeeps ==
  ASSUME HolderInv, TaskInv, QuietSlots, QuietWorkers, Onwards
  PROVE  TaskInv'
<1>1. /\ \A w \in Workers : wpos[w] \in 1 .. Len(slots)
      /\ \A w \in Workers : Ended(w) => Passed(w)
      /\ \A w \in Workers : Ended(w)' => Passed(w)'
  BY DEF HolderInv, PoolType, Ended, Passed
<1>2. EmptyHasNoTask' /\ OneSlotPerTask' /\ BarriersOfTask'
  BY DEF QuietSlots, Moves, TaskInv, EmptyHasNoTask, OneSlotPerTask, BarriersOfTask
<1>3. PassedBarriers' /\ EndedIsDone'
  BY <1>1 DEF QuietSlots, QuietWorkers, Moves, TaskInv, PassedBarriers, EndedIsDone, Holds
<1>4. OthersAreNot'
  BY <1>1 DEF QuietSlots, QuietWorkers, Moves, TaskInv, OthersAreNot
<1>5. NotYetAdded'
  <2> SUFFICES ASSUME NEW a \in Clients, NEW i \in 1 .. Len(Program[a]),
                      i >= Position(a)', Program[a][i].op = "add"
               PROVE  /\ stage'[Program[a][i].task] = 0
                      /\ \A k \in 1 .. Len(slots') : slots'[k].task # Program[a][i].task
    BY DEF NotYetAdded
  <2>1. i >= Position(a)
    BY StillToAdd
  <2>2. QED BY <2>1 DEF QuietSlots, Moves, TaskInv, NotYetAdded
<1>6. QED BY <1>2, <1>3, <1>4, <1>5 DEF TaskInv

LEMMA RestateIsQuiet ==
  ASSUME HolderInv, NEW i \in 1 .. Len(slots),
         NEW s \in {"FREE", "PREPARING", "WAITING", "RUNNING"}, SetState(i, s),
         s \in {"WAITING", "RUNNING"} <=> Filled(i), stage' = stage
  PROVE  QuietSlots
<1> DEFINE r == [slots[i] EXCEPT !.state = s]
<1>1. slots[i] \in SlotType
  BY ElementOfSeq DEF HolderInv, PoolType
<1>2. r.state = s /\ r.task = slots[i].task /\ r.barriers = slots[i].barriers
  BY <1>1 DEF SlotType
<1>3. Stored(i, r)
  BY StoreState DEF HolderInv
<1> HIDE DEF r
<1>4. QED BY <1>2, <1>3 DEF Stored, QuietSlots, Moves, Filled

OpensBarriers(w) == CheckBarriers(w) /\ ~(\E b \in slots[wpos[w]].barriers : blocked[b])

QuietStep(w) ==
  \/ ClaimSlot(w) \/ PassSlot(w) \/ (CheckBarriers(w) /\ ~OpensBarriers(w)) \/ CheckReady(w)
  \/ ScanAgain(w) \/ Park(w) \/ Unpark(w) \/ Exit(w) \/ UnlockDone(w) \/ UncountTask(w)

LEMMA WorkerQuiet ==
  ASSUME HolderInv, NEW w \in Workers, QuietStep(w)
  PROVE  QuietSlots /\ QuietWorkers
<1>1. /\ wpc \in [Workers -> WorkerPcs] /\ wpos \in [Workers -> 1 .. Len(slots)]
      /\ wpos[w] \in 1 .. Len(slots)
      /\ HoldsSlot(w) => Filled(wpos[w])
  BY DEF HolderInv, PoolType, OneHolderPerSlot, Filled
<1>2. ASSUME MoveOn(w), wpc[w] \in {"barriers", "check"}, SetState(wpos[w], "WAITING"),
             stage' = stage
      PROVE  QuietSlots /\ QuietWorkers
  <2>1. QuietSlots
    BY <1>1, <1>2, RestateIsQuiet DEF HoldsSlot
  <2>2. QuietWorkers
    BY <1>1, <1>2 DEF MoveOn, WGoto, QuietWorkers, Ended, Passed
  <2>3. QED BY <2>1, <2>2
<1>3. CASE ClaimSlot(w)
  <2>1. QuietSlots
    BY <1>1, <1>3, RestateIsQuiet DEF ClaimSlot, Claimable, Filled
  <2>2. QuietWorkers
    BY <1>1, <1>3 DEF ClaimSlot, Looking, WGoto, QuietWorkers, Ended, Passed
  <2>3. QED BY <2>1, <2>2
<1>4. CASE PassSlot(w)
  BY <1>1, <1>4 DEF PassSlot, Looking, MoveOn, WGoto, queueVars, QuietSlots, Moves, Filled,
     QuietWorkers, Ended, Passed
<1>5. CASE CheckBarriers(w) /\ ~OpensBarriers(w)
  BY <1>2, <1>5 DEF CheckBarriers, OpensBarriers
<1>6. CASE CheckReady(w)
  <2>1. CASE Holds(w) \in HasCheck /\ ~Ready(Holds(w))
    BY <1>2, <1>6, <2>1 DEF CheckReady
  <2>2. CASE ~(Holds(w) \in HasCheck /\ ~Ready(Holds(w)))
    BY <1>1, <1>6, <2>2 DEF CheckReady, WGoto, QuietSlots, Moves, Filled, QuietWorkers, Ended,
       Passed
  <2>3. QED BY <2>1, <2>2
<1>7. CASE ScanAgain(w) \/ Park(w) \/ Unpark(w) \/ Exit(w)
  BY <1>1, <1>7 DEF ScanAgain, Park, Unpark, Exit, WGoto, queueVars, QuietSlots, Moves, Filled,
     QuietWorkers, Ended, Passed
<1>8. CASE UnlockDone(w) \/ UncountTask(w)
  BY <1>1, <1>8 DEF UnlockDone, UncountTask, AfterTask, WGoto, queueVars, QuietSlots, Moves,
     Filled, QuietWorkers, Ended, Passed
<1>9. QED BY <1>3, <1>4, <1>5, <1>6, <1>7, <1>8 DEF QuietStep

Turns(a) == FillSlot(a) \/ Wait(a) \/ Await(a) \/ JoinThreads(a)

(* A client is past an operation when it has filled the slot, or has waited. *)
LEMMA Turning ==
  ASSUME HolderInv, WaitInv, NEW a \in Clients, ClientStep(a)
  PROVE  /\ Turns(a) => Position(a)' = Position(a) + 1 /\ cpc[a] # "advance"
         /\ ~Turns(a) => Position(a)' = Position(a)
         /\ \A b \in Clients : b # a => Position(b)' = Position(b)
<1>1. /\ cpc \in [Clients -> ClientPcs] /\ next \in [Clients -> Nat \ {0}]
  BY DEF HolderInv, PoolType
<1>2. \A b \in Clients : b # a => Position(b)' = Position(b)
  BY ClientStepEffect DEF ClientEffect, Position
<1>3. CASE FillSlot(a)
  BY <1>1, <1>2, <1>3 DEF FillSlot, AddStep, CGoto, Position, Turns
<1>4. CASE Wait(a) \/ Await(a)
  BY <1>1, <1>2, <1>4 DEF Wait, Await, AtOp, Advance, Position, Turns
<1>5. CASE JoinThreads(a)
  BY <1>1, <1>2, <1>5 DEF JoinThreads, Advance, CGoto, Position, Turns
<1>6. CASE EndAdd(a)
  BY <1>1, <1>2, <1>6
     DEF EndAdd, Advance, CGoto, Position, Turns, FillSlot, Wait, Await, AtOp, JoinThreads
<1>7. CASE StartAdd(a) \/ TakeSlot(a) \/ SkipSlot(a) \/ Grow(a) \/ CountTask(a) \/ StopThreads(a)
  <2>1. next' = next /\ cpc[a] # "advance" /\ cpc'[a] # "advance"
    BY <1>1, <1>7
       DEF StartAdd, AtOp, TakeSlot, SkipSlot, Grow, CountTask, StopThreads, AddStep, CGoto
  <2>2. ~Turns(a)
    BY <1>1, <1>7, <2>1 DEF Turns, Wait, Await, Advance, JoinThreads, FillSlot, AddStep, CGoto
  <2>3. QED BY <1>2, <2>1, <2>2 DEF Position
<1>8. QED BY <1>3, <1>4, <1>5, <1>6, <1>7 DEF ClientStep

LEMMA AllOnwards ==
  ASSUME HolderInv, WaitInv, [Next]_vars
  PROVE  Onwards
<1>1. ASSUME NEW a \in Clients, ClientStep(a) PROVE Onwards
  BY <1>1, Turning DEF Onwards
<1>2. ASSUME NEW w \in Workers, WorkerStep(w) PROVE Onwards
  BY <1>2, WorkerStepEffect DEF WorkerEffect, Onwards, Position
<1>3. CASE UNCHANGED vars
  BY <1>3 DEF vars, clientVars, Onwards, Position
<1>4. QED BY <1>1, <1>2, <1>3 DEF Next, Finished

LEMMA ClientQuiet ==
  ASSUME HolderInv, NEW a \in Clients, ClientStep(a), ~Grow(a), ~FillSlot(a)
  PROVE  QuietSlots /\ QuietWorkers
<1>1. wpc' = wpc /\ wpos' = wpos
  BY ClientStepEffect DEF ClientEffect
<1>2. QuietWorkers
  BY <1>1 DEF QuietWorkers, Ended, Passed
<1>3. CASE TakeSlot(a)
  <2>1. cpos[a] \in 1 .. Len(slots)
    BY DEF HolderInv, PoolType
  <2>2. QED BY <1>2, <1>3, <2>1, RestateIsQuiet DEF TakeSlot, Fillable, Filled
<1>4. CASE ~TakeSlot(a)
  <2>1. slots' = slots /\ stage' = stage
    BY <1>4
       DEF ClientStep, StartAdd, SkipSlot, CountTask, EndAdd, Wait, Await, StopThreads,
       JoinThreads, queueVars
  <2>2. QED BY <1>2, <2>1 DEF QuietSlots, Moves, Filled
<1>5. QED BY <1>3, <1>4

-----------------------------------------------------------------------------
(* Steps that move a task: the queue grows, a slot is filled, the barriers *)
(* are found open, the function returns, the slot is freed.                *)

(* The slots other than k keep what they have. *)
OthersKept(k) ==
  /\ Len(slots') = Len(slots)
  /\ \A i \in 1 .. Len(slots) : i # k => slots'[i] = slots[i]

LEMMA GrownQueue ==
  ASSUME HolderInv, NEW a \in Clients, Grow(a)
  PROVE  /\ Len(slots) \in Nat /\ Len(slots') \in Nat /\ Len(slots) <= Len(slots')
         /\ \A i \in 1 .. Len(slots) : slots'[i] = slots[i]
         /\ \A i \in 1 .. Len(slots') : i \notin 1 .. Len(slots) => slots'[i] = FreeSlot
<1>1. PoolType /\ Len(slots) \in Nat /\ ChunkSize \in Nat
  BY SizesAssumption, LenProperties DEF HolderInv, PoolType
<1>2. /\ Len(slots') = Len(slots) + ChunkSize
      /\ \A i \in 1 .. Len(slots) : slots'[i] = slots[i]
      /\ \A i \in 1 .. Len(slots') : i > Len(slots) => slots'[i] = FreeSlot
  BY <1>1, GrowEffect
<1>3. QED BY <1>1, <1>2

LEMMA GrowKeeps ==
  ASSUME HolderInv, TaskInv, Onwards, NEW a \in Clients, Grow(a)
  PROVE  TaskInv'
<1>1. /\ Len(slots) \in Nat /\ Len(slots') \in Nat /\ Len(slots) <= Len(slots')
      /\ \A i \in 1 .. Len(slots) : slots'[i] = slots[i]
      /\ \A i \in 1 .. Len(slots') : i \notin 1 .. Len(slots) => slots'[i] = FreeSlot
  BY GrownQueue
<1>2. /\ wpc' = wpc /\ wpos' = wpos /\ stage' = stage
      /\ \A w \in Workers : wpos[w] \in 1 .. Len(slots)
  BY DEF Grow, workerVars, HolderInv, PoolType
<1>3. \A i \in 1 .. Len(slots') : Filled(i)' => i \in 1 .. Len(slots) /\ Filled(i)
  BY <1>1 DEF Filled, FreeSlot
<1>4. EmptyHasNoTask' /\ OneSlotPerTask' /\ BarriersOfTask'
  BY <1>1, <1>3
     DEF TaskInv, EmptyHasNoTask, OneSlotPerTask, BarriersOfTask, FreeSlot, Filled
<1>5. PassedBarriers' /\ EndedIsDone' /\ OthersAreNot'
  BY <1>1, <1>2, <1>3
     DEF TaskInv, PassedBarriers, EndedIsDone, OthersAreNot, Passed, Ended, Holds
<1>6. NotYetAdded'
  <2> SUFFICES ASSUME NEW b \in Clients, NEW i \in 1 .. Len(Program[b]),
                      i >= Position(b)', Program[b][i].op = "add"
               PROVE  /\ stage'[Program[b][i].task] = 0
                      /\ \A k \in 1 .. Len(slots') : slots'[k].task # Program[b][i].task
    BY DEF NotYetAdded
  <2>1. i >= Position(b)
    BY StillToAdd
  <2>2. Program[b][i].task # NoTask
    BY ProgramAssumption, SizesAssumption
  <2>3. QED BY <1>1, <1>2, <2>1, <2>2 DEF TaskInv, NotYetAdded, FreeSlot
<1>7. QED BY <1>4, <1>5, <1>6 DEF TaskInv

LEMMA FillKeeps ==
  ASSUME HolderInv, TaskInv, Onwards, WaitInv, NEW a \in Clients, FillSlot(a)
  PROVE  /\ TaskInv'
         /\ OthersKept(cpos[a]) /\ cpos[a] \in 1 .. Len(slots)
         /\ ~Filled(cpos[a]) /\ Op(a).task \in Tasks
         /\ slots'[cpos[a]].task = Op(a).task
         /\ slots'[cpos[a]].barriers = Barriers[Op(a).task]
         /\ stage[Op(a).task] = 0 /\ \A k \in 1 .. Len(slots) : slots[k].task # Op(a).task
<1> DEFINE k == cpos[a]
           t == Op(a).task
           r == [state |-> "WAITING", task |-> t, barriers |-> Barriers[t]]
<1>1. k \in 1 .. Len(slots) /\ t \in Tasks /\ slots[k].state = "PREPARING"
  BY AddedTask DEF FillSlot, HolderInv, PoolType, Adding, OneHolderPerSlot, Prepares
<1>2. Stored(k, r)
  BY <1>1, Store, TasksAssumption DEF FillSlot, SlotType, HolderInv
<1>3. r.state = "WAITING" /\ r.task = t /\ r.barriers = Barriers[t]
  OBVIOUS
<1>4. /\ wpc' = wpc /\ wpos' = wpos /\ stage' = stage
      /\ \A w \in Workers : wpos[w] \in 1 .. Len(slots)
  BY DEF FillSlot, workerVars, HolderInv, PoolType
<1>5. /\ next[a] \in 1 .. Len(Program[a]) /\ Program[a][next[a]].op = "add"
      /\ t = Program[a][next[a]].task /\ Position(a) = next[a] /\ next[a] \in Nat
  BY ProgramAssumption DEF FillSlot, HolderInv, PoolType, AddsTask, Adding, Op, Position
<1>6. stage[t] = 0 /\ \A j \in 1 .. Len(slots) : slots[j].task # t
  BY <1>5 DEF TaskInv, NotYetAdded
<1> HIDE DEF k, t, r
<1>7. /\ ~Filled(k) /\ slots'[k] = r /\ OthersKept(k)
      /\ \A i \in 1 .. Len(slots) : Filled(i)' <=> i = k \/ Filled(i)
  BY <1>1, <1>2, <1>3 DEF Stored, Filled, OthersKept
<1>8. \A w \in Workers : Passed(w) => wpos[w] # k
  BY <1>7 DEF HolderInv, OneHolderPerSlot, Passed, HoldsSlot, Filled
<1>9. EmptyHasNoTask' /\ OneSlotPerTask' /\ BarriersOfTask'
  BY <1>3, <1>6, <1>7
     DEF OthersKept, TaskInv, EmptyHasNoTask, OneSlotPerTask, BarriersOfTask
<1>10. PassedBarriers' /\ EndedIsDone'
  BY <1>4, <1>7, <1>8
     DEF OthersKept, TaskInv, PassedBarriers, EndedIsDone, Passed, Ended, Holds
<1>11. OthersAreNot'
  <2>1. stage'[r.task] < Stages[r.task]
    BY <1>1, <1>3, <1>4, <1>6, TasksAssumption
  <2>2. QED BY <1>4, <1>7, <2>1 DEF OthersKept, TaskInv, OthersAreNot, Ended
<1>12. NotYetAdded'
  <2> SUFFICES ASSUME NEW b \in Clients, NEW i \in 1 .. Len(Program[b]),
                      i >= Position(b)', Program[b][i].op = "add"
               PROVE  /\ stage'[Program[b][i].task] = 0
                      /\ \A j \in 1 .. Len(slots') : slots'[j].task # Program[b][i].task
    BY DEF NotYetAdded
  <2>1. i >= Position(b)
    BY StillToAdd
  <2>2. Program[b][i].task # t
    <3>1. CASE b = a /\ i = next[a]
      <4>1. Position(a)' = next[a] + 1
        BY <1>5, Turning DEF Turns, ClientStep
      <4>2. QED BY <1>5, <3>1, <4>1
    <3>2. CASE ~(b = a /\ i = next[a])
      BY <1>5, <3>2, TaskAssumption
    <3>3. QED BY <3>1, <3>2
  <2>3. QED BY <1>3, <1>4, <1>7, <2>1, <2>2 DEF OthersKept, TaskInv, NotYetAdded
<1>13. QED BY <1>1, <1>3, <1>6, <1>7, <1>9, <1>10, <1>11, <1>12 DEF TaskInv, k, t

(* A worker has its slot for itself. *)
LEMMA OwnSlot ==
  ASSUME HolderInv, NEW w \in Workers, HoldsSlot(w)
  PROVE  /\ wpos[w] \in 1 .. Len(slots) /\ Filled(wpos[w]) /\ slots[wpos[w]].state = "RUNNING"
         /\ Holds(w) \in Tasks
         /\ \A v \in Workers : v # w /\ HoldsSlot(v) => wpos[v] # wpos[w]
         /\ \A v \in Workers : wpos[v] \in 1 .. Len(slots) /\ (Passed(v) => HoldsSlot(v))
<1>1. wpos[w] \in 1 .. Len(slots) /\ slots[wpos[w]].state = "RUNNING"
  BY DEF HolderInv, PoolType, OneHolderPerSlot
<1>2. Holds(w) \in Tasks
  BY <1>1 DEF HolderInv, FilledHasTask, Filled, Holds
<1>3. QED BY <1>1, <1>2 DEF HolderInv, PoolType, OneHolderPerSlot, Filled, Passed, HoldsSlot

LEMMA OpenKeeps ==
  ASSUME HolderInv, TaskInv, Onwards, NEW w \in Workers, OpensBarriers(w)
  PROVE  /\ TaskInv' /\ HoldsSlot(w)
         /\ OthersKept(wpos[w])
         /\ slots'[wpos[w]].task = Holds(w) /\ slots'[wpos[w]].barriers = {}
         /\ wpos' = wpos /\ stage' = stage /\ wpc[w] # "run" /\ wpc'[w] # "run"
         /\ \A v \in Workers : v # w => wpc'[v] = wpc[v]
<1> DEFINE k == wpos[w]
           r == [slots[k] EXCEPT !.barriers = {}]
<1>1. /\ wpc \in [Workers -> WorkerPcs] /\ HoldsSlot(w) /\ wpc[w] = "barriers"
      /\ wpc' = [wpc EXCEPT ![w] = "check"] /\ wpos' = wpos /\ stage' = stage
      /\ slots' = [slots EXCEPT ![k] = r]
  BY DEF OpensBarriers, CheckBarriers, HoldsSlot, WGoto, HolderInv, PoolType
<1>2. slots[k] \in SlotType
  BY <1>1, OwnSlot, ElementOfSeq DEF HolderInv, PoolType
<1>3. r \in SlotType /\ r.state = slots[k].state /\ r.task = slots[k].task /\ r.barriers = {}
  BY <1>2 DEF SlotType
<1>4. Stored(k, r)
  BY <1>1, <1>3, OwnSlot, Store DEF HolderInv
<1> HIDE DEF r
<1>5. /\ OthersKept(k) /\ slots'[k] = r
      /\ \A i \in 1 .. Len(slots) : (Filled(i)' <=> Filled(i)) /\ slots'[i].task = slots[i].task
      /\ \A i \in 1 .. Len(slots) :
           slots'[i].barriers = {} \/ slots'[i].barriers = slots[i].barriers
  BY <1>3, <1>4 DEF Stored, OthersKept, Filled
<1>6. /\ \A v \in Workers : Ended(v)' <=> Ended(v)
      /\ \A v \in Workers : Passed(v)' => v = w \/ Passed(v)
      /\ \A v \in Workers : wpos[v] \in 1 .. Len(slots)
      /\ \A v \in Workers : v # w => wpc'[v] = wpc[v]
  BY <1>1, OwnSlot DEF Ended, Passed
<1>7. EmptyHasNoTask' /\ OneSlotPerTask' /\ BarriersOfTask'
  BY <1>5 DEF OthersKept, TaskInv, EmptyHasNoTask, OneSlotPerTask, BarriersOfTask
<1>8. PassedBarriers'
  <2> SUFFICES ASSUME NEW v \in Workers, Passed(v)' PROVE slots'[wpos'[v]].barriers = {}
    BY DEF PassedBarriers
  <2>1. CASE v = w
    BY <1>1, <1>3, <1>5, <2>1
  <2>2. CASE v # w
    BY <1>1, <1>5, <1>6, <2>2 DEF TaskInv, PassedBarriers
  <2>3. QED BY <2>1, <2>2
<1>9. EndedIsDone' /\ OthersAreNot'
  BY <1>1, <1>5, <1>6 DEF OthersKept, TaskInv, EndedIsDone, OthersAreNot, Holds
<1>10. NotYetAdded'
  BY <1>1, <1>5, StillToAdd DEF OthersKept, TaskInv, NotYetAdded
<1>11. QED BY <1>1, <1>3, <1>5, <1>6, <1>7, <1>8, <1>9, <1>10 DEF TaskInv, Holds

(* The function of a task that is not done makes progress, or none. *)
LEMMA RunEffect ==
  ASSUME HolderInv, TaskInv, NEW w \in Workers, wpc[w] = "run", Progress(Holds(w))
  PROVE  /\ stage[Holds(w)] < Stages[Holds(w)] /\ stage'[Holds(w)] <= Stages[Holds(w)]
         /\ stage' = [stage EXCEPT ![Holds(w)] =
                        IF Ready(Holds(w)) THEN stage[Holds(w)] + 1 ELSE stage[Holds(w)]]
         /\ stage[Holds(w)] \in Nat /\ Stages[Holds(w)] \in Nat
         /\ stage'[Holds(w)] \in Nat
         /\ \A u \in Tasks \ {Holds(w)} : stage'[u] = stage[u]
         /\ \A i \in 1 .. Len(slots) : Filled(i) /\ i # wpos[w] => slots[i].task # Holds(w)
<1> DEFINE t == Holds(w)
<1>1. HoldsSlot(w) /\ t \in Tasks /\ stage \in [Tasks -> Nat]
  BY OwnSlot DEF HoldsSlot, HolderInv, PoolType
<1>2. \A i \in 1 .. Len(slots) : Filled(i) /\ i # wpos[w] => slots[i].task # t
  BY <1>1, OwnSlot DEF TaskInv, OneSlotPerTask, Holds
<1>3. stage[t] < Stages[t] /\ Stages[t] \in Nat /\ stage[t] \in Nat
  <2>1. \A v \in Workers : Ended(v) => wpos[v] # wpos[w]
    BY <1>1, OwnSlot DEF Ended, HoldsSlot
  <2>2. QED BY <1>1, <2>1, OwnSlot, TasksAssumption DEF TaskInv, OthersAreNot, Holds
<1> HIDE DEF t
<1>4. stage' = [stage EXCEPT ![t] = IF Ready(t) THEN stage[t] + 1 ELSE stage[t]]
  BY DEF Progress, t
<1>5. CASE Ready(t)
  <2>1. stage' = [stage EXCEPT ![t] = stage[t] + 1]
    BY <1>4, <1>5
  <2>2. QED BY <1>1, <1>2, <1>3, <1>4, <2>1 DEF t
<1>6. CASE ~Ready(t)
  <2>1. stage' = [stage EXCEPT ![t] = stage[t]]
    BY <1>4, <1>6, Zenon
  <2>2. QED BY <1>1, <1>2, <1>3, <1>4, <2>1 DEF t
<1>7. QED BY <1>5, <1>6

LEMMA StillNotAdded ==
  ASSUME HolderInv, TaskInv, Onwards, NEW w \in Workers, HoldsSlot(w), Len(slots') = Len(slots),
         \A i \in 1 .. Len(slots) : slots'[i].task \in {slots[i].task, NoTask},
         \A u \in Tasks \ {Holds(w)} : stage'[u] = stage[u]
  PROVE  NotYetAdded'
<1> SUFFICES ASSUME NEW b \in Clients, NEW i \in 1 .. Len(Program[b]),
                    i >= Position(b)', Program[b][i].op = "add"
             PROVE  /\ stage'[Program[b][i].task] = 0
                    /\ \A j \in 1 .. Len(slots') : slots'[j].task # Program[b][i].task
  BY DEF NotYetAdded
<1>1. i >= Position(b)
  BY StillToAdd
<1>2. Program[b][i].task \in Tasks \ {NoTask}
  BY ProgramAssumption, SizesAssumption
<1>3. /\ stage[Program[b][i].task] = 0
      /\ \A j \in 1 .. Len(slots) : slots[j].task # Program[b][i].task
  BY <1>1 DEF TaskInv, NotYetAdded
<1>4. Program[b][i].task # Holds(w)
  BY <1>3, OwnSlot DEF Holds
<1>5. QED BY <1>2, <1>3, <1>4

LEMMA RescheduleKeeps ==
  ASSUME HolderInv, TaskInv, Onwards, NEW w \in Workers, Reschedule(w)
  PROVE  /\ TaskInv' /\ OthersKept(wpos[w])
         /\ slots'[wpos[w]].task = Holds(w)
         /\ slots'[wpos[w]].barriers = slots[wpos[w]].barriers
         /\ wpc'[w] # "run" /\ \A v \in Workers : v # w => wpc'[v] = wpc[v] /\ wpos'[v] = wpos[v]
<1> DEFINE k == wpos[w]
           r == [slots[k] EXCEPT !.state = "WAITING"]
<1>1. /\ wpc[w] = "run" /\ HoldsSlot(w) /\ Progress(Holds(w))
      /\ stage'[Holds(w)] # Stages[Holds(w)] /\ SetState(k, "WAITING")
  BY DEF Reschedule, HoldsSlot
<1>2. k \in 1 .. Len(slots) /\ slots[k] \in SlotType
  BY <1>1, OwnSlot, ElementOfSeq DEF HolderInv, PoolType
<1>3. /\ r.state = "WAITING" /\ r.task = slots[k].task /\ r.barriers = slots[k].barriers
  BY <1>2 DEF SlotType
<1>4. Stored(k, r)
  BY <1>1, <1>2, StoreState DEF HolderInv
<1>5. /\ wpc'[w] = "scan"
      /\ \A v \in Workers : v # w => wpc'[v] = wpc[v] /\ wpos'[v] = wpos[v]
  BY DEF Reschedule, NextTask, WGoto, HolderInv, PoolType
<1> HIDE DEF r
<1>6. /\ OthersKept(k)
      /\ \A i \in 1 .. Len(slots) :
           /\ Filled(i)' <=> Filled(i)
           /\ slots'[i].task = slots[i].task /\ slots'[i].barriers = slots[i].barriers
  BY <1>1, <1>3, <1>4, OwnSlot DEF Stored, OthersKept, Filled
<1>7. /\ \A v \in Workers : Passed(v)' => v # w /\ Passed(v) /\ wpos'[v] = wpos[v]
      /\ \A v \in Workers : Ended(v)' => v # w /\ Ended(v) /\ wpos'[v] = wpos[v]
      /\ \A v \in Workers : Ended(v) => v # w /\ Ended(v)' /\ wpos'[v] = wpos[v]
      /\ \A v \in Workers : wpos[v] \in 1 .. Len(slots) /\ (Ended(v) => HoldsSlot(v))
  BY <1>1, <1>5, OwnSlot DEF Passed, Ended, HoldsSlot
<1>8. /\ stage'[Holds(w)] < Stages[Holds(w)]
      /\ \A u \in Tasks \ {Holds(w)} : stage'[u] = stage[u]
      /\ \A i \in 1 .. Len(slots) : Filled(i) /\ i # k => slots[i].task # Holds(w)
      /\ \A i \in 1 .. Len(slots) : Filled(i) => slots[i].task \in Tasks
  BY <1>1, RunEffect DEF HolderInv, FilledHasTask
<1>9. EmptyHasNoTask' /\ OneSlotPerTask' /\ BarriersOfTask'
  BY <1>6 DEF OthersKept, TaskInv, EmptyHasNoTask, OneSlotPerTask, BarriersOfTask
<1>10. PassedBarriers'
  BY <1>6, <1>7 DEF TaskInv, PassedBarriers
<1>11. EndedIsDone'
  <2> SUFFICES ASSUME NEW v \in Workers, Ended(v)'
               PROVE  stage'[Holds(v)'] = Stages[Holds(v)']
    BY DEF EndedIsDone
  <2>1. Ended(v) /\ v # w /\ HoldsSlot(v) /\ Holds(v)' = Holds(v)
    BY <1>6, <1>7 DEF Holds
  <2>2. Holds(v) \in Tasks \ {Holds(w)}
    BY <1>1, <1>8, <2>1, OwnSlot DEF Holds
  <2>3. QED BY <1>8, <2>1, <2>2 DEF TaskInv, EndedIsDone
<1>12. OthersAreNot'
  <2> SUFFICES ASSUME NEW i \in 1 .. Len(slots), Filled(i),
                      \A v \in Workers : Ended(v) => wpos[v] # i
               PROVE  stage'[slots[i].task] < Stages[slots[i].task]
    BY <1>6, <1>7 DEF OthersAreNot, OthersKept
  <2>1. CASE i = k
    BY <1>8, <2>1 DEF Holds
  <2>2. CASE i # k
    BY <1>8, <2>2 DEF TaskInv, OthersAreNot
  <2>3. QED BY <2>1, <2>2
<1>13. NotYetAdded'
  BY <1>1, <1>6, <1>8, StillNotAdded DEF OthersKept
<1>14. QED BY <1>5, <1>6, <1>2, <1>9, <1>10, <1>11, <1>12, <1>13 DEF TaskInv, Holds

LEMMA CompleteKeeps ==
  ASSUME HolderInv, TaskInv, Onwards, NEW w \in Workers, Complete(w)
  PROVE  /\ TaskInv' /\ slots' = slots /\ wpos' = wpos /\ wpc'[w] # "run"
         /\ \A v \in Workers : v # w => wpc'[v] = wpc[v]
<1>1. /\ wpc[w] = "run" /\ HoldsSlot(w) /\ Progress(Holds(w))
      /\ stage'[Holds(w)] = Stages[Holds(w)] /\ slots' = slots /\ wpos' = wpos
  BY DEF Complete, HoldsSlot, queueVars
<1>2. wpc'[w] = "unlock" /\ \A v \in Workers : v # w => wpc'[v] = wpc[v]
  BY DEF Complete, AfterTask, WGoto, HolderInv, PoolType
<1>3. /\ \A v \in Workers : Passed(v)' => Passed(v)
      /\ \A v \in Workers : Ended(v)' <=> Ended(v) \/ v = w
      /\ \A v \in Workers : v # w => (Ended(v)' <=> Ended(v))
      /\ \A v \in Workers : Ended(v) => HoldsSlot(v)
  BY <1>1, <1>2 DEF Passed, Ended, HoldsSlot
<1>4. /\ \A u \in Tasks \ {Holds(w)} : stage'[u] = stage[u]
      /\ \A i \in 1 .. Len(slots) : Filled(i) /\ i # wpos[w] => slots[i].task # Holds(w)
      /\ \A i \in 1 .. Len(slots) : Filled(i) => slots[i].task \in Tasks
  BY <1>1, RunEffect DEF HolderInv, FilledHasTask
<1>5. EmptyHasNoTask' /\ OneSlotPerTask' /\ BarriersOfTask' /\ PassedBarriers'
  BY <1>1, <1>3
     DEF TaskInv, EmptyHasNoTask, OneSlotPerTask, BarriersOfTask, PassedBarriers, Filled
<1>6. EndedIsDone'
  <2> SUFFICES ASSUME NEW v \in Workers, Ended(v)' PROVE stage'[Holds(v)] = Stages[Holds(v)]
    BY <1>1 DEF EndedIsDone, Holds
  <2>1. CASE v = w
    BY <1>1, <2>1
  <2>2. CASE v # w
    <3>1. Ended(v) /\ HoldsSlot(v)
      BY <1>3, <2>2
    <3>2. Holds(v) \in Tasks \ {Holds(w)}
      BY <1>1, <1>4, <2>2, <3>1, OwnSlot DEF Holds
    <3>3. QED BY <1>4, <3>1, <3>2 DEF TaskInv, EndedIsDone
  <2>3. QED BY <2>1, <2>2
<1>7. OthersAreNot'
  <2> SUFFICES ASSUME NEW i \in 1 .. Len(slots), Filled(i),
                      \A v \in Workers : Ended(v)' => wpos[v] # i
               PROVE  stage'[slots[i].task] < Stages[slots[i].task]
    BY <1>1 DEF OthersAreNot, Filled
  <2>1. i # wpos[w]
    BY <1>3
  <2>2. QED BY <1>3, <1>4, <2>1 DEF TaskInv, OthersAreNot
<1>8. NotYetAdded'
  BY <1>1, <1>4, StillNotAdded
<1>9. QED BY <1>1, <1>2, <1>5, <1>6, <1>7, <1>8 DEF TaskInv

LEMMA FreeKeeps ==
  ASSUME HolderInv, TaskInv, Onwards, NEW w \in Workers, FreeTask(w)
  PROVE  /\ TaskInv' /\ OthersKept(wpos[w]) /\ slots'[wpos[w]].task = NoTask
         /\ HoldsSlot(w) /\ stage[Holds(w)] = Stages[Holds(w)] /\ stage' = stage
         /\ wpc[w] # "run" /\ wpc'[w] # "run"
         /\ \A v \in Workers : v # w => wpc'[v] = wpc[v] /\ wpos'[v] = wpos[v]
<1> DEFINE k == wpos[w]
<1>1. wpc[w] = "free" /\ HoldsSlot(w) /\ Ended(w) /\ stage' = stage
  BY DEF FreeTask, HoldsSlot, Ended
<1>2. k \in 1 .. Len(slots)
  BY <1>1, OwnSlot
<1>3. Stored(k, FreeSlot)
  BY <1>2, Store DEF FreeTask, FreeSlot, SlotType, HolderInv
<1>4. /\ wpc'[w] = "scan"
      /\ \A v \in Workers : v # w => wpc'[v] = wpc[v] /\ wpos'[v] = wpos[v]
  BY DEF FreeTask, NextTask, WGoto, HolderInv, PoolType
<1>5. /\ OthersKept(k) /\ slots'[k].task = NoTask
      /\ \A i \in 1 .. Len(slots) : Filled(i)' <=> Filled(i) /\ i # k
  BY <1>2, <1>3 DEF Stored, OthersKept, Filled, FreeSlot
<1>6. /\ \A v \in Workers : Passed(v)' => v # w /\ Passed(v) /\ wpos'[v] = wpos[v] /\ wpos[v] # k
      /\ \A v \in Workers : Ended(v)' => v # w /\ Ended(v) /\ wpos'[v] = wpos[v] /\ wpos[v] # k
      /\ \A v \in Workers : Ended(v) /\ v # w => Ended(v)' /\ wpos'[v] = wpos[v]
      /\ \A v \in Workers : wpos[v] \in 1 .. Len(slots)
  BY <1>1, <1>4, OwnSlot DEF Passed, Ended, HoldsSlot
<1>7. EmptyHasNoTask' /\ OneSlotPerTask' /\ BarriersOfTask'
  BY <1>5 DEF OthersKept, TaskInv, EmptyHasNoTask, OneSlotPerTask, BarriersOfTask
<1>8. PassedBarriers' /\ EndedIsDone'
  BY <1>1, <1>5, <1>6 DEF OthersKept, TaskInv, PassedBarriers, EndedIsDone, Holds
<1>9. OthersAreNot'
  BY <1>1, <1>5, <1>6 DEF OthersKept, TaskInv, OthersAreNot
<1>10. NotYetAdded'
  BY <1>1, <1>5, StillNotAdded DEF OthersKept
<1>11. QED BY <1>1, <1>4, <1>5, <1>7, <1>8, <1>9, <1>10 DEF TaskInv, EndedIsDone

LEMMA TaskStep ==
  ASSUME HolderInv, WaitInv, TaskInv, [Next]_vars
  PROVE  TaskInv'
<1>1. Onwards
  BY AllOnwards
<1>2. ASSUME NEW a \in Clients, ClientStep(a) PROVE TaskInv'
  BY <1>1, <1>2, ClientQuiet, QuietKeeps, GrowKeeps, FillKeeps
<1>3. ASSUME NEW w \in Workers, WorkerStep(w) PROVE TaskInv'
  <2>1. QuietStep(w) \/ OpensBarriers(w) \/ Reschedule(w) \/ Complete(w) \/ FreeTask(w)
    BY <1>3 DEF WorkerStep, QuietStep
  <2>2. QED BY <1>1, <2>1, WorkerQuiet, QuietKeeps, OpenKeeps, RescheduleKeeps, CompleteKeeps,
               FreeKeeps
<1>4. CASE UNCHANGED vars
  <2>1. QuietSlots /\ QuietWorkers
    BY <1>4 DEF vars, queueVars, workerVars, QuietSlots, QuietWorkers, Moves, Filled, Ended, Passed
  <2>2. QED BY <1>1, <2>1, QuietKeeps
<1>5. QED BY <1>2, <1>3, <1>4 DEF Next, Finished

(* What is done stays done. *)
LEMMA DoneStays ==
  ASSUME HolderInv, WaitInv, TaskInv, [Next]_vars, NEW t \in Tasks, stage[t] = Stages[t]
  PROVE  stage'[t] = Stages[t]
<1>1. CASE stage' = stage
  BY <1>1
<1>2. CASE stage' # stage
  <2>1. PICK w \in Workers : Reschedule(w) \/ Complete(w)
    BY <1>2
       DEF Next, Finished, vars, ClientStep, StartAdd, TakeSlot, SkipSlot, Grow, CountTask,
       FillSlot, EndAdd, Wait, Await, StopThreads, JoinThreads, WorkerStep, ClaimSlot, PassSlot,
       CheckBarriers, CheckReady, ScanAgain, Park, Unpark, Exit, UnlockDone, UncountTask, FreeTask
  <2>2. wpc[w] = "run" /\ Progress(Holds(w))
    BY <2>1 DEF Reschedule, Complete
  <2>3. /\ stage[Holds(w)] \in Nat /\ Stages[Holds(w)] \in Nat
        /\ stage[Holds(w)] < Stages[Holds(w)]
        /\ \A u \in Tasks \ {Holds(w)} : stage'[u] = stage[u]
    BY <2>2, RunEffect
  <2>4. t # Holds(w)
    BY <2>3
  <2>5. QED BY <2>3, <2>4
<1>3. QED BY <1>1, <1>2

(* Only UnlockDone opens a barrier that is no counter. *)
LEMMA OpenStep ==
  ASSUME HolderInv, WaitInv, TaskInv, OpenedByTask, [Next]_vars
  PROVE  OpenedByTask'
<1> SUFFICES ASSUME NEW b \in Locks \ Counters, ~blocked'[b]
             PROVE  \E t \in Tasks : Done[t] = b /\ stage'[t] = Stages[t]
  BY DEF OpenedByTask
<1>1. /\ blocked \in [Locks -> BOOLEAN] /\ count \in [Counters -> Int]
      /\ b # NoBarrier
  BY DEF HolderInv, PoolType, Locks, Counters
<1>2. CASE ~blocked[b]
  BY <1>2, DoneStays DEF OpenedByTask
<1>3. CASE blocked[b]
  <2>1. ASSUME NEW t \in Tasks PROVE Counter[t] # b
    BY <1>1 DEF Counters
  <2>2. ASSUME NEW a \in Clients, ClientStep(a) PROVE FALSE
    <3>1. CASE CountTask(a)
      <4>1. Increment(Counter[Op(a).task]) /\ Op(a).task \in Tasks
        BY <3>1, AddedTask DEF CountTask, Adding, HolderInv
      <4>2. blocked'[b] = blocked[b]
        BY <1>1, <2>1, <4>1, Zenon DEF Increment, lockVars
      <4>3. QED BY <1>3, <4>2
    <3>2. CASE ~CountTask(a)
      <4>1. blocked' = blocked
        BY <2>2, <3>2
           DEF ClientStep, StartAdd, TakeSlot, SkipSlot, Grow, FillSlot, EndAdd, Wait, Await,
           StopThreads, JoinThreads, lockVars
      <4>2. QED BY <1>3, <4>1
    <3>3. QED BY <3>1, <3>2
  <2>3. ASSUME NEW w \in Workers, WorkerStep(w)
        PROVE  \E t \in Tasks : Done[t] = b /\ stage'[t] = Stages[t]
    <3>1. CASE UncountTask(w)
      <4>1. Decrement(Counter[Holds(w)]) /\ Holds(w) \in Tasks
        BY <3>1, OwnSlot DEF UncountTask, HoldsSlot
      <4>2. blocked'[b] = blocked[b]
        BY <1>1, <2>1, <4>1, Zenon DEF Decrement, lockVars
      <4>3. QED BY <1>3, <4>2
    <3>2. CASE UnlockDone(w)
      <4>1. /\ Unlock(Done[Holds(w)]) /\ Holds(w) \in Tasks
            /\ stage[Holds(w)] = Stages[Holds(w)]
        BY <3>2, OwnSlot DEF UnlockDone, HoldsSlot, TaskInv, EndedIsDone, Ended
      <4>2. Done[Holds(w)] = b
        BY <1>1, <1>3, <4>1, Zenon DEF Unlock
      <4>3. QED BY <4>1, <4>2, DoneStays
    <3>3. CASE ~UncountTask(w) /\ ~UnlockDone(w)
      <4>1. blocked' = blocked
        BY <2>3, <3>3
           DEF WorkerStep, ClaimSlot, PassSlot, CheckBarriers, CheckReady, ScanAgain, Park,
           Unpark, Exit, Reschedule, Complete, FreeTask, lockVars
      <4>2. QED BY <1>3, <4>1
    <3>4. QED BY <3>1, <3>2, <3>3
  <2>4. CASE UNCHANGED vars
    BY <1>3, <2>4 DEF vars, lockVars
  <2>5. QED BY <2>2, <2>3, <2>4 DEF Next, Finished
<1>4. QED BY <1>1, <1>2, <1>3

LEMMA PromiseInit == Init => TaskInv /\ OpenedByTask
<1> SUFFICES ASSUME Init PROVE TaskInv /\ OpenedByTask
  OBVIOUS
<1>1. /\ Len(slots) = ChunkSize /\ ChunkSize \in Nat
      /\ \A i \in 1 .. Len(slots) : slots[i] = FreeSlot
  BY SizesAssumption DEF Init
<1>2. \A i \in 1 .. Len(slots) : slots[i].task = NoTask /\ ~Filled(i)
  BY <1>1 DEF FreeSlot, Filled
<1>3. EmptyHasNoTask /\ OneSlotPerTask /\ BarriersOfTask /\ OthersAreNot
  BY <1>2 DEF EmptyHasNoTask, OneSlotPerTask, BarriersOfTask, OthersAreNot
<1>4. PassedBarriers /\ EndedIsDone
  BY DEF Init, PassedBarriers, EndedIsDone, Passed, Ended
<1>5. NotYetAdded
  BY <1>2, ProgramAssumption, SizesAssumption DEF Init, NotYetAdded
<1>6. OpenedByTask
  BY Zenon DEF Init, OpenedByTask
<1>7. QED BY <1>3, <1>4, <1>5, <1>6 DEF TaskInv

LEMMA PromiseInvariant == Spec => []PromiseInv
<1>1. Init => WaitInv
  BY ProgramAssumption DEF Init, WaitInv, InProgram, HasWaited
<1>2. PoolInv /\ TaskInv /\ OpenedByTask /\ [Next]_vars => TaskInv' /\ OpenedByTask'
  BY TaskStep, OpenStep DEF PoolInv
<1>3. Spec => []PoolInv
  BY <1>1, CountInvariant, WaitStep, PTL DEF Spec, PoolInv
<1>4. QED BY <1>2, <1>3, PromiseInit, PTL DEF Spec, PromiseInv

-----------------------------------------------------------------------------
(* The promise's view of a step.                                           *)

Runs(u) == \E w \in Workers : wpc[w] = "run" /\ Holds(w) = u

LEMMA SlotOfTask ==
  ASSUME HolderInv, TaskInv, NEW i \in 1 .. Len(slots), Filled(i)
  PROVE  Slot(slots[i].task) = {i} /\ slots[i].task \in Tasks
<1>1. slots[i].task \in Tasks \ {NoTask}
  BY SizesAssumption DEF HolderInv, FilledHasTask
<1>2. DOMAIN slots = 1 .. Len(slots)
  BY LenProperties DEF HolderInv, PoolType
<1>3. \A j \in 1 .. Len(slots) : slots[j].task = slots[i].task => j = i
  BY <1>1 DEF TaskInv, EmptyHasNoTask, OneSlotPerTask
<1>4. QED BY <1>1, <1>2, <1>3 DEF Slot

LEMMA SameStatus ==
  ASSUME NEW u \in Tasks, stage'[u] = stage[u], Slot(u)' = Slot(u),
         \A i \in Slot(u) : slots'[i].barriers = slots[i].barriers,
         Runs(u)' <=> Runs(u)
  PROVE  Status(u)' = Status(u)
BY DEF Status, Runs

LEMMA QuietStatus ==
  ASSUME HolderInv, HolderInv', QuietSlots, NEW u \in Tasks,
         \A w \in Workers : wpc'[w] = "run" /\ Holds(w) = u <=> wpc[w] = "run" /\ Holds(w) = u,
         \A w \in Workers : wpc'[w] = "run" => wpos'[w] = wpos[w]
  PROVE  Status(u)' = Status(u)
<1>1. /\ DOMAIN slots = 1 .. Len(slots) /\ DOMAIN slots' = 1 .. Len(slots')
      /\ \A w \in Workers : wpos[w] \in 1 .. Len(slots)
  BY LenProperties DEF HolderInv, PoolType
<1>2. Slot(u)' = Slot(u) /\ \A i \in Slot(u) : slots'[i].barriers = slots[i].barriers
  BY <1>1 DEF QuietSlots, Moves, Slot
<1>3. Runs(u)' <=> Runs(u)
  BY <1>1 DEF QuietSlots, Moves, Runs, Holds
<1>4. QED BY <1>2, <1>3, SameStatus DEF QuietSlots

(* A task in whose slot nothing has happened. *)
LEMMA OtherStatus ==
  ASSUME HolderInv, HolderInv', NEW k \in 1 .. Len(slots), OthersKept(k),
         NEW u \in Tasks, stage'[u] = stage[u], slots[k].task # u, slots'[k].task # u,
         \A w \in Workers : wpc'[w] = "run" /\ wpos'[w] # k => wpc[w] = "run" /\ wpos'[w] = wpos[w],
         \A w \in Workers : wpc[w] = "run" /\ wpos[w] # k => wpc'[w] = "run" /\ wpos'[w] = wpos[w]
  PROVE  Status(u)' = Status(u)
<1>1. /\ DOMAIN slots = 1 .. Len(slots) /\ DOMAIN slots' = 1 .. Len(slots')
      /\ \A w \in Workers : wpos[w] \in 1 .. Len(slots) /\ wpos'[w] \in 1 .. Len(slots')
  BY LenProperties DEF HolderInv, PoolType
<1>2. Slot(u)' = Slot(u) /\ \A i \in Slot(u) : slots'[i].barriers = slots[i].barriers
  BY <1>1 DEF OthersKept, Slot
<1>3. Runs(u)' <=> Runs(u)
  <2>1. \A w \in Workers : wpc[w] = "run" /\ Holds(w) = u => wpc'[w] = "run" /\ Holds(w)' = u
    BY <1>1 DEF OthersKept, Holds
  <2>2. \A w \in Workers : wpc'[w] = "run" /\ Holds(w)' = u => wpc[w] = "run" /\ Holds(w) = u
    BY <1>1 DEF OthersKept, Holds
  <2>3. QED BY <2>1, <2>2 DEF Runs
<1>4. QED BY <1>2, <1>3, SameStatus

(* A task that a worker holds and has not ended. *)
LEMMA HeldStatus ==
  ASSUME HolderInv, TaskInv, NEW w \in Workers, HoldsSlot(w), ~Ended(w)
  PROVE  /\ Slot(Holds(w)) = {wpos[w]} /\ Holds(w) \in Tasks
         /\ stage[Holds(w)] < Stages[Holds(w)] /\ stage[Holds(w)] # Stages[Holds(w)]
         /\ Runs(Holds(w)) <=> wpc[w] = "run"
         /\ Status(Holds(w)) = IF wpc[w] = "run" THEN "running"
                               ELSE IF slots[wpos[w]].barriers = {} THEN "free" ELSE "blocked"
<1>1. Slot(Holds(w)) = {wpos[w]} /\ Holds(w) \in Tasks
  BY OwnSlot, SlotOfTask DEF Holds
<1>2. stage[Holds(w)] < Stages[Holds(w)] /\ stage[Holds(w)] # Stages[Holds(w)]
  <2>1. \A v \in Workers : Ended(v) => wpos[v] # wpos[w]
    BY OwnSlot DEF Ended, HoldsSlot
  <2>2. stage[Holds(w)] < Stages[Holds(w)]
    BY <2>1, OwnSlot DEF TaskInv, OthersAreNot, Holds
  <2>3. stage[Holds(w)] \in Nat /\ Stages[Holds(w)] \in Nat
    BY <1>1, TasksAssumption DEF HolderInv, PoolType
  <2>4. QED BY <2>2, <2>3
<1>3. Runs(Holds(w)) <=> wpc[w] = "run"
  <2>1. ASSUME NEW v \in Workers, wpc[v] = "run", Holds(v) = Holds(w) PROVE v = w
    <3>1. HoldsSlot(v)
      BY <2>1 DEF HoldsSlot
    <3>2. Slot(Holds(v)) = {wpos[v]}
      BY <3>1, OwnSlot, SlotOfTask DEF Holds
    <3>3. QED BY <1>1, <2>1, <3>1, <3>2, OwnSlot
  <2>2. QED BY <2>1 DEF Runs
<1>4. QED BY <1>1, <1>2, <1>3 DEF Status, Runs

SameStatuses == \A u \in Tasks : Status(u)' = Status(u)

Becomes(t, s) == Status(t)' = s /\ \A u \in Tasks \ {t} : Status(u)' = Status(u)

Starts(w) == CheckReady(w) /\ wpc'[w] = "run"

LEMMA QuietWorkerStatus ==
  ASSUME HolderInv, HolderInv', NEW w \in Workers, QuietStep(w), ~Starts(w)
  PROVE  SameStatuses
<1>1. QuietSlots /\ QuietWorkers
  BY WorkerQuiet
<1>2. /\ wpc[w] # "run" /\ wpc'[w] # "run"
      /\ \A v \in Workers : v # w => wpc'[v] = wpc[v] /\ wpos'[v] = wpos[v]
  BY DEF QuietStep, Starts, ClaimSlot, Looking, PassSlot, MoveOn, CheckBarriers, OpensBarriers,
     CheckReady, ScanAgain, Park, Unpark, Exit, UnlockDone, UncountTask, AfterTask, WGoto,
     HolderInv, PoolType
<1>3. QED BY <1>1, <1>2, QuietStatus DEF SameStatuses

LEMMA StartStatus ==
  ASSUME HolderInv, HolderInv', TaskInv, TaskInv', NEW w \in Workers, Starts(w),
         NEW t, t = Holds(w)
  PROVE  /\ t \in Tasks /\ Status(t) = "free" /\ Becomes(t, "running")
         /\ t \in HasCheck => Ready(t)
<1>1. /\ wpc[w] = "check" /\ wpc'[w] = "run" /\ slots' = slots /\ wpos' = wpos
      /\ \A v \in Workers : v # w => wpc'[v] = wpc[v]
      /\ Holds(w) \in HasCheck => Ready(Holds(w))
  BY DEF Starts, CheckReady, MoveOn, WGoto, HolderInv, PoolType
<1>2. HoldsSlot(w) /\ ~Ended(w) /\ HoldsSlot(w)' /\ ~Ended(w)'
  BY <1>1 DEF HoldsSlot, Ended
<1>3. slots[wpos[w]].barriers = {}
  BY <1>1 DEF TaskInv, PassedBarriers, Passed
<1>4. t \in Tasks /\ Status(t) = "free" /\ Slot(t) = {wpos[w]}
  BY <1>1, <1>2, <1>3, HeldStatus
<1>5. stage' = stage /\ stage[t] # Stages[t]
  BY <1>2, HeldStatus DEF Starts, CheckReady
<1>6. Status(t)' = "running"
  <2>1. Holds(w)' = Holds(w)
    BY <1>1 DEF Holds
  <2>2. Runs(t)'
    BY <1>1, <2>1 DEF Runs
  <2>3. Slot(t)' = Slot(t)
    BY <1>1, <2>1 DEF Slot
  <2>4. stage'[t] # Stages[t] /\ Slot(t)' # {}
    BY <1>4, <1>5, <2>3
  <2>5. QED BY <2>1, <2>2, <2>4 DEF Status, Runs
<1>7. ASSUME NEW u \in Tasks \ {t} PROVE Status(u)' = Status(u)
  <2>1. OthersKept(wpos[w]) /\ slots[wpos[w]].task # u /\ slots'[wpos[w]].task # u
    BY <1>1, <1>7 DEF OthersKept, Holds
  <2>2. stage'[u] = stage[u] /\ wpos[w] \in 1 .. Len(slots)
    BY <1>2, <1>5, OwnSlot
  <2>3. /\ \A v \in Workers : wpc'[v] = "run" /\ wpos'[v] # wpos[w] => wpc[v] = "run" /\ wpos'[v] = wpos[v]
        /\ \A v \in Workers : wpc[v] = "run" /\ wpos[v] # wpos[w] => wpc'[v] = "run" /\ wpos'[v] = wpos[v]
    BY <1>1
  <2>4. QED BY <2>1, <2>2, <2>3, OtherStatus
<1>8. QED BY <1>1, <1>4, <1>6, <1>7 DEF Becomes

(* The tasks that the worker does not hold keep their status. *)
LEMMA OthersBecome ==
  ASSUME HolderInv, HolderInv', NEW w \in Workers, HoldsSlot(w), OthersKept(wpos[w]),
         slots'[wpos[w]].task \in {Holds(w), NoTask},
         \A u \in Tasks \ {Holds(w)} : stage'[u] = stage[u], wpc'[w] # "run",
         \A v \in Workers : v # w => wpc'[v] = wpc[v] /\ wpos'[v] = wpos[v],
         NEW u \in Tasks \ {Holds(w)}
  PROVE  Status(u)' = Status(u)
<1>1. wpos[w] \in 1 .. Len(slots)
  BY OwnSlot
<1>2. slots[wpos[w]].task # u /\ slots'[wpos[w]].task # u /\ stage'[u] = stage[u]
  BY SizesAssumption DEF Holds
<1>3. \A v \in Workers : wpc'[v] = "run" /\ wpos'[v] # wpos[w] => wpc[v] = "run" /\ wpos'[v] = wpos[v]
  OBVIOUS
<1>4. \A v \in Workers : wpc[v] = "run" /\ wpos[v] # wpos[w] => wpc'[v] = "run" /\ wpos'[v] = wpos[v]
  OBVIOUS
<1>5. QED BY <1>1, <1>2, <1>3, <1>4, OtherStatus

(* The status of a task whose slot is put back, or looked at. *)
LEMMA PutBackStatus ==
  ASSUME HolderInv, HolderInv', TaskInv, TaskInv', NEW w \in Workers, HoldsSlot(w),
         NEW t, t = Holds(w), OthersKept(wpos[w]), slots'[wpos[w]].task = t, wpc'[w] # "run",
         \A v \in Workers : v # w => wpc'[v] = wpc[v] /\ wpos'[v] = wpos[v]
  PROVE  Status(t)' = IF stage'[t] = Stages[t] THEN "done"
                      ELSE IF slots'[wpos[w]].barriers = {} THEN "free" ELSE "blocked"
<1> DEFINE k == wpos[w]
<1>1. k \in 1 .. Len(slots') /\ k \in 1 .. Len(slots) /\ t \in Tasks \ {NoTask}
  BY OwnSlot, SizesAssumption DEF OthersKept
<1>2. DOMAIN slots' = 1 .. Len(slots') /\ Len(slots') = Len(slots)
  BY LenProperties DEF HolderInv, PoolType, OthersKept
<1>3. \A j \in 1 .. Len(slots') : slots'[j].task = t => j = k
  <2>1. \A j \in 1 .. Len(slots) : slots[j].task = t => j = k
    BY <1>1, OwnSlot DEF TaskInv, EmptyHasNoTask, OneSlotPerTask, Holds
  <2>2. QED BY <1>2, <2>1 DEF OthersKept
<1>4. {i \in DOMAIN slots' : slots'[i].task = t} = {k}
  BY <1>1, <1>2, <1>3
<1>5. ~\E v \in Workers : wpc'[v] = "run" /\ slots'[wpos'[v]].task = t
  <2> SUFFICES ASSUME NEW v \in Workers, wpc'[v] = "run", slots'[wpos'[v]].task = t PROVE FALSE
    OBVIOUS
  <2>1. v # w /\ wpc[v] = "run" /\ HoldsSlot(v) /\ wpos'[v] = wpos[v]
    BY DEF HoldsSlot
  <2>2. wpos[v] # k /\ wpos[v] \in 1 .. Len(slots)
    BY <2>1, OwnSlot
  <2>3. QED BY <1>2, <1>3, <2>1, <2>2
<1>6. QED
  <2>1. CASE stage'[t] = Stages[t]
    BY <2>1 DEF Status
  <2>2. CASE stage'[t] # Stages[t]
    BY <1>4, <1>5, <2>2 DEF Status, Slot, Holds
  <2>3. QED BY <2>1, <2>2

-----------------------------------------------------------------------------
(* Every step is one of the promise, or none.                              *)

StatusMap == [t \in Tasks |-> Status(t)]

PositionMap == [a \in Clients |-> IF cpc[a] = "advance" THEN next[a] + 1 ELSE next[a]]

LEMMA SameMap ==
  ASSUME SameStatuses
  PROVE  StatusMap' = StatusMap
BY DEF SameStatuses, StatusMap

LEMMA BecomesMap ==
  ASSUME NEW t \in Tasks, NEW s, Becomes(t, s)
  PROVE  StatusMap' = [StatusMap EXCEPT ![t] = s]
BY DEF Becomes, StatusMap

(* A counter at zero has only tasks that are done or were not added yet. *)
LEMMA ZeroMeansComplete ==
  ASSUME PromiseInv, NEW c \in Counters, count[c] = 0, NEW t \in Tasks, Counter[t] = c
  PROVE  Status(t) \in {"new", "done"}
<1>1. HolderInv /\ TaskInv /\ CountersAgree
  BY DEF PromiseInv, PoolInv
<1>2. Unfinished(c) = {}
  BY <1>1, NothingLeft
<1>3. CASE Slot(t) = {}
  BY <1>3 DEF Status
<1>4. ASSUME NEW i \in Slot(t) PROVE Status(t) = "done"
  <2>1. i \in 1 .. Len(slots) /\ slots[i].task = t /\ t # NoTask
    BY <1>1, LenProperties, SizesAssumption DEF Slot, HolderInv, PoolType
  <2>2. Filled(i)
    BY <1>1, <2>1 DEF TaskInv, EmptyHasNoTask
  <2>3. PICK w \in Workers : wpc[w] = "free" /\ wpos[w] = i
    BY <1>1, <1>2, <2>1, <2>2, InUnfinished
  <2>4. stage[t] = Stages[t]
    BY <1>1, <2>1, <2>3 DEF TaskInv, EndedIsDone, Ended, Holds
  <2>5. QED BY <2>4 DEF Status
<1>5. QED BY <1>3, <1>4

(* A barrier that lets a task through is one that is open. *)
LEMMA OpenMeansOpen ==
  ASSUME PromiseInv, NEW t \in Tasks, NEW b \in Barriers[t], ~blocked[b]
  PROVE  Promise!Open(b)
<1>1. b \in Locks /\ b # NoBarrier
  BY TasksAssumption
<1>2. CASE b \in Counters
  <2>1. \E u \in Tasks : Counter[u] = b
    BY <1>2 DEF Counters
  <2>2. count[b] = 0
    <3>1. count[b] \in Nat /\ ~(count[b] > 0)
      BY <1>2, FiniteSides DEF PromiseInv, PoolInv, CountersAgree
    <3>2. QED BY <3>1
  <2>3. \A u \in Tasks : Counter[u] = b => StatusMap[u] \in {"new", "done"}
    BY <1>2, <2>2, ZeroMeansComplete DEF StatusMap
  <2>4. QED BY <2>1, <2>3 DEF Promise!Open, Promise!Complete, StatusMap
<1>3. CASE b \notin Counters
  <2>1. ~\E u \in Tasks : Counter[u] = b
    BY <1>1, <1>3 DEF Counters
  <2>2. PICK u \in Tasks : Done[u] = b /\ stage[u] = Stages[u]
    BY <1>1, <1>3 DEF PromiseInv, OpenedByTask
  <2>3. StatusMap[u] = "done"
    BY <2>2 DEF Status, StatusMap
  <2>4. QED BY <2>1, <2>2, <2>3 DEF Promise!Open, StatusMap
<1>4. QED BY <1>2, <1>3

(* What the steps of a worker are in the promise. *)
LEMMA WorkerKeepsPromise ==
  ASSUME PromiseInv, PromiseInv', [Next]_vars, NEW w \in Workers, WorkerStep(w)
  PROVE  \/ \E t \in Tasks : Promise!Unblock(t) \/ Promise!Enter(t) \/ Promise!Leave(t)
         \/ UNCHANGED <<StatusMap, stage, PositionMap>>
<1>1. /\ HolderInv /\ HolderInv' /\ TaskInv /\ TaskInv' /\ WaitInv /\ CountersAgree /\ OpenedByTask
      /\ Onwards
  BY AllOnwards DEF PromiseInv, PoolInv
<1>2. PositionMap' = PositionMap
  BY <1>1, WorkerStepEffect DEF WorkerEffect, PositionMap
<1>3. CASE QuietStep(w) /\ ~Starts(w)
  <2>1. SameStatuses /\ stage' = stage
    BY <1>1, <1>3, QuietWorkerStatus, WorkerQuiet DEF QuietSlots
  <2>2. QED BY <1>2, <2>1, SameMap
<1>4. CASE Starts(w)
  <2>1. PICK t : t = Holds(w)
    OBVIOUS
  <2>2. /\ t \in Tasks /\ Status(t) = "free" /\ Becomes(t, "running")
        /\ t \in HasCheck => Ready(t)
    BY <1>1, <1>4, <2>1, StartStatus
  <2>3. StatusMap' = [StatusMap EXCEPT ![t] = "running"] /\ StatusMap[t] = "free"
    BY <2>2, BecomesMap DEF StatusMap
  <2>4. stage' = stage
    BY <1>4 DEF Starts, CheckReady
  <2>5. Promise!Enter(t)
    BY <1>2, <2>2, <2>3, <2>4 DEF Promise!Enter, Promise!Ready, Ready, StatusMap, PositionMap
  <2>6. QED BY <2>2, <2>5
<1>5. CASE OpensBarriers(w)
  <2>1. PICK t : t = Holds(w)
    OBVIOUS
  <2>2. /\ HoldsSlot(w) /\ OthersKept(wpos[w]) /\ slots'[wpos[w]].task = t
        /\ slots'[wpos[w]].barriers = {}
        /\ wpos' = wpos /\ stage' = stage /\ wpc[w] # "run" /\ wpc'[w] # "run"
        /\ \A v \in Workers : v # w => wpc'[v] = wpc[v] /\ wpos'[v] = wpos[v]
    BY <1>1, <1>5, <2>1, OpenKeeps
  <2>3. wpc[w] = "barriers" /\ ~Ended(w)
    BY <1>5 DEF OpensBarriers, CheckBarriers, Ended
  <2>4. /\ t \in Tasks /\ stage[t] # Stages[t]
        /\ Status(t) = IF slots[wpos[w]].barriers = {} THEN "free" ELSE "blocked"
    BY <1>1, <2>1, <2>2, <2>3, HeldStatus
  <2>5. Status(t)' = "free"
    BY <1>1, <2>1, <2>2, <2>4, PutBackStatus
  <2>6. \A u \in Tasks \ {t} : Status(u)' = Status(u)
    BY <1>1, <2>1, <2>2, OthersBecome
  <2>7. CASE slots[wpos[w]].barriers = {}
    <3>1. SameStatuses
      BY <2>4, <2>5, <2>6, <2>7 DEF SameStatuses
    <3>2. QED BY <1>2, <2>2, <3>1, SameMap
  <2>8. CASE slots[wpos[w]].barriers # {}
    <3>1. slots[wpos[w]].barriers = Barriers[t]
      BY <1>1, <2>1, <2>2, <2>8, OwnSlot DEF TaskInv, BarriersOfTask, Holds
    <3>2. \A b \in Barriers[t] : ~blocked[b]
      BY <1>5, <3>1 DEF OpensBarriers
    <3>3. \A b \in Barriers[t] : Promise!Open(b)
      BY <1>1, <2>4, <3>2, OpenMeansOpen
    <3>4. Becomes(t, "free")
      BY <2>5, <2>6 DEF Becomes
    <3>5. StatusMap' = [StatusMap EXCEPT ![t] = "free"] /\ StatusMap[t] = "blocked"
      BY <2>4, <2>8, <3>4, BecomesMap DEF StatusMap
    <3>6. Promise!Unblock(t)
      BY <1>2, <2>2, <3>3, <3>5 DEF Promise!Unblock, StatusMap, PositionMap
    <3>7. QED BY <2>4, <3>6
  <2>9. QED BY <2>7, <2>8
<1>6. CASE Reschedule(w) \/ Complete(w)
  <2>1. PICK t : t = Holds(w)
    OBVIOUS
  <2>2. /\ wpc[w] = "run" /\ HoldsSlot(w) /\ ~Ended(w) /\ Passed(w) /\ Progress(t)
        /\ stage'[t] = Stages[t] <=> Complete(w)
    BY <1>6, <2>1 DEF Reschedule, Complete, HoldsSlot, Ended, Passed
  <2>3. /\ OthersKept(wpos[w]) /\ slots'[wpos[w]].task = t
        /\ slots'[wpos[w]].barriers = {} /\ wpc'[w] # "run"
        /\ \A v \in Workers : v # w => wpc'[v] = wpc[v] /\ wpos'[v] = wpos[v]
    BY <1>1, <1>6, <2>1, <2>2, RescheduleKeeps, CompleteKeeps, ZenonT(60)
       DEF TaskInv, PassedBarriers, OthersKept, Holds
  <2>4. t \in Tasks /\ Status(t) = "running"
    BY <1>1, <2>1, <2>2, HeldStatus
  <2>5. Status(t)' = IF stage'[t] = Stages[t] THEN "done" ELSE "free"
    BY <1>1, <2>1, <2>2, <2>3, PutBackStatus
  <2>6. \A u \in Tasks \ {t} : stage'[u] = stage[u]
    BY <1>1, <2>1, <2>2, RunEffect
  <2>7. \A u \in Tasks \ {t} : Status(u)' = Status(u)
    BY <1>1, <2>1, <2>2, <2>3, <2>6, OthersBecome
  <2>8. PICK s : s = IF stage'[t] = Stages[t] THEN "done" ELSE "free"
    OBVIOUS
  <2>9. Becomes(t, s)
    BY <2>5, <2>7, <2>8 DEF Becomes
  <2>10. StatusMap' = [StatusMap EXCEPT ![t] = s] /\ StatusMap[t] = "running"
    BY <2>4, <2>9, BecomesMap DEF StatusMap
  <2>11. stage' = [stage EXCEPT ![t] = IF Promise!Ready(t) THEN stage[t] + 1 ELSE stage[t]]
    BY <2>2, Zenon DEF Progress, Ready, Promise!Ready
  <2>12. Promise!Leave(t)
    BY <1>2, <2>8, <2>10, <2>11 DEF Promise!Leave, StatusMap, PositionMap
  <2>13. QED BY <2>4, <2>12
<1>7. CASE FreeTask(w)
  <2>1. PICK t : t = Holds(w)
    OBVIOUS
  <2>2. /\ OthersKept(wpos[w]) /\ slots'[wpos[w]].task = NoTask
        /\ HoldsSlot(w) /\ stage[t] = Stages[t] /\ stage' = stage /\ wpc'[w] # "run"
        /\ \A v \in Workers : v # w => wpc'[v] = wpc[v] /\ wpos'[v] = wpos[v]
    BY <1>1, <1>7, <2>1, FreeKeeps
  <2>3. \A u \in Tasks \ {t} : Status(u)' = Status(u)
    BY <1>1, <2>1, <2>2, OthersBecome
  <2>4. Status(t)' = "done" /\ Status(t) = "done"
    BY <2>2 DEF Status
  <2>5. SameStatuses
    BY <2>3, <2>4 DEF SameStatuses
  <2>6. QED BY <1>2, <2>2, <2>5, SameMap
<1>8. QED
  BY <1>3, <1>4, <1>5, <1>6, <1>7 DEF WorkerStep, QuietStep

LEMMA TurnMap ==
  ASSUME PromiseInv, NEW a \in Clients, ClientStep(a)
  PROVE  /\ Turns(a) => /\ PositionMap' = [PositionMap EXCEPT ![a] = PositionMap[a] + 1]
                        /\ PositionMap[a] = next[a]
         /\ ~Turns(a) => PositionMap' = PositionMap
<1>1. HolderInv /\ WaitInv /\ next \in [Clients -> Nat \ {0}]
  BY DEF PromiseInv, PoolInv, HolderInv, PoolType
<1>2. /\ Turns(a) => Position(a)' = Position(a) + 1 /\ cpc[a] # "advance"
      /\ ~Turns(a) => Position(a)' = Position(a)
      /\ \A b \in Clients : b # a => Position(b)' = Position(b)
  BY <1>1, Turning
<1>3. PositionMap = [b \in Clients |-> Position(b)]
  BY DEF PositionMap, Position
<1>4. PositionMap' = [b \in Clients |-> Position(b)']
  BY DEF PositionMap, Position
<1>5. PositionMap[a] = Position(a)
  BY <1>3
<1>6. ASSUME Turns(a) PROVE PositionMap[a] = next[a]
  BY <1>2, <1>5, <1>6 DEF Position
<1>7. Turns(a) => PositionMap' = [PositionMap EXCEPT ![a] = PositionMap[a] + 1]
  BY <1>2, <1>3, <1>4, <1>5
<1>8. ~Turns(a) => PositionMap' = PositionMap
  BY <1>2, <1>3, <1>4
<1>9. QED BY <1>6, <1>7, <1>8

LEMMA QuietClientStatus ==
  ASSUME HolderInv, HolderInv', NEW a \in Clients, ClientStep(a), ~Grow(a), ~FillSlot(a)
  PROVE  SameStatuses /\ stage' = stage
<1>1. QuietSlots /\ wpc' = wpc /\ wpos' = wpos
  BY ClientQuiet, ClientStepEffect DEF ClientEffect
<1>2. QED BY <1>1, QuietStatus DEF SameStatuses, QuietSlots

LEMMA GrowStatus ==
  ASSUME HolderInv, HolderInv', NEW a \in Clients, Grow(a)
  PROVE  SameStatuses /\ stage' = stage
<1>1. /\ Len(slots) \in Nat /\ Len(slots') \in Nat /\ Len(slots) <= Len(slots')
      /\ \A i \in 1 .. Len(slots) : slots'[i] = slots[i]
      /\ \A i \in 1 .. Len(slots') : i \notin 1 .. Len(slots) => slots'[i].task = NoTask
  <2>1. /\ Len(slots) \in Nat /\ Len(slots') \in Nat /\ Len(slots) <= Len(slots')
        /\ \A i \in 1 .. Len(slots) : slots'[i] = slots[i]
        /\ \A i \in 1 .. Len(slots') : i \notin 1 .. Len(slots) => slots'[i] = FreeSlot
    BY GrownQueue
  <2>2. QED BY <2>1 DEF FreeSlot
<1>2. /\ wpc' = wpc /\ wpos' = wpos /\ stage' = stage
      /\ DOMAIN slots = 1 .. Len(slots) /\ DOMAIN slots' = 1 .. Len(slots')
      /\ \A w \in Workers : wpos[w] \in 1 .. Len(slots)
  BY LenProperties DEF Grow, workerVars, HolderInv, PoolType
<1>3. ASSUME NEW u \in Tasks PROVE Status(u)' = Status(u)
  <2>1. Slot(u)' = Slot(u) /\ \A i \in Slot(u) : slots'[i].barriers = slots[i].barriers
    BY <1>1, <1>2, SizesAssumption DEF Slot
  <2>2. Runs(u)' <=> Runs(u)
    BY <1>1, <1>2 DEF Runs, Holds
  <2>3. QED BY <1>2, <2>1, <2>2, SameStatus
<1>4. QED BY <1>2, <1>3 DEF SameStatuses

(* A slot that is filled is a task that is added. *)
LEMMA FillIsAdd ==
  ASSUME PromiseInv, PromiseInv', [Next]_vars, NEW a \in Clients, FillSlot(a)
  PROVE  Promise!Add(a)
<1>1. /\ HolderInv /\ HolderInv' /\ TaskInv /\ TaskInv' /\ WaitInv /\ Onwards
      /\ ClientStep(a) /\ Turns(a)
  BY AllOnwards DEF PromiseInv, PoolInv, ClientStep, Turns
<1>2. PICK t : t = Op(a).task
  OBVIOUS
<1>3. PICK k : k = cpos[a]
  OBVIOUS
<1>4. /\ OthersKept(k) /\ k \in 1 .. Len(slots) /\ ~Filled(k) /\ t \in Tasks
      /\ slots'[k].task = t /\ slots'[k].barriers = Barriers[t]
      /\ stage[t] = 0 /\ \A j \in 1 .. Len(slots) : slots[j].task # t
  BY <1>1, <1>2, <1>3, FillKeeps
<1>5. wpc' = wpc /\ wpos' = wpos /\ stage' = stage /\ stage[t] # Stages[t]
  BY <1>4, TasksAssumption DEF FillSlot, workerVars
<1>6. /\ DOMAIN slots = 1 .. Len(slots) /\ DOMAIN slots' = 1 .. Len(slots)
      /\ \A w \in Workers : wpos[w] \in 1 .. Len(slots) /\ (wpc[w] = "run" => Filled(wpos[w]))
  <2>1. DOMAIN slots = 1 .. Len(slots) /\ DOMAIN slots' = 1 .. Len(slots)
    BY <1>1, <1>4, LenProperties DEF OthersKept, HolderInv, PoolType
  <2>2. \A w \in Workers : wpc[w] = "run" => HoldsSlot(w)
    BY DEF HoldsSlot
  <2>3. \A w \in Workers : wpos[w] \in 1 .. Len(slots)
    BY <1>1 DEF HolderInv, PoolType
  <2>4. QED BY <1>1, <2>1, <2>2, <2>3, OwnSlot
<1>7. Status(t) = "new"
  BY <1>4, <1>5, <1>6 DEF Status, Slot
<1>8. Status(t)' = IF Barriers[t] = {} THEN "free" ELSE "blocked"
  <2>1. {i \in DOMAIN slots' : slots'[i].task = t} = {k}
    BY <1>4, <1>6 DEF OthersKept
  <2>2. ~\E w \in Workers : wpc'[w] = "run" /\ slots'[wpos'[w]].task = t
    BY <1>4, <1>5, <1>6 DEF OthersKept
  <2>3. QED BY <1>4, <1>5, <2>1, <2>2 DEF Status, Slot, Holds
<1>9. ASSUME NEW u \in Tasks \ {t} PROVE Status(u)' = Status(u)
  <2>1. slots[k].task # u
    BY <1>1, <1>4, SizesAssumption DEF TaskInv, EmptyHasNoTask
  <2>2. QED BY <1>1, <1>4, <1>5, <2>1, OtherStatus
<1>10. PICK s : s = IF Barriers[t] = {} THEN "free" ELSE "blocked"
  OBVIOUS
<1>11. StatusMap' = [StatusMap EXCEPT ![t] = s] /\ StatusMap[t] = "new"
  <2>1. Becomes(t, s)
    BY <1>8, <1>9, <1>10 DEF Becomes
  <2>2. QED BY <1>4, <1>7, <2>1, BecomesMap DEF StatusMap
<1>12. /\ PositionMap' = [PositionMap EXCEPT ![a] = PositionMap[a] + 1]
       /\ PositionMap[a] = next[a]
  BY <1>1, TurnMap
<1>13. next[a] <= Len(Program[a]) /\ Program[a][next[a]].op = "add" /\ t = Program[a][next[a]].task
  BY <1>1, <1>2 DEF FillSlot, HolderInv, AddsTask, Adding, Op
<1>14. QED
  <2>1. Promise!AtOp(a, "add") /\ Promise!Op(a).task = t
    BY <1>12, <1>13 DEF Promise!AtOp, Promise!Op, PositionMap
  <2>2. Promise!Advance(a)
    BY <1>12 DEF Promise!Advance, PositionMap
  <2>3. QED BY <1>5, <1>10, <1>11, <2>1, <2>2 DEF Promise!Add, StatusMap

LEMMA ClientKeepsPromise ==
  ASSUME PromiseInv, PromiseInv', [Next]_vars, NEW a \in Clients, ClientStep(a)
  PROVE  \/ Promise!Add(a) \/ Promise!Wait(a) \/ Promise!Await(a) \/ Promise!Shutdown(a)
         \/ UNCHANGED <<StatusMap, stage, PositionMap>>
<1>1. HolderInv /\ HolderInv' /\ TaskInv /\ TaskInv' /\ WaitInv
  BY DEF PromiseInv, PoolInv
<1>2. CASE FillSlot(a)
  BY <1>2, FillIsAdd
<1>3. CASE Grow(a)
  <2>1. ~Turns(a)
    BY <1>1, <1>3
       DEF Grow, Turns, FillSlot, Wait, Await, AtOp, JoinThreads
  <2>2. QED BY <1>1, <1>3, <2>1, GrowStatus, SameMap, TurnMap
<1>4. CASE ~FillSlot(a) /\ ~Grow(a)
  <2>1. StatusMap' = StatusMap /\ stage' = stage
    BY <1>1, <1>4, QuietClientStatus, SameMap
  <2>2. CASE Turns(a)
    <3>1. /\ PositionMap' = [PositionMap EXCEPT ![a] = PositionMap[a] + 1]
          /\ PositionMap[a] = next[a]
      BY <2>2, TurnMap
    <3>2. Promise!Advance(a) /\ Promise!Op(a) = Op(a)
      BY <3>1 DEF Promise!Advance, Promise!Op, PositionMap, Op
    <3>3. CASE Wait(a)
      <4>1. next[a] \in 1 .. Len(Program[a]) /\ Op(a).op = "wait" /\ count[Op(a).counter] = 0
        BY <1>1, <3>3, ProgramAssumption DEF Wait, AtOp, HolderInv, PoolType
      <4>2. Op(a).counter \in Counters
        BY <4>1, WaitAssumption DEF Op
      <4>3. \A t \in Tasks : Counter[t] = Op(a).counter => StatusMap[t] \in {"new", "done"}
        BY <4>1, <4>2, ZeroMeansComplete DEF StatusMap
      <4>4. Promise!Complete({t \in Tasks : Counter[t] = Promise!Op(a).counter})
        BY <3>2, <4>3 DEF Promise!Complete, StatusMap
      <4>5. Promise!AtOp(a, "wait")
        BY <3>1, <3>2, <4>1 DEF Promise!AtOp, PositionMap
      <4>6. QED BY <2>1, <3>2, <4>4, <4>5 DEF Promise!Wait, StatusMap
    <3>4. CASE Await(a)
      <4>1. /\ next[a] \in 1 .. Len(Program[a]) /\ Op(a).op = "await"
            /\ stage[Op(a).task] = Stages[Op(a).task]
        BY <1>1, <3>4, ProgramAssumption DEF Await, AtOp, HolderInv, PoolType
      <4>2. Op(a).task \in Tasks
        BY <4>1, ProgramAssumption DEF Op
      <4>3. StatusMap[Op(a).task] = "done"
        BY <4>1, <4>2 DEF StatusMap, Status
      <4>4. Promise!AtOp(a, "await")
        BY <3>1, <3>2, <4>1 DEF Promise!AtOp, PositionMap
      <4>5. QED BY <2>1, <3>2, <4>3, <4>4 DEF Promise!Await, StatusMap
    <3>5. CASE JoinThreads(a)
      <4>1. next[a] <= Len(Program[a]) /\ Op(a).op = "shutdown"
        BY <1>1, <3>5 DEF JoinThreads, WaitInv, InProgram
      <4>2. Promise!AtOp(a, "shutdown")
        BY <3>1, <3>2, <4>1 DEF Promise!AtOp, PositionMap
      <4>3. QED BY <2>1, <3>2, <4>2 DEF Promise!Shutdown, StatusMap
    <3>6. QED BY <1>4, <2>2, <3>3, <3>4, <3>5 DEF Turns
  <2>3. CASE ~Turns(a)
    BY <2>1, <2>3, TurnMap
  <2>4. QED BY <2>2, <2>3
<1>5. QED BY <1>2, <1>3, <1>4

(* Slots, scans and counters implement the promise: a task is entered only *)
(* when its barriers have been open and its check holds, is with one       *)
(* worker at a time, and is put back until it is done; wait returns when   *)
(* all tasks of the counter are done.                                      *)
THEOREM PromiseKept == Spec => KeepsPromise
<1>1. Init => Promise!Init
  <2> SUFFICES ASSUME Init PROVE Promise!Init
    OBVIOUS
  <2>1. ASSUME NEW t \in Tasks PROVE Status(t) = "new"
    <3>1. stage[t] # Stages[t]
      BY TasksAssumption DEF Init
    <3>2. Slot(t) = {}
      BY SizesAssumption DEF Init, Slot, FreeSlot
    <3>3. QED BY <3>1, <3>2 DEF Status
  <2>2. PositionMap = [a \in Clients |-> 1]
    BY DEF Init, PositionMap
  <2>3. QED BY <2>1, <2>2 DEF Promise!Init, PositionMap, Init
<1>2. PromiseInv /\ PromiseInv' /\ [Next]_vars => [Promise!Next]_(Promise!vars)
  <2> SUFFICES ASSUME PromiseInv, PromiseInv', [Next]_vars PROVE [Promise!Next]_(Promise!vars)
    OBVIOUS
  <2>1. Promise!vars = <<StatusMap, stage, PositionMap>>
    BY DEF Promise!vars, StatusMap, PositionMap
  <2>2. UNCHANGED <<StatusMap, stage, PositionMap>> => UNCHANGED Promise!vars
    BY DEF Promise!vars, StatusMap, PositionMap
  <2>3. ASSUME NEW a \in Clients, ClientStep(a) PROVE [Promise!Next]_(Promise!vars)
    BY <2>2, <2>3, ClientKeepsPromise DEF Promise!Next
  <2>4. ASSUME NEW w \in Workers, WorkerStep(w) PROVE [Promise!Next]_(Promise!vars)
    BY <2>2, <2>4, WorkerKeepsPromise DEF Promise!Next
  <2>5. CASE UNCHANGED vars
    <3>1. UNCHANGED <<StatusMap, stage, PositionMap>>
      BY <2>5 DEF vars, queueVars, workerVars, clientVars, StatusMap, PositionMap, Status, Slot,
         Holds
    <3>2. QED BY <2>2, <3>1
  <2>6. QED BY <2>3, <2>4, <2>5 DEF Next, Finished
<1>3. QED BY <1>1, <1>2, PromiseInvariant, PTL DEF Spec, KeepsPromise, Promise!Spec
=============================================================================
