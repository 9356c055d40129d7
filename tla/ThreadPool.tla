----------------------------- MODULE ThreadPool -----------------------------
(***************************************************************************)
(* NoMallocThreadPool: worker threads that scan a circular queue of slots  *)
(* for tasks, and threads that fill the slots.                             *)
(*                                                                         *)
(* A slot goes FREE, PREPARING, WAITING, RUNNING and back; the steps from  *)
(* FREE to PREPARING and from WAITING to RUNNING are compare-and-swaps, the *)
(* rest are plain stores by the thread that won them.  The queue is never  *)
(* locked: a worker that holds a slot only to find its task blocked hides  *)
(* it from the others for that time.  Workers that find nothing spin, all  *)
(* but one of them parked on m_idleMutex.                                  *)
(*                                                                         *)
(* The tasks are those of the encoder: the function of a task does one     *)
(* stage of its work per call, returns false as long as more is to do, and *)
(* may have to stay behind other tasks, which either its ready check or    *)
(* the function itself finds out.                                          *)
(***************************************************************************)
EXTENDS Integers, Sequences, FiniteSets

CONSTANTS
  Workers,     \* m_threads, at least one
  ChunkSize,   \* slots in a chunk of the queue
  NoWorker, NoTask,
  Clients, Program, Tasks, Counter, Done, Barriers, NoBarrier, Stages, Needs, HasCheck

Counters == {Counter[t] : t \in Tasks} \ {NoBarrier}
Locks    == Counters \cup ({Done[t] : t \in Tasks} \ {NoBarrier})

ASSUME SizesAssumption == ChunkSize \in Nat \ {0} /\ Workers # {} /\ NoWorker \notin Workers /\ NoTask \notin Tasks

ASSUME TasksAssumption ==
  /\ NoBarrier \notin UNION {Barriers[t] : t \in Tasks}
  /\ \A t \in Tasks : /\ Stages[t] \in Nat \ {0}
                      /\ Barriers[t] \subseteq Locks
                      /\ Needs[t] \subseteq Tasks
                      /\ Done[t] \notin Counters

ASSUME ProgramAssumption ==
  /\ IsFiniteSet(Clients)
  /\ \A a \in Clients :
       /\ Len(Program[a]) \in Nat
       /\ \A i \in 1 .. Len(Program[a]) :
            Program[a][i].op \in {"add", "await"} => Program[a][i].task \in Tasks

(* A task is one call of addBarrierTask. *)
ASSUME TaskAssumption ==
  \A a, b \in Clients : \A i \in 1 .. Len(Program[a]) : \A j \in 1 .. Len(Program[b]) :
    /\ Program[a][i].op = "add" /\ Program[b][j].op = "add"
    /\ Program[a][i].task = Program[b][j].task
    => a = b /\ i = j

(* A client waits on a counter of its own, which it alone adds tasks with   *)
(* (MCTF.cpp:1364, 1527).                                                  *)
ASSUME WaitAssumption ==
  \A a \in Clients : \A i \in 1 .. Len(Program[a]) : Program[a][i].op = "wait" =>
    /\ Program[a][i].counter \in Counters
    /\ \A b \in Clients \ {a} : \A j \in 1 .. Len(Program[b]) :
         Program[b][j].op = "add" => Counter[Program[b][j].task] # Program[a][i].counter

VARIABLES
  slots,       \* m_tasks: the chunks of the queue, as one sequence
  nextFill,    \* m_nextFillSlot
  count,       \* WaitCounter::m_count of every counter
  blocked,     \* Barrier::m_lockState of every barrier, WaitCounter::done included
  exitThreads, \* m_exitThreads
  idle,        \* the workers counted in m_waitingThreads
  idleOwner,   \* the worker that holds m_idleMutex
  wpc,         \* what a worker is doing
  wpos,        \* the slot it looks at or holds
  wnext,       \* nextTaskIt: where its scan starts and ends
  cpc,         \* what a client thread is doing
  cpos,        \* the slot it looks at or holds
  cstart,      \* startIt: where its scan starts and ends
  next,        \* the operation of its program it is at
  stage        \* stage[t]: the progress the function of t has made

queueVars  == <<slots, nextFill>>
lockVars   == <<count, blocked>>
workerVars == <<idle, idleOwner, wpc, wpos, wnext>>
clientVars == <<cpc, cpos, cstart, next>>
vars == <<queueVars, lockVars, exitThreads, workerVars, clientVars, stage>>

-----------------------------------------------------------------------------
(* Slots. *)

FreeSlot == [state |-> "FREE", task |-> NoTask, barriers |-> {}]

WrongIncWrapBeyond(i) == IF i <= Len(slots) THEN i + 1 ELSE 1

(* Iterator::incWrap *)
IncWrap(i) == (i % Len(slots)) + 1

SetState(i, s) == slots' = [slots EXCEPT ![i].state = s]

Ready(t) == \A u \in Needs[t] : stage[u] > stage[t]

-----------------------------------------------------------------------------
(* Barriers and counters. *)

Unlock(b) == blocked' = IF b = NoBarrier THEN blocked ELSE [blocked EXCEPT ![b] = FALSE]

(* WaitCounter::operator++ and operator--, each under the counter's mutex. *)
Increment(c) ==
  IF c = NoBarrier THEN UNCHANGED lockVars
  ELSE /\ count' = [count EXCEPT ![c] = @ + 1]
       /\ blocked' = [blocked EXCEPT ![c] = TRUE]

WrongDecrementUnlocksAlways(c) ==
  IF c = NoBarrier THEN UNCHANGED lockVars
  ELSE /\ count' = [count EXCEPT ![c] = @ - 1]
       /\ blocked' = [blocked EXCEPT ![c] = FALSE]

Decrement(c) ==
  IF c = NoBarrier THEN UNCHANGED lockVars
  ELSE /\ count' = [count EXCEPT ![c] = @ - 1]
       /\ blocked' = [blocked EXCEPT ![c] = @ /\ count[c] # 1]

-----------------------------------------------------------------------------
Init ==
  /\ slots = [i \in 1 .. ChunkSize |-> FreeSlot]
  /\ nextFill = 1
  /\ count = [c \in Counters |-> 0]
  /\ blocked = [b \in Locks |-> b \notin Counters]
  /\ exitThreads = FALSE
  /\ idle = {} /\ idleOwner = NoWorker
  /\ wpc = [w \in Workers |-> "scan"]
  /\ wpos = [w \in Workers |-> 1]
  /\ wnext = [w \in Workers |-> 1]
  /\ cpc = [a \in Clients |-> "op"]
  /\ cpos = [a \in Clients |-> 1]
  /\ cstart = [a \in Clients |-> 1]
  /\ next = [a \in Clients |-> 1]
  /\ stage = [t \in Tasks |-> 0]

-----------------------------------------------------------------------------
(* Clients: addBarrierTask, WaitCounter::wait, and shutdown.               *)

Op(a) == Program[a][next[a]]

AtOp(a, kind) == cpc[a] = "op" /\ next[a] <= Len(Program[a]) /\ Op(a).op = kind

CGoto(a, pc) == cpc' = [cpc EXCEPT ![a] = pc]

Advance(a) == next' = [next EXCEPT ![a] = @ + 1]

(* The variants named Wrong... replace the definition that follows them in  *)
(* checks that a property notices such a mistake; nothing else uses them.  *)

WrongAddStepCountsLast == [scan |-> "fill", fill |-> "count", count |-> "advance"]

(* A task is counted before a worker can see it. *)
AddStep == [scan |-> "count", count |-> "fill", fill |-> "advance"]

(* The scan starts at a copy of m_nextFillSlot. *)
StartAdd(a) ==
  /\ AtOp(a, "add") \/ cpc[a] = "retry"
  /\ CGoto(a, "scan")
  /\ cpos' = [cpos EXCEPT ![a] = nextFill]
  /\ cstart' = [cstart EXCEPT ![a] = nextFill]
  /\ UNCHANGED <<queueVars, lockVars, exitThreads, workerVars, next, stage>>

Fillable(i) == slots[i].state = "FREE"

TakeSlot(a) ==
  /\ cpc[a] = "scan"
  /\ Fillable(cpos[a])
  /\ SetState(cpos[a], "PREPARING")
  /\ CGoto(a, AddStep["scan"])
  /\ UNCHANGED <<nextFill, lockVars, exitThreads, workerVars, cpos, cstart, next, stage>>

SkipSlot(a) ==
  /\ cpc[a] = "scan"
  /\ ~Fillable(cpos[a])
  /\ cpos' = [cpos EXCEPT ![a] = IncWrap(cpos[a])]
  /\ CGoto(a, IF cpos'[a] = cstart[a] THEN "grow" ELSE "scan")
  /\ UNCHANGED <<queueVars, lockVars, exitThreads, workerVars, cstart, next, stage>>

(* The queue was full: it gets another chunk, and the scan starts anew. *)
Grow(a) ==
  /\ cpc[a] = "grow"
  /\ slots' = slots \o [i \in 1 .. ChunkSize |-> FreeSlot]
  /\ nextFill' = Len(slots) + 1
  /\ CGoto(a, "retry")
  /\ UNCHANGED <<lockVars, exitThreads, workerVars, cpos, cstart, next, stage>>

CountTask(a) ==
  /\ cpc[a] = "count"
  /\ Increment(Counter[Op(a).task])
  /\ CGoto(a, AddStep["count"])
  /\ UNCHANGED <<queueVars, exitThreads, workerVars, cpos, cstart, next, stage>>

FillSlot(a) ==
  /\ cpc[a] = "fill"
  /\ slots' = [slots EXCEPT ![cpos[a]] =
                 [state |-> "WAITING", task |-> Op(a).task, barriers |-> Barriers[Op(a).task]]]
  /\ CGoto(a, AddStep["fill"])
  /\ UNCHANGED <<nextFill, lockVars, exitThreads, workerVars, cpos, cstart, next, stage>>

EndAdd(a) ==
  /\ cpc[a] = "advance"
  /\ nextFill' = IncWrap(nextFill)
  /\ CGoto(a, "op") /\ Advance(a)
  /\ UNCHANGED <<slots, lockVars, exitThreads, workerVars, cpos, cstart, stage>>

Wait(a) ==
  /\ AtOp(a, "wait")
  /\ count[Op(a).counter] = 0
  /\ Advance(a)
  /\ UNCHANGED <<queueVars, lockVars, exitThreads, workerVars, cpc, cpos, cstart, stage>>

(* The client learns from what the function did that the task is done, as  *)
(* EncGOP does from its finishTask.                                        *)
Await(a) ==
  /\ AtOp(a, "await")
  /\ stage[Op(a).task] = Stages[Op(a).task]
  /\ Advance(a)
  /\ UNCHANGED <<queueVars, lockVars, exitThreads, workerVars, cpc, cpos, cstart, stage>>

(* shutdown( true ): ask the workers to leave, then join them. *)
StopThreads(a) ==
  /\ AtOp(a, "shutdown")
  /\ exitThreads' = TRUE
  /\ CGoto(a, "join")
  /\ UNCHANGED <<queueVars, lockVars, workerVars, cpos, cstart, next, stage>>

JoinThreads(a) ==
  /\ cpc[a] = "join"
  /\ \A w \in Workers : wpc[w] = "exited"
  /\ CGoto(a, "op") /\ Advance(a)
  /\ UNCHANGED <<queueVars, lockVars, exitThreads, workerVars, cpos, cstart, stage>>

-----------------------------------------------------------------------------
(* Workers: threadProc, with findNextTask and processTask.                 *)

WGoto(w, pc) == wpc' = [wpc EXCEPT ![w] = pc]

Holds(w) == slots[wpos[w]].task

(* The next slot, or the end of the scan. *)
MoveOn(w) ==
  /\ wpos' = [wpos EXCEPT ![w] = IncWrap(wpos[w])]
  /\ WGoto(w, IF wpos'[w] = wnext[w] THEN "nothing" ELSE "look")

(* m_exitThreads is tested before a scan; once begun, a scan goes through   *)
(* the whole queue.                                                        *)
Looking(w) == wpc[w] = "look" \/ (wpc[w] = "scan" /\ ~exitThreads)

WrongClaimableUnswapped(i) == slots[i].state \in {"WAITING", "RUNNING"}

Claimable(i) == slots[i].state = "WAITING"

(* compare_exchange_strong( WAITING, RUNNING ) *)
ClaimSlot(w) ==
  /\ Looking(w)
  /\ Claimable(wpos[w])
  /\ SetState(wpos[w], "RUNNING")
  /\ WGoto(w, "barriers")
  /\ UNCHANGED <<nextFill, lockVars, exitThreads, idle, idleOwner, wpos, wnext, clientVars, stage>>

PassSlot(w) ==
  /\ Looking(w)
  /\ ~Claimable(wpos[w])
  /\ MoveOn(w)
  /\ UNCHANGED <<queueVars, lockVars, exitThreads, idle, idleOwner, wnext, clientVars, stage>>

(* The barriers are cleared once they were open: they are not expected to  *)
(* be locked again.                                                        *)
CheckBarriers(w) ==
  /\ wpc[w] = "barriers"
  /\ IF \E b \in slots[wpos[w]].barriers : blocked[b]
     THEN SetState(wpos[w], "WAITING") /\ MoveOn(w)
     ELSE /\ slots' = [slots EXCEPT ![wpos[w]].barriers = {}]
          /\ WGoto(w, "check")
          /\ UNCHANGED wpos
  /\ UNCHANGED <<nextFill, lockVars, exitThreads, idle, idleOwner, wnext, clientVars, stage>>

(* The worker leaves the idle loop as soon as it has found a task; on its   *)
(* way to the task it looks at m_exitThreads once more.                    *)
CheckReady(w) ==
  /\ wpc[w] = "check"
  /\ IF Holds(w) \in HasCheck /\ ~Ready(Holds(w))
     THEN /\ SetState(wpos[w], "WAITING") /\ MoveOn(w)
          /\ UNCHANGED <<idle, idleOwner>>
     ELSE /\ WGoto(w, IF exitThreads THEN "exited" ELSE "run")
          /\ idle' = idle \ {w}
          /\ idleOwner' = IF idleOwner = w THEN NoWorker ELSE idleOwner
          /\ UNCHANGED <<slots, wpos>>
  /\ UNCHANGED <<nextFill, lockVars, exitThreads, wnext, clientVars, stage>>

(* The end of a scan that found nothing.  The first one makes the worker   *)
(* count as waiting; after a while of such scans it may queue for          *)
(* m_idleMutex, if others wait too and it does not have it.                *)
ScanAgain(w) ==
  /\ wpc[w] = "nothing"
  /\ ~exitThreads
  /\ idle' = idle \cup {w}
  /\ WGoto(w, "scan")
  /\ UNCHANGED <<queueVars, lockVars, exitThreads, idleOwner, wpos, wnext, clientVars, stage>>

MayPark == Cardinality(idle) > 1

Park(w) ==
  /\ wpc[w] = "nothing"
  /\ w \in idle /\ idleOwner # w
  /\ MayPark
  /\ ~exitThreads
  /\ WGoto(w, "parked")
  /\ UNCHANGED <<queueVars, lockVars, exitThreads, idle, idleOwner, wpos, wnext, clientVars, stage>>

Unpark(w) ==
  /\ wpc[w] = "parked"
  /\ idleOwner = NoWorker
  /\ idleOwner' = w
  /\ WGoto(w, "scan")
  /\ UNCHANGED <<queueVars, lockVars, exitThreads, idle, wpos, wnext, clientVars, stage>>

WrongExitKeepsMutex(w) ==
  /\ wpc[w] \in {"nothing", "scan"}
  /\ exitThreads
  /\ WGoto(w, "exited")
  /\ idle' = idle \ {w}
  /\ UNCHANGED <<queueVars, lockVars, exitThreads, idleOwner, wpos, wnext, clientVars, stage>>

Exit(w) ==
  /\ wpc[w] \in {"nothing", "scan"}
  /\ exitThreads
  /\ WGoto(w, "exited")
  /\ idle' = idle \ {w}
  /\ idleOwner' = IF idleOwner = w THEN NoWorker ELSE idleOwner
  /\ UNCHANGED <<queueVars, lockVars, exitThreads, wpos, wnext, clientVars, stage>>

(* nextTaskIt: the slot after the one that was processed. *)
NextTask(w) ==
  /\ wpos' = [wpos EXCEPT ![w] = IncWrap(wpos[w])]
  /\ wnext' = [wnext EXCEPT ![w] = IncWrap(wpos[w])]
  /\ WGoto(w, "scan")

Progress(t) == stage' = [stage EXCEPT ![t] = IF Ready(t) THEN @ + 1 ELSE @]

(* The function is called and returns false: the slot waits again. *)
Reschedule(w) ==
  /\ wpc[w] = "run"
  /\ Progress(Holds(w))
  /\ stage'[Holds(w)] # Stages[Holds(w)]
  /\ SetState(wpos[w], "WAITING")
  /\ NextTask(w)
  /\ UNCHANGED <<nextFill, lockVars, exitThreads, idle, idleOwner, clientVars>>

WrongAfterTaskUncountsFirst == [run |-> "uncount", uncount |-> "unlock", unlock |-> "free"]

(* The counter is the last thing of its client that a worker touches.      *)
AfterTask == [run |-> "unlock", unlock |-> "uncount", uncount |-> "free"]

(* It returns true. *)
Complete(w) ==
  /\ wpc[w] = "run"
  /\ Progress(Holds(w))
  /\ stage'[Holds(w)] = Stages[Holds(w)]
  /\ WGoto(w, AfterTask["run"])
  /\ UNCHANGED <<queueVars, lockVars, exitThreads, idle, idleOwner, wpos, wnext, clientVars>>

UnlockDone(w) ==
  /\ wpc[w] = "unlock"
  /\ Unlock(Done[Holds(w)])
  /\ WGoto(w, AfterTask["unlock"])
  /\ UNCHANGED <<queueVars, count, exitThreads, idle, idleOwner, wpos, wnext, clientVars, stage>>

UncountTask(w) ==
  /\ wpc[w] = "uncount"
  /\ Decrement(Counter[Holds(w)])
  /\ WGoto(w, AfterTask["uncount"])
  /\ UNCHANGED <<queueVars, exitThreads, idle, idleOwner, wpos, wnext, clientVars, stage>>

(* What else is in a free slot is overwritten before it is looked at.      *)
FreeTask(w) ==
  /\ wpc[w] = "free"
  /\ slots' = [slots EXCEPT ![wpos[w]] = FreeSlot]
  /\ NextTask(w)
  /\ UNCHANGED <<nextFill, lockVars, exitThreads, idle, idleOwner, clientVars, stage>>

-----------------------------------------------------------------------------
ClientStep(a) ==
  \/ StartAdd(a) \/ TakeSlot(a) \/ SkipSlot(a) \/ Grow(a) \/ CountTask(a) \/ FillSlot(a)
  \/ EndAdd(a) \/ Wait(a) \/ Await(a) \/ StopThreads(a) \/ JoinThreads(a)

WorkerStep(w) ==
  \/ ClaimSlot(w) \/ PassSlot(w) \/ CheckBarriers(w) \/ CheckReady(w) \/ ScanAgain(w)
  \/ Park(w) \/ Unpark(w) \/ Exit(w) \/ Reschedule(w) \/ Complete(w) \/ UnlockDone(w)
  \/ UncountTask(w) \/ FreeTask(w)

ClientDone(a) == cpc[a] = "op" /\ next[a] > Len(Program[a])

AllDone ==
  /\ \A a \in Clients : ClientDone(a)
  /\ \A w \in Workers : wpc[w] = "exited"

Finished == AllDone /\ UNCHANGED vars

Next ==
  \/ \E a \in Clients : ClientStep(a)
  \/ \E w \in Workers : WorkerStep(w)
  \/ Finished

Spec == Init /\ [][Next]_vars

(* Every thread that can take a step is scheduled; nothing is assumed of   *)
(* the order in which m_idleMutex is granted.                              *)
Fairness ==
  /\ \A a \in Clients : WF_vars(ClientStep(a))
  /\ \A w \in Workers : WF_vars(WorkerStep(w))

FairSpec == Spec /\ Fairness

-----------------------------------------------------------------------------
(* Properties. *)

HoldsSlot(w) == wpc[w] \in {"barriers", "check", "run", "unlock", "uncount", "free"}

Prepares(a) == cpc[a] \in {"count", "fill"}

SlotType ==
  [ state : {"FREE", "PREPARING", "WAITING", "RUNNING"}, task : Tasks \cup {NoTask},
    barriers : SUBSET Locks ]

(* Types, and that every position is one of the queue. *)
TypeOK ==
  /\ slots \in Seq(SlotType) /\ Len(slots) >= 1
  /\ nextFill \in 1 .. Len(slots)
  /\ count \in [Counters -> Nat]
  /\ blocked \in [Locks -> BOOLEAN]
  /\ exitThreads \in BOOLEAN
  /\ idle \subseteq Workers /\ idleOwner \in Workers \cup {NoWorker}
  /\ wpc \in [Workers -> {"scan", "look", "barriers", "check", "run", "unlock", "uncount",
                          "free", "nothing", "parked", "exited"}]
  /\ wpos \in [Workers -> 1 .. Len(slots)] /\ wnext \in [Workers -> 1 .. Len(slots)]
  /\ cpc \in [Clients -> {"op", "scan", "retry", "grow", "count", "fill", "advance", "join"}]
  /\ cpos \in [Clients -> 1 .. Len(slots)] /\ cstart \in [Clients -> 1 .. Len(slots)]
  /\ next \in [Clients -> Nat \ {0}]
  /\ stage \in [Tasks -> Nat]

(* A slot that is being filled or processed belongs to one thread, which   *)
(* alone writes its function, parameter, barriers and state.               *)
OneHolderPerSlot ==
  /\ \A w \in Workers : HoldsSlot(w) => slots[wpos[w]].state = "RUNNING"
  /\ \A a \in Clients : Prepares(a) => slots[cpos[a]].state = "PREPARING"
  /\ \A v, w \in Workers : v # w /\ HoldsSlot(v) /\ HoldsSlot(w) => wpos[v] # wpos[w]
  /\ \A a, b \in Clients : a # b /\ Prepares(a) /\ Prepares(b) => cpos[a] # cpos[b]

(* A WaitCounter counts the tasks that were added with it and not yet      *)
(* reported done, wherever they are, and its barrier says whether there    *)
(* are any.                                                                *)
BeingAdded(c) == {a \in Clients : cpc[a] = "fill" /\ Counter[Op(a).task] = c}

Unfinished(c) ==
  {i \in DOMAIN slots :
     /\ slots[i].state \in {"WAITING", "RUNNING"}
     /\ Counter[slots[i].task] = c
     /\ \A w \in Workers : wpc[w] = "free" => wpos[w] # i}

CountersAgree ==
  \A c \in Counters :
    /\ count[c] = Cardinality(BeingAdded(c)) + Cardinality(Unfinished(c))
    /\ blocked[c] <=> count[c] > 0

(* When a client has come back from wait, no worker is in a task of that   *)
(* counter, nor about to touch its barrier or the counter: the client may  *)
(* release all of them (they are on its stack in MCTF).                    *)
NothingUsedAfterWait ==
  \A a \in Clients : \A i \in 1 .. next[a] - 1 : Program[a][i].op = "wait" =>
    \A w \in Workers : wpc[w] \in {"run", "unlock", "uncount"} =>
      \/ Counter[Holds(w)] # Program[a][i].counter
      \/ \E j \in i + 1 .. next[a] :
           j <= Len(Program[a]) /\ Program[a][j].op = "add" /\ Program[a][j].task = Holds(w)

(* The slots, scans and counters implement the promise of TaskPool. *)
Slot(t) == {i \in DOMAIN slots : slots[i].task = t}

Status(t) ==
  IF stage[t] = Stages[t] THEN "done"
  ELSE IF Slot(t) = {} THEN "new"
  ELSE IF \E w \in Workers : wpc[w] = "run" /\ Holds(w) = t THEN "running"
  ELSE IF \A i \in Slot(t) : slots[i].barriers = {} THEN "free"
  ELSE "blocked"

Promise == INSTANCE TaskPool
  WITH status <- [t \in Tasks |-> Status(t)],
       next <- [a \in Clients |-> IF cpc[a] = "advance" THEN next[a] + 1 ELSE next[a]]

KeepsPromise == Promise!Spec

(* Every client comes to the end of its program and every worker is        *)
(* joined: no task is overlooked by all workers, no wake-up is lost, and   *)
(* nobody stays parked on m_idleMutex.                                     *)
EverythingEnds == <>AllDone
=============================================================================
