------------------------------ MODULE TaskPool ------------------------------
(***************************************************************************)
(* What the thread pool promises its clients, without slots and scans.     *)
(*                                                                         *)
(* Clients add tasks and wait for groups of them (a WaitCounter) or for a  *)
(* single one.  A task runs in steps: it is entered only when the barriers *)
(* it was added with have been open once and its ready check holds, it is  *)
(* in one worker at a time, and it is put back until its function returns  *)
(* true.                                                                   *)
(***************************************************************************)
EXTENDS Naturals, Sequences

CONSTANTS
  Clients,   \* threads that add tasks
  Program,   \* Program[a]: the sequence of operations of client a
  Tasks,     \* tasks: one call of addBarrierTask each
  Counter,   \* Counter[t]: the WaitCounter of t or NoBarrier
  Done,      \* Done[t]: the barrier that t unlocks or NoBarrier
  Barriers,  \* Barriers[t]: the barriers t is blocked by, counters among them
  NoBarrier,
  Stages,    \* Stages[t]: how many of its calls progress before t is done
  Needs,     \* Needs[t]: the tasks that t stays behind of
  HasCheck   \* the tasks with a ready check, the others check when called

VARIABLES
  status,    \* status[t]: the state of task t
  stage,     \* stage[t]: the progress its function has made
  next       \* next[a]: the operation client a is at

vars == <<status, stage, next>>

Op(a) == Program[a][next[a]]

AtOp(a, kind) == next[a] <= Len(Program[a]) /\ Op(a).op = kind

Advance(a) == next' = [next EXCEPT ![a] = @ + 1]

(* Tasks that are ahead of t in their work. *)
Ready(t) == \A u \in Needs[t] : stage[u] > stage[t]

Complete(ts) == \A t \in ts : status[t] \in {"new", "done"}

(* A counter is open when its tasks are done, another barrier when the     *)
(* task that unlocks it is.                                                *)
Open(b) ==
  IF \E t \in Tasks : Counter[t] = b
  THEN Complete({t \in Tasks : Counter[t] = b})
  ELSE \E t \in Tasks : Done[t] = b /\ status[t] = "done"

-----------------------------------------------------------------------------
Init ==
  /\ status = [t \in Tasks |-> "new"]
  /\ stage = [t \in Tasks |-> 0]
  /\ next = [a \in Clients |-> 1]

Add(a) ==
  /\ AtOp(a, "add")
  /\ status[Op(a).task] = "new"
  /\ status' = [status EXCEPT ![Op(a).task] = IF Barriers[Op(a).task] = {} THEN "free" ELSE "blocked"]
  /\ Advance(a)
  /\ UNCHANGED stage

Wait(a) ==
  /\ AtOp(a, "wait")
  /\ Complete({t \in Tasks : Counter[t] = Op(a).counter})
  /\ Advance(a)
  /\ UNCHANGED <<status, stage>>

Await(a) ==
  /\ AtOp(a, "await")
  /\ status[Op(a).task] = "done"
  /\ Advance(a)
  /\ UNCHANGED <<status, stage>>

Shutdown(a) ==
  /\ AtOp(a, "shutdown")
  /\ Advance(a)
  /\ UNCHANGED <<status, stage>>

Unblock(t) ==
  /\ status[t] = "blocked"
  /\ \A b \in Barriers[t] : Open(b)
  /\ status' = [status EXCEPT ![t] = "free"]
  /\ UNCHANGED <<stage, next>>

Enter(t) ==
  /\ status[t] = "free"
  /\ t \in HasCheck => Ready(t)
  /\ status' = [status EXCEPT ![t] = "running"]
  /\ UNCHANGED <<stage, next>>

(* The function returns: without progress, with some, or done. *)
Leave(t) ==
  /\ status[t] = "running"
  /\ stage' = [stage EXCEPT ![t] = IF Ready(t) THEN @ + 1 ELSE @]
  /\ status' = [status EXCEPT ![t] = IF stage'[t] = Stages[t] THEN "done" ELSE "free"]
  /\ UNCHANGED next

Next ==
  \/ \E a \in Clients : Add(a) \/ Wait(a) \/ Await(a) \/ Shutdown(a)
  \/ \E t \in Tasks : Unblock(t) \/ Enter(t) \/ Leave(t)

Spec == Init /\ [][Next]_vars
=============================================================================
