---------------------------- MODULE MCThreadPool ----------------------------
(* An instance of ThreadPool for TLC: the thread of the application codes  *)
(* a picture with two CTU tasks and its finish task, then another picture  *)
(* with the same counter.                                                  *)
EXTENDS ThreadPool

AddOp(t)   == [op |-> "add", task |-> t]
WaitOp(c)  == [op |-> "wait", counter |-> c]
AwaitOp(t) == [op |-> "await", task |-> t]
StopOp     == [op |-> "shutdown"]

Encode ==
  [main |-> <<AddOp("ctu1"), AddOp("ctu2"), AddOp("finish"), AwaitOp("finish"),
              AddOp("ctu3"), WaitOp("ctus"), StopOp>>]

EncodeTasks == {"ctu1", "ctu2", "finish", "ctu3"}

CounterOf == [t \in Tasks |-> IF t = "finish" THEN "none" ELSE "ctus"]

DoneOf == [t \in Tasks |-> IF t = "finish" THEN "reconstructed" ELSE "none"]

BarriersOf ==
  [t \in Tasks |-> CASE t = "finish" -> {"ctus"}
                     [] t = "ctu3" -> {"reconstructed"}
                     [] OTHER -> {}]

StagesOf == [t \in Tasks |-> IF t = "ctu1" THEN 2 ELSE 1]

NeedsOf == [t \in Tasks |-> IF t = "ctu2" THEN {"ctu1"} ELSE {}]

Checked == {"ctu1", "ctu2", "ctu3"}
=============================================================================
