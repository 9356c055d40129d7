---------------------------- MODULE MCSequential ----------------------------
(* The parts that one thread runs by itself, for TLC: the scheduler of     *)
(* work units, the arithmetic coder and the byte stream.                   *)
(*                                                                         *)
(* They share no variable, and no property speaks of two of them: one      *)
(* moves while the others are at their beginning.                          *)
EXTENDS MCTUScheduler, MCEntropy

allVars == <<vars, coderVars, streamVars>>

SequentialInit == Init /\ CoderInit /\ StreamInit

SequentialNext ==
  \/ CoderInit /\ StreamInit /\ Next /\ UNCHANGED <<coderVars, streamVars>>
  \/ Init /\ StreamInit /\ CoderNext /\ UNCHANGED <<vars, streamVars>>
  \/ Init /\ CoderInit /\ StreamNext /\ UNCHANGED <<vars, coderVars>>

SequentialSpec == SequentialInit /\ [][SequentialNext]_allVars /\ Fairness
=============================================================================
