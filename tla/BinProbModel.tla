----------------------------- MODULE BinProbModel -----------------------------
(***************************************************************************)
(* The probability model of a context (BinProbModel), at its width in the  *)
(* code: two estimates of 15 bits, of which the upper 10 and 14 are kept,  *)
(* and the part of the coder's range that they give the less probable      *)
(* value.  A shift to the right by a rate is the division by 2^rate, which *)
(* stands for the rate here.                                               *)
(***************************************************************************)
EXTENDS Integers

MaxProb == 32767      \* 0x7fff, PROB_BITS of ones
Ranges == 256 .. 510  \* m_Range of the coder

(* The lower bits that MASK_0 and MASK_1 clear are those of 0..Unit - 1. *)
Unit == [e \in {0, 1} |-> IF e = 0 THEN 32 ELSE 2]

Masked(e, p) == (p \div Unit[e]) * Unit[e]

IsEstimate(e, p) == p \in 0 .. MaxProb /\ Masked(e, p) = p

(* setLog2WindowSize, with its CHECK. *)
Windows == {w \in {4, 8, 16, 32} \X {32, 64, 128, 256, 512} : w[2] \in {8 * w[1], 16 * w[1], 32 * w[1], 64 * w[1]}}

(* init *)
InitialState(e, qp, initId) ==
  LET slope == initId \div 8 - 4
      offset == (initId % 8) * 18 + 1
      inistate == (slope * (qp - 16)) \div 2 + offset
      clipped == IF inistate < 1 THEN 1 ELSE IF inistate > 127 THEN 127 ELSE inistate
  IN  Masked(e, 256 * clipped)

(* update, of estimate e with its window. *)
Update(e, p, window, bin) ==
  p - Masked(e, p \div window) + (IF bin = 1 THEN Masked(e, MaxProb \div window) ELSE 0)

(* state: the upper bits of the sum. *)
State(p0, p1) == (p0 + p1) \div 256

(* getLPS; the value is stored in eight bits. *)
GetLPS(state, range) ==
  LET q == IF state >= 128 THEN 255 - state ELSE state
  IN  ((q \div 4) * (range \div 32)) \div 2 + 4

RenormTable32 ==
  [i \in 0 .. 31 |-> CASE i = 0 -> 6 [] i = 1 -> 5 [] i \in 2 .. 3 -> 4
                       [] i \in 4 .. 7 -> 3 [] i \in 8 .. 15 -> 2 [] i \in 16 .. 31 -> 1]

GetRenormBitsLPS(lps) == RenormTable32[lps \div 8]
=============================================================================
