------------------------------ MODULE MCEntropy ------------------------------
(* Constants of BinEncoder and ByteStream for TLC, which also evaluates    *)
(* what BinEncoder takes from BinProbModel, at the width of the code.      *)
EXTENDS BinEncoder, BinProbModel, ByteStream

(* A model gives the less probable value no more than half of the range,   *)
(* so that one bit renormalises after the more probable one, at least 4,   *)
(* and a value of eight bits, for which the table has the number of bits.  *)
ASSUME LpsAssumption ==
  \A state \in 0 .. 255, r \in Ranges :
    LET lps == GetLPS(state, r)
    IN  /\ lps \in 4 .. r \div 2
        /\ lps <= 255
        /\ lps * 2 ^ GetRenormBitsLPS(lps) \in 256 .. 511

(* An estimate stays in its bits, from every initial state. *)
ASSUME StateAssumption ==
  \A e \in {0, 1} :
    /\ \A qp \in 0 .. 63, initId \in 0 .. 63 : IsEstimate(e, InitialState(e, qp, initId))
    /\ \A p \in 0 .. MaxProb : IsEstimate(e, p) =>
         \A w \in Windows, bin \in {0, 1} : IsEstimate(e, Update(e, p, w[e + 1], bin))

(* The bytes that matter to the emulation prevention are 0, the bytes up   *)
(* to 3, and those above; a 1, which start codes need, is in the headers   *)
(* and the other NAL units.  These need the prevention themselves.         *)
SomeBytes   == {0, 3, 4}
SomeHeaders == {<<0, 0, 1>>}
SomeRbsp    == {<<0, 0, 3>>, <<0, 0, 0, 1>>}
=============================================================================
