---------------------------- MODULE MCRingBuffer ----------------------------
(* Instance of RingBuffer for TLC: the threads may be exchanged.           *)
EXTENDS RingBuffer, TLC

Symmetry == Permutations(Threads)
=============================================================================
