------------------------------- MODULE Lists --------------------------------
(***************************************************************************)
(* What the modules do to lists besides the operators of Sequences: the    *)
(* recursion is a function here, so that it can be proved about.           *)
(***************************************************************************)
EXTENDS Naturals, Sequences

(* The elements of a list that are in a set, in their order (SelectSeq).   *)
Keep(list, set) ==
  LET kept[i \in 0 .. Len(list)] ==
        IF i = 0 THEN <<>>
        ELSE IF list[i] \in set THEN Append(kept[i - 1], list[i]) ELSE kept[i - 1]
  IN  kept[Len(list)]
=============================================================================
