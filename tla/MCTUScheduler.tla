---------------------------- MODULE MCTUScheduler ----------------------------
(* Instance of TUScheduler for TLC.                                        *)
EXTENDS TUScheduler

(* Luma and chroma, a TU between two others, and one without a component.  *)
TrialsOfTwoTUs == {<<2, 1>>, <<1, 0, 1>>}

(* Two TUs with luma alone. *)
TrialsOfLuma == {<<1, 1>>}

(* Pictures of several columns, of one row, and of one column.             *)
SmallPictures == {[cols |-> 3, rows |-> 3], [cols |-> 2, rows |-> 2],
                  [cols |-> 3, rows |-> 1], [cols |-> 1, rows |-> 2]}
=============================================================================
