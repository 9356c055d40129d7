--------------------------- MODULE MCStagePipeline ---------------------------
(* Instances of StagePipeline for TLC: hierarchical GOPs of four and two.  *)
EXTENDS StagePipeline

Order4 == <<4, 2, 1, 3>>
Refs4  == <<{4}, {2, -2}, {1, -1}, {1, -1}>>
Layer4 == <<0, 1, 2, 2>>

Order2 == <<2, 1>>
Refs2  == <<{2, 4}, {1, -1}>>
Layer2 == <<0, 1>>

(* Two encoders, with the temporal filter. *)
Parallel ==
  [ poc0Idr |-> TRUE, useMctf |-> TRUE, mctfRange |-> 1, futureRef |-> TRUE,
    lookAhead |-> FALSE, passes |-> 1, tempDown |-> FALSE, leadFrames |-> 0,
    framesToEncode |-> 0, visAct |-> TRUE,
    sta |-> TRUE, encoders |-> 2, inputs |-> {0, 1, 7}, earlyFlush |-> FALSE,
    smallPayload |-> FALSE ]

(* More pictures than there are buffers. *)
FewBuffers ==
  [ Parallel EXCEPT !.useMctf = FALSE, !.futureRef = FALSE, !.inputs = {12} ]

(* One picture at a time, two lead frames, a known number of frames to     *)
(* encode with two or fewer trail frames after them.                       *)
Serial ==
  [ poc0Idr |-> FALSE, useMctf |-> TRUE, mctfRange |-> 3, futureRef |-> TRUE,
    lookAhead |-> FALSE, passes |-> 1, tempDown |-> FALSE, leadFrames |-> 2,
    framesToEncode |-> 7, visAct |-> FALSE,
    sta |-> TRUE, encoders |-> 0, inputs |-> {2, 3, 5, 7, 8, 9, 10, 11},
    earlyFlush |-> FALSE, smallPayload |-> FALSE ]

(* A pre-analysis before the encoder, without the filter. *)
LookAhead ==
  [ Parallel EXCEPT !.useMctf = FALSE, !.lookAhead = TRUE, !.encoders = 3,
                    !.inputs = {10} ]

LookAheadSerial ==
  [ LookAhead EXCEPT !.encoders = 0, !.tempDown = TRUE,
                     !.inputs = {1, 4, 5, 6, 9, 13, 14, 17} ]

(* Two passes, pictures left out of the first one. *)
TwoPasses ==
  [ Parallel EXCEPT !.passes = 2, !.tempDown = TRUE, !.inputs = {1, 7} ]

TwoPassesSerial ==
  [ TwoPasses EXCEPT !.encoders = 0, !.inputs = {3, 5, 8} ]

(* An application whose access units may be too small. *)
SmallPayload ==
  [ Parallel EXCEPT !.useMctf = FALSE, !.encoders = 0, !.inputs = {1, 2},
                    !.smallPayload = TRUE ]

(* An application that flushes before its first picture. *)
FlushFirst ==
  [ Parallel EXCEPT !.useMctf = FALSE, !.futureRef = FALSE, !.sta = FALSE,
                    !.inputs = {3}, !.earlyFlush = TRUE ]

(* More pictures than there are buffers, and a last GOP that is complete. *)
FullLastGop ==
  [ LookAhead EXCEPT !.encoders = 2, !.inputs = {13} ]

AllModes == {Parallel, FewBuffers, Serial, LookAhead, LookAheadSerial, TwoPasses,
             TwoPassesSerial}
JustFlushFirst == {FlushFirst}
JustSmallPayload == {SmallPayload}
JustFullLastGop == {FullLastGop}
=============================================================================
