---------------------------- MODULE MCGopEncoder ----------------------------
(* Instances of GopEncoder for TLC: the usual GOP of eight.                *)
EXTENDS GopEncoder

Order8 == <<8, 4, 2, 1, 3, 6, 5, 7>>
Refs8  == <<{8}, {4, -4}, {2, -2}, {1, -1}, {1, -1}, {2, -2}, {1, -1}, {1, -1}>>
Layer8 == <<0, 1, 2, 3, 3, 2, 3, 3>>

Plain == [frames |-> 2, nonBlocking |-> TRUE, lockStep |-> FALSE, ifp |-> FALSE,
          parallelGops |-> FALSE, alf |-> TRUE, skip |-> FALSE, rateCap |-> FALSE,
          cuts |-> {}]

PreAnalysis == [Plain EXCEPT !.nonBlocking = FALSE, !.alf = FALSE]
OneByOne    == [Plain EXCEPT !.nonBlocking = FALSE, !.frames = 0]
LockStep2   == [Plain EXCEPT !.lockStep = TRUE]
LockStep3   == [Plain EXCEPT !.lockStep = TRUE, !.frames = 3]
Ifp         == [Plain EXCEPT !.ifp = TRUE, !.alf = FALSE]
IfpGops     == [Ifp EXCEPT !.frames = 3, !.parallelGops = TRUE]
IfpPreAnalysis == [Ifp EXCEPT !.nonBlocking = FALSE]
IfpLockStep == [Ifp EXCEPT !.lockStep = TRUE]
FirstPass   == [Plain EXCEPT !.alf = FALSE, !.skip = TRUE]

RateCap         == [Plain EXCEPT !.rateCap = TRUE, !.cuts = {16}]
RateCapOneByOne == [RateCap EXCEPT !.nonBlocking = FALSE, !.frames = 0]

FirstPassOneByOne == [FirstPass EXCEPT !.nonBlocking = FALSE, !.frames = 0]

AllModes == {Plain, PreAnalysis, OneByOne, FirstPassOneByOne, LockStep2, LockStep3,
             Ifp, IfpGops, IfpPreAnalysis, IfpLockStep, RateCap, RateCapOneByOne}
JustFirstPass == {FirstPass}
JustRateCap   == {[RateCap EXCEPT !.cuts = {8}]}
=============================================================================
