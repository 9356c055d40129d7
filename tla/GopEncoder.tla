----------------------------- MODULE GopEncoder -----------------------------
(***************************************************************************)
(* The GOP encoder (EncGOP): which picture is coded when, by how many      *)
(* picture encoders (EncPicture), and when it is written.                  *)
(*                                                                         *)
(* The encoder's thread calls processPictures again and again.  It starts  *)
(* pictures and writes one at most; the thread pool ends a picture with    *)
(* finishTask, which takes m_gopEncMutex, marks the picture, gives its     *)
(* encoder back and wakes the encoder's thread.                            *)
(*                                                                         *)
(* A blocking stage (the pre-analysis of the look-ahead) waits inside for  *)
(* pictures to be finished, a non-blocking one leaves that to EncLib.      *)
(* With rate control the pictures go in chunks (lockstep): the parameters  *)
(* of a picture follow from the bits of the chunks before.  With a rate    *)
(* cap the pictures go by GOPs: the QPs of a GOP follow from the bits of   *)
(* those before, and after a scene cut those of a GOP from its first two   *)
(* pictures.  With inter-frame parallelism (IFP) a picture is coded along  *)
(* with those it predicts from.                                            *)
(***************************************************************************)
EXTENDS GopStructure, Lists, SequencesExt

CONSTANTS
  GopLayer,  \* temporal layer of each GOP entry (m_temporalId)
  LastPoc,   \* pictures 0 .. LastPoc are coded
  Modes      \* encoder modes, one is chosen in Init

ModeType ==
  [ frames       : Nat,      \* m_maxParallelFrames
    nonBlocking  : BOOLEAN,  \* isNonBlocking
    lockStep     : BOOLEAN,  \* lockStepMode: rate control or look-ahead
    ifp          : BOOLEAN,  \* m_ifp
    parallelGops : BOOLEAN,  \* m_numParallelGOPs > 0
    alf          : BOOLEAN,  \* m_alf and m_alfTempPred
    skip         : BOOLEAN,  \* a first pass that leaves out pictures
    rateCap      : BOOLEAN,  \* m_rateCap
    cuts         : SUBSET (0 .. LastPoc) ] \* first pictures of GOPs after a scene cut

(* As EncCfg and vvenc_init_config_parameter have it. *)
ASSUME ModesAssumption ==
  /\ Modes \subseteq ModeType
  /\ \A m \in Modes : /\ m.lockStep => m.nonBlocking
                      /\ m.nonBlocking \/ m.ifp => m.frames > 0
                      /\ m.ifp => ~m.alf
                      /\ m.parallelGops => m.ifp /\ ~m.lockStep
                      /\ m.skip => ~m.alf /\ ~m.lockStep
                      /\ m.rateCap => ~m.lockStep /\ ~m.skip /\ ~m.parallelGops
                      /\ m.rateCap => m.nonBlocking \/ m.frames = 0
                      /\ \A p \in m.cuts : StartsGop(p) /\ ~IsLeading0(p)

ASSUME LayersAssumption ==
  /\ LastPoc \in Nat
  /\ GopLayer \in [1 .. GopSize -> Nat]

VARIABLES
  mode,          \* never changed
  pics,          \* pictures in the stage's list that are not initialised
  input,         \* m_gopEncListInput
  output,        \* m_gopEncListOutput
  reorder,       \* m_rcInputReorderList
  procList,      \* m_procList
  rcUpdate,      \* m_rcUpdateList
  listed,        \* pictures with isInProcessList
  reconstructed, \* pictures with isReconstructed
  coding,        \* pictures in a picture encoder
  free,          \* length of m_freePicEncoderList
  written,       \* pictures written, in order
  accounted,     \* pictures evaluated in lockstep or after a scene cut, in order
  main           \* where processPictures is, and its local variables

vars == <<mode, pics, input, output, reorder, procList, rcUpdate, listed, reconstructed,
          coding, free, written, accounted, main>>

lists == <<input, output, reorder, procList, rcUpdate, listed>>

Pocs == 0 .. LastPoc

Encoders == IF mode.frames > 0 THEN mode.frames ELSE 1

EncodersFinished == free >= Encoders

TLayer == [poc \in Pocs |-> IF IsLeading0(poc) THEN 0 ELSE GopLayer[EntryOf(poc)]]

Refs == [poc \in Pocs |-> Active(poc) \intersect Pocs]

CodingNums == [poc \in Pocs |-> CodingNum(poc)]

CodedBefore(p) == {q \in Pocs : CodingNums[q] < CodingNums[p]}

Inserted(list, p) == Append(Keep(list, CodedBefore(p)), p) \o Keep(list, Pocs \ CodedBefore(p))

CodingOrder ==
  LET sorted[n \in 0 .. LastPoc + 1] ==
        IF n = 0 THEN <<>> ELSE Inserted(sorted[n - 1], n - 1)
  IN  sorted[LastPoc + 1]

GopNums == [poc \in Pocs |-> GopNum(poc)]

GopPics(p) == SelectSeq(CodingOrder, LAMBDA q : GopNums[q] = GopNums[p] /\ ~StartsGop(q))

(* isSceneCutCheckAdjQP: after a scene cut the bits of the first picture   *)
(* after the start of the GOP tell how the QPs of the others are adjusted. *)
ChecksQp == {Head(GopPics(s)) : s \in {p \in mode.cuts : GopPics(p) # <<>>}}

(* isSceneCutGOP *)
AdjustsQp == UNION {ToSet(GopPics(s)) : s \in mode.cuts} \ ChecksQp

(* m_skipFirstPass: what comes after the first picture of the top layer.   *)
Skipped(poc) ==
  LET top  == CHOOSE t \in ToSet(GopLayer) : \A u \in ToSet(GopLayer) : u <= t
  IN  /\ mode.skip /\ top > 1 /\ ~IsLeading0(poc)
      /\ \E i \in 1 .. EntryOf(poc) - 1 : GopLayer[i] = top

(* m_refApsGlobal: whose filter parameters a picture starts from, the      *)
(* picture before it with a lower temporal layer, or also in layer 0.      *)
RefAps ==
  LET before(p) == {q \in Pocs : /\ CodingNums[q] < CodingNums[p]
                                 /\ TLayer[q] < TLayer[p] \/ (TLayer[q] = 0 /\ TLayer[p] = 0)}
  IN  [p \in Pocs |-> {q \in before(p) : \A r \in before(p) : CodingNums[r] <= CodingNums[q]}]

Init ==
  /\ mode \in Modes
  /\ pics = <<>> /\ input = <<>> /\ output = <<>>
  /\ reorder = <<>> /\ procList = <<>> /\ rcUpdate = <<>>
  /\ listed = {} /\ reconstructed = {} /\ coding = {}
  /\ free = Encoders
  /\ written = <<>> /\ accounted = <<>>
  /\ main = [at |-> "idle", pic |-> 0, n |-> 0]

Goto(at) == main' = [main EXCEPT !.at = at]

-----------------------------------------------------------------------------
(* The stage's environment, EncLib.                                        *)

Arrived == ToSet(pics) \union ToSet(output) \union ToSet(written)

NotArrived == Pocs \ Arrived

(* The pictures of a GOP arrive together, as the last one of a GOP is the  *)
(* first in coding order; at the end of the video there may be fewer.      *)
(* With a rate cap the first to come also matters: it ends the GOP before. *)
Arrive ==
  /\ main.at = "idle" /\ NotArrived # {}
  /\ LET first == CHOOSE p \in NotArrived : \A q \in NotArrived : p <= q
         alone == IsLeading0(first) \/ (mode.rateCap /\ PocInGop(first) = 1)
         new   == IF alone THEN {first}
                  ELSE {p \in NotArrived : GopNums[p] = GopNums[first]}
     IN  pics' = Keep(CodingOrder, new \union ToSet(pics))
  /\ UNCHANGED <<mode, lists, reconstructed, coding, free, written, accounted, main>>

CallStage ==
  /\ main.at = "idle"
  /\ pics # <<>> \/ output # <<>>
  /\ Goto("init")
  /\ UNCHANGED <<mode, pics, lists, reconstructed, coding, free, written, accounted>>

(* waitForFreeEncoders, of a non-blocking stage. *)
WaitForFreeEncoders ==
  /\ main.at = "idle" /\ mode.nonBlocking /\ ~EncodersFinished
  /\ Goto("topwait")
  /\ UNCHANGED <<mode, pics, lists, reconstructed, coding, free, written, accounted>>

-----------------------------------------------------------------------------
(* xInitPicsInCodingOrder and xGetProcessingLists.                         *)

(* With a rate cap a GOP is begun when it is complete, and the one before   *)
(* is evaluated.                                                           *)
MayBegin(p) ==
  rcUpdate = <<>> /\ (NotArrived = {} \/ GopNums[Last(pics)] # GopNums[p])

(* Pictures are initialised up to a gap in the coding order, unless the    *)
(* pictures are flushed.                                                   *)
MayInit(i) ==
  /\ NotArrived = {} \/ CodingNums[pics[i]] = Len(written) + Len(output) + i - 1
  /\ mode.rateCap /\ StartsGop(pics[i]) => MayBegin(pics[i])

InitPics ==
  LET held == {i \in DOMAIN pics : ~MayInit(i)}
      end  == IF held = {} THEN Len(pics) ELSE (CHOOSE i \in held : \A j \in held : i <= j) - 1
      n    == IF mode.frames > 0 \/ end = 0 THEN end ELSE 1
  IN  /\ main.at = "init"
      /\ input' = input \o SubSeq(pics, 1, n)
      /\ output' = output \o SubSeq(pics, 1, n)
      /\ pics' = SubSeq(pics, n + 1, Len(pics))
      /\ Goto("lists")
      /\ UNCHANGED <<mode, reorder, procList, rcUpdate, listed, reconstructed, coding, free,
                     written, accounted>>

WrongCanFollow(p, listedNow) == mode.ifp \/ Refs[p] \subseteq reconstructed

(* checkAllRefPicsAccessible, with IFP, or checkAllRefPicsReconstructed. *)
CanFollow(p, listedNow) ==
  Refs[p] \subseteq (IF mode.ifp THEN listedNow ELSE reconstructed)

Fits(p, taken, list, max, restrictToGop) ==
  /\ Len(list) + Cardinality(taken) < max
  /\ GopNums[p] = GopNums[Head(input)] \/ ~restrictToGop
  /\ TLayer[p] = TLayer[Head(input)]
  /\ CanFollow(p, listed \union taken)

(* getReorderedProcList: pictures of the first one's layer and GOP go from *)
(* the input to a list, until that has max pictures.  (The sets of one     *)
(* element have TLC evaluate it once.)                                     *)
Reordered(list, max, restrictToGop) ==
  LET taken[i \in 0 .. Len(input)] ==
        IF i = 0 THEN {}
        ELSE UNION { before \union {p \in {input[i]} : Fits(p, before, list, max, restrictToGop)}
                     : before \in {taken[i - 1]} }
  IN  taken[Len(input)]

TakeFromInput(taken) ==
  /\ input' = Keep(input, Pocs \ taken)
  /\ listed' = listed \union taken

WrongNeedLists == procList = <<>> /\ (input # <<>> \/ reorder # <<>>)

NeedLists ==
  /\ procList = <<>> /\ (input # <<>> \/ reorder # <<>>)
  /\ mode.rateCap => rcUpdate = <<>>

ListsDone == Goto(IF procList' = <<>> THEN "rc" ELSE "fetch")

NoLists ==
  /\ main.at = "lists" /\ ~NeedLists
  /\ UNCHANGED <<mode, pics, lists, reconstructed, coding, free, written, accounted>>
  /\ ListsDone

(* Without rate control and IFP the input is processed as it is, with a    *)
(* rate cap the first of its GOPs.                                         *)
PlainList ==
  /\ main.at = "lists" /\ NeedLists /\ ~mode.lockStep /\ ~mode.ifp
  /\ \E taken \in {{p \in Pocs : mode.rateCap => GopNums[p] = GopNums[Head(input)]}} :
       /\ procList' = Keep(input, taken)
       /\ input' = Keep(input, Pocs \ taken)
  /\ rcUpdate' = IF mode.rateCap THEN procList' ELSE rcUpdate
  /\ ListsDone
  /\ UNCHANGED <<mode, pics, output, reorder, listed, reconstructed, coding, free, written,
                 accounted>>

(* Up to this temporal layer pictures are coded one by one in lockstep. *)
MinSerialDepth(frames) == IF frames > 2 THEN 1 ELSE 2

ChunkSize(first, frames) == IF TLayer[first] <= MinSerialDepth(frames) THEN 1 ELSE frames

(* Lockstep: the next chunk, when the one before is evaluated. *)
NextChunk ==
  /\ main.at = "lists" /\ NeedLists /\ mode.lockStep /\ ~mode.ifp
  /\ IF rcUpdate = <<>>
     THEN \E taken \in {Reordered(procList, ChunkSize(Head(input), mode.frames), TRUE)} :
            /\ procList' = procList \o Keep(input, taken) /\ rcUpdate' = procList'
            /\ TakeFromInput(taken)
     ELSE UNCHANGED <<procList, rcUpdate, input, listed>>
  /\ ListsDone
  /\ UNCHANGED <<mode, pics, output, reorder, reconstructed, coding, free, written, accounted>>

(* IFP: the input is reordered, all of it or, with parallel GOPs, as much  *)
(* as there are picture encoders; main.n is the size aimed at.             *)
StartReorder ==
  /\ main.at = "lists" /\ NeedLists /\ ~mode.lockStep /\ mode.ifp
  /\ main' = [main EXCEPT !.at = "reorder",
                          !.n = IF mode.parallelGops THEN mode.frames ELSE Len(input)]
  /\ UNCHANGED <<mode, pics, lists, reconstructed, coding, free, written, accounted>>

Reorder ==
  /\ main.at = "reorder"
  /\ IF input # <<>> /\ Len(procList) < main.n
     THEN \E taken \in {Reordered(procList, Len(procList) + mode.frames, ~mode.parallelGops)} :
            /\ procList' = procList \o Keep(input, taken)
            /\ TakeFromInput(taken)
            /\ IF taken = {}
               THEN rcUpdate' = rcUpdate \o procList /\ Goto("fetch")
               ELSE UNCHANGED <<rcUpdate, main>>
     ELSE /\ rcUpdate' = rcUpdate \o procList
          /\ Goto("fetch")
          /\ UNCHANGED <<input, procList, listed>>
  /\ UNCHANGED <<mode, pics, output, reorder, reconstructed, coding, free, written, accounted>>

(* IFP and lockstep: a window of pictures in the update list, filled from  *)
(* a reordered list, which is filled from the input when it is empty.      *)
FillWindow ==
  /\ main.at = "lists" /\ mode.lockStep /\ mode.ifp
  /\ NeedLists \/ main.n = 1
  /\ IF Len(rcUpdate) < mode.frames /\ reorder # <<>>
     THEN /\ procList' = Append(procList, Head(reorder))
          /\ rcUpdate' = Append(rcUpdate, Head(reorder))
          /\ reorder' = Tail(reorder)
          /\ main' = [main EXCEPT !.n = 1]
     ELSE /\ UNCHANGED <<procList, rcUpdate, reorder>>
          /\ main' = [main EXCEPT !.n = 0,
               !.at = IF Len(rcUpdate) < mode.frames /\ input # <<>> THEN "fill"
                      ELSE IF procList = <<>> THEN "rc" ELSE "fetch"]
  /\ UNCHANGED <<mode, pics, input, output, listed, reconstructed, coding, free, written,
                 accounted>>

FillReorder ==
  /\ main.at = "fill"
  /\ IF Len(reorder) < mode.frames /\ input # <<>>
     THEN \E taken \in {Reordered(reorder, mode.frames, TRUE)} :
            reorder' = reorder \o Keep(input, taken) /\ TakeFromInput(taken) /\ UNCHANGED main
     ELSE /\ UNCHANGED <<reorder, input, listed>>
          /\ main' = [main EXCEPT !.at = "lists", !.n = 1]
  /\ UNCHANGED <<mode, pics, output, procList, rcUpdate, reconstructed, coding, free, written,
                 accounted>>

-----------------------------------------------------------------------------
(* The loop of xProcessPictures.                                           *)

Ready(p) ==
  /\ mode.ifp \/ Refs[p] \subseteq reconstructed
  /\ mode.alf => RefAps[p] \subseteq reconstructed
  /\ mode.rateCap /\ mode.frames > 0 /\ p \in AdjustsQp =>
       LET front == Head(rcUpdate) IN front \notin ChecksQp /\ ~StartsGop(front)

ReadyPics == {i \in DOMAIN procList : Ready(procList[i])}

WrongNoEncoder == free = 0 /\ mode.nonBlocking

WrongNoEncoderLeft == free <= 1

NoEncoder == free = 0

LeaveLoop == procList = <<>> /\ (mode.nonBlocking \/ EncodersFinished)

NothingToStart == ~LeaveLoop /\ (NoEncoder \/ ReadyPics = {})

(* Under the mutex: the first ready picture and a free encoder are taken.  *)
Fetch ==
  /\ main.at = "fetch" /\ ~LeaveLoop /\ ~NothingToStart
  /\ free' = free - 1
  /\ \E i \in ReadyPics :
       /\ \A j \in ReadyPics : i <= j
       /\ main' = [main EXCEPT !.at = "encode", !.pic = procList[i]]
  /\ UNCHANGED <<mode, pics, lists, reconstructed, coding, written, accounted>>

MayOutput ==
  mode.nonBlocking \/ (~mode.lockStep /\ output # <<>> /\ Head(output) \in reconstructed)

LoopEnds ==
  /\ main.at = "fetch"
  /\ LeaveLoop \/ (NothingToStart /\ MayOutput)
  /\ Goto("rc")
  /\ UNCHANGED <<mode, pics, lists, reconstructed, coding, free, written, accounted>>

(* m_gopEncCond.wait *)
WaitForPicture ==
  /\ main.at = "fetch" /\ NothingToStart /\ ~MayOutput
  /\ Goto("wait")
  /\ UNCHANGED <<mode, pics, lists, reconstructed, coding, free, written, accounted>>

(* xEncodePicture: the tasks of the picture go to the pool. *)
EncodePicture ==
  /\ main.at = "encode" /\ ~Skipped(main.pic)
  /\ procList' = Keep(procList, Pocs \ {main.pic})
  /\ coding' = coding \union {main.pic}
  /\ Goto("fetch")
  /\ UNCHANGED <<mode, pics, input, output, reorder, rcUpdate, listed, reconstructed, free,
                 written, accounted>>

(* A picture left out of the first pass gives its encoder back without the *)
(* mutex: the list is read, and written.                                   *)
SkipPicture ==
  /\ main.at = "encode" /\ Skipped(main.pic)
  /\ procList' = Keep(procList, Pocs \ {main.pic})
  /\ reconstructed' = reconstructed \union {main.pic}
  /\ main' = [main EXCEPT !.at = "push", !.n = free]
  /\ UNCHANGED <<mode, pics, input, output, reorder, rcUpdate, listed, coding, free, written,
                 accounted>>

PushEncoder ==
  /\ main.at = "push"
  /\ free' = main.n + 1
  /\ main' = [main EXCEPT !.at = "fetch", !.n = 0]
  /\ UNCHANGED <<mode, pics, lists, reconstructed, coding, written, accounted>>

(* finishTask, in the thread pool: it waits for the picture's own CTUs and *)
(* for nothing else.  With IFP these have waited for lines of the pictures *)
(* they predict from (CtuWavefront), but one of those may still be on its  *)
(* way through finalizePicture, so that the pictures end in any order.     *)
Finish(p) ==
  /\ p \in coding
  /\ coding' = coding \ {p}
  /\ reconstructed' = reconstructed \union {p}
  /\ free' = free + 1
  /\ Goto(CASE main.at = "wait" -> "fetch" [] main.at = "topwait" -> "idle" [] OTHER -> main.at)
  /\ UNCHANGED <<mode, pics, lists, written, accounted>>

(* A condition variable may also wake its waiter for no reason. *)
WakeUp ==
  /\ main.at \in {"wait", "topwait"}
  /\ Goto(IF main.at = "wait" THEN "fetch" ELSE "idle")
  /\ UNCHANGED <<mode, pics, lists, reconstructed, coding, free, written, accounted>>

-----------------------------------------------------------------------------
(* Rate control update and output.                                         *)

(* xUpdateRcIfp, xUpdateRateCap: the update list is gone through, and what *)
(* is reconstructed when it is looked at is evaluated; of what the rate    *)
(* cap evaluates, the pictures that tell how QPs are adjusted are kept.    *)
UpdateRc ==
  LET window == (mode.lockStep /\ mode.ifp) \/ mode.rateCap
      i      == main.n + 1
      found  == window /\ i <= Len(rcUpdate)
  IN  /\ main.at = "rc"
      /\ IF found /\ rcUpdate[i] \in reconstructed
         THEN /\ rcUpdate' = RemoveAt(rcUpdate, i)
              /\ accounted' = IF rcUpdate[i] \in ChecksQp THEN Append(accounted, rcUpdate[i])
                              ELSE accounted
              /\ UNCHANGED main
         ELSE /\ main' = IF found THEN [main EXCEPT !.n = i]
                         ELSE [main EXCEPT !.at = "output", !.n = 0]
              /\ UNCHANGED <<rcUpdate, accounted>>
      /\ UNCHANGED <<mode, pics, input, output, reorder, procList, listed, reconstructed,
                     coding, free, written>>

WrongChunkOpen == FALSE

(* The next picture to write is the first of a chunk that is being coded. *)
ChunkOpen ==
  /\ mode.lockStep /\ ~mode.ifp
  /\ rcUpdate # <<>> /\ Head(output) = Head(rcUpdate)
  /\ ~EncodersFinished

CanWrite == output # <<>> /\ Head(output) \in reconstructed /\ ~ChunkOpen

NoOutput ==
  /\ main.at = "output" /\ ~CanWrite
  /\ Goto("idle")
  /\ UNCHANGED <<mode, pics, lists, reconstructed, coding, free, written, accounted>>

Write ==
  LET matches == /\ rcUpdate # <<>> /\ Head(rcUpdate) = Head(output)
                 /\ ~mode.lockStep \/ ~mode.ifp
  IN  /\ main.at = "output" /\ CanWrite
      /\ written' = Append(written, Head(output))
      /\ output' = Tail(output)
      /\ accounted' = IF matches /\ mode.lockStep THEN accounted \o rcUpdate ELSE accounted
      /\ rcUpdate' = IF ~matches THEN rcUpdate
                     ELSE IF mode.lockStep THEN <<>> ELSE Tail(rcUpdate)
      /\ Goto("idle")
      /\ UNCHANGED <<mode, pics, input, reorder, procList, listed, reconstructed, coding, free>>

AllWritten == Len(written) = LastPoc + 1 /\ main.at = "idle"

Stage ==
  \/ InitPics \/ NoLists \/ PlainList \/ NextChunk \/ StartReorder \/ Reorder
  \/ FillWindow \/ FillReorder \/ Fetch \/ LoopEnds \/ WaitForPicture
  \/ EncodePicture \/ SkipPicture \/ PushEncoder \/ UpdateRc \/ NoOutput \/ Write

Next ==
  \/ Arrive \/ CallStage \/ WaitForFreeEncoders
  \/ Stage
  \/ \E p \in Pocs : Finish(p)
  \/ WakeUp
  \/ AllWritten /\ UNCHANGED vars

Spec == Init /\ [][Next]_vars

(* The application goes on until all is written, so that pictures arrive   *)
(* and the stage is called; a picture that has an encoder is completed, as *)
(* those it predicts from have been or have one too.                       *)
FairSpec ==
  /\ Spec
  /\ SF_vars(Arrive) /\ SF_vars(CallStage) /\ WF_vars(Stage)
  /\ \A p \in Pocs : WF_vars(Finish(p))

-----------------------------------------------------------------------------
(* Properties.                                                             *)

(* The state has its type; a picture is in one place at a time, and no     *)
(* encoder is lost or used twice.                                          *)
TypeOK ==
  /\ mode \in Modes
  /\ \A l \in {pics, input, output, reorder, procList, rcUpdate, written, accounted} :
       \A i \in DOMAIN l : l[i] \in Pocs
  /\ \A s \in {listed, reconstructed, coding} : s \subseteq Pocs
  /\ coding \intersect reconstructed = {}
  /\ free + Cardinality(coding) + (IF main.at \in {"encode", "push"} THEN 1 ELSE 0) = Encoders
  /\ free \in Nat
  /\ main.at \in {"idle", "topwait", "init", "lists", "reorder", "fill", "fetch", "wait",
                  "encode", "push", "rc", "output"}

(* The GOP encoder does what PictureCoding says, in every mode: blocking   *)
(* or not, in chunks or as a window, whatever order pictures finish in.    *)
Coding == INSTANCE PictureCoding WITH
  Pics    <- Pocs,
  Order   <- CodingNums,
  Limits  <- [encoders : Nat \ {0}, overlap : BOOLEAN],
  limit   <- [encoders |-> Encoders, overlap |-> mode.ifp],
  arrived <- Arrived,
  coded   <- reconstructed

KeepsPromise == Coding!Spec

(* The thread never waits for a picture when none is being coded: this is  *)
(* the CHECK before m_gopEncCond.wait.                                     *)
WaitsForSomething ==
  main.at = "fetch" /\ NothingToStart /\ ~MayOutput => ~EncodersFinished

(* The chunks as they would be if every picture were finished at once:     *)
(* after the pictures done, the first one in coding order and, above the   *)
(* serial layers, others of its GOP and layer that need no more than that. *)
ChunkAfter(done, frames) ==
  LET rest  == Pocs \ ToSet(done)
      first == CHOOSE p \in rest : \A q \in rest : CodingNums[p] <= CodingNums[q]
      fits  == {p \in rest : /\ GopNums[p] = GopNums[first] /\ TLayer[p] = TLayer[first]
                             /\ Refs[p] \subseteq ToSet(done)}
      chunk == {p \in fits :
                  Cardinality(fits \intersect CodedBefore(p)) < ChunkSize(first, frames)}
  IN  Keep(CodingOrder, chunk)

DoneBefore(frames) ==
  LET done[n \in 0 .. LastPoc + 1] ==
        IF n = 0 THEN <<>> ELSE done[n - 1] \o ChunkAfter(done[n - 1], frames)
  IN  done

(* In lockstep, what the rate control knows when it sets the parameters of *)
(* a picture is the same whatever the timing of the threads: the bits of   *)
(* all chunks before the picture's, and nothing else.                      *)
RateControlDeterministic ==
  main.at = "encode" /\ mode.lockStep /\ ~mode.ifp =>
    \E n \in 0 .. LastPoc :
      /\ accounted = DoneBefore(mode.frames)[n]
      /\ main.pic \in ToSet(ChunkAfter(accounted, mode.frames))


(* With a rate cap, and without IFP, a GOP is coded when all pictures of   *)
(* the GOPs before it are finished, whatever has come and been initialised *)
(* meanwhile.                                                              *)
GopByGop ==
  mode.rateCap /\ ~mode.ifp =>
    \A p \in coding : \A q \in Pocs : GopNums[q] < GopNums[p] => q \in reconstructed

(* After a scene cut, what is adjusted by the bits of the GOP's second     *)
(* picture is not started before these have been evaluated.                *)
AdjustedByCheck ==
  main.at = "encode" /\ mode.rateCap /\ main.pic \in AdjustsQp =>
    \E p \in ToSet(accounted) : p \in ChecksQp /\ GopNums[p] = GopNums[main.pic]

(* waitForFreeEncoders ends. *)
WaitEnds == main.at = "topwait" ~> main.at # "topwait"
=============================================================================
