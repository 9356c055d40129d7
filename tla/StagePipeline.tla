---------------------------- MODULE StagePipeline ----------------------------
(***************************************************************************)
(* The encoder's stages (EncStage), the pictures they share (PicShared)    *)
(* and the loop of EncLib::encodePicture that drives them for an           *)
(* application calling vvenc_encode.                                       *)
(*                                                                         *)
(* One thread, the application's, runs everything here but the coding of   *)
(* pictures: the last stage (EncGOP) hands a picture to an EncPicture, and *)
(* the thread pool finishes it at some later time (Reconstruct).  With     *)
(* frame-parallel coding that stage does not block, the number of input    *)
(* picture buffers is limited, and the loop waits when it runs out.        *)
(*                                                                         *)
(* With look-ahead another EncGOP comes before it, which codes each        *)
(* picture once to learn how many bits it takes.  That stage does block;   *)
(* the last one then goes by chunks (lockstep) and does not start a GOP    *)
(* before the pre-analysis is past its first picture.                      *)
(*                                                                         *)
(* With two passes the application encodes the video twice (InitPass); the *)
(* first pass leaves statistics of the pictures and no output.  Pictures   *)
(* that temporal down-sampling leaves out of the first pass, or of the     *)
(* pre-analysis, take the statistics of others.  There are no scene cuts.  *)
(***************************************************************************)
EXTENDS Integers, Sequences, FiniteSets, SequencesExt, FiniteSetsExt, Lists

CONSTANTS
  GopOrder,  \* the GOP, as in GopStructure
  GopRefs,
  GopLayer,  \* temporal layer of each GOP entry (m_temporalId)
  Configs    \* configurations of the encoder and its application

(* A configuration:                                                        *)
(*   poc0Idr, leadFrames, visAct (previous pictures are linked for the     *)
(*     QPA), sta (slice type adaptation): as in the encoder's;             *)
(*   useMctf, mctfRange, futureRef: the MCTF stage, VVENC_MCTF_RANGE and   *)
(*     m_vvencMCTF.MCTFFutureReference;                                    *)
(*   lookAhead: m_LookAhead, with a target bit rate;                       *)
(*   passes: m_RCNumPasses;                                                *)
(*   tempDown: temporal down-sampling (m_FirstPassMode 2 and 4);           *)
(*   framesToEncode: m_framesToBeEncoded, 0 when it is not known;          *)
(*   encoders: m_maxParallelFrames, 0 when one picture is coded at a time; *)
(*   inputs: the numbers of pictures the application may have;             *)
(*   earlyFlush: it may also flush before its first picture;               *)
(*   smallPayload: its access units may be too small at first, with so few *)
(*     pictures that all come out when it flushes.                         *)
ASSUME PipelineAssumption ==
  \A c \in Configs :
    /\ {c.poc0Idr, c.useMctf, c.lookAhead, c.tempDown, c.futureRef, c.visAct, c.sta,
        c.earlyFlush, c.smallPayload} \subseteq BOOLEAN
    /\ {c.mctfRange, c.leadFrames, c.framesToEncode, c.encoders} \subseteq Nat
    /\ c.passes \in {1, 2} /\ (c.lookAhead => c.passes = 1)
    /\ c.smallPayload => \A n \in c.inputs : n <= Len(GopOrder)
    /\ c.mctfRange > 0 /\ c.leadFrames <= 64 /\ c.inputs \subseteq Nat

ASSUME LayersAssumption == GopLayer \in [1 .. Len(GopOrder) -> Nat]

VARIABLES
  conf,      \* the configuration, never changed
  rc,        \* the pass (m_passInitialized), and RateCtrl's statistics
  shared,    \* m_picSharedList: reference count, POC and links of each
  list,      \* m_procList of every stage
  seenFlush, \* m_flush of every stage
  pre,       \* PreProcess: m_lastPoc, and m_nextPoc of its GOPCfg
  mctf,      \* MCTF: m_filterPoc and m_lastPicIn
  gop,       \* every EncGOP: last coding number, lists, counters, busy encoders
  auList,    \* m_AuList and m_accessUnitOutputStarted
  main,      \* where encodePicture is, and its local variables
  app,       \* the application: pictures it has, passed in and got back
  failed     \* the CHECKs that failed

vars == <<conf, rc, shared, list, seenFlush, pre, mctf, gop, auList, main, app, failed>>

(* The GOP with and without a picture 0 of its own. *)
Idr == INSTANCE GopStructure WITH Poc0Idr <- TRUE
Cra == INSTANCE GopStructure WITH Poc0Idr <- FALSE

GopSize == Cra!GopSize
MaxNumReorder == Cra!MaxNumReorder

LastPoc == Max(UNION {c.inputs : c \in Configs})

IsLeading0(poc) == conf.poc0Idr /\ poc = 0

(* What the pictures are given, worked out once. *)
Entries ==
  LET first == -Max({c.leadFrames : c \in Configs})
  IN  [idr \in BOOLEAN |-> [poc \in first .. LastPoc |->
         IF idr THEN Idr!GopEntry(poc) ELSE Cra!GopEntry(poc)]]

Entry(poc) == Entries[conf.poc0Idr][poc]

CodingNum(poc) == Entry(poc).codingNum
GopNum(poc) == Entry(poc).gopNum
Active(poc) == Entry(poc).active

NumPrev == 2  \* NUM_QPA_PREV_FRAMES
AuDelay == 4  \* access units held back when output starts

(* The stages, with and without the filter and the pre-analysis. *)
Stages ==
  IF conf.useMctf
  THEN IF conf.lookAhead THEN <<"pre", "mctf", "la", "gop">> ELSE <<"pre", "mctf", "gop">>
  ELSE IF conf.lookAhead THEN <<"pre", "la", "gop">> ELSE <<"pre", "gop">>

LastStage == Len(Stages)

GopStages == (IF conf.lookAhead THEN LastStage - 1 ELSE LastStage) .. LastStage

IsGop(s) == s \in GopStages

StageParallel == conf.encoders > 0  \* m_stageParallelProc

NonBlocking(s) == s = LastStage /\ StageParallel

Least(a, b) == IF a <= b THEN a ELSE b

MctfLead == Least(conf.mctfRange, conf.leadFrames)

StartPoc(s) == CASE IsGop(s) -> 0 [] Stages[s] = "mctf" -> -MctfLead
                 [] OTHER -> -conf.leadFrames

WrongMinQueueSize(s) ==
  IF IsGop(s) THEN GopSize + 1
  ELSE IF Stages[s] = "mctf" THEN conf.mctfRange + 1 ELSE 1

MinQueueSize(s) ==
  CASE IsGop(s) -> GopSize + 1
    [] Stages[s] = "mctf" -> MctfLead + 1 + (IF conf.futureRef THEN conf.mctfRange ELSE 0)
    [] OTHER -> 1

(* m_maxNumPicShared *)
WrongMaxNumPicShared == 1 + (IF conf.useMctf THEN 1 ELSE 0) + (GopSize + 1)

MaxNumPicShared ==
  1 + (IF conf.useMctf THEN 1 + (IF conf.futureRef THEN conf.mctfRange ELSE 0) ELSE 0)
    + Cardinality(GopStages) * (GopSize + 1) + MaxNumReorder + 3

IsLeadTrail(poc) ==
  poc < 0 \/ (conf.framesToEncode > 0 /\ poc >= conf.framesToEncode)

Takes(s, poc) ==
  poc >= StartPoc(s) /\ (IsGop(s) => ~IsLeadTrail(poc))

Null == 0

NoPic == -1000  \* below every POC (numeric_limits<int>::min)

(* The stages, as initPass makes them. *)
Fresh ==
  [shared |-> <<>>,
   list |-> [s \in 1 .. LastStage |-> <<>>],
   seenFlush |-> [s \in 1 .. LastStage |-> FALSE],
   pre |-> [lastPoc |-> NoPic, nextPoc |-> -conf.leadFrames],
   mctf |-> [filterPoc |-> 0, lastIn |-> NoPic],
   gop |-> [s \in GopStages |->
              [lastCodingNum |-> -1, input |-> <<>>, todo |-> <<>>, chunk |-> <<>>,
               out |-> <<>>, busy |-> {}, picCount |-> 0, coded |-> 0, recOut |-> 0]]]

Init ==
  /\ conf \in Configs
  /\ rc = [pass |-> 0, stats |-> <<>>]
  /\ shared = Fresh.shared
  /\ list = Fresh.list
  /\ seenFlush = Fresh.seenFlush
  /\ pre = Fresh.pre
  /\ mctf = Fresh.mctf
  /\ gop = Fresh.gop
  /\ auList = [aus |-> <<>>, started |-> FALSE]
  /\ main = [at |-> "app", stage |-> 0, flush |-> FALSE, pending |-> FALSE,
             au |-> NoPic, empty |-> FALSE]
  /\ \E n \in conf.inputs : app = [state |-> "INITIALIZED", has |-> n, passed |-> 0,
                              got |-> <<>>, done |-> FALSE, rec |-> <<>>]
  /\ failed = {}

(* rcIsFinalPass *)
Final == rc.pass = conf.passes - 1

Check(cond, what) == IF cond THEN {what} ELSE {}

-----------------------------------------------------------------------------
(* PicShared: the reference counts.                                        *)

Slots == 1 .. NumPrev

Linked(links, k) == Cardinality({i \in Slots : links[i] = k})

WrongShareData(sh, id) == [sh EXCEPT ![id].ref = @ + 1]

(* shareData: the picture itself and the previous ones it links to. *)
ShareData(sh, id) ==
  [k \in DOMAIN sh |->
     [sh[k] EXCEPT !.ref = @ + Linked(sh[id].prev, k) + (IF k = id THEN 1 ELSE 0)]]

(* releasePrevBuffers, of several pictures: the links they still hold. *)
HeldLinks(sh, pics, k) ==
  Cardinality({h \in pics \X Slots : h[1].prev[h[2]] # Null /\ sh[h[1].id].prev[h[2]] = k})

ReleasePrev(sh, pics) ==
  [k \in DOMAIN sh |-> [sh[k] EXCEPT !.ref = @ - HeldLinks(sh, pics, k)]]

(* releaseShared, of several pictures: their links and themselves. *)
ReleaseShared(sh, pics) ==
  LET left == ReleasePrev(sh, pics)
  IN  [k \in DOMAIN left |->
         [left[k] EXCEPT !.ref = @ - Cardinality({pic \in pics : pic.id = k})]]

-----------------------------------------------------------------------------
(* EncStage::addPicSorted.  The state it works on is                       *)
(* [shared, list, picCount, failed].                                       *)

NewPic(sh, id, flush) ==
  [id |-> id, poc |-> sh[id].poc, prev |-> sh[id].prev, isFlush |-> flush,
   isInitDone |-> FALSE, isReconstructed |-> FALSE, isFinished |-> FALSE,
   isReferenced |-> TRUE, isNeeded |-> TRUE, refs |-> {}, refCounter |-> 0]

SortKey(s, poc) == IF IsGop(s) THEN CodingNum(poc) ELSE poc

Insert(s, pics, pic) ==
  LET later == {i \in DOMAIN pics : SortKey(s, pic.poc) < SortKey(s, pics[i].poc)}
      at    == IF later = {} THEN Len(pics) + 1
               ELSE CHOOSE i \in later : \A j \in later : i <= j
      mark  == NonBlocking(s) /\ pic.isFlush
      tail  == [i \in 1 .. Len(pics) - at + 1 |->
                  [pics[at + i - 1] EXCEPT !.isFlush = @ \/ mark]]
  IN  [pics   |-> Append(SubSeq(pics, 1, at - 1), pic) \o tail,
       failed |-> Check(mark /\ \E p \in ToSet(tail) : p.isInitDone,
                        "flush set on a picture already started")]

AddPicSorted(st, id, s, flush) ==
  LET takers == {t \in s .. LastStage : Takes(t, st.shared[id].poc)}
      t      == CHOOSE x \in takers : \A y \in takers : x <= y
      new    == Insert(t, st.list[t], NewPic(st.shared, id, flush))
  IN  IF takers = {} THEN st
      ELSE [shared   |-> ShareData(st.shared, id),
            list     |-> [st.list EXCEPT ![t] = new.pics],
            picCount |-> [n \in GopStages |-> st.picCount[n] + (IF n = t THEN 1 ELSE 0)],
            failed   |-> st.failed \union new.failed]

(* m_procList.remove, of the pictures at some places of the list. *)
Without(pics, places) ==
  LET left == Keep([i \in DOMAIN pics |-> i], DOMAIN pics \ places)
  IN  [i \in DOMAIN left |-> pics[left[i]]]

NoLinks == [i \in Slots |-> Null]

WrongForward(st, done, free, s, flush) ==
  LET pics == st.list[s]
      sent == IF done = Null THEN st
              ELSE AddPicSorted([st EXCEPT !.shared = ReleasePrev(@, {pics[done]})],
                                pics[done].id, s + 1, flush)
  IN  [sent EXCEPT !.shared = ReleaseShared(@, {pics[i] : i \in free}),
                   !.list[s] = Without(pics, free)]

(* The second half of runStage's loop: the picture that is done, if any,   *)
(* loses its links to previous ones and goes to the next stage, free ones  *)
(* leave this stage.  All are given by their places in the stage's list.   *)
Forward(st, done, free, s, flush) ==
  LET pics == st.list[s]
      held == IF done = Null THEN pics ELSE [pics EXCEPT ![done].prev = NoLinks]
      sent == IF done = Null THEN st
              ELSE AddPicSorted([st EXCEPT !.shared = ReleasePrev(@, {pics[done]}),
                                           !.list[s] = held],
                                pics[done].id, s + 1, flush)
  IN  [sent EXCEPT !.shared = ReleaseShared(@, {held[i] : i \in free}),
                   !.list[s] = Without(held, free)]

Continue(st) ==
  /\ shared' = st.shared
  /\ list' = st.list
  /\ failed' = st.failed

Pipe == [shared |-> shared, list |-> list, failed |-> failed,
         picCount |-> [s \in GopStages |-> gop[s].picCount]]

Counted(st, g) == [s \in GopStages |-> [g[s] EXCEPT !.picCount = st.picCount[s]]]

-----------------------------------------------------------------------------
(* encodePicture: the application's call, and the input picture.           *)

(* EncLib::m_picsRcvd *)
PicsRcvd == app.passed - conf.leadFrames

Call(flush) ==
  main' = [at |-> "top", stage |-> 0, flush |-> flush, pending |-> ~flush,
           au |-> NoPic, empty |-> FALSE]

(* vvenc_encode with a picture. *)
Encode ==
  /\ main.at = "app" /\ app.state \in {"INITIALIZED", "ENCODING"}
  /\ app.passed < app.has
  /\ Call(FALSE)
  /\ app' = [app EXCEPT !.state = "ENCODING", !.done = FALSE]
  /\ UNCHANGED <<conf, rc, shared, list, seenFlush, pre, mctf, gop, auList, failed>>

(* vvenc_encode without one, until it says that all is done. *)
Flush ==
  /\ main.at = "app" /\ app.state # "FINALIZED" /\ ~app.done
  /\ app.passed = app.has \/ (conf.earlyFlush /\ app.passed = 0)
  /\ Call(TRUE)
  /\ app' = [app EXCEPT !.state = IF @ = "ENCODING" THEN "FLUSHING" ELSE @]
  /\ UNCHANGED <<conf, rc, shared, list, seenFlush, pre, mctf, gop, auList, failed>>

Unused == {k \in DOMAIN shared : shared[k].ref = 0}

(* xGetFreePicShared: an unused buffer, or a new one if there may be more. *)
FreePicShared ==
  IF Unused # {} THEN CHOOSE k \in Unused : \A j \in Unused : k <= j
  ELSE IF StageParallel /\ Len(shared) >= MaxNumPicShared THEN Null
  ELSE Len(shared) + 1

Reused == [ref |-> 0, poc |-> PicsRcvd, prev |-> NoLinks,
           isValid |-> FALSE, isStartOfIntra |-> FALSE, isStartOfGop |-> FALSE]

(* The top of encodePicture's loop. *)
TakeInput ==
  /\ main.at = "top"
  /\ LET id == IF main.pending THEN FreePicShared ELSE Null
         sh == IF id \in DOMAIN shared THEN [shared EXCEPT ![id] = Reused]
               ELSE Append(shared, Reused)
         st == AddPicSorted([Pipe EXCEPT !.shared = sh], id, 1, main.flush)
         n  == IF id = Null THEN PicsRcvd ELSE PicsRcvd + 1
     IN  /\ Continue(IF id = Null THEN Pipe ELSE st)
         /\ app' = [app EXCEPT !.passed = IF id = Null THEN @ ELSE @ + 1]
         /\ main' = [main EXCEPT !.at = "run", !.stage = 1, !.pending = @ /\ id = Null,
                                !.empty = n > 0 \/ main.flush]
  /\ UNCHANGED <<conf, rc, seenFlush, pre, mctf, gop, auList>>

-----------------------------------------------------------------------------
(* EncStage::runStage.                                                     *)

(* The stage after this one, or the end of the loop over the stages, when  *)
(* this stage is left with the pictures pics.                              *)
NextStage(pics) ==
  main' = [main EXCEPT !.at = IF main.stage < LastStage THEN "run" ELSE "collect",
                       !.stage = @ + 1, !.empty = @ /\ pics = <<>>]

(* The flag, on all pictures, or on the last one for the non-blocking stage. *)
Marked(s, pics) ==
  IF NonBlocking(s)
  THEN [i \in DOMAIN pics |-> [pics[i] EXCEPT !.isFlush = @ \/ i = Len(pics)]]
  ELSE [i \in DOMAIN pics |-> [pics[i] EXCEPT !.isFlush = TRUE]]

(* The first flush marks pictures; then the stage runs if it is ready to.  *)
RunStage ==
  LET s     == main.stage
      first == main.flush /\ ~seenFlush[s]
      pics  == IF first THEN Marked(s, list[s]) ELSE list[s]
  IN  /\ main.at = "run"
      /\ seenFlush' = [seenFlush EXCEPT ![s] = @ \/ main.flush]
      /\ list' = [list EXCEPT ![s] = pics]
      /\ IF Len(pics) >= MinQueueSize(s) \/ (pics # <<>> /\ main.flush)
         THEN main' = [main EXCEPT !.at = Stages[s]]
         ELSE NextStage(pics)
      /\ UNCHANGED <<conf, rc, shared, pre, mctf, gop, auList, app, failed>>

(* The end of the loop of a stage before the last one: again until it has  *)
(* no pictures left when the encoder is flushed.                           *)
Proceed(result) ==
  \E st \in {result} :
    /\ Continue(st)
    /\ gop' = Counted(st, gop)
    /\ IF main.flush /\ st.list[main.stage] # <<>> THEN UNCHANGED main
       ELSE NextStage(st.list[main.stage])

-----------------------------------------------------------------------------
(* PreProcess::processPictures.                                            *)

(* xGetStartOfLastGop: the first in coding order of the last GOP's         *)
(* pictures, where a separate picture 0 is a GOP of its own.               *)
StartOfLastGop(pics) ==
  LET num(p) == IF IsLeading0(p) THEN -1 ELSE GopNum(p)
      own    == {i \in DOMAIN pics : ~IsLeadTrail(pics[i].poc)}
      inGop  == {i \in own : \A j \in own : num(pics[j].poc) <= num(pics[i].poc)}
  IN  {i \in inGop : \A j \in inGop : CodingNum(pics[i].poc) <= CodingNum(pics[j].poc)}

(* xLinkPrevQpaBufs: the pictures just before this one that are still in   *)
(* the list, without a gap, or the picture itself.                         *)
PrevLinks(pics, pic) ==
  LET at(k)   == {i \in DOMAIN pics : pics[i].poc = pic.poc - k}
      link(k) == IF \A j \in 1 .. k : at(j) # {} THEN pics[CHOOSE i \in at(k) : TRUE].id
                 ELSE IF k = 1 THEN pic.id ELSE Null
  IN  [k \in Slots |-> link(k)]

(* xFreeUnused: all but the previous pictures, the last picture of         *)
(* temporal layer 0, for down-sampling also those after it, and the start  *)
(* of the last GOP.                                                        *)
UnusedPics(pics) ==
  LET n   == Len(pics)
      tl0 == {i \in DOMAIN pics : Entry(pics[i].poc).isLayer0}
  IN  {i \in DOMAIN pics :
         /\ ~(conf.visAct /\ n - i < NumPrev)
         /\ ~(conf.sta /\ (i \in tl0 \/ conf.tempDown) /\ \A j \in tl0 : j <= i)
         /\ i \notin StartOfLastGop(pics)}

PreProcessNext(s) ==
  LET pics  == list[s]
      pic   == Last(pics)
      links == IF conf.visAct /\ ~IsLeadTrail(pic.poc) THEN PrevLinks(pics, pic)
               ELSE shared[pic.id].prev
      entry == [shared EXCEPT ![pic.id].isValid = TRUE, ![pic.id].prev = links,
                              ![pic.id].isStartOfIntra = Entry(pic.poc).isStartOfIntra,
                              ![pic.id].isStartOfGop = Entry(pic.poc).isStartOfGop]
  IN  /\ Proceed(Forward([Pipe EXCEPT !.shared = entry,
                            !.failed = @ \union Check(pre.nextPoc # pic.poc,
                                                      "gop entry of another picture")],
                         Len(pics), UnusedPics(pics), s, main.flush))
      /\ pre' = [lastPoc |-> pic.poc, nextPoc |-> pre.nextPoc + 1]

WrongFixStartOfLastGop(pics) == shared

(* fixStartOfLastGop: the last GOP may have been cut short, and if it is   *)
(* the first one it starts with an intra picture.                          *)
FixStartOfLastGop(pics) ==
  LET start == {pics[i] : i \in StartOfLastGop(pics)}
      first(pic) == ~conf.poc0Idr /\ GopNum(pic.poc) = 0
  IN  [k \in DOMAIN shared |->
         [shared[k] EXCEPT
            !.isStartOfGop = @ \/ \E pic \in start : pic.id = k,
            !.isStartOfIntra = @ \/ \E pic \in start : pic.id = k /\ first(pic)]]

(* The last picture has been processed, and is not marked by a flush. *)
PreIdle ==
  LET back == Last(list[main.stage]) IN back.poc <= pre.lastPoc /\ ~back.isFlush

ProcessPre ==
  /\ main.at = "pre"
  /\ LET s    == main.stage
         pics == list[s]
     IN  CASE Last(pics).poc > pre.lastPoc -> PreProcessNext(s)
           [] PreIdle -> Proceed(Pipe) /\ UNCHANGED pre
           [] OTHER ->
                /\ Proceed(Forward([Pipe EXCEPT !.shared = FixStartOfLastGop(pics)],
                                   Null, DOMAIN pics, s, main.flush))
                /\ UNCHANGED pre
  /\ UNCHANGED <<conf, rc, seenFlush, mctf, auList, app>>

-----------------------------------------------------------------------------
(* MCTF::processPictures: filter one picture with those around it, and let *)
(* go the ones too old for the next.                                       *)

Window(poc) == poc - conf.mctfRange .. (IF conf.futureRef THEN poc + conf.mctfRange ELSE poc)

MctfNext(s) ==
  LET pics  == list[s]
      poc   == mctf.filterPoc
      due   == /\ poc <= Last(pics).poc
               /\ conf.framesToEncode = 0 \/ poc < conf.framesToEncode
      at    == {i \in DOMAIN pics : pics[i].poc = poc}
      done  == IF due /\ at # {} THEN CHOOSE i \in at : TRUE ELSE Null
      old   == {i \in DOMAIN pics : pics[i].poc <= poc - conf.mctfRange}
  IN  /\ Proceed(Forward([Pipe EXCEPT !.failed = @ \union
                            Check(due /\ at = {}, "picture filter error")],
                         done, old, s, main.flush))
      /\ mctf' = [filterPoc |-> poc + 1, lastIn |-> Last(pics).poc]

MctfIdle ==
  LET back == Last(list[main.stage]) IN mctf.lastIn = back.poc /\ ~back.isFlush

ProcessMctf ==
  /\ main.at = "mctf"
  /\ IF MctfIdle THEN Proceed(Pipe) /\ UNCHANGED mctf ELSE MctfNext(main.stage)
  /\ UNCHANGED <<conf, rc, seenFlush, pre, auList, app>>

-----------------------------------------------------------------------------
(* EncGOP::processPictures, of the pre-analysis or of the encoder.         *)

Pocs(pics) == {pics[i].poc : i \in DOMAIN pics}

IndexOf(s, poc) == CHOOSE i \in DOMAIN list[s] : list[s][i].poc = poc

PicOf(s, poc) == list[s][IndexOf(s, poc)]

LockStep(s) ==
  Stages[s] = "gop" /\ StageParallel /\ (conf.lookAhead \/ (conf.passes = 2 /\ Final))

(* The stage learns about the pictures, for a stage or a pass that comes. *)
Learns(s) == Stages[s] = "la" \/ ~Final

(* m_skipFirstPass: the entries after the first of the highest layer. *)
LeftOut(s, poc) ==
  LET maxTid == Max(ToSet(GopLayer))
  IN  /\ conf.tempDown /\ Learns(s) /\ maxTid > 1
      /\ \E i \in 1 .. Entry(poc).index - 1 : GopLayer[i] = maxTid

AtGop == main.at \in {"la", "gop"}

WrongInitPicKeepsActive(pics, pic, intra) ==
  LET refs == IF intra THEN {}
              ELSE {r \in Active(pic.poc) : \E q \in ToSet(pics) : q.poc = r /\ q.isReferenced}
  IN  [i \in DOMAIN pics |->
         IF pics[i].poc = pic.poc
         THEN [pics[i] EXCEPT !.isInitDone = TRUE, !.isReferenced = TRUE, !.refs = refs]
         ELSE [pics[i] EXCEPT
                 !.isReferenced = @ /\ (pics[i].isInitDone => pics[i].poc \in Active(pic.poc)),
                 !.refCounter = @ + (IF pics[i].poc \in refs THEN 1 ELSE 0)]]

(* xInitFirstSlice: a picture leaves referenced, of the pictures started   *)
(* before, those it lists, and predicts from the active ones among them.   *)
InitPic(pics, pic, intra) ==
  LET refs == IF intra THEN {}
              ELSE {r \in Active(pic.poc) : \E q \in ToSet(pics) : q.poc = r /\ q.isReferenced}
  IN  [i \in DOMAIN pics |->
         IF pics[i].poc = pic.poc
         THEN [pics[i] EXCEPT !.isInitDone = TRUE, !.isReferenced = TRUE, !.refs = refs]
         ELSE [pics[i] EXCEPT
                 !.isReferenced = @ /\ (pics[i].isInitDone => pics[i].poc \in Entry(pic.poc).listed),
                 !.refCounter = @ + (IF pics[i].poc \in refs THEN 1 ELSE 0)]]

(* The picture that xInitPicsInCodingOrder comes to next: none is left out  *)
(* of the coding order, unless the pictures are flushed.                   *)
NextToInit(s) ==
  LET rest == {i \in DOMAIN list[s] : ~list[s][i].isInitDone}
      i    == Min(rest)
  IN  IF rest # {} /\ (\/ CodingNum(list[s][i].poc) = gop[s].lastCodingNum + 1
                       \/ Last(list[s]).isFlush)
      THEN i ELSE 0

(* One round of its loop; serially, one picture is started in a call. *)
InitNextPic ==
  /\ AtGop /\ NextToInit(main.stage) # 0
  /\ LET s     == main.stage
         pic   == list[s][NextToInit(s)]
         intra == shared[pic.id].isStartOfIntra
     IN  /\ list' = [list EXCEPT ![s] = InitPic(@, pic, intra)]
         /\ gop' = [gop EXCEPT ![s].lastCodingNum = CodingNum(pic.poc),
                               ![s].input = Append(@, pic.poc),
                               ![s].out = Append(@, pic.poc)]
         /\ failed' = failed \union
              Check(gop[s].lastCodingNum = -1 /\ ~intra, "first picture not intra") \union
              Check(~StageParallel /\ gop[s].out # <<>>, "multiple pictures in flight")
  /\ main' = [main EXCEPT !.at = IF StageParallel THEN @ ELSE "lists"]
  /\ UNCHANGED <<conf, rc, shared, seenFlush, pre, mctf, auList, app>>

(* checkAllRefPicsReconstructed *)
IsReady(s, poc) == \A r \in PicOf(s, poc).refs : PicOf(s, r).isReconstructed

TLayer(s, poc) ==
  IF IsLeading0(poc) \/ shared[PicOf(s, poc).id].isStartOfIntra THEN 0
  ELSE GopLayer[Entry(poc).index]

(* The next chunk: one picture, or ready ones of one GOP and layer.        *)
NextChunk(s) ==
  LET pocs  == gop[s].input
      first == Head(pocs)
      serialDepth == IF conf.encoders > 2 THEN 1 ELSE 2
      size  == IF TLayer(s, first) <= serialDepth THEN 1 ELSE conf.encoders
      fits  == SelectSeq(pocs, LAMBDA p : /\ GopNum(p) = GopNum(first)
                                          /\ TLayer(s, p) = TLayer(s, first)
                                          /\ IsReady(s, p))
  IN  SubSeq(fits, 1, Min({size, Len(fits)}))

(* xGetProcessingLists, when all pictures of the last list are started. *)
Listing(s) ==
  IF gop[s].todo # <<>> \/ gop[s].input = <<>> THEN gop[s]
  ELSE IF ~LockStep(s) THEN [gop[s] EXCEPT !.todo = gop[s].input, !.input = <<>>]
  ELSE IF gop[s].chunk # <<>> THEN gop[s]
  ELSE LET chunk == NextChunk(s)
       IN  [gop[s] EXCEPT !.todo = chunk, !.chunk = chunk,
                          !.input = SelectSeq(@, LAMBDA p : p \notin ToSet(chunk))]

GetLists ==
  /\ main.at = "lists" \/ (AtGop /\ NextToInit(main.stage) = 0)
  /\ gop' = [gop EXCEPT ![main.stage] = Listing(main.stage)]
  /\ failed' = failed \union
       Check(AtGop /\ ~StageParallel /\ ~conf.visAct, "no new picture for encoding")
  /\ main' = [main EXCEPT !.at = IF gop'[main.stage].todo = <<>> THEN "output" ELSE "code"]
  /\ UNCHANGED <<conf, rc, shared, list, seenFlush, pre, mctf, auList, app>>

EncoderFree(s) == Cardinality(gop[s].busy) < conf.encoders \/ ~StageParallel

ReadyPics(s) == SelectSeq(gop[s].todo, LAMBDA p : IsReady(s, p))

(* With look-ahead the first picture of a GOP is left until the            *)
(* pre-analysis has coded one after it (lastPOCInCache), or the video ends. *)
Analysed(s, poc) ==
  LET pic == PicOf(s, poc)
  IN  (Stages[s] = "gop" /\ conf.lookAhead /\ shared[pic.id].isStartOfGop) =>
        \/ pic.isFlush
        \/ Last(rc.stats).poc > poc

CanStart(s) == EncoderFree(s) /\ ReadyPics(s) # <<>>

(* xEncodePicture: the first ready picture gets a free encoder; if pictures *)
(* are coded one at a time, or this one is left out, it is done at once.   *)
EncodePic ==
  /\ main.at = "code" /\ CanStart(main.stage)
  /\ LET s   == main.stage
         poc == Head(ReadyPics(s))
         inPool == StageParallel /\ ~LeftOut(s, poc)
     IN  /\ Analysed(s, poc)
         /\ gop' = [gop EXCEPT ![s].todo = SelectSeq(@, LAMBDA p : p # poc),
                               ![s].busy = IF inPool THEN @ \union {poc} ELSE @]
         /\ list' = IF inPool THEN list
                    ELSE [list EXCEPT ![s][IndexOf(s, poc)].isReconstructed = TRUE]
  /\ UNCHANGED <<conf, rc, shared, seenFlush, pre, mctf, auList, main, app, failed>>

NextWritable(s) == gop[s].out # <<>> /\ PicOf(s, Head(gop[s].out)).isReconstructed

(* The loop ends with no picture to start or no encoder for it; a blocking *)
(* stage waits (m_gopEncCond) unless it can write a picture.               *)
StopEncoding ==
  /\ main.at = "code"
  /\ LET s == main.stage
     IN  /\ CanStart(s) => ~Analysed(s, Head(ReadyPics(s)))
         /\ main' = [main EXCEPT !.at =
              IF \/ CanStart(s) \/ NonBlocking(s)
                 \/ gop[s].todo = <<>> /\ gop[s].busy = {}
                 \/ NextWritable(s)
              THEN "output" ELSE "block"]
  /\ UNCHANGED <<conf, rc, shared, list, seenFlush, pre, mctf, gop, auList, app, failed>>

(* finishTask, in the thread pool: the picture is reconstructed, and a     *)
(* thread that waits for an encoder of that stage goes on.                 *)
Reconstruct(s, poc) ==
  /\ s \in GopStages /\ poc \in gop[s].busy
  /\ gop' = [gop EXCEPT ![s].busy = @ \ {poc}]
  /\ list' = [list EXCEPT ![s][IndexOf(s, poc)].isReconstructed = TRUE]
  /\ main' = [main EXCEPT !.at = CASE @ = "wait" /\ s = LastStage -> "top"
                                   [] @ = "block" /\ s = main.stage -> "code"
                                   [] OTHER -> @]
  /\ UNCHANGED <<conf, rc, shared, seenFlush, pre, mctf, auList, app, failed>>

(* The oldest picture in coding order is written when it is reconstructed, *)
(* the first of a chunk when the whole chunk is.                           *)
CanWrite(s) ==
  /\ NextWritable(s)
  /\ (LockStep(s) /\ gop[s].chunk # <<>> /\ Head(gop[s].chunk) = Head(gop[s].out))
       => gop[s].busy = {}

Written(s) ==
  IF ~CanWrite(s) THEN list[s]
  ELSE LET o == PicOf(s, Head(gop[s].out))
       IN  [i \in DOMAIN list[s] |->
              [list[s][i] EXCEPT !.isFinished = @ \/ list[s][i].poc = o.poc,
                 !.refCounter = @ - (IF list[s][i].poc \in o.refs THEN 1 ELSE 0)]]

AfterWrite(s) ==
  IF ~CanWrite(s) THEN gop[s]
  ELSE [gop[s] EXCEPT !.out = Tail(@), !.coded = @ + 1,
                      !.chunk = IF @ # <<>> /\ Head(@) = Head(gop[s].out) THEN <<>> ELSE @]

(* xOutputRecYuv: reconstructed pictures go out in the order of their POCs, *)
(* those of the pre-analysis and the first pass nowhere.                   *)
RecYuv(s) ==
  LET ready(p) == ~Learns(s) /\ p \in Pocs(list[s]) /\ PicOf(s, p).isReconstructed
      end      == CHOOSE n \in gop[s].recOut .. gop[s].recOut + Len(list[s]) :
                    ~ready(n) /\ \A p \in gop[s].recOut .. n - 1 : ready(p)
  IN  [i \in 1 .. end - gop[s].recOut |-> gop[s].recOut + i - 1]

GivenOut(s) ==
  IF Learns(s) THEN {p \in Pocs(list[s]) : PicOf(s, p).isReconstructed}
  ELSE ToSet(RecYuv(s))

WrongReleasable(pics, s, coded) ==
  {i \in DOMAIN pics :
     \/ ~pics[i].isNeeded /\ ~pics[i].isReferenced /\ pics[i].refCounter <= 0
     \/ coded >= gop[s].picCount /\ Last(pics).isFlush}

(* xReleasePictures *)
Releasable(pics, s, coded) ==
  {i \in DOMAIN pics :
     \/ /\ pics[i].isFinished /\ ~pics[i].isNeeded
        /\ ~pics[i].isReferenced /\ pics[i].refCounter <= 0
     \/ coded >= gop[s].picCount /\ Last(pics).isFlush}

(* The pipeline when the picture, if any, is written and goes on, and      *)
(* pictures that are not needed any more leave.                            *)
WrittenOut(s, coded) ==
  LET pics == Written(s)
      out  == GivenOut(s)
      left == [i \in DOMAIN pics |-> [pics[i] EXCEPT !.isNeeded = @ /\ pics[i].poc \notin out]]
  IN  Forward([Pipe EXCEPT !.list[s] = left],
              IF CanWrite(s) THEN IndexOf(s, Head(gop[s].out)) ELSE Null,
              Releasable(left, s, coded), s, main.flush)

(* addRCPassStats: the picture, its layer, and if it was coded. *)
Stat(s, poc) ==
  [poc |-> poc, coded |-> ~LeftOut(s, poc),
   tempLayer |-> IF shared[PicOf(s, poc).id].isStartOfIntra THEN 0 ELSE TLayer(s, poc) + 1]

(* storeStatsData: a picture that was left out takes the statistics of the *)
(* last one coded in its layer, from less than a GOP before.               *)
NoSource(stat) ==
  LET same == SelectSeq(rc.stats, LAMBDA x : x.coded /\ x.tempLayer = stat.tempLayer)
  IN  ~stat.coded /\ (same = <<>> \/ stat.poc - Last(same).poc >= GopSize)

NewStats(s) == IF CanWrite(s) /\ Learns(s) THEN <<Stat(s, Head(gop[s].out))>> ELSE <<>>

(* The access unit; a picture that was left out has none. *)
NewAu(s) ==
  IF CanWrite(s) /\ ~LeftOut(s, Head(gop[s].out)) THEN Head(gop[s].out) ELSE NoPic

Output ==
  /\ main.at = "output"
  /\ LET s     == main.stage
         after == AfterWrite(s)
         rec   == RecYuv(s)
         stats == NewStats(s)
     IN  /\ \E st \in {WrittenOut(s, after.coded)} :
              /\ Continue([st EXCEPT !.failed = @ \union
                            Check(\E x \in ToSet(stats) : NoSource(x), "miss stats data")])
              /\ gop' = Counted(st, [gop EXCEPT ![s] = [after EXCEPT !.recOut = @ + Len(rec)]])
              /\ IF Stages[s] = "la"
                   THEN IF main.flush /\ st.list[s] # <<>>
                          THEN main' = [main EXCEPT !.at = "la"] ELSE NextStage(st.list[s])
                   ELSE main' = [main EXCEPT !.at = "collect", !.empty = @ /\ st.list[s] = <<>>,
                                             !.au = NewAu(s)]
         /\ rc' = [rc EXCEPT !.stats = @ \o stats]
         /\ app' = [app EXCEPT !.rec = @ \o rec]
  /\ UNCHANGED <<conf, seenFlush, pre, mctf, auList>>

-----------------------------------------------------------------------------
(* The bottom of encodePicture's loop.                                     *)

(* The access unit, if any, is stored; the loop goes on if the input has   *)
(* not been stored yet or, in the final pass, there is an access unit to   *)
(* come.                                                                   *)
Collect ==
  LET aus     == IF main.au = NoPic THEN auList.aus ELSE Append(auList.aus, main.au)
      started == auList.started \/
                   (main.au # NoPic /\ (~StageParallel \/ Len(aus) > AuDelay \/ main.flush))
      stay    == main.pending \/ (Final /\ aus = <<>> /\ ~main.empty /\ (started \/ main.flush))
  IN  /\ main.at = "collect"
      /\ auList' = [aus |-> aus, started |-> started]
      /\ main' = [main EXCEPT !.au = NoPic, !.stage = 0,
                    !.at = IF ~stay THEN "return"
                           ELSE IF StageParallel /\ gop[LastStage].busy # {} THEN "wait" ELSE "top"]
      /\ UNCHANGED <<conf, rc, shared, list, seenFlush, pre, mctf, gop, app, failed>>

(* A condition variable may also wake its waiter for no reason. *)
WakeUp ==
  /\ main.at \in {"wait", "block"}
  /\ main' = [main EXCEPT !.at = IF @ = "wait" THEN "top" ELSE "code"]
  /\ UNCHANGED <<conf, rc, shared, list, seenFlush, pre, mctf, gop, auList, app, failed>>

WrongReturn ==
  LET out   == auList.started /\ auList.aus # <<>>
      empty == main.empty
  IN  /\ main.at = "return"
      /\ auList' = [auList EXCEPT !.aus = IF out THEN Tail(@) ELSE @]
      /\ main' = [main EXCEPT !.at = "app"]
      /\ app' = [app EXCEPT
                   !.got   = IF out /\ Final THEN Append(@, Head(auList.aus)) ELSE @,
                   !.done  = empty /\ app.state # "ENCODING",
                   !.state = IF empty /\ @ = "FLUSHING" THEN "FINALIZED" ELSE @]
      /\ UNCHANGED <<conf, rc, shared, list, seenFlush, pre, mctf, gop, failed>>

WrongReturnInFirstPass ==
  LET out   == auList.started /\ auList.aus # <<>>
      aus   == IF out THEN Tail(auList.aus) ELSE auList.aus
      empty == (main.empty /\ aus = <<>>) \/ (~Final /\ main.flush)
  IN  /\ main.at = "return"
      /\ auList' = [auList EXCEPT !.aus = aus]
      /\ main' = [main EXCEPT !.at = "app"]
      /\ app' = [app EXCEPT
                   !.got   = IF out /\ Final THEN Append(@, Head(auList.aus)) ELSE @,
                   !.done  = empty /\ app.state # "ENCODING",
                   !.state = IF empty /\ @ = "FLUSHING" THEN "FINALIZED" ELSE @]
      /\ UNCHANGED <<conf, rc, shared, list, seenFlush, pre, mctf, gop, failed>>

(* Back to vvenc_encode and the application.  The first pass gives no      *)
(* access units, and its first flush goes on until all is done.  An access *)
(* unit for which the payload of the application is too small is lost.     *)
Return ==
  LET out   == auList.started /\ auList.aus # <<>>
      aus   == IF out THEN Tail(auList.aus) ELSE auList.aus
      empty == main.empty /\ aus = <<>>
  IN  /\ main.at = "return"
      /\ auList' = [auList EXCEPT !.aus = aus]
      /\ IF ~Final /\ main.flush /\ ~empty
           THEN Call(TRUE) /\ UNCHANGED app
           ELSE /\ main' = [main EXCEPT !.at = "app"]
                /\ \E fits \in {TRUE, ~conf.smallPayload} :
                     app' = [app EXCEPT
                       !.got   = IF out /\ Final /\ fits THEN Append(@, Head(auList.aus)) ELSE @,
                       !.done  = empty /\ app.state # "ENCODING",
                       !.state = IF empty /\ @ = "FLUSHING" THEN "FINALIZED" ELSE @]
      /\ UNCHANGED <<conf, rc, shared, list, seenFlush, pre, mctf, gop, failed>>

(* vvenc_init_pass, when the application is through with the first pass:   *)
(* the stages and their pictures are made anew, m_AuList is kept.          *)
InitPass ==
  /\ main.at = "app" /\ app.passed = app.has /\ app.done /\ ~Final
  /\ rc' = [rc EXCEPT !.pass = @ + 1]
  /\ failed' = failed \union Check(rc.stats = <<>>, "no data from the first pass")
  /\ shared' = Fresh.shared
  /\ list' = Fresh.list
  /\ seenFlush' = Fresh.seenFlush
  /\ pre' = Fresh.pre
  /\ mctf' = Fresh.mctf
  /\ gop' = Fresh.gop
  /\ auList' = [auList EXCEPT !.started = FALSE]
  /\ app' = [app EXCEPT !.state = "INITIALIZED", !.passed = 0, !.done = FALSE]
  /\ UNCHANGED <<conf, main>>

(* The application has everything. *)
Finished == main.at = "app" /\ app.passed = app.has /\ app.done /\ Final

MainStep ==
  \/ Encode \/ Flush \/ TakeInput \/ RunStage \/ ProcessPre \/ ProcessMctf
  \/ InitNextPic \/ GetLists \/ EncodePic \/ StopEncoding \/ Output \/ Collect \/ Return
  \/ InitPass

Next ==
  \/ MainStep
  \/ \E s \in GopStages : \E poc \in gop[s].busy : Reconstruct(s, poc)
  \/ WakeUp
  \/ Finished /\ UNCHANGED vars

Spec == Init /\ [][Next]_vars

(* The application's thread stops only where it waits for the pool, is     *)
(* through, or goes round a stage's loop that changes nothing any more.  A *)
(* step that completes no picture is one of its own, or ends its waiting:  *)
(* this says WF_vars(MainStep) without ENABLED, which TLC takes very long  *)
(* to evaluate for actions of this size.                                   *)
MainStops ==
  \/ main.at \in {"wait", "block"}
  \/ Finished
  \/ main.flush /\ main.at = "pre" /\ PreIdle
  \/ main.flush /\ main.at = "mctf" /\ MctfIdle

MainTurn == \A s \in GopStages : gop[s].busy \subseteq gop'[s].busy

MainFairness == []<>MainStops \/ []<><<MainTurn>>_vars

(* The thread goes on as long as it is not blocked, the application asks   *)
(* for all it can get, and the pool completes every picture.               *)
FairSpec ==
  /\ Spec
  /\ MainFairness
  /\ \A poc \in 0 .. LastPoc : WF_vars(\E s \in GopStages : Reconstruct(s, poc))

-----------------------------------------------------------------------------
(* Properties.                                                             *)

Ids == DOMAIN shared

PicType ==
  [id : Ids, poc : -conf.leadFrames .. LastPoc, prev : [Slots -> Ids \union {Null}],
   isFlush : BOOLEAN, isInitDone : BOOLEAN, isReconstructed : BOOLEAN,
   isFinished : BOOLEAN, isReferenced : BOOLEAN, isNeeded : BOOLEAN,
   refs : SUBSET (0 .. LastPoc), refCounter : Nat]

(* The state has its type. *)
TypeOK ==
  /\ \A k \in Ids : /\ shared[k].ref \in Nat
                    /\ shared[k].poc \in -conf.leadFrames .. LastPoc
                    /\ shared[k].prev \in [Slots -> Ids \union {Null}]
                    /\ {shared[k].isValid, shared[k].isStartOfIntra,
                        shared[k].isStartOfGop} \subseteq BOOLEAN
  /\ \A s \in 1 .. LastStage : \A pic \in ToSet(list[s]) : pic \in PicType
  /\ seenFlush \in [1 .. LastStage -> BOOLEAN]
  /\ \A s \in GopStages :
       /\ ToSet(gop[s].input) \union ToSet(gop[s].todo) \union ToSet(gop[s].chunk)
            \union gop[s].busy \union ToSet(gop[s].out) \subseteq Pocs(list[s])
       /\ gop[s].lastCodingNum \in -1 .. LastPoc + GopSize
  /\ main.at \in ToSet(Stages) \union {"app", "top", "run", "lists", "code", "block",
                                        "output", "collect", "wait", "return"}
  /\ app.state \in {"INITIALIZED", "ENCODING", "FLUSHING", "FINALIZED"}

(* PicShared::m_refCount is the number of pictures in all the stages that  *)
(* use the buffer, as their own or as a previous one, whichever way they   *)
(* came in and whichever way they left: no use is released twice, and none *)
(* is forgotten, which would cost a buffer for good.                       *)
RefCountsExact ==
  LET places == UNION {{s} \X (DOMAIN list[s]) \X (0 .. NumPrev) : s \in 1 .. LastStage}
      use(u) == LET pic == list[u[1]][u[2]] IN IF u[3] = 0 THEN pic.id ELSE pic.prev[u[3]]
  IN  \A k \in Ids : shared[k].ref = Cardinality({u \in places : use(u) = k})

(* A buffer is not given to a new input picture while a picture of a stage *)
(* still reads it: what a picture holds is itself, and the pictures that   *)
(* came just before it in the video.                                       *)
LinksIntact ==
  \A s \in 1 .. LastStage : \A pic \in ToSet(list[s]) :
    /\ shared[pic.id].poc = pic.poc
    /\ \A i \in Slots : pic.prev[i] # Null =>
         shared[pic.prev[i]].poc \in {pic.poc - i} \union (IF i = 1 THEN {pic.poc} ELSE {})

(* No CHECK of the code fails: the flush flag is not set on a picture that *)
(* is already being coded, GOP entries are handed out to their pictures,   *)
(* the filter finds its picture, coding starts with an intra picture.      *)
ChecksHold == failed = {}

(* A picture is filtered with all the pictures of the video around it that *)
(* are in the filter's range, whatever the delays and flushes.             *)
FilterSeesNeighbours ==
  [][ /\ main.at = "mctf" /\ mctf'.filterPoc # mctf.filterPoc
      /\ \E pic \in ToSet(list[main.stage]) : pic.poc = mctf.filterPoc
      => Window(mctf.filterPoc) \intersect (-conf.leadFrames .. app.has - conf.leadFrames - 1)
           \subseteq Pocs(list[main.stage]) ]_vars

ToCode == {p \in 0 .. app.has - conf.leadFrames - 1 : ~IsLeadTrail(p)}

(* A picture that waits to be coded or is being coded predicts from all    *)
(* pictures its GOP entry says, unless the video has no such picture, and  *)
(* none of these has been released: the reference lists keep what is still *)
(* needed, across GOPs, and the counters what is in use.                   *)
ReferencesKept ==
  \A s \in GopStages : \A poc \in ToSet(gop[s].input) \union ToSet(gop[s].todo) \union gop[s].busy :
    LET refs == PicOf(s, poc).refs
    IN  /\ refs \subseteq Pocs(list[s])
        /\ ~shared[PicOf(s, poc).id].isStartOfIntra => refs = Active(poc) \intersect ToCode

(* Access units come out in coding order, and reconstructed pictures in    *)
(* the order of the video; when the application is told that all is done,  *)
(* it has each of them once.                                               *)
OutputComplete ==
  /\ \A i, j \in DOMAIN app.got : i < j => CodingNum(app.got[i]) < CodingNum(app.got[j])
  /\ \A i \in DOMAIN app.rec : app.rec[i] = i - 1
  /\ app.done /\ app.passed = app.has /\ Final =>
       /\ ToSet(app.got) = ToCode
       /\ Len(app.rec) = Cardinality(ToCode)

(* When the second pass begins, rate control has seen each picture of the  *)
(* video that will be coded, once, in coding order, also those that were   *)
(* left out, although the first pass ends within a single call; and no     *)
(* access unit of the first pass is left, of which the list outlives it.   *)
FirstPassComplete ==
  rc.pass = 1 =>
    /\ {x.poc : x \in ToSet(rc.stats)} = ToCode
    /\ \A i, j \in DOMAIN rc.stats :
         i < j => CodingNum(rc.stats[i].poc) < CodingNum(rc.stats[j].poc)
    /\ app.state = "INITIALIZED" => auList.aus = <<>>

(* An application that passes all its pictures and then flushes comes to   *)
(* an end: an input picture does get a buffer, a call does return, and the *)
(* stages do run empty.                                                    *)
EncodingEnds == <>Finished
=============================================================================
