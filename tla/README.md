# A model of the deepenc video encoder

deepenc is a fork of the VVenC H.266/VVC encoder. This directory holds a TLA+
model of its core: how one picture becomes an access unit, by which threads, in
which order, in which buffers. It has modules that TLC checks on small
instances, and proofs that the TLA+ proof system checks for every instance.

Sources are named relative to `src/source/Lib` (`EncGOP.cpp` is
`EncoderLib/EncGOP.cpp`). `PROJECT.json` maps every definition to the lines it
models.

## 1. The system

An application passes pictures to `VVEncImpl::encode`, and then calls with
`nullptr` (flush) until it is told that all is done. `EncLib::encodePicture`
runs a chain of stages, each an `EncStage` with a sorted list of pictures:

    application -> EncLib -> PreProcess -> [MCTF] -> [look-ahead EncGOP]
                          -> EncGOP -> access unit

One thread, the caller's, runs all the stages. Everything else is done by the
workers of one thread pool: lines of the temporal filter, CTUs of pictures, the
end of pictures. (`EncLib::initEncoderLib` has a place for `HWPreAnalysisStage` at
the head of the chain, but `VVEncImpl::init` makes the analyser that it asks for
only afterwards, so that the stage is never linked.)

| Component | State | Operations | Interacts with | What is hard | Correct when |
|---|---|---|---|---|---|
| `NoMallocThreadPool` | circular queue of slots FREE, PREPARING, WAITING, RUNNING; counters and barriers; parked workers | add a task, find one, process it, wait for a counter, shut down | run by workers; used by EncSlice, EncGOP, MCTF, EncLib | no lock on the queue, growth during scans, tasks that are not ready are put back, waiters destroy counters | one holder per slot; a task runs when its barriers are open, to its end, once; nobody comes back from a wait too early; everything ends |
| `EncSlice` CTU tasks | `m_processStates`, a stage per CTU; `Picture::m_tileColsDone` | ready check, the eleven stages of `xProcessCtuTask` | neighbours in the same picture, lines of reference pictures | the guards of a stage look at a few neighbours and rely on those having waited for others; tiles and wavefront modes change who waits for whom | stages see final or unfiltered samples as they need, never collide, and the picture ends |
| `EncGOP` | lists of pictures: input, processing, rate-control update, output, free picture encoders | initialise pictures, build processing lists, start, end, write and release pictures | pool tasks through `m_gopEncMutex`; EncLib waits for it | pictures end in any order; blocking and non-blocking forms; chunks (lockstep); inter-frame parallelism | coding order respects references, output follows coding order, rate control does not depend on timing, no wait for ever |
| `EncLib`, `EncStage`, `PicShared` | picture buffers with a use count, stage lists, flush marks, access units | take input, run stages, forward, release, collect output | application; all stages | a fixed number of buffers shared by stages with different delays; flush overtaking data | buffers counted exactly, never given away in use, never exhausted for good; all pictures out once and in order |
| `PreProcess`, `GOPCfg` | next picture, GOP entries, the last GOP | entries for pictures, links to previous pictures, start of the last GOP | GOP entries are read by all later stages | the last GOP is changed when the flush is seen, while its pictures are on their way | entries match pictures; references kept as long as needed |
| `MCTF` | filter position, last picture | filter a picture with its neighbours, release | pool (lines of blocks), buffers | start, end, lead and trail frames | all existing neighbours are there |
| Rate control | statistics of pictures | set parameters, update | called by EncGOP | order of updates | see EncGOP |
| Library lifecycle | UNINITIALIZED, INITIALIZED, ENCODING, FLUSHING, FINALIZED; process-wide globals | init, encode, flush, uninit | application | calls in unusual order, several instances | documented orders work |
| TU scheduler (`TUScheduler`, `TUPipelineDAG`, `PictureDAG`) | pools of work units with a count of what each waits for, the CTUs done, policy, active frame | run a mode trial, run a caller's pool, submit and advance a frame, set the policy, destroy | mode search, tests, bench | a scan executes what becomes ready behind and before it; a trial takes the pool a frame is in; pools are built again in the same memory | units run once, after what they wait for, and all of them; CTUs after their neighbours |
| `RingBuffer` | mask of free slots in words, cursor | alloc, free, getFreeCount, from any thread | TU scheduler | no lock; a search that loses a word passes over a slot; counts of several words | a slot has one owner, none is lost, alloc fails for a reason |
| Entropy coding and bitstream (`BinEncoder`, `Contexts`, `BitStream`, `NALwrite`, `xCopyAu`) | registers of the arithmetic coder, bytes held back for a carry, probability models, substream sizes, NAL units | encode a bin, finish, end a substream, write NAL units, copy an access unit | CTU tasks, EncGOP, application | a carry through a run of 0xff of any length, the last bits, emulation prevention across substreams | the stream is a number in the final interval, and comes apart into what was written |
| Mode decision, prediction, transform, filters, ML tools | samples, contexts | numerical kernels | called in a CTU task | not concurrency | bit-exactness, which tests compare |

`PROJECT.json` lists all components with their status, and under `hazards`
each point of the code where something can go wrong that a test would hardly
reach, with the properties that cover it.

## 2. Modules

| Module | Models | Kind |
|---|---|---|
| `CtuWavefront` | `EncSlice::xProcessCtuTask` for one picture, or more with inter-frame parallelism | state machine |
| `CtuWavefrontProofs` | - | theorems about `CtuWavefront` |
| `TaskPool` | what the thread pool promises | abstract specification |
| `ThreadPool` | `NoMallocThreadPool` step by step | state machine, implements `TaskPool` |
| `ThreadPoolProofs` | - | theorems about `ThreadPool`, and that it implements `TaskPool` |
| `GopStructure` | `GOPCfg`: coding order, references, reorder delay | operators |
| `Lists` | the filter of a list (`SelectSeq`), as a recursive function | operator |
| `ListProofs` | - | lemmas about lists, and induction over a set of numbers |
| `StagePipeline` | `EncLib`, `EncStage`, `PicShared`, `PreProcess`, `MCTF`, `EncGOP` as stages | state machine, uses `GopStructure` |
| `StagePipelineProofs` | - | theorems about the buffers and the filter of `StagePipeline` |
| `PictureCoding` | what the GOP encoder promises | abstract specification |
| `GopEncoder` | `EncGOP` with its locks, waits and lists | state machine, uses `GopStructure`, implements `PictureCoding` |
| `GopEncoderProofs` | - | lists, coding order and types of `GopEncoder` |
| `GopEncoderPromise` | - | theorems about `GopEncoder`, and that its steps are those of `PictureCoding` |
| `RingBuffer` | `RingBuffer`, access by access | state machine |
| `RingBufferProofs` | - | theorems about `RingBuffer` |
| `TUScheduler` | `TUScheduler` with the graphs it runs, unit by unit | state machine |
| `TUSchedulerProofs` | - | theorems about `TUScheduler` |
| `BinEncoder` | `BinEncoderBase`, `BinEncoder` | state machine with the exact interval beside it |
| `BinProbModel` | `BinProbModel` at full width | operators |
| `ByteStream` | substream sizes, NAL units, start codes | state machine with a decoder to compare with |
| `MC...` | constants of the runs | |

The models meet at their borders. `StagePipeline` takes a picture's coding as
one step of the pool (`Reconstruct`), which `GopEncoder` shows in detail, for
one stage; the start and end of a picture in `GopEncoder` are the tasks that
`ThreadPool` has as clients; the ready check and the stages of those tasks are
`CtuWavefront`. In each, what comes from another component is the promise that
the other's module checks. The pre-analysis of the look-ahead is in
`StagePipeline` as a second EncGOP stage, and in `GopEncoder` as the blocking
modes. The scheduler and the entropy coder work inside one CTU task or one
picture and meet the others nowhere; `BinEncoder` takes from `BinProbModel` what
`MCEntropy` evaluates.

`CtuWavefront`, `StagePipeline` and `GopEncoder` are configured by a variable that
never changes (`conf`, `mode`) and that `Init` chooses from a constant set, so
that one run has all configurations. `MCSequential` has the three parts that
one thread runs by itself in one run: the scheduler (`MCTUScheduler`), the arithmetic
coder and the byte stream (`MCEntropy`). They share no variable; one moves while the
others are at their beginning, so that the run has the states of each and no products of them.

Names that start with `Wrong` are faulty variants of the definition after them.
Nothing uses them. They are there so that each property can be seen to fail: the
`mutants` in `PROJECT.json` say which variant breaks which property in which run.

### CtuWavefront

`processStates[p][c]` is `m_processStates`, `running` the tasks inside a worker,
`tileColsDone` the line counters. `StartStage` takes the whole condition of a
stage, `StageDone` its end, which stores the next state; between them other CTUs
go on, so stages overlap as workers do. The code reads the neighbours one after
the other, twice (ready check, then task); that the guard may be one atomic step
is itself a property, `ReadyIsStable`: what is ready stays ready.

Where the code falls through from one stage to the next in one call
(`ALF_RECONSTRUCT` to `CCALF_GET_STATISTICS`, and on to `FINISH_SLICE`) the
model ends one stage and starts the next, which allows more interleavings.
Samples are regions of a CTU (inner part, strips at the borders): what a stage
reads and writes is taken from the reach of its filter. With inter-frame
parallelism the ALF unit is one CTU high (`vvencCfg.cpp:986`) and there is one
tile row (`vvencCfg.cpp:2204`). `conf.pics` are the pictures in flight: without
inter-frame parallelism a picture starts when those it predicts from are
complete, and one is enough.

### ThreadPool

Steps are the accesses to shared state: one per load, compare-and-swap or store
of a slot, one per operation on a counter or barrier. A worker that puts a slot
to RUNNING only to find its barriers closed is visible to the others in between.
Only the barriers of one task are looked at in one step, where the code reads them one
by one (`NoMallocThreadPool.cpp:230`): barriers of a task in the queue only open.
The queue is a sequence that grows by a chunk; `m_nextFillSlot` may lag behind.
Tasks are the encoder's: several stages per task, a ready check, tasks that need
others, barriers and counters as EncGOP and MCTF use them. `exit` and the
spinning, parked and woken workers are modelled, the time limits are choices.
Memory orders weaker than sequential consistency are not. The encoder has one
thread that adds tasks, and so have the runs; the module and its proofs allow any
number.

`TaskPool` states the promise: a task is new, blocked, free, running or done;
it runs alone, after its barriers; a wait returns when all tasks of its counter
are done. `KeepsPromise` is the refinement, with the status of a task computed
from slots, workers and progress.

### StagePipeline

`shared` are the `PicShared` buffers (use count, POC, links to previous
pictures), `list[s]` the picture list of a stage, `main` where
`EncLib::encodePicture` is. One action per turn of a stage: `ProcessPre`,
`ProcessMctf`, and for EncGOP the parts of `processPictures` (`InitNextPic`,
`EncodePic`, `Output`), because pictures of the pool end in between
(`Reconstruct`). `Encode` and `Flush` are the calls of the application, in the
order the interface allows. Every `CHECK` that the modelled code has is in
`failed`. A picture buffer that was released is given to the next input picture.

With `conf.lookAhead` there is a pre-analysis: a stage of EncGOP that blocks,
before the one that encodes. The latter goes in chunks of the coding order
(lockstep), and starts the first picture of a GOP only when the pre-analysis has
coded one of a later POC after it or it is marked as flushed (`Analysed`,
`EncGOP.cpp:433`). Which stage is called how often in one `encodePicture` is as in
the code, because it decides how far the pre-analysis is ahead.

With two passes (`conf.passes`) the application encodes the video twice. `rc` has the
pass and the statistics that RateCtrl collects: in the first pass, and by the
pre-analysis. A first pass gives no access units, and its first flush goes round in
`VVEncImpl::encode` until all is done (`Return`). `InitPass` makes the stages and their
buffers anew and keeps the list of access units, as the code does. With temporal
down-sampling (`conf.tempDown`) pictures of the highest layer after its first are
left out (`LeftOut`) and take the statistics of another picture; the CHECKs that there
is one are in `failed`. Scene cuts, which change what is left out, are not modelled.

`conf.smallPayload` lets the call that fetches an access unit fail for its size: the
access unit is lost (`fits` in `Return`). Only `pipeline_small_payload` has it.

Left out: parallel GOPs and inter-frame parallelism (both are in `GopEncoder`), QP
cascades, IDR periods, and the replacement of references
that do not exist in the first GOPs (they are dropped). Writing a picture, output
of reconstructed pictures and release are one step of the one thread.
`MaxNumReorder` takes the largest delay of all layers where the code takes the top
layer; for the lists in use both are the same.

### GopEncoder

The thread of the encoder with every place where `m_gopEncMutex` is taken or
`m_gopEncCond` waited for, the lists of `EncGOP.h:164-169` under their names, and
`mode` for the configuration: number of picture encoders, blocking (the
look-ahead's pre-analysis) or not, lockstep, inter-frame parallelism, parallel
GOPs, ALF with temporal prediction, a first pass that leaves out pictures.
`xGetProcessingLists` is split at its loops. `accounted` is what the rate control
has evaluated, in order, the one variable the code does not have as such; with a
rate cap only the pictures that `isSceneCutCheckAdjQP` marks are kept in it.

With a rate cap a GOP is initialised when it is complete and the update list
empty, lists are made for one GOP, and after a scene cut (`mode.cuts`) most of a
GOP waits for its second picture. `xUpdateRateCap` goes through the update list
picture by picture, as pictures end meanwhile, and `Write` comes after it.

The break for missing look-ahead data is in `StagePipeline`; `frames = 0` is the
blocking form with one picture encoder.

`PictureCoding` says what is promised: a picture is started when the pictures it
predicts from are reconstructed, or under inter-frame parallelism have been started,
pictures are written in coding order, each once, and all that arrive are written in
the end. Nothing is promised of the order in which pictures that overlap end:
`finishTask` waits for the picture's own CTUs only. These wait for lines of the
reference picture (`CtuWavefront`), but not for its last stage nor for its
`finalizePicture`, so that a picture may be marked before one it predicts from.

### RingBuffer

One step is one access to `m_pFreeMask` or `m_head`: `LoadWord`, `Cas` (which
fails also when another bit of the word changed, `Lose`), `StoreHead`, the atomic
or of `Free`, one word of a count. `Free` is called with slots in use only: its error
returns for a null or foreign pointer and for a slot already free are left out. `mask` is the set of free slots, a word of it the
slots with one quotient by `WordBits`. Beside it the model keeps for each call what
was free when it began and what other threads changed since, in which the
properties are stated.

### TUScheduler

`Look` is the test of one unit, `Execute` its execution with `OnComplete`, `EndOfScan`
and `EndOfAdvance` the loops around a scan. Two pools: that of the scheduler, which
trials and frames use in turn, and one that a caller builds and gives to
`executeWorkUnits`, after a run also again in the same memory (`RebuildPool`, as
`SchedulerBench.cpp:142` does). `depCount`, `dependents` and `tuId` are the fields of
`WorkUnit`; -1 marks what was executed. `Neighbours` is `PictureDAG` as `submitFrame`
asks it, with the address it computes for the upper right neighbour in the last
column. `LoseTarget` is another scheduler that takes `g_pSchedulerTraceTarget`, on
which `onComplete` depends; that CTUs of another scheduler mark this one's while it is the
target (`TUScheduler.cpp:306-312`) is left out. What an executor computes is left out. `submitFrame` is
switched off in `EncSlice.cpp:819`; the model calls it as the tests do.

### BinEncoder, BinProbModel, ByteStream

`BinEncoder` has the registers of the code, with bytes of `ByteBits` bits. `exact`
says what the last call does to the interval in exact arithmetic; the bytes given
to the bitstream are those of the last call, so that the state space is finite
although streams are not. A less probable value takes any part of the range up to
half of it; that `BinProbModel` gives no other, that the number of bits to
renormalise by is right, and that estimates keep their width is evaluated for every
state, range, window, QP and initial value, at full width, by the assumptions of
`MCEntropy`.

`ByteStream` has the bytes that matter: 0, those up to 3, others. It counts the
size of a substream (`countStartCodeEmulations`), builds NAL units, pads and copies
an access unit as `xCopyAu` does. Where EncGOP appends as many zero words as a minimum size
asks for (`EncGOP.cpp:2844-2854`), `CabacZeroWordPadding` appends one at most, a bound. `Rbsp`, `Entry` and `NalUnitsOf` are what a decoder
does, by the standard.

## 3. Runs

| Run | Instance | Shows |
|---|---|---|
| `wavefront` | 3x3 CTUs. One picture: no tiles, or columns and rows of tiles (1+2 CTUs), filters across tiles or not, tiles in parallel or not, WPP, IBC delay. Two pictures with inter-frame parallelism, the second predicting from the first | neighbours see what they must, no two stages collide, reference lines are final, termination |
| `thread_pool` | two workers, a queue of two slots, four tasks of two pictures with barriers and a counter that is used twice | the pool implements `TaskPool`, nothing is used after a wait, everything ends |
| `pipeline` | GOPs of four in seven configurations: temporal filter and two picture encoders, 0 to 7 pictures; two encoders, no filter, 12 pictures; one picture at a time with lead and trail frames; look-ahead with three encoders; look-ahead one picture at a time; two passes, with two encoders and with one picture at a time | buffers, references, order, statistics for the second pass, termination |
| `gop_encoder` | two GOPs of eight in twelve modes | no lost encoder, no wait for nothing, rate control deterministic, a rate cap ends one GOP before the next, implements `PictureCoding` |
| `ring_buffer` | three threads, four slots in words of three bits, five calls | slots exact, alloc fails only under contention, counts are off by no more than what changed |
| `sequential` | the scheduler: trials of two and three TUs, pictures of 3x3, 2x2, 3x1 and 1x2 CTUs, five calls; the coder: bytes of two bits, six bytes held back; the stream: five bytes of substreams, two NAL units | units after those before them in their TU and, under `TU_SEQUENTIAL`, in the TUs before, all of them, CTUs after their neighbours, an undisturbed frame ends; carries are kept and contained, the finished stream is in the final interval; entry points and the byte stream are what a decoder needs |
| `scheduler_stage_global` | one trial of two TUs | violation: under `STAGE_GLOBAL` stages do not go one after the other |
| `pipeline_early_flush` | a flush before the first picture | violation: the flush at the end does not return |
| `pipeline_look_ahead` | look-ahead, two encoders, GOPs of two, 13 pictures | violation: the flush does not return |
| `pipeline_small_payload` | one or two pictures, an access unit may not fit | violation: an access unit is lost though the call is repeated |
| `gop_encoder_first_pass` | a first pass with two encoders | violation: a picture encoder is lost, the wait never ends |
| `gop_encoder_rate_cap` | a rate cap and a GOP after a scene cut | violation: QPs are not adjusted by the picture that should tell how |

### Bounds, and why they are enough

- 3x3 CTUs give a CTU with all eight neighbours; a tile border at the first
  column and row puts CTUs on each side of it; guards look at most two CTUs
  far. `NumThreads` is two: a conflict is between two stages.
- Two pictures of three lines: a line that is done, one being done and one not
  begun in the reference. Longer chains of pictures meet only pairwise.
- The pool needs two workers for a slot to be hidden from one by the other, and
  a queue shorter than the number of tasks to grow.
- 12 pictures in `pipeline` and 13 in `pipeline_look_ahead` are more than there are
  buffers (11, the code's sum `m_maxNumPicShared` for these delays), so that
  input waits for release; 0 and 1 stop before the first GOP and in it; after 7
  the flush overtakes a second GOP of which pictures are already with the GOP
  encoder. The look-ahead configurations of `pipeline` end in an incomplete GOP with
  parallel encoders, as a complete one is what `pipeline_look_ahead` is about. With two
  passes, 7 pictures and GOPs of four leave pictures out of a complete and of an
  incomplete GOP; the one layer they are in has its source in the same GOP.
- Pictures 0 to 16 with GOPs of eight are two complete GOPs, and lists hold
  pictures of both. Two encoders make pictures end in either order; lockstep with
  three has chunks of one and of more.
- Ring buffer: the last word is partial, a word has several bits, two threads can
  take or give back bits while a third is in its search.
- Scheduler: five calls are a frame with two advances between which a trial or a
  change of policy happens, or a pool that is built, run, built again and run.
- Arithmetic coder: with bytes of two bits, a run of three bytes 0xff already needs
  a carry through all, and the layout of the registers is that of the code
  (`WriteBelow` is 3 of 8 bits as 12 of 32). Bytes of three bits give the same result.
- Byte stream: four zeros in a row across the border of two substreams, with a
  3 or another byte after them, need five bytes.

### Fairness

- Workers: the pool keeps threads that the system schedules, so each worker
  that can take a step does at some time (weak fairness per worker, per client,
  per CTU task, per picture being coded: with inter-frame parallelism the pictures whose
  lines its CTUs wait for have been started before it). Only the fact that a task that stays
  ready is found needs more than a worker, and that is what `ThreadPool` checks.
- The thread of the application goes on: in `StagePipeline`, `MainFairness` says
  that it does not stop while it has a step, written without ENABLED because
  TLC takes very long over it. In a first pass it goes round without waiting, as in the
  code; the pool's fairness ends that. In `GopEncoder` pictures arrive and the stage is
  called again and again (strong fairness of `Arrive` and `CallStage`):
  `encodePicture` takes its input and runs its stages before each wait.
- The scheduler: a call runs to its end, and who submitted a frame calls
  `advanceFrame` until it is no longer active, as its tests do.
- Nothing is assumed of spurious wake-ups, nor that the application passes
  another picture, nor that a compare-and-swap succeeds.

`CHECK_DEADLOCK FALSE` is in `wavefront`, where nothing is left to do when the
pictures are finished (that no set of CTUs blocks itself is
`EveryPictureFinishes`), and in `ring_buffer` and `sequential`, which
stop when the bound on calls, bytes or units is reached. In all other runs TLC looks
for deadlocks.

Each property has a mutant in `PROJECT.json`, a plausible mistake in a definition
that its run finds.

## 4. What is proved

Six components have proofs: the CTU tasks, the thread pool and the GOP encoder with the
promises they keep, the stages and their buffers, the ring buffer and the TU scheduler. A theorem holds for every value of the constants that
the named assumptions of the module admit, not only for the instances of the runs;
each invariant was first checked by TLC.

### CTU tasks

For every picture size, tile layout, number of pictures and workers and every
configuration (`SizeAssumption`: at least one CTU; `ConfigsAssumption`: tiles are
intervals, a picture refers to pictures of the same configuration;
`IfpAssumption`: pictures that wait for lines of others have one row of tiles,
`vvencCfg.cpp:2204`).

`CtuWavefrontProofs`:

- `TypeInvariant`, `TypeCorrect`: types, nothing runs on a CTU that is done, and
  only the last CTU of a tile line takes the stages after SAO.
- `PredictionUnfiltered`: a CTU that is not yet encoded has no neighbour that it
  predicts from (left, above left, above, above right, within its tile, and to
  the left by the reach of IBC) which has begun to be reshaped or deblocked. The
  code checks two neighbours and says in comments that "this implies" the rest.

`PredictionSeesUnfiltered` is not inductive: it speaks of CTUs that are ready to
be filtered, not of why the others are encoded. `EncodeInv` adds three facts:
what has started to be encoded has everything to its left in the tile line
encoded (`EncodedFromLeft`); what has started to be deblocked has the CTUs to
its right, up to the delay, encoded (`RightEncoded`) and the one to the bottom
right (`BottomRightEncoded`). Each follows from the guard of one stage when it
starts (`EncodeReadyLeft`, `DeblockReadyRight`, `DeblockReadyBottomRight`) and
stays because states only rise (`StepEffect`). `EncodeInvUnfiltered` then shows
that a neighbour that has started to be deblocked has its right and bottom-right
CTUs encoded, hence those to the left of these, and so every CTU that predicts
from it.

The filters (also in `CtuWavefrontProofs`):

- `ReadinessStable`: what is ready stays ready (`ReadyIsStable`, an action property).
  States and line counters only rise (`Grows`), and each condition of
  `xProcessCtuTask` asks for a state or counter to be above a bound.
- `FiltersFindFinishedInput`: SAO finds deblocked samples on all eight sides, ALF
  finds samples after SAO on all sides, no line is filtered before its statistics.

The invariant rests on the first: as a guard stays true, a CTU that has started a
stage still satisfies the guard of that stage and of all stages it took before
(`Allowed`, by `StagesTaken` for the stages that it skips). What `FiltersSeeFinishedInput`
says of a side that a stage does not check follows from what the CTU on that
side, or the one behind it, had to wait for. One side is not told by any guard: SAO goes
along a line in order, which `SaoLeft` states and which is kept because a CTU
starts a stage only after its left neighbour has left it.

The samples (also in `CtuWavefrontProofs`): `NoConflicts`, no two tasks that run side by side touch the same
samples with one of them writing. A stage that writes or reads samples of a CTU has
left its mark on the state of that CTU or of the last one of its tile line
(`WriteState`, `ReadState`): the samples tell between which two stages that CTU is, and a
writer and a reader of the same samples would want it to be in two places.

The line counters:

- `CountersComplete`: a finished picture has counted each line of each tile column once.
  A counter is the number of last CTUs of tiles that are past CCALF, and one more when
  it is complete and announced (`CountersExact`).
- `ReferencesAreFinal`: a CTU that is encoded finds the reference lines it may use final,
  though only the first CTU of a line asks, and only for the lowest line. Lines leave
  CCALF downwards (`CcalfDownwards`, this is where one row of tiles is needed), and a CTU in the middle
  of a line is encoded after the first.

### Thread pool

For every number of workers, clients and tasks, every chunk size and every program
of the clients. `ProgramAssumption` says that the clients are finitely many and
name tasks; `TasksAssumption` that a task's own
barrier is not that of a counter, as in all calls of `addBarrierTask`;
`TaskAssumption` that a task is one call of `addBarrierTask`; `WaitAssumption` that
a client waits on a counter that nobody else adds tasks with (MCTF.cpp:1364, 1527,
where the counter is a local variable).

`ThreadPoolProofs`:

- `SlotsHeldOnce`: a slot that is filled or processed belongs to one thread,
  though the queue has no lock and grows while it is scanned.
- `CountersExact`: a `WaitCounter` is the number of its tasks that are being
  filled in or are in a slot and not reported done; its barrier is locked exactly
  while there are any.
- `TypeCorrect`: positions stay in the queue, counters do not fall below zero.
- `WaitReleases`: after a wait no worker is in a task of that counter.

`OneHolderPerSlot` needs that positions are in the queue (`PoolType`), that a
client in `addBarrierTask` has a task to add (`AddsTask`) and that what waits or
runs is a task (`FilledHasTask`); together they are `HolderInv`. The proof goes
in two moves: `WorkerStepEffect` and `ClientStepEffect` reduce the 24 actions to
what they do to the slot the thread is at (leave, claim, put back, free; leave,
take, fill), and the invariant is shown to survive those. For the counters,
`WorkerUnfinished` and `ClientUnfinished` say how the two sets that are counted
change by at most one element, `WorkerCounts` and `ClientCounts` how the counter
does. That the counter stays in `Nat` follows only then, so `TypeOK` is last.
`WaitReleases` adds `WaitInv`: behind a wait, what counts for its counter was added since
(`AddedSince`). It begins to hold when the client reads 0, because the counter is
the size of the two sets.

`PromiseKept` (also in `ThreadPoolProofs`): every step of the pool is a step of `TaskPool`, or
leaves it as it is. The status of a task is computed from slots, workers, barriers and
progress, so the proof needs to know that a task is in one slot (`OneSlotPerTask`),
with its barriers or, once a worker has gone past them, with none (`BarriersOfTask`,
`PassedBarriers`), that a worker that is on its way out of a task has ended it
(`EndedIsDone`) and nobody else has (`OthersAreNot`), and that a task is nowhere before
it is added (`NotYetAdded`): `TaskInv`. A barrier that is no counter's is opened by a task
that is done (`OpenedByTask`). Steps on scans, claims and parking (`QuietStep`) change no
status; the others add a task, start it, go on to its next stage, end it, or open
barriers, and each is one step of the promise. A client's wait maps to the promise's
wait by `CountersExact`.

### GOP encoder

For every number of pictures, every structure of the GOPs and every mode
(`GopAssumption`: the entries of a GOP are its pictures, the last one first, and a
picture of the same GOP is referred to only after its own entry, as
`GOPCfg::xCreateGopList` collects the references that are available and a CHECK there
refuses future GOPs; `ModesAssumption`: the combinations that
`vvenc_init_config_parameter` and `EncCfg` admit).

`GopEncoderProofs` has the lemmas that the operators need. `CodingNums` counts GOP by
GOP, so that GOPs are in order (`GopsInOrder`) and no two pictures have one number
(`NumbersDiffer`), which is arithmetic with a quotient and a remainder. `Keep`, `Inserted`,
`CodingOrder` and `Reordered` are recursive functions over a list; what they return is proved by
induction over a set of numbers (`Upwards`): a list stays sorted, what is kept is a
part of it in the same order (`KeptOf`), and what is taken from the input with
inter-frame parallelism finds its references listed or taken before it (`TakenInOrder`).

`GopEncoderPromise`:

- `TypeCorrect`: no picture encoder is lost or used twice, and lists have their type. It
  assumes that no mode leaves pictures out with two picture encoders or more: without that
  it is false, as `gop_encoder_first_pass` shows. That no encoder is used twice
  holds all the same (`CountInv`), so the other theorems do without that assumption.
- `GopsAfterEachOther`: with a rate cap a GOP is coded when all GOPs before it are finished.
- `AlwaysWaitsForSomething`: the CHECK before `m_gopEncCond.wait` holds in every mode.
- `RateControlKnowsTheSame`: in lockstep what is evaluated when a picture's parameters are set are
  the chunks before the picture's own, as they would be if every picture were finished at once
  (`RateControlDeterministic`).
- `PromiseKeptSafely`: every step is a step of `PictureCoding` or changes nothing there; this is
  `KeepsPromise` without its liveness. It assumes that a rate cap with inter-frame parallelism
  comes without scene cuts (else a picture may overtake one of the list that waits for its QP),
  and that where inter-frame parallelism leaves pictures out there is one picture encoder.
  The modes of the run satisfy both.

`TypeOK` speaks of single lists, but is kept only because of how they relate. `PlaceInv`
says that what was initialised is in exactly one of input, reorder list, processing
list, a picture encoder and the finished pictures; `OrderInv` that what is written, then
what waits to be written, then what has come is in coding order, and without a gap as long as
more are to come; `CountInv` that free encoders, pictures in encoders and the one just
taken are no more than there are encoders, and `NoneLost` that they are no fewer.
From `OrderInv` follows that whatever comes before an initialised picture is initialised
too (`EarlierBegun`). The theorems use it in the same way: what a listed picture
depends on comes before it, so it is in one of the places of `PlaceInv`, and all
but one are ruled out. `GopInv` rules them out for a rate cap (what is listed or coded is still
in the update list, and a list is made only when that is empty), `BlockInv` without chunks (what is
listed comes before the input), `QueueInv` with inter-frame parallelism (each listed picture finds
its references done or before it in the list, and the first one is taken).

`RateControlKnowsTheSame` compares the code's lists with chunks that are made from nothing but
what is done (`ChunkAfter`). `LockInv` says that what is evaluated is the first n of those
(`ChunkInv`), that the update list is empty or the next, and that only pictures of it are being
coded (`CodedInv`). The step that matters is the one that takes a chunk from the input (`ChunkTaken`):
the input is then all that is initialised and not done (`AllDone`), its first
picture is the first that is not done at all (`FirstIsHead`), and all of its GOP are in it, because GOPs
arrive whole and are initialised in one go (`ArriveInv`: the numbers of the pictures
that are there leave no gap, `SmallerNumbers`, so that `MayInit` holds for each). What
`getReorderedProcList` takes, up to the size of the chunk, are then the first ones that fit
(`FirstTaken`), and a list in coding order is known by its set (`SortedEqual`). The chunk is not
evaluated before all of it is done: the output waits while encoders are busy
(`ChunkOpen`), and the loop leaves no picture of a chunk behind unless all encoders
have one (`LoopEndsBlocked`), of which a chunk needs no more than there are (`ChunkSmall`). Nothing is
assumed of the temporal layers: a picture of the chunk may wait for the filter parameters of
one in a later chunk, which would hold up the chunk but not change it (`Blocked`).

### Stages, their buffers and the filter

For every GOP, every set of configurations (`PipelineAssumption`: fields are of their type, lead
frames and ranges are not negative, and no more than the 64 lead frames `vvencCfg.cpp:784`
allows) and every length of the video; nothing is assumed of
the GOP lists.

`StagePipelineProofs`:

- `RefCountsStayExact`: the use count of a buffer is the number of pictures, over all stages,
  that use it as their own or as a previous one.
- `LinksStayIntact`: a picture's buffer has the picture's POC, and what a picture links to are
  the pictures just before it: no buffer is given away while a stage reads it.
- `FilterSeesAll`: a picture is filtered with every picture of the video that is in the range of
  the filter, before it and, where the filter looks ahead, after it.
- `FrontChecksHold`: `PreProcess` gives each picture its own GOP entry
  (`PreProcess.cpp:114`), and the filter finds the picture it is at
  (`MCTF.cpp:654`).

Neither of the first two is inductive alone, nor are both together: that a link still leads to the right
picture needs that its buffer is counted, and that counting is right when a picture goes on
needs that no later stage has it yet, and that its links are those with which it was counted.
`PipeInv` has what is missing. A stage has a picture once (`Once`), buffers in use have different POCs
(`PocsDiffer`), below that of the next input (`PocsPast`). A picture that its stage
has not passed on (`Unsent`: after `m_lastPoc` in PreProcess, from `m_filterPoc` on in MCTF, in
EncGOP what is not started or not written) is in no later stage and holds all links of
its buffer (`UnsentFit`); PreProcess, which sets the links, holds none itself (`NoneLinked`). A
last-picture flush lets an EncGOP release all it has when `m_numPicsCoded` reaches
`m_picCount`; that then nothing waits to be written is `Accounted`: what has come is coded, in
the output list or not yet started.

The counts are sums over all lists, which no fold helps to prove about. They are stated as the
size of a set of uses (`UsesOf`: stage, picture, link), named by the picture and not by its place, so
that inserting into a list moves none of them. `AddShares`, `DropShares` and
`RemoveShares` say what the set loses or gains when a stage takes a picture, a picture gives up its
links, and pictures leave; `ForwardIs` puts them together for the second half of
`runStage`'s loop, and each stage that passes pictures on shows that what it passes is
`Passable`. `UsersCounted` goes back to places.

For the filter the places matter too, and `FrontInv` has them for the first two stages. The next
POC of `PreProcess` is the one that comes next, or the one before while a picture waits to be
taken (`AppInv`, `PreInv`). The list of `PreProcess` ascends, so that its last picture is the one
that has come. That of MCTF ascends without a gap from the first picture the filter still needs
to the one before the next POC (`MctfInv`); a flushed picture in it means that the application has
passed on all. `FilterSeesAll` is then a question of how far the filter has gone (`Filtered`): it
moves on when as many pictures are after it as it looks ahead, by `m_lastPicIn`, or when a flush
lets it go on with all pictures there (`MctfReady`). That neither stage can skip a picture is also
why the two CHECKs hold.

### Ring buffer

For every number of threads, slots and bits of a word (`RingBufferProofs`).

- `SlotsHeldOnce`: a slot is free or with one thread, although words are read
  without protection and the cursor is stored late. `HoldInv` adds where a search is
  (`RoundInv`): what it compares for was free in the word it has read.
- `FailsOnlyUnderContention`: alloc returns nullptr only if others took or gave back
  at least half as many slots as were free when it was called. The argument charges
  each slot that a search has passed over to a change: a slot that was free at
  the start and is passed was taken by another thread (`PaidByOthers`) or was in a word
  whose compare failed because another bit changed (`PaidBySearch`), and one change pays
  for no more than these two. `SearchInv` keeps this account for what has been passed;
  when the search has been all round (`WholeRound`) that is every slot.
- `CountIsClose`: `getFreeCount` is off by no more than what changed meanwhile. At each
  word the sum and the free slots of the words already read differ by no more than the
  changes since the call (`CountInv`): a change to one of them is paid by itself, and the
  next word adds the same to both.
- `TypeCorrect`: the cursor and the words keep their types.

### TU scheduler

For every number of units and CTUs, every policy and every order of the calls
(`TUSchedulerProofs`).

- `CtusAfterNeighbours`: what is encoded of a frame is closed under the neighbours the
  code checks, also with trials in between (`FrameInv`).
- `StagesRunInOrder`: in a new pool each unit runs once and after the stages before it in its
  TU, under `TU_SEQUENTIAL` also after the TUs before. It is an action property, as the
  policy may change from call to call. The scan goes from unit to unit and executes what becomes ready, so that it is not plain
  what order comes out. It is that of the pool: what has run is a prefix of it, the
  next unit waits for nothing, and the ones after it still have the links they were
  built with (`RunsInOrder`).
- `CallsComplete`: a call on a new pool returns when all units have run. A scan passes
  the next unit only if the policy holds its TU back (`HeldBack`), and then it has
  executed something (`ScanInv`); so a round without progress has nothing left.

A pool is built with a fold over a sequence of sequences. Its length and order are
proved for any number of TUs by induction over a set of numbers (`Upwards`, from the least
number outside of the set), which needs no theorem with an operator for a parameter. The proof
showed that two arms of the CASE in an earlier form of `ActiveTu` overlapped.

### Only model-checked

- Liveness under fairness (`EveryPictureFinishes`, `EverythingEnds`, `EncodingEnds`,
  `WaitEnds`, `FrameFinishes`), which needs ENABLED.
- Of `StagePipeline` the types, references, outputs, the statistics of the first pass and
  the CHECKs outside of `PreProcess` and MCTF. Of an EncGOP the proofs say which pictures it has
  and not where in its list; these need the order of that list, how the delays of the stages add
  up, and what the GOP lists say.
- What `BinEncoder` and `ByteStream` compute with folds over sequences and powers of two
  would need induction over data.

## 5. Where code and documentation differ

With a run that shows it:

1. A flush before the first picture leaves `EncStage::m_flush` set; encoding is
   then accepted, as a comment in `vvencimpl.cpp:540` promises, but the final
   flush does not end (`pipeline_early_flush`).
2. With look-ahead and frame-parallel coding, the pre-analysis may pass on the first
   picture of a complete last GOP before the flush. It is then neither marked nor
   followed by a picture of a later POC, and the encoder waits for one of both
   (`pipeline_look_ahead`).
3. A picture left out of a first pass gives its encoder back without the mutex
   that tasks take for the same list (`gop_encoder_first_pass`).
4. With a rate cap, a picture that ends between `xUpdateRateCap` and the output of the
   same call is written and taken off the update list without having been
   evaluated. Its bits are lost, and after a scene cut the GOP is coded without the
   adjustment for which it waited (`gop_encoder_rate_cap`).
5. A call that returns `VVENC_NOT_ENOUGH_MEM` can be repeated, by `vvenc.h.in:113` and
   :313, but the access unit that did not fit is gone, and after the last one the
   repeated call is refused (`pipeline_small_payload`).
6. By `Scheduler.spec.md:708` and `TUScheduler.spec.md:646` all units of a stage come before
   the next stage under `STAGE_GLOBAL`. A scan executes a unit that the one before it has
   just made ready, so that every policy but `TU_SEQUENTIAL` does the same, and goes TU by TU
   (`scheduler_stage_global`).

Noted while modelling, without a run:

- `HWPreAnalysisStage` is never linked (section 1). If it were: its
  `processPictures` forwards all pictures it ever had on each call and frees none.
- The update list of inter-frame parallelism without rate control is filled in
  processing order and emptied in coding order, so it only grows.
- With a rate cap and inter-frame parallelism together, two GOPs that are
  initialised in one call are reordered in one call, so that the second begins
  before the first is finished, against `EncGOP.cpp:360`. `GopByGop` leaves out
  inter-frame parallelism, and no mode of the run has both.
- A picture of one column and several rows never finishes: the upper right neighbour
  of a CTU is then the CTU itself (`PictureDAG.cpp:190-200`).
- A trial while a frame is active replaces the pool of the frame
  (`TUScheduler.cpp:135-141`), though `Scheduler.spec.md` shows trials inside the
  execution of a CTU.
- `executeWorkUnits` and `submitModeTrial` return 0 also when a round made no progress.
  `ReturnsWhenDone` shows that it does not happen to new pools.
- By `SchedulerBench.spec.md:167` the iterations of `sched_bench` are alike. It builds the graph
  again in the same memory (`SchedulerBench.cpp:142-173`), and `m_depCount` is counted up from
  the -1 of what was executed: the first unit of a TU stays at -1, and the second iteration of
  one TU executes two of its five units, then prints "0 mismatches". `RebuildPool` is that loop; the properties
  of the scheduler speak of pools in new memory (`NewlyBuilt`).
- By `RingBuffer.spec.md:41` alloc returns nullptr when the pool is exhausted, by :9 it then
  blocks. It also returns nullptr under contention; how often is what
  `GivesUpUnderContention` says.
- `initPass` is accepted after FINALIZED; the scheduler, its trace and the analyser are globals that belong to
  the first instance.

## 6. What is not modelled

- Numerical code (prediction, transform, quantisation, filters, search, ML
  inference, the estimators of the rate control) has no behaviour over time beyond
  what a CTU task reads and writes. It is by far the largest part of the lines,
  after the vendored headers (JSON, SIMD emulation), which are no part of the encoder.
- Configuration is a single function over hundreds of parameters; file I/O, traces,
  SEI and parameter sets are formats.
- The syntax of the bitstream: which elements are written with which contexts. It
  has no state but the arithmetic coder's.
- In `StagePipeline`: parallel GOPs, inter-frame parallelism, IDR periods, scene cuts,
  a first pass whose statistics are in a file. No property says that the pre-analysis is ahead of the encoder
  when that starts a picture; the guard says so, and a run in which it could be
  wrong is larger than TLC manages. What it can do to termination is
  `pipeline_look_ahead`.
- The lifecycle of the library apart from encode, flush and the passes, and several
  instances in one process: the options that make the globals they would share are off
  in `CMakeLists.txt`.

`PROJECT.json` gives the reason for each component.

## 7. Plan

Done, in this order: `CtuWavefront` (what every picture depends on) and its proofs,
`TaskPool` and `ThreadPool` with the proofs of slots and counters, `GopStructure` and
`StagePipeline`, `PictureCoding` and `GopEncoder`, `RingBuffer` and its proofs,
`TUScheduler`, `BinEncoder` and `ByteStream`, the look-ahead stage, the rate cap, two passes,
the filters, samples and line counters of `CtuWavefront`, the refinement of `TaskPool`,
the proofs of `TUScheduler`, `GopEncoder` and its refinement of `PictureCoding`,
the proofs about the buffers of `StagePipeline`.

To do:

1. Proofs: `ReferencesKept` of `StagePipeline`, from the order of its lists.
2. Runs: two tiles by two with a delay of two, three pictures in a chain.
