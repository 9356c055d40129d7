\* Two workers, one client thread, and a queue of two slots.
SPECIFICATION FairSpec
CONSTANTS
  Workers = {w1, w2}
  ChunkSize = 2
  NoWorker = NoWorker
  NoTask = NoTask
  NoBarrier = "none"
  Clients = {"main"}
  Program <- Encode
  Tasks <- EncodeTasks
  Counter <- CounterOf
  Done <- DoneOf
  Barriers <- BarriersOf
  Stages <- StagesOf
  Needs <- NeedsOf
  HasCheck <- Checked
INVARIANTS
  TypeOK
  OneHolderPerSlot
  CountersAgree
  NothingUsedAfterWait
PROPERTIES
  KeepsPromise
  EverythingEnds
