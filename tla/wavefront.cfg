\* 3x3 CTUs: one picture in every tile layout, two with inter-frame parallelism.
SPECIFICATION FairSpec
CONSTANTS
  Cols = 3
  Rows = 3
  NumThreads = 2
  Pics = {1, 2}
  Refs <- Chain
  Configs <- AllModes
INVARIANTS
  TypeOK
  PredictionSeesUnfiltered
  NoSampleConflict
  FiltersSeeFinishedInput
  DoneCountsAllLines
  ReferenceLinesFinal
PROPERTIES
  ReadyIsStable
  EveryPictureFinishes
CHECK_DEADLOCK FALSE
