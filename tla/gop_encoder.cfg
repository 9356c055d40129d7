\* Two GOPs of eight, in every mode of the encoder.
SPECIFICATION FairSpec
CONSTANTS
  GopOrder <- Order8
  GopRefs <- Refs8
  GopLayer <- Layer8
  Poc0Idr = TRUE
  LastPoc = 16
  Modes <- AllModes
INVARIANTS
  TypeOK
  WaitsForSomething
  RateControlDeterministic
  GopByGop
PROPERTIES
  KeepsPromise
