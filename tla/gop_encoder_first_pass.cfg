\* A GOP of eight in a first pass that leaves out pictures.
SPECIFICATION FairSpec
CONSTANTS
  GopOrder <- Order8
  GopRefs <- Refs8
  GopLayer <- Layer8
  Poc0Idr = TRUE
  LastPoc = 8
  Modes <- JustFirstPass
PROPERTIES
  WaitEnds
