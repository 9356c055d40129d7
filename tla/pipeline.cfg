\* Frame-parallel and serial coding, with a filter, look-ahead or two passes, GOPs of four.
SPECIFICATION FairSpec
CONSTANTS
  GopOrder <- Order4
  GopRefs <- Refs4
  GopLayer <- Layer4
  Configs <- AllModes
INVARIANTS
  TypeOK
  RefCountsExact
  LinksIntact
  ChecksHold
  ReferencesKept
  OutputComplete
  FirstPassComplete
PROPERTIES
  FilterSeesNeighbours
  EncodingEnds
