\* Access units that may be too small for what is to be fetched.
SPECIFICATION FairSpec
CONSTANTS
  GopOrder <- Order2
  GopRefs <- Refs2
  GopLayer <- Layer2
  Configs <- JustSmallPayload
INVARIANT OutputComplete
