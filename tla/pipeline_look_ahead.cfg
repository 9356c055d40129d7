\* Look-ahead without the temporal filter, and a last GOP that is complete.
SPECIFICATION FairSpec
CONSTANTS
  GopOrder <- Order2
  GopRefs <- Refs2
  GopLayer <- Layer2
  Configs <- JustFullLastGop
PROPERTY EncodingEnds
