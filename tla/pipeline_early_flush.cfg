\* An application that flushes before its first picture, then encodes.
SPECIFICATION FairSpec
CONSTANTS
  GopOrder <- Order2
  GopRefs <- Refs2
  GopLayer <- Layer2
  Configs <- JustFlushFirst
PROPERTY EncodingEnds
