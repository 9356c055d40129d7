\* A GOP of eight after a scene cut, with a rate cap.
SPECIFICATION Spec
CONSTANTS
  GopOrder <- Order8
  GopRefs <- Refs8
  GopLayer <- Layer8
  Poc0Idr = TRUE
  LastPoc = 8
  Modes <- JustRateCap
INVARIANTS
  AdjustedByCheck
