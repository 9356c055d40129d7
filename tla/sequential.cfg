\* The scheduler: four policies and pictures, calls of all kinds in every order.
\* The coder: bytes of two bits, up to six held back; slices of up to five bytes.
SPECIFICATION SequentialSpec
CONSTANTS
  Trials <- TrialsOfTwoTUs
  Pictures <- SmallPictures
  MaxCalls = 5
  ByteBits = 2
  WriteBelow = 3
  MaxBuffered = 6
  Bytes <- SomeBytes
  Headers <- SomeHeaders
  OtherRbsp <- SomeRbsp
  MaxBytes = 5
  MaxUnits = 2
CHECK_DEADLOCK FALSE
INVARIANTS
  ReturnsWhenDone
  NeighboursFirst
  EndsInInterval
  EntryPointsExact
  StreamComesApart
PROPERTIES
  UnitsInOrder
  FrameFinishes
  ValueKept
