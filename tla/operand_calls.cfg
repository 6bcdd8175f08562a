SPECIFICATION FullSpec
CONSTANTS
  Buffers <- CallBuffers
  Decoders <- AllModes
  Calls <- AllCalls
CHECK_DEADLOCK FALSE
INVARIANTS FullTypeOK AllOrNothing FourSlotsSuffice FailedCallBuildsNothing
PROPERTY FullReturns
